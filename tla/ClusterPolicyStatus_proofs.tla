---------------------- MODULE ClusterPolicyStatus_proofs ----------------------
(***************************************************************************)
(* What the status of the main policy may be trusted for: machine-checked  *)
(* proofs of OutageReported and QuietReported of ClusterPolicyController.  *)
(*                                                                         *)
(* updateCRState drops its errors, so both need that its two requests go   *)
(* through (get, status); a pass that cannot even begin (get, list)        *)
(* reports nothing at all.  Creates, updates and deletes may fail.         *)
(***************************************************************************)
EXTENDS ClusterPolicyQuiet_proofs
-----------------------------------------------------------------------------
(* A changed state that nothing prevents from being reported is written.   *)
LEMMA ReportWrites ==
    ASSUME TypeOK, "get" \notin Faulty, "status" \notin Faulty, NEW n \in Names, NEW state,
           UpdateCRState(n, state), Len(cps[n]) = 1, StatusDiffers(n, state)
    PROVE  cps'[n] # cps[n]
<1> DEFINE v == [Cached(cps[n]) EXCEPT !.status = state]
<1>1. ~ReadFails("get") BY DEF ReadFails
<1>2. PICK o \in Outcomes("status", Len(cps[n]) = 1, cps[n], Append(cps[n], v)) :
         cps' = [cps EXCEPT ![n] = o.hist]
  BY <1>1 DEF UpdateCRState
<1> HIDE DEF v
<1>3. o.ok /\ o.hist = Append(cps[n], v) BY OutcomeOk
<1>4. cps'[n] = Append(cps[n], v) BY <1>2, <1>3 DEF TypeOK
<1>5. cps[n] \in Histories(Policies) /\ cps[n] \in Seq(Policies \cup {Absent})
  BY DEF TypeOK, Histories
<1>6. Append(cps[n], v) # cps[n]
  <2>1. ASSUME NEW s \in Seq(Policies \cup {Absent}), NEW x PROVE Append(s, x) # s
    OBVIOUS
  <2> QED BY <1>5, <2>1
<1> QED BY <1>4, <1>6

(* The overall result changes only between two states of the step loop.    *)
LEMMA OverallKept ==
    ASSUME TypeOK, Reconcile, pass.pc # "idle", pass'.pc # "idle", ~StepNext
    PROVE  pass'.overall = pass.overall
<1>1. pass \in Passes /\ InRange(pass) BY DEF TypeOK
<1>2. pass' # Idle BY DEF Idle
<1>3. CASE pass.pc \in {"daemonset", "ready"}
  <2>1. \/ \E r : pass' = AfterManifest(r) \/ pass' = [pass EXCEPT !.pc = "ready", !.result = r]
        \/ pass' = [pass EXCEPT !.pc = "ready"]
    BY <1>3, PassCases
    DEF DaemonSetDisabled, DaemonSetNoSpec, DaemonSetGetFails, DaemonSetCreate,
        DaemonSetUpdate, DaemonSetSkip, DaemonSetReadiness, AtRuntimeClass,
        RuntimeClassDisabled, RuntimeClassGetFails, RuntimeClassCreate, RuntimeClassUpdate,
        StepNext, FinishNotReady, FinishReady, FinishFailed
  <2>2. ASSUME NEW r PROVE AfterManifest(r).overall = pass.overall
    BY <1>1, <1>3, AfterManifestFields
  <2>3. ASSUME NEW r
        PROVE  /\ [pass EXCEPT !.pc = "ready", !.result = r].overall = pass.overall
               /\ [pass EXCEPT !.pc = "ready"].overall = pass.overall
    BY <1>1, Zenon DEF Passes
  <2> QED BY <2>1, <2>2, <2>3
<1>4. CASE ~(pass.pc \in {"daemonset", "ready"})
  <2>1. (\E r : pass' = AfterRuntimeClass(r)) \/ pass' = [pass EXCEPT !.pc = "failed"]
    BY <1>2, <1>4, PassCases
    DEF AtManifest, DaemonSetDisabled, DaemonSetNoSpec, DaemonSetGetFails, DaemonSetCreate,
        DaemonSetUpdate, DaemonSetSkip, DaemonSetReadiness, RuntimeClassDisabled,
        RuntimeClassGetFails, RuntimeClassCreate, RuntimeClassUpdate,
        FinishNotReady, FinishReady, FinishFailed
  <2>2. ASSUME NEW r PROVE AfterRuntimeClass(r).overall = pass.overall
    BY <1>1, AfterRuntimeClassFields
  <2>3. [pass EXCEPT !.pc = "failed"].overall = pass.overall BY <1>1, Zenon DEF Passes
  <2> QED BY <2>1, <2>2, <2>3
<1> QED BY <1>3, <1>4
-----------------------------------------------------------------------------
(* A policy that is called ready and that nobody notifies.                 *)

(* A pass for it that meets a failure takes the word back, so it meets     *)
(* none.                                                                   *)
LEMMA ReadyPass ==
    ASSUME TypeOK, TypeOK', PassServesMain, InstanceCurrent, Reconcile, pass.pc # "idle",
           "get" \notin Faulty, "status" \notin Faulty, ~Restart,
           ~Notified(Main)', Stored(cps[Main]).status = Ready, pass.overall = Ready
    PROVE  /\ ~FinishNotReady /\ ~FinishFailed
           /\ pass'.pc # "idle" => pass'.overall = Ready
<1>1. [Next]_vars BY DEF Next
<1>2. pass.req = Main /\ Main \in Names BY DEF PassServesMain, TypeOK, InRange
<1>3. cps'[Main] = cps[Main] /\ Len(cps[Main]) = 1 /\ ~Notified(Main)
  BY <1>1, <1>2, MainSteady
<1>4. MainExists /\ pass.instance = Stored(cps[Main]) BY <1>3, PassReadsMain
<1>5. cps[Main] \in Histories(Policies) /\ ~(Len(cps[Main]) > 1) BY <1>2, <1>3 DEF TypeOK
<1>6. Cached(cps[Main]) = Stored(cps[Main]) BY <1>5, OneVersion
<1>7. Ready # NotReady BY DEF Ready, NotReady
<1>8. StatusDiffers(Main, NotReady)
  BY <1>4, <1>6, <1>7 DEF StatusDiffers, MainExists, Exists
<1>9. ~UpdateCRState(Main, NotReady)
  <2>1. PICK n \in Names : n = Main BY <1>2
  <2> QED BY <1>3, <1>8, <2>1, ReportWrites
<1>10. ~FinishFailed BY <1>2, <1>9 DEF FinishFailed
<1>11. ReportNotReady => pass.step # NotReady
  BY <1>2, <1>4, <1>9 DEF ReportNotReady
<1>12. ~FinishNotReady BY <1>11 DEF FinishNotReady, Overall
<1>13. StepNext => pass'.overall = Ready
  BY <1>11, StepNextFields DEF TypeOK, StepNext, Overall
<1> QED BY <1>10, <1>12, <1>13, OverallKept

(* Every step keeps OutageInv.                                             *)
LEMMA OutageNext ==
    ASSUME Faulty \cap {"get", "list", "status"} = {},
           TypeOK, TypeOK', PassServesMain, InstanceCurrent, ReadinessMeant, OutageInv,
           [Next]_vars
    PROVE  OutageInv'
<1> SUFFICES ASSUME MainExists', ~Notified(Main)', Stored(cps[Main])'.status = Ready
             PROVE  Fulfilled' /\ (pass'.pc # "idle" => pass'.overall = Ready)
  BY DEF OutageInv
<1>1. Main' # Absent /\ Main' \in Names BY DEF MainExists, TypeOK, Controllers, Main
<1>2. ~Restart
  <2>1. Fresh.singleton = Absent BY DEF Fresh
  <2> QED BY <1>1, <2>1 DEF Restart, Main
<1>3. CASE Reconcile /\ pass.pc = "idle"
  <2>1. CASE ReconcileBegin(Main') BY <2>1, BeginPassesNothing, BeginFields DEF Fulfilled
  <2>2. ~ReconcileGetFails(Main') /\ ~ReconcileInitFails(Main')
    BY DEF ReconcileGetFails, ReconcileInitFails, ReadFails
  <2>3. CASE UNCHANGED <<cps, ds, rc, ctl, pass>> /\ Main \notin queue
    <3>1. /\ Main' = Main /\ (MainExists' <=> MainExists)
          /\ Stored(cps[Main])' = Stored(cps[Main])
      BY <2>3 DEF Main, MainExists
    <3>2. ~Notified(Main) BY <2>3, <3>1 DEF Notified
    <3>3. Fulfilled BY <3>1, <3>2 DEF OutageInv
    <3>4. Fulfilled'
      BY <2>3, <3>3
      DEF Fulfilled, Passed, Failed, MainWants, MainSpec, Good, Matches, MainOwner, Main
    <3> QED BY <1>3, <2>3, <3>4
  <2> QED BY <1>3, <2>1, <2>2, <2>3, IdleStep
<1>4. CASE ~(Reconcile /\ pass.pc = "idle")
  <2>1. Main \in Names
    <3>1. ctl' = ctl BY <1>2, <1>4, RequestKept, OthersStep DEF Next
    <3> QED BY <1>1, <3>1 DEF Main
  <2>2. MainExists /\ ~Notified(Main) /\ Main' = Main /\ cps'[Main] = cps[Main]
    BY <1>2, <1>4, <2>1, MainSteady
  <2>3. Stored(cps[Main]).status = Ready BY <2>2 DEF Stored
  <2>4. Fulfilled /\ (pass.pc # "idle" => pass.overall = Ready)
    BY <2>2, <2>3 DEF OutageInv
  <2>5. CASE Reconcile /\ pass.pc # "idle"
    <3>1. /\ ~FinishNotReady /\ ~FinishFailed
          /\ pass'.pc # "idle" => pass'.overall = Ready
      BY <1>2, <2>3, <2>4, <2>5, ReadyPass
    <3> QED BY <2>4, <2>5, <3>1, FulfilledPass
  <2>6. CASE ~Reconcile
    <3>1. pass' = pass BY <1>2, <2>6, OthersStep DEF Next
    <3> QED BY <1>2, <2>1, <2>4, <2>6, <3>1, FulfilledOthers
  <2> QED BY <1>4, <2>5, <2>6
<1> QED BY <1>3, <1>4

(* OutageInv says what it should when all events are handled.              *)
LEMMA OutageCalm == ASSUME TypeOK, OutageInv PROVE OutageReported
<1> SUFFICES ASSUME Calm, MainExists, Stored(cps[Main]).status = Ready,
                    NEW k \in 1..3, NEW d \in ManifestsOf(k), MainWants(k, d)
             PROVE  Exists(ds[d]) /\ ~Stored(ds[d]).unavailable
  BY DEF OutageReported
<1>1. Main \in Names BY DEF MainExists, TypeOK, Controllers, Main
<1>2. pass.pc = "idle" /\ ~Notified(Main) BY <1>1, CalmFacts
<1>3. PICK j \in 1..Len(Manifests(k)) : d = Manifests(k)[j] BY DEF ManifestsOf
<1>4. d \in DaemonSets BY <1>3, ManifestsType
<1>5. Good(d)
  <2>1. Fulfilled BY <1>2 DEF OutageInv
  <2>2. Passed(k, j) /\ ~Failed(k) BY <1>2 DEF Passed, Failed
  <2> QED BY <1>3, <2>1, <2>2 DEF Fulfilled
<1>6. ~EventDue(ds[d], Main) /\ Cached(ds[d]) = Stored(ds[d]) BY <1>1, <1>4, CalmFacts
<1> QED BY <1>5, <1>6 DEF Good, Matches, Exists

(* If reads and status updates go through, a policy that is reported as    *)
(* ready can be believed as soon as all events are handled, with a retry   *)
(* timer running or not: its DaemonSets exist and none of their pods is    *)
(* unavailable.  Creates, updates and deletes may fail and conflict.       *)
THEOREM ReadyMeansDeployed ==
    ASSUME Faulty \cap {"get", "list", "status"} = {}
    PROVE  Spec => []OutageReported
<1> DEFINE IInv == TypeOK /\ PassServesMain /\ InstanceCurrent /\ ReadinessMeant /\ OutageInv
<1>1. Init => IInv
  <2> SUFFICES ASSUME Init PROVE IInv OBVIOUS
  <2>1. TypeOK BY TypeInit
  <2>2. pass.pc = "idle" /\ ctl.singleton = Absent BY DEF Init, Idle, Fresh
  <2> QED BY <2>1, <2>2 DEF PassServesMain, InstanceCurrent, ReadinessMeant, OutageInv,
                            MainExists, Main
<1>2. IInv /\ [Next]_vars => IInv'
  BY TypeNext, ServesNext, InstanceCurrentNext, ReadinessMeantNext, OutageNext
<1>3. IInv => OutageReported BY OutageCalm
<1> QED BY <1>1, <1>2, <1>3, PTL DEF Spec
-----------------------------------------------------------------------------
(* No policy is overlooked.                                                *)

(* A pass ends at the end of the step loop or on an error.                 *)
LEMMA EndsReady ==
    ASSUME TypeOK, Reconcile, pass.pc # "idle", pass'.pc = "idle", ~FinishNotReady,
           ~FinishFailed
    PROVE  FinishReady
<1>1. pass \in Passes /\ InRange(pass) BY DEF TypeOK
<1>2. ASSUME NEW r, pass.pc \in {"daemonset", "ready"} PROVE pass' # AfterManifest(r)
  BY <1>1, <1>2, AfterManifestFields
<1>3. ASSUME NEW r PROVE pass' # AfterRuntimeClass(r) BY <1>1, AfterRuntimeClassFields
<1>4. ASSUME NEW pc, NEW r, pc # "idle"
      PROVE  pass' # [pass EXCEPT !.pc = pc] /\ pass' # [pass EXCEPT !.pc = pc, !.result = r]
  BY <1>1, <1>4, Zenon DEF Passes
<1>5. ~(DaemonSetDisabled \/ DaemonSetNoSpec \/ DaemonSetGetFails)
  <2>1. ASSUME DaemonSetDisabled \/ DaemonSetNoSpec \/ DaemonSetGetFails
        PROVE  pass.pc = "daemonset" /\ \E r : pass' = AfterManifest(r)
    BY <2>1 DEF DaemonSetDisabled, DaemonSetNoSpec, DaemonSetGetFails, AtManifest
  <2> QED BY <1>2, <2>1
<1>6. ~DaemonSetCreate
  <2>1. DaemonSetCreate => \E r : pass' = [pass EXCEPT !.pc = "ready", !.result = r]
    BY DEF DaemonSetCreate
  <2> QED BY <1>4, <2>1
<1>7. ~(DaemonSetUpdate \/ DaemonSetSkip)
  <2>1. ASSUME DaemonSetUpdate \/ DaemonSetSkip
        PROVE  /\ pass.pc = "daemonset"
               /\ pass' = [pass EXCEPT !.pc = "ready"] \/ pass' = AfterManifest(NotReady)
    BY <2>1 DEF DaemonSetUpdate, DaemonSetSkip, AtManifest
  <2>2. pass' # [pass EXCEPT !.pc = "ready"] BY <1>4
  <2> QED BY <1>2, <2>1, <2>2
<1>8. ~DaemonSetReadiness BY <1>2 DEF DaemonSetReadiness
<1>9. ~(RuntimeClassDisabled \/ RuntimeClassGetFails \/ RuntimeClassCreate \/ RuntimeClassUpdate)
  <2>1. ASSUME \/ RuntimeClassDisabled \/ RuntimeClassGetFails
               \/ RuntimeClassCreate \/ RuntimeClassUpdate
        PROVE  (\E r : pass' = AfterRuntimeClass(r)) \/ pass' = [pass EXCEPT !.pc = "failed"]
    BY <2>1 DEF RuntimeClassDisabled, RuntimeClassGetFails, RuntimeClassCreate,
                RuntimeClassUpdate
  <2> QED BY <1>3, <1>4, <2>1
<1>10. ~StepNext
  <2>1. \A k : FirstControl(k) # "idle" BY DEF FirstControl
  <2> QED BY <1>1, <2>1, StepNextFields
<1> QED BY <1>5, <1>6, <1>7, <1>8, <1>9, <1>10, PassCases

(* The main policy is called ready when the last pass has ended.           *)
LEMMA ReportedMain ==
    ASSUME "get" \notin Faulty, "status" \notin Faulty, TypeOK, TypeOK', PassServesMain,
           ReportedInv, [Next]_vars, MainExists', ~Due(Main)', pass'.pc = "idle"
    PROVE  Stored(cps[Main])'.status = Ready
<1>1. ~Notified(Main)' /\ Main' \notin delayed' BY DEF Due
<1>2. Main' # Absent /\ Main' \in Names BY DEF MainExists, TypeOK, Controllers, Main
<1>3. ~Restart
  <2>1. Fresh.singleton = Absent BY DEF Fresh
  <2> QED BY <1>2, <2>1 DEF Restart, Main
<1>4. CASE Reconcile /\ pass.pc = "idle"
  <2>1. ~ReconcileBegin(Main')
    <3>1. FirstControl(1) # "idle" BY DEF FirstControl
    <3> QED BY <3>1, BeginFields
  <2>2. UNCHANGED <<cps, ctl>> /\ Main \notin queue /\ delayed \subseteq delayed'
    BY <1>1, <1>4, <2>1, IdleStep
  <2>3. /\ Main' = Main /\ (MainExists' <=> MainExists)
        /\ Stored(cps[Main])' = Stored(cps[Main])
    BY <2>2 DEF Main, MainExists
  <2>4. ~Due(Main) BY <1>1, <2>2, <2>3 DEF Due, Notified
  <2> QED BY <1>4, <2>3, <2>4 DEF ReportedInv
<1>5. CASE ~(Reconcile /\ pass.pc = "idle")
  <2>1. Main \in Names
    <3>1. ctl' = ctl BY <1>3, <1>5, RequestKept, OthersStep DEF Next
    <3> QED BY <1>2, <3>1 DEF Main
  <2>2. /\ MainExists /\ ~Due(Main) /\ Main' = Main
        /\ cps'[Main] = cps[Main] /\ Len(cps[Main]) = 1
    BY <1>1, <1>3, <1>5, <2>1, MainSteady
  <2>3. Stored(cps[Main])' = Stored(cps[Main]) BY <2>2 DEF Stored
  <2>4. CASE pass.pc = "idle" BY <2>2, <2>3, <2>4 DEF ReportedInv
  <2>5. CASE Reconcile /\ pass.pc # "idle"
    <3>1. pass.req = Main BY <2>5 DEF PassServesMain
    <3>2. ~FinishNotReady /\ ~FinishFailed
      BY <1>1, <2>2, <3>1 DEF FinishNotReady, FinishFailed, Requeue
    <3>3. FinishReady BY <2>5, <3>2, EndsReady
    <3>4. UpdateCRState(Main, Ready) BY <3>1, <3>3 DEF FinishReady
    <3>5. ~StatusDiffers(Main, Ready)
      <4>1. PICK n \in Names : n = Main BY <2>1
      <4> QED BY <2>2, <3>4, <4>1, ReportWrites
    <3>6. cps[Main] \in Histories(Policies) /\ ~(Len(cps[Main]) > 1)
      BY <2>1, <2>2 DEF TypeOK
    <3>7. Cached(cps[Main]) = Stored(cps[Main]) BY <3>6, OneVersion
    <3> QED BY <2>2, <2>3, <3>5, <3>7 DEF StatusDiffers, MainExists, Exists
  <2>6. CASE ~Reconcile /\ pass.pc # "idle"
    BY <1>3, <2>6, OthersStep DEF Next
  <2> QED BY <1>5, <2>4, <2>5, <2>6
<1> QED BY <1>4, <1>5

(* While no policy is claimed, each one that exists is going to be visited.*)
LEMMA ReportedUnclaimed ==
    ASSUME TypeOK, TypeOK', PassServesMain, ReportedInv, [Next]_vars, Main' = Absent,
           NEW n \in Names, Exists(cps'[n])
    PROVE  Due(n)'
<1>1. CASE Restart
  <2>1. cps' = Latest(cps) /\ queue' = Listed(cps', ds') BY <1>1 DEF Restart
  <2>2. cps'[n] = <<Stored(cps[n])>> BY <2>1 DEF Latest, TypeOK
  <2>3. Cached(cps'[n]) # Absent BY <2>2 DEF Cached, Exists, Stored
  <2> QED BY <2>1, <2>3 DEF Listed, Due, Notified
<1>2. ASSUME ~Restart, ~Due(n)' PROVE FALSE
  <2>1. ~Notified(n)' /\ n \notin delayed' /\ n \notin queue' BY <1>2 DEF Due, Notified
  <2>2. cps'[n] = cps[n] /\ Len(cps[n]) = 1 BY <1>2, <2>1, NotNotified
  <2>3. ASSUME Main = Absent PROVE Due(n) BY <2>2, <2>3 DEF ReportedInv
  <2>4. ~(Len(cps[n]) > 1) BY <2>2
  <2>5. CASE Reconcile /\ pass.pc = "idle"
    <3>1. Main = Absent
      <4>1. Main # Absent => Main' = Main BY <2>5, ClaimStep
      <4> QED BY <4>1
    <3>2. n \in queue \/ n \in delayed BY <2>3, <2>4, <3>1 DEF Due, Notified
    <3>3. PICK m \in Names :
             \/ ReconcileGetFails(m) \/ ReconcileNotFound(m) \/ ReconcileIgnore(m)
             \/ ReconcileInitFails(m) \/ ReconcileBegin(m)
      BY <2>5, IdleCases
    <3>4. cps[m] \in Histories(Policies) BY DEF TypeOK
    <3>5. Cached(cps[m]) \in Policies \cup {Absent} BY <3>4, EndsType
    <3>6. CASE ReconcileInitFails(m) \/ ReconcileBegin(m)
      <4>1. Cached(cps[m]).spec \in Specs
        BY <3>5, <3>6 DEF ReconcileInitFails, ReconcileBegin, Policies
      <4>2. ctl'.singleton = m
        BY <3>6, <4>1, InitStagesType DEF TypeOK, ReconcileInitFails, ReconcileBegin
      <4> QED BY <4>2, ControllerAssumption DEF Main
    <3>7. ~ReconcileIgnore(m) BY <3>1 DEF ReconcileIgnore, IsDuplicate, Main
    <3>8. CASE ReconcileGetFails(m)
      BY <2>1, <3>2, <3>8 DEF ReconcileGetFails, Dequeue, Requeue
    <3>9. CASE ReconcileNotFound(m)
      <4>1. Cached(cps[n]) # Absent BY <2>2 DEF Cached, Exists, Stored
      <4> QED BY <2>1, <3>2, <3>9, <4>1 DEF ReconcileNotFound, Dequeue
    <3> QED BY <3>3, <3>6, <3>7, <3>8, <3>9
  <2>6. CASE ~(Reconcile /\ pass.pc = "idle")
    <3>1. ctl' = ctl BY <1>2, <2>6, RequestKept, OthersStep DEF Next
    <3>2. Due(n) BY <2>3, <3>1 DEF Main
    <3>3. queue \subseteq queue' /\ delayed \subseteq delayed' \cup queue'
      BY <1>2, <2>6, PassStep, OthersPolicyStep DEF Next
    <3> QED BY <2>1, <2>4, <3>2, <3>3 DEF Due, Notified
  <2> QED BY <2>5, <2>6
<1> QED BY <1>1, <1>2

(* ReportedInv says what it should when nothing is left to do.             *)
LEMMA ReportedQuiet == ASSUME TypeOK, ReportedInv PROVE QuietReported
<1>1. ASSUME Quiet, NEW n \in Names PROVE ~Due(n) /\ pass.pc = "idle"
  BY <1>1, CalmFacts DEF Quiet, Due
<1>2. ASSUME MainQuiet PROVE Stored(cps[Main]).status = Ready
  <2>1. Quiet /\ MainExists BY <1>2 DEF MainQuiet
  <2>2. Main \in Names BY <2>1 DEF MainExists, TypeOK, Controllers, Main
  <2> QED BY <1>1, <2>1, <2>2 DEF ReportedInv
<1> QED BY <1>1, <1>2 DEF QuietReported, ReportedInv

(* If the reads and the status updates go through, the operator does not   *)
(* sleep before the main policy is reported as ready, nor while there is   *)
(* a policy and none is claimed.                                           *)
THEOREM SleepsReported ==
    ASSUME "get" \notin Faulty, "status" \notin Faulty
    PROVE  Spec => []QuietReported
<1> DEFINE IInv == TypeOK /\ PassServesMain /\ ReportedInv
<1>1. Init => IInv
  <2> SUFFICES ASSUME Init PROVE IInv OBVIOUS
  <2>1. TypeOK BY TypeInit
  <2>2. pass.pc = "idle" /\ ctl.singleton = Absent BY DEF Init, Idle, Fresh
  <2>3. ASSUME NEW n \in Names PROVE ~Exists(cps[n]) BY DEF Init, Exists, Stored
  <2> QED BY <2>1, <2>2, <2>3 DEF PassServesMain, ReportedInv, MainExists, Main
<1>2. IInv /\ [Next]_vars => IInv'
  <2> SUFFICES ASSUME IInv, [Next]_vars PROVE IInv' OBVIOUS
  <2>1. TypeOK' /\ PassServesMain' BY TypeNext, ServesNext
  <2>2. MainExists' /\ ~Due(Main)' /\ pass'.pc = "idle" => Stored(cps[Main])'.status = Ready
    BY <2>1, ReportedMain
  <2>3. ASSUME Main' = Absent, NEW n \in Names, Exists(cps'[n]) PROVE Due(n)'
    BY <2>1, <2>3, ReportedUnclaimed
  <2> QED BY <2>1, <2>2, <2>3 DEF ReportedInv, Exists, Stored
<1>3. IInv => QuietReported BY ReportedQuiet
<1> QED BY <1>1, <1>2, <1>3, PTL DEF Spec
==============================================================================
