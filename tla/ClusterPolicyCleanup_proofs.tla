---------------------- MODULE ClusterPolicyCleanup_proofs ----------------------
(***************************************************************************)
(* What the operator leaves behind when it goes to sleep: machine-checked  *)
(* proofs of QuietCleanedUp and QuietRuntimeClass of                       *)
(* ClusterPolicyController.                                                *)
(*                                                                         *)
(* Both need that at most one state comes with a RuntimeClass, as in the   *)
(* manifests of the operator.  The first also needs that deletes go        *)
(* through: a failed delete makes a state notReady, but the disabled       *)
(* manifest after it makes it disabled again, and nothing retries.         *)
(***************************************************************************)
EXTENDS ClusterPolicyQuiet_proofs
-----------------------------------------------------------------------------
(* What a pass has dealt with.                                             *)

(* What a pass has passed after a step, it had passed before, or it was at *)
(* it.                                                                     *)
LEMMA PassesOne ==
    ASSUME TypeOK, Reconcile, pass.pc # "idle", ~FinishFailed, NEW k \in 1..3
    PROVE  /\ \A j \in 1..Len(Manifests(k)) :
                 Passed(k, j)' => \/ Passed(k, j)
                                  \/ /\ pass.pc \in {"daemonset", "ready"}
                                     /\ k = pass.idx /\ j = pass.ds
           /\ HasRuntimeClass(k) /\ PassedClass(k)' =>
                 \/ PassedClass(k)
                 \/ pass.pc = "runtimeclass" /\ k = pass.idx /\ pass'.pc = "stepped"
<1>1. pass \in Passes /\ InRange(pass) BY DEF TypeOK
<1>2. pass.idx \in 1..3 /\ pass.ds \in Nat BY <1>1 DEF Passes
<1>3. Len(Manifests(k)) \in Nat BY ManifestsType
<1>4. ASSUME pass.pc \in {"daemonset", "ready"}
      PROVE  /\ \A j \in 1..Len(Manifests(k)) :
                   Passed(k, j)' => Passed(k, j) \/ (k = pass.idx /\ j = pass.ds)
             /\ HasRuntimeClass(k) /\ PassedClass(k)' => PassedClass(k)
  <2>1. CASE \E r : pass' = AfterManifest(r)
    <3>1. /\ pass'.idx = pass.idx
          /\ \/ pass'.pc = "daemonset" /\ pass'.ds = pass.ds + 1
             \/ /\ pass'.pc = IF HasRuntimeClass(pass.idx) THEN "runtimeclass" ELSE "stepped"
                /\ Len(Manifests(pass.idx)) = pass.ds
      BY <1>1, <1>4, <2>1, AfterManifestFields
    <3> QED BY <1>2, <1>3, <1>4, <3>1 DEF Passed, PassedClass
  <2>2. CASE \/ pass' = [pass EXCEPT !.pc = "ready"]
             \/ \E r : pass' = [pass EXCEPT !.pc = "ready", !.result = r]
    <3>1. pass'.pc = "ready" /\ pass'.idx = pass.idx /\ pass'.ds = pass.ds
      BY <1>1, <2>2, Zenon DEF Passes
    <3> QED BY <1>2, <1>4, <3>1 DEF Passed, PassedClass
  <2> QED
    BY <1>4, <2>1, <2>2, PassCases
    DEF DaemonSetDisabled, DaemonSetNoSpec, DaemonSetGetFails, DaemonSetCreate,
        DaemonSetUpdate, DaemonSetSkip, DaemonSetReadiness, AtRuntimeClass,
        RuntimeClassDisabled, RuntimeClassGetFails, RuntimeClassCreate, RuntimeClassUpdate,
        StepNext, FinishNotReady, FinishReady, FinishFailed
<1>5. CASE RuntimeClassDisabled \/ RuntimeClassGetFails \/ RuntimeClassCreate \/ RuntimeClassUpdate
  <2>1. pass.pc = "runtimeclass"
    BY <1>5 DEF AtRuntimeClass, RuntimeClassDisabled, RuntimeClassGetFails,
                RuntimeClassCreate, RuntimeClassUpdate
  <2>2. (\E r : pass' = AfterRuntimeClass(r)) \/ pass' = [pass EXCEPT !.pc = "failed"]
    BY <1>5 DEF RuntimeClassDisabled, RuntimeClassGetFails, RuntimeClassCreate,
                RuntimeClassUpdate
  <2>3. [pass EXCEPT !.pc = "failed"].pc = "failed" /\ [pass EXCEPT !.pc = "failed"].idx = pass.idx
    BY <1>1, Zenon DEF Passes
  <2>4. pass'.pc \in {"stepped", "failed"} /\ pass'.idx = pass.idx
    BY <1>1, <2>2, <2>3, AfterRuntimeClassFields
  <2> QED BY <1>2, <2>1, <2>4 DEF Passed, PassedClass
<1>6. CASE StepNext
  <2>1. pass'.pc = FirstControl(pass.idx + 1) /\ pass'.idx = pass.idx + 1 /\ pass'.ds = 1
    BY <1>1, <1>6, StepNextFields
  <2>2. pass.pc = "stepped" BY <1>6 DEF StepNext
  <2>3. pass'.pc # "idle" BY <2>1, FirstControlMeant
  <2>4. ASSUME k = pass.idx + 1
        PROVE  /\ \A j \in 1..Len(Manifests(k)) : ~Passed(k, j)'
               /\ HasRuntimeClass(k) => ~PassedClass(k)'
    <3>1. CASE pass'.pc = "daemonset"
      BY <1>2, <1>3, <2>1, <2>4, <3>1 DEF Passed, PassedClass
    <3>2. CASE pass'.pc # "daemonset"
      <4>1. Manifests(k) = <<>> BY <2>1, <2>4, <3>2, FirstControlMeant
      <4>2. 1..Len(Manifests(k)) = {} BY <4>1
      <4>3. HasRuntimeClass(k) => pass'.pc = "runtimeclass"
        BY <2>1, <2>4, <3>2, FirstControlMeant
      <4> QED BY <1>2, <2>1, <2>4, <4>2, <4>3 DEF PassedClass
    <3> QED BY <3>1, <3>2
  <2>5. CASE k # pass.idx + 1
    <3>1. ASSUME k < pass.idx + 1
          PROVE  (\A j \in 1..Len(Manifests(k)) : Passed(k, j)) /\ PassedClass(k)
      BY <1>2, <2>2, <3>1 DEF Passed, PassedClass
    <3>2. ASSUME k > pass.idx + 1
          PROVE  (\A j \in 1..Len(Manifests(k)) : ~Passed(k, j)') /\ ~PassedClass(k)'
      BY <1>2, <2>1, <2>3, <3>2 DEF Passed, PassedClass
    <3> QED BY <1>2, <2>5, <3>1, <3>2
  <2> QED BY <2>4, <2>5
<1>7. CASE FinishNotReady \/ FinishReady
  <2>1. pass.pc = "stepped" /\ pass.idx = 3
    BY <1>7 DEF FinishNotReady, FinishReady, Last, StateNames
  <2> QED BY <2>1 DEF Passed, PassedClass
<1>8. CASE \/ DaemonSetDisabled \/ DaemonSetNoSpec \/ DaemonSetGetFails
           \/ DaemonSetCreate   \/ DaemonSetUpdate \/ DaemonSetSkip \/ DaemonSetReadiness
  <2>1. pass.pc \in {"daemonset", "ready"}
    BY <1>8 DEF AtManifest, DaemonSetDisabled, DaemonSetNoSpec, DaemonSetGetFails,
        DaemonSetCreate, DaemonSetUpdate, DaemonSetSkip, DaemonSetReadiness
  <2> QED BY <1>4, <2>1
<1> QED BY <1>5, <1>6, <1>7, <1>8, PassCases
-----------------------------------------------------------------------------
(* What is gone stays gone, or the main policy will hear of it.            *)

(* Nobody but the operator brings an object into being.                    *)
LEMMA OthersCreateNothing ==
    ASSUME TypeOK, Cluster \/ Environment \/ UNCHANGED vars, ~Restart
    PROVE  /\ \A d \in DaemonSets : ~Exists(ds[d]) => ~Exists(ds'[d])
           /\ \A r \in RuntimeClasses : ~Exists(rc[r]) => ~Exists(rc'[r])
<1>1. ASSUME NEW e \in DaemonSets, DeliverDaemonSet(e), NEW d \in DaemonSets
      PROVE  Stored(ds'[d]) = Stored(ds[d])
  <2>1. ds[e] \in Histories(Deployed) /\ Len(ds[e]) > 1 /\ ds' = [ds EXCEPT ![e] = Tail(ds[e])]
    BY <1>1 DEF TypeOK, DeliverDaemonSet
  <2>2. Stored(Tail(ds[e])) = Stored(ds[e]) BY <2>1, TailType
  <2> QED BY <2>1, <2>2 DEF TypeOK
<1>2. ASSUME NEW e \in DaemonSets, NEW d \in DaemonSets, ~Exists(ds[d]),
             \/ CollectDaemonSet(e) \/ UserDeletesDaemonSet(e)
             \/ DaemonSetObserved(e) \/ PodsUp(e) \/ PodsDown(e)
      PROVE  ds'[d] = ds[d]
  <2>1. d # e /\ \E g : ds' = [ds EXCEPT ![e] = g]
    BY <1>2 DEF CollectDaemonSet, UserDeletesDaemonSet, DaemonSetObserved, PodsUp, PodsDown,
                SetStatus
  <2> QED BY <2>1 DEF TypeOK
<1>3. ASSUME NEW e \in RuntimeClasses, DeliverRuntimeClass(e), NEW r \in RuntimeClasses
      PROVE  Stored(rc'[r]) = Stored(rc[r])
  <2>1. rc[e] \in Histories(Owners) /\ Len(rc[e]) > 1 /\ rc' = [rc EXCEPT ![e] = Tail(rc[e])]
    BY <1>3 DEF TypeOK, DeliverRuntimeClass
  <2>2. Stored(Tail(rc[e])) = Stored(rc[e]) BY <2>1, TailType
  <2> QED BY <2>1, <2>2 DEF TypeOK
<1>4. ASSUME NEW e \in RuntimeClasses, NEW r \in RuntimeClasses, ~Exists(rc[r]),
             CollectRuntimeClass(e) \/ UserDeletesRuntimeClass(e)
      PROVE  rc'[r] = rc[r]
  <2>1. r # e /\ \E g : rc' = [rc EXCEPT ![e] = g]
    BY <1>4 DEF CollectRuntimeClass, UserDeletesRuntimeClass
  <2> QED BY <2>1 DEF TypeOK
<1>5. \A d \in DaemonSets : ~Exists(ds[d]) => ~Exists(ds'[d])
  <2> SUFFICES ASSUME NEW d \in DaemonSets, ~Exists(ds[d]) PROVE ~Exists(ds'[d]) OBVIOUS
  <2>1. ds' = ds \/ \E e \in DaemonSets :
           \/ DeliverDaemonSet(e) \/ CollectDaemonSet(e) \/ UserDeletesDaemonSet(e)
           \/ DaemonSetObserved(e) \/ PodsUp(e) \/ PodsDown(e)
    BY DEF Cluster, Environment, vars, DeliverClusterPolicy, TimerFires, DeliverRuntimeClass,
           CollectRuntimeClass, UserCreates, UserEdits, UserDeletes, UserDeletesRuntimeClass,
           NodesChange, Resync
  <2> QED BY <1>1, <1>2, <2>1 DEF Exists
<1>6. \A r \in RuntimeClasses : ~Exists(rc[r]) => ~Exists(rc'[r])
  <2> SUFFICES ASSUME NEW r \in RuntimeClasses, ~Exists(rc[r]) PROVE ~Exists(rc'[r]) OBVIOUS
  <2>1. rc' = rc \/ \E e \in RuntimeClasses :
           DeliverRuntimeClass(e) \/ CollectRuntimeClass(e) \/ UserDeletesRuntimeClass(e)
    BY DEF Cluster, Environment, vars, DeliverClusterPolicy, TimerFires, DeliverDaemonSet,
           CollectDaemonSet, UserDeletesDaemonSet, DaemonSetObserved, PodsUp, PodsDown,
           SetStatus, UserCreates, UserEdits, UserDeletes, NodesChange, Resync
  <2> QED BY <1>3, <1>4, <2>1 DEF Exists
<1> QED BY <1>5, <1>6

(* A DaemonSet that is gone comes back only with an event for its owner.   *)
LEMMA GoneKept ==
    ASSUME TypeOK, TypeOK', PassServesMain, [Next]_vars, ~Restart,
           ctl' = ctl, Main \notin queue', NEW d \in DaemonSets, Gone(d)
    PROVE  Gone(d)'
<1>1. Main' = Main BY DEF Main
<1>2. ds[d] \in Histories(Deployed) /\ ds'[d] \in Histories(Deployed) BY DEF TypeOK
<1>3. CASE EventDue(ds[d], Main)
  <2>1. EventDue(ds'[d], Main) BY <1>3, EventKept
  <2> QED BY <1>1, <2>1 DEF Gone, EventDue
<1>4. CASE ~Exists(ds[d])
  <2>1. CASE Reconcile /\ pass.pc = "idle"
    <3>1. ds' = ds BY <2>1, ClaimStep
    <3> QED BY <1>4, <3>1 DEF Gone, Exists, Stored
  <2>2. CASE Reconcile /\ pass.pc # "idle"
    <3>1. pass.req = Main BY <2>2 DEF PassServesMain
    <3>2. \/ Stored(ds'[d]) = Stored(ds[d]) \/ Stored(ds'[d]) = Absent
          \/ Stored(ds'[d]).owner.name = Main
      BY <2>2, <3>1, PassWritesOwn DEF StaysWith, Stored
    <3>3. ASSUME Exists(ds'[d]) PROVE EventDue(ds'[d], Main)
      <4>1. OwnedBy(Stored(ds'[d]), Main) BY <1>4, <3>2, <3>3 DEF OwnedBy, Exists
      <4>2. ds'[d] # ds[d] BY <1>4, <3>3 DEF Exists
      <4>3. Len(ds'[d]) = Len(ds[d]) + 1 BY <1>2, <2>2, <4>2, PassDaemonSetStep, GrowsCached
      <4>4. Len(ds[d]) \in Nat \ {0} BY <1>2, EndsType
      <4>5. Len(ds'[d]) > 1 /\ Len(ds'[d]) \in 1..Len(ds'[d]) BY <4>3, <4>4
      <4> QED BY <4>1, <4>5 DEF EventDue, Stored
    <3> QED BY <1>1, <3>3 DEF Gone, Exists, EventDue, Stored
  <2>3. CASE ~Reconcile
    <3>1. ~Exists(ds'[d]) BY <1>4, <2>3, OthersCreateNothing DEF Next
    <3> QED BY <3>1 DEF Gone, Exists, Stored
  <2> QED BY <2>1, <2>2, <2>3
<1> QED BY <1>3, <1>4 DEF Gone

(* A delete that goes through leaves nothing.                              *)
LEMMA DeleteDeletes ==
    ASSUME "delete" \notin Faulty, NEW V, NEW h \in Histories(V),
           NEW o \in Outcomes("delete", TRUE, h, Store(h, Absent))
    PROVE  ~Exists(o.hist)
<1>1. Stored(Store(h, Absent)) = Absent BY AppendType
<1>2. o.hist = Store(h, Absent) BY OutcomeOk
<1> QED BY <1>1, <1>2 DEF Exists

(* A DaemonSet that the policy does not want is deleted when the pass      *)
(* comes to it.                                                            *)
LEMMA UnwantedDeleted ==
    ASSUME "delete" \notin Faulty, TypeOK, Reconcile, pass.pc = "daemonset", ~Wanted
    PROVE  ~Exists(ds'[Manifest])
<1>1. DaemonSetDisabled \/ DaemonSetNoSpec
  BY PassCases DEF DaemonSetGetFails, DaemonSetCreate, DaemonSetUpdate, DaemonSetSkip,
        DaemonSetReadiness, AtRuntimeClass,
        RuntimeClassDisabled, RuntimeClassGetFails, RuntimeClassCreate, RuntimeClassUpdate,
        StepNext, FinishNotReady, FinishReady, FinishFailed
<1>2. Manifest \in DaemonSets BY ManifestType DEF TypeOK
<1> DEFINE h == ds[Manifest]
<1>3. h \in Histories(Deployed) BY <1>2 DEF TypeOK
<1>4. PICK o \in Outcomes("delete", TRUE, h, Store(h, Absent)) :
         ds' = [ds EXCEPT ![Manifest] = o.hist]
  BY <1>1 DEF DaemonSetDisabled, DaemonSetNoSpec
<1>5. ds'[Manifest] = o.hist BY <1>2, <1>4 DEF TypeOK
<1> HIDE DEF h
<1> QED BY <1>3, <1>5, DeleteDeletes
-----------------------------------------------------------------------------
(* The runtime class of the one state that comes with one.                 *)

(* A policy that exists names a runtime class.                             *)
LEMMA MainClassType ==
    ASSUME TypeOK, Main \in Names, MainExists
    PROVE  MainSpec \in Specs /\ GetRuntimeClass(MainSpec) \in RuntimeClasses
<1>1. cps[Main] \in Histories(Policies) BY DEF TypeOK
<1>2. Stored(cps[Main]) \in Policies BY <1>1, EndsType DEF MainExists, Exists
<1> QED BY <1>2 DEF MainSpec, RuntimeClasses, Policies

(* Only the RuntimeClass control function writes a runtime class.          *)
LEMMA ClassCases ==
    ASSUME Reconcile
    PROVE  \/ rc' = rc /\ pass.pc # "runtimeclass"
           \/ RuntimeClassDisabled \/ RuntimeClassGetFails
           \/ RuntimeClassCreate \/ RuntimeClassUpdate
BY DEF Reconcile, Dequeue, AtManifest, ReconcileGetFails, ReconcileNotFound, ReconcileIgnore,
       ReconcileInitFails, ReconcileBegin, DaemonSetDisabled, DaemonSetNoSpec,
       DaemonSetGetFails, DaemonSetCreate, DaemonSetUpdate, DaemonSetSkip, DaemonSetReadiness,
       StepNext, FinishNotReady, FinishReady, FinishFailed

(* With one such state, a disabled one is never recreated.                 *)
LEMMA ClassGone ==
    ASSUME "delete" \notin Faulty, OneRuntimeClass, TypeOK, PassServesMain, InstanceCurrent,
           PlaceMeant, Reconcile, pass.pc # "idle", ~FinishFailed, ~Notified(Main),
           NEW k \in 1..3, HasRuntimeClass(k), ~IsStateEnabled(StateNames[k], MainSpec),
           PassedClass(k)', PassedClass(k) => ~Exists(rc[GetRuntimeClass(MainSpec)])
    PROVE  ~Exists(rc'[GetRuntimeClass(MainSpec)])
<1>1. pass.idx \in 1..3 BY DEF TypeOK, Passes
<1>2. /\ Enabled <=> IsStateEnabled(StateNames[pass.idx], MainSpec)
      /\ Class = GetRuntimeClass(MainSpec)
  BY PassReadsMain DEF Class
<1>3. pass.pc = "runtimeclass" => pass.idx = k
  BY <1>1 DEF PlaceMeant, OneRuntimeClass
<1>4. CASE rc' = rc /\ pass.pc # "runtimeclass"
  <2>1. PassedClass(k) BY <1>4, PassesOne
  <2> QED BY <1>4, <2>1
<1>5. CASE RuntimeClassDisabled
  <2>1. Class \in RuntimeClasses BY ClassType DEF TypeOK
  <2> DEFINE h == rc[Class]
  <2>2. h \in Histories(Owners) BY <2>1 DEF TypeOK
  <2>3. PICK o \in Outcomes("delete", TRUE, h, Store(h, Absent)) :
           rc' = [rc EXCEPT ![Class] = o.hist]
    BY <1>5 DEF RuntimeClassDisabled
  <2>4. rc'[Class] = o.hist BY <2>1, <2>3 DEF TypeOK
  <2> HIDE DEF h
  <2>5. ~Exists(o.hist) BY <2>2, DeleteDeletes
  <2> QED BY <1>2, <2>4, <2>5
<1>6. ~(RuntimeClassGetFails \/ RuntimeClassCreate \/ RuntimeClassUpdate)
  BY <1>2, <1>3 DEF AtRuntimeClass, RuntimeClassGetFails, RuntimeClassCreate,
                    RuntimeClassUpdate
<1> QED BY <1>4, <1>5, <1>6, ClassCases

(* With one such state, an enabled one is the main policy's own when the   *)
(* pass has passed it.                                                     *)
LEMMA ClassOwned ==
    ASSUME OneRuntimeClass, TypeOK, PassServesMain, InstanceCurrent, PlaceMeant,
           Reconcile, pass.pc # "idle", ~FinishFailed, ~Notified(Main),
           NEW k \in 1..3, HasRuntimeClass(k), IsStateEnabled(StateNames[k], MainSpec),
           PassedClass(k)', PassedClass(k) => Stored(rc[GetRuntimeClass(MainSpec)]) = MainOwner
    PROVE  Stored(rc'[GetRuntimeClass(MainSpec)]) = MainOwner
<1>1. pass \in Passes /\ InRange(pass) /\ pass.idx \in 1..3 BY DEF TypeOK, Passes
<1>2. /\ Enabled <=> IsStateEnabled(StateNames[pass.idx], MainSpec)
      /\ Class = GetRuntimeClass(MainSpec) /\ Owner = MainOwner
  BY PassReadsMain DEF Class
<1>3. pass.pc = "runtimeclass" => pass.idx = k
  BY <1>1 DEF PlaceMeant, OneRuntimeClass
<1>4. CASE rc' = rc /\ pass.pc # "runtimeclass"
  <2>1. PassedClass(k) BY <1>4, PassesOne
  <2> QED BY <1>4, <2>1
<1>5. ~RuntimeClassDisabled BY <1>2, <1>3 DEF AtRuntimeClass, RuntimeClassDisabled
<1>6. ASSUME pass.pc = "runtimeclass" PROVE pass' # [pass EXCEPT !.pc = "failed"]
  <2>1. ~PassedClass(k) BY <1>1, <1>3, <1>6 DEF PassedClass
  <2>2. pass'.pc = "stepped" BY <2>1, PassesOne
  <2>3. [pass EXCEPT !.pc = "failed"].pc = "failed" BY <1>1, Zenon DEF Passes
  <2> QED BY <2>2, <2>3
<1>7. ~RuntimeClassGetFails BY <1>6 DEF AtRuntimeClass, RuntimeClassGetFails
<1>8. CASE RuntimeClassCreate \/ RuntimeClassUpdate
  <2>1. pass.pc = "runtimeclass"
    BY <1>8 DEF AtRuntimeClass, RuntimeClassCreate, RuntimeClassUpdate
  <2>2. Class \in RuntimeClasses /\ Owner \in Owners BY <1>1, <2>1, ClassType, OwnerType
  <2> DEFINE h == rc[Class]
  <2>3. h \in Histories(Owners) BY <2>2 DEF TypeOK
  <2>4. Stored(Append(h, Owner)) = Owner /\ Stored(Store(h, Owner)) = Owner
    BY <2>2, <2>3, AppendType
  <2>5. CASE RuntimeClassCreate
    <3>1. PICK o \in Outcomes("create", ~Exists(h), h, Append(h, Owner)) :
             /\ rc' = [rc EXCEPT ![Class] = o.hist]
             /\ pass' = IF o.ok THEN AfterRuntimeClass(Ready) ELSE [pass EXCEPT !.pc = "failed"]
      BY <2>5 DEF RuntimeClassCreate
    <3> HIDE DEF h
    <3>2. o.ok BY <1>6, <2>1, <3>1
    <3>3. o.hist = Append(h, Owner) BY <3>2, OutcomeOk DEF Exists
    <3>4. rc'[Class] = o.hist BY <2>2, <3>1 DEF TypeOK
    <3> QED BY <1>2, <2>4, <3>3, <3>4
  <2>6. CASE RuntimeClassUpdate
    <3>1. PICK o \in Outcomes("update", Len(h) = 1, h, Store(h, Owner)) :
             /\ rc' = [rc EXCEPT ![Class] = o.hist]
             /\ pass' = IF o.ok THEN AfterRuntimeClass(Ready) ELSE [pass EXCEPT !.pc = "failed"]
      BY <2>6 DEF RuntimeClassUpdate
    <3> HIDE DEF h
    <3>2. o.ok BY <1>6, <2>1, <3>1
    <3>3. o.hist = Store(h, Owner)
      <4>1. PICK b \in BOOLEAN : b = (Len(h) = 1) OBVIOUS
      <4>2. o \in Outcomes("update", b, h, Store(h, Owner)) BY <4>1
      <4> QED BY <3>2, <4>2, OutcomeOk
    <3>4. rc'[Class] = o.hist BY <2>2, <3>1 DEF TypeOK
    <3> QED BY <1>2, <2>4, <3>3, <3>4
  <2> QED BY <1>8, <2>5, <2>6
<1> QED BY <1>4, <1>5, <1>7, <1>8, ClassCases
-----------------------------------------------------------------------------
(* Every step keeps CleanedInv.                                            *)

(* What the policy does not want: the DaemonSets.                          *)
LEMMA CleanedDaemonSets ==
    ASSUME "delete" \notin Faulty, TypeOK, TypeOK', PassServesMain, InstanceCurrent,
           PlaceMeant, CleanedInv, [Next]_vars, MainExists', ~Due(Main)',
           NEW k \in 1..3, NEW j \in 1..Len(Manifests(k)),
           Passed(k, j)', ~MainWants(k, Manifests(k)[j])'
    PROVE  Gone(Manifests(k)[j])'
<1> DEFINE d == Manifests(k)[j]
<1>1. ~Notified(Main)' /\ Main' \notin delayed' BY DEF Due
<1>2. Main' # Absent /\ Main' \in Names BY DEF MainExists, TypeOK, Controllers, Main
<1>3. ~Restart
  <2>1. Fresh.singleton = Absent BY DEF Fresh
  <2> QED BY <1>2, <2>1 DEF Restart, Main
<1>4. d \in DaemonSets BY ManifestsType
<1>5. CASE Reconcile /\ pass.pc = "idle"
  <2>1. ~ReconcileBegin(Main') BY BeginPassesNothing
  <2>2. UNCHANGED <<cps, ds, rc, ctl, pass>> /\ Main \notin queue /\ delayed \subseteq delayed'
    BY <1>1, <1>5, <2>1, IdleStep
  <2>3. Main' = Main /\ (MainExists' <=> MainExists) /\ MainSpec' = MainSpec
    BY <2>2 DEF Main, MainExists, MainSpec
  <2>4. ~Due(Main) BY <1>1, <2>2, <2>3 DEF Due, Notified
  <2>5. Passed(k, j) /\ ~MainWants(k, d) BY <2>2, <2>3 DEF Passed, MainWants
  <2>6. Gone(d) BY <2>3, <2>4, <2>5 DEF CleanedInv
  <2> QED BY <2>2, <2>3, <2>6 DEF Gone
<1>6. CASE ~(Reconcile /\ pass.pc = "idle")
  <2>1. Main \in Names
    <3>1. ctl' = ctl BY <1>3, <1>6, RequestKept, OthersStep DEF Next
    <3> QED BY <1>2, <3>1 DEF Main
  <2>2. /\ ctl' = ctl /\ Main' = Main /\ Main \notin queue' /\ MainExists /\ ~Due(Main)
        /\ MainSpec' = MainSpec /\ ~Notified(Main)
    BY <1>1, <1>3, <1>6, <2>1, MainSteady
  <2>3. ~MainWants(k, d) BY <2>2 DEF MainWants
  <2>4. CASE Passed(k, j)
    <3>1. Gone(d) BY <2>2, <2>3, <2>4 DEF CleanedInv
    <3> QED BY <1>3, <1>4, <2>2, <3>1, GoneKept
  <2>5. CASE Reconcile /\ pass.pc # "idle" /\ ~Passed(k, j)
    <3>1. ~FinishFailed BY <1>1, <2>2, <2>5 DEF FinishFailed, Requeue, PassServesMain
    <3>2. pass.pc \in {"daemonset", "ready"} /\ k = pass.idx /\ j = pass.ds
      BY <2>5, <3>1, PassesOne
    <3>3. d = Manifest BY <3>2 DEF Manifest
    <3>4. ~Wanted
      <4>1. /\ Enabled <=> IsStateEnabled(StateNames[pass.idx], MainSpec)
            /\ pass.instance.spec = MainSpec
        BY <2>2, <2>5, PassReadsMain
      <4> QED BY <2>3, <3>2, <3>3, <4>1 DEF Wanted, MainWants
    <3>5. ~Exists(ds'[d]) BY <2>5, <3>2, <3>3, <3>4, UnwantedDeleted DEF PlaceMeant
    <3> QED BY <3>5 DEF Gone, Exists, Stored
  <2>6. CASE ~Reconcile /\ ~Passed(k, j)
    <3>1. pass' = pass BY <1>3, <2>6, OthersStep DEF Next
    <3> QED BY <2>6, <3>1 DEF Passed
  <2> QED BY <1>6, <2>4, <2>5, <2>6
<1> QED BY <1>5, <1>6

(* What the policy does not want: the runtime class.                       *)
LEMMA CleanedClass ==
    ASSUME "delete" \notin Faulty, OneRuntimeClass, TypeOK, TypeOK', PassServesMain,
           InstanceCurrent, PlaceMeant, CleanedInv, [Next]_vars, MainExists', ~Due(Main)',
           NEW k \in 1..3, PassedClass(k)', HasRuntimeClass(k),
           ~IsStateEnabled(StateNames[k], MainSpec')
    PROVE  ~Exists(rc'[GetRuntimeClass(MainSpec')])
<1>1. ~Notified(Main)' /\ Main' \notin delayed' BY DEF Due
<1>2. Main' # Absent /\ Main' \in Names BY DEF MainExists, TypeOK, Controllers, Main
<1>3. ~Restart
  <2>1. Fresh.singleton = Absent BY DEF Fresh
  <2> QED BY <1>2, <2>1 DEF Restart, Main
<1>4. CASE Reconcile /\ pass.pc = "idle"
  <2>1. ~ReconcileBegin(Main') BY BeginPassesNothing
  <2>2. UNCHANGED <<cps, ds, rc, ctl, pass>> /\ Main \notin queue /\ delayed \subseteq delayed'
    BY <1>1, <1>4, <2>1, IdleStep
  <2>3. Main' = Main /\ (MainExists' <=> MainExists) /\ MainSpec' = MainSpec
    BY <2>2 DEF Main, MainExists, MainSpec
  <2>4. ~Due(Main) BY <1>1, <2>2, <2>3 DEF Due, Notified
  <2>5. PassedClass(k) BY <2>2 DEF PassedClass
  <2> QED BY <2>2, <2>3, <2>4, <2>5 DEF CleanedInv
<1>5. CASE ~(Reconcile /\ pass.pc = "idle")
  <2>1. Main \in Names
    <3>1. ctl' = ctl BY <1>3, <1>5, RequestKept, OthersStep DEF Next
    <3> QED BY <1>2, <3>1 DEF Main
  <2>2. /\ Main' = Main /\ MainExists /\ ~Due(Main) /\ MainSpec' = MainSpec /\ ~Notified(Main)
    BY <1>1, <1>3, <1>5, <2>1, MainSteady
  <2>3. PassedClass(k) => ~Exists(rc[GetRuntimeClass(MainSpec)])
    BY <2>2 DEF CleanedInv
  <2>4. CASE Reconcile /\ pass.pc # "idle"
    <3>1. ~FinishFailed BY <1>1, <2>2, <2>4 DEF FinishFailed, Requeue, PassServesMain
    <3> QED BY <2>2, <2>3, <2>4, <3>1, ClassGone
  <2>5. CASE ~Reconcile
    <3>1. pass' = pass BY <1>3, <2>5, OthersStep DEF Next
    <3>2. PassedClass(k) BY <3>1 DEF PassedClass
    <3>3. GetRuntimeClass(MainSpec) \in RuntimeClasses BY <2>1, <2>2, MainClassType
    <3> QED BY <1>3, <2>2, <2>3, <2>5, <3>2, <3>3, OthersCreateNothing DEF Next
  <2> QED BY <1>5, <2>4, <2>5
<1> QED BY <1>4, <1>5

(* If deletes go through, the operator does not go to sleep before what    *)
(* the main policy disables, or does not list, is gone: its DaemonSets and *)
(* the runtime class of its present name.  Every other request may fail,   *)
(* conflict or be late.                                                    *)
THEOREM SleepsCleanedUp ==
    ASSUME "delete" \notin Faulty, OneRuntimeClass
    PROVE  Spec => []QuietCleanedUp
<1> DEFINE IInv == TypeOK /\ PassServesMain /\ InstanceCurrent /\ PlaceMeant /\ CleanedInv
<1>1. Init => IInv
  <2> SUFFICES ASSUME Init PROVE IInv OBVIOUS
  <2>1. TypeOK BY TypeInit
  <2>2. pass.pc = "idle" /\ ctl.singleton = Absent BY DEF Init, Idle, Fresh
  <2> QED BY <2>1, <2>2 DEF PassServesMain, InstanceCurrent, PlaceMeant, CleanedInv,
                            MainExists, Main
<1>2. IInv /\ [Next]_vars => IInv'
  <2> SUFFICES ASSUME IInv, [Next]_vars PROVE IInv' OBVIOUS
  <2>1. TypeOK' /\ PassServesMain' /\ InstanceCurrent' /\ PlaceMeant'
    BY TypeNext, ServesNext, InstanceCurrentNext, PlaceMeantNext
  <2>2. CleanedInv'
    <3> SUFFICES ASSUME MainExists', ~Due(Main)', NEW k \in 1..3
                 PROVE  /\ \A j \in 1..Len(Manifests(k)) :
                              Passed(k, j)' /\ ~MainWants(k, Manifests(k)[j])'
                                  => Gone(Manifests(k)[j])'
                        /\ PassedClass(k)' /\ HasRuntimeClass(k)
                              /\ ~IsStateEnabled(StateNames[k], MainSpec')
                                  => ~Exists(rc'[GetRuntimeClass(MainSpec')])
      BY DEF CleanedInv, Exists, Stored
    <3> QED BY <2>1, CleanedDaemonSets, CleanedClass
  <2> QED BY <2>1, <2>2
<1>3. IInv => QuietCleanedUp
  <2> SUFFICES ASSUME IInv, MainQuiet, NEW k \in 1..3
               PROVE  /\ \A d \in ManifestsOf(k) : ~MainWants(k, d) => ~Exists(ds[d])
                      /\ HasRuntimeClass(k) /\ ~IsStateEnabled(StateNames[k], MainSpec)
                            => ~Exists(rc[GetRuntimeClass(MainSpec)])
    BY DEF QuietCleanedUp
  <2>1. Calm /\ delayed = {} /\ MainExists BY DEF MainQuiet, Quiet
  <2>2. Main \in Names BY <2>1 DEF MainExists, TypeOK, Controllers, Main
  <2>3. pass.pc = "idle" /\ ~Due(Main) BY <2>1, <2>2, CalmFacts DEF Due
  <2>4. PassedClass(k) /\ \A j \in 1..Len(Manifests(k)) : Passed(k, j)
    BY <2>3 DEF Passed, PassedClass
  <2>5. ASSUME NEW d \in ManifestsOf(k), ~MainWants(k, d) PROVE ~Exists(ds[d])
    <3>1. PICK j \in 1..Len(Manifests(k)) : d = Manifests(k)[j] BY DEF ManifestsOf
    <3>2. d \in DaemonSets BY <3>1, ManifestsType
    <3>3. Gone(d) BY <2>1, <2>3, <2>4, <2>5, <3>1 DEF CleanedInv
    <3> QED BY <2>1, <2>2, <3>2, <3>3, CalmFacts DEF Gone
  <2> QED BY <2>1, <2>3, <2>4, <2>5 DEF CleanedInv
<1> QED BY <1>1, <1>2, <1>3, PTL DEF Spec
-----------------------------------------------------------------------------
(* The runtime class that the policy wants.                                *)

(* Somebody who deletes a runtime class is remembered.                     *)
LEMMA DriftRemembered ==
    ASSUME TypeOK, [Next]_vars, used'.classDrift = 0
    PROVE  /\ used.classDrift = 0
           /\ \A r \in RuntimeClasses : ~UserDeletesRuntimeClass(r)
<1>1. used \in [Moves -> Nat] /\ "classDrift" \in Moves /\ "fault" \in Moves
  BY DEF TypeOK, Moves
<1>2. ASSUME NEW m \in Moves, Spend(m)
      PROVE  used.classDrift = 0 /\ m # "classDrift"
  <2>1. used'.classDrift = IF m = "classDrift" THEN used.classDrift + 1 ELSE used.classDrift
    BY <1>1, <1>2 DEF Spend
  <2>2. used.classDrift \in Nat BY <1>1
  <2> QED BY <2>1, <2>2
<1>3. ASSUME NEW o, Charge(o) PROVE used.classDrift = 0
  BY <1>1, <1>3 DEF Charge
<1>4. ASSUME NEW r, UserDeletesRuntimeClass(r) PROVE FALSE
  BY <1>1, <1>2, <1>4 DEF UserDeletesRuntimeClass
<1>5. UNCHANGED used \/ (\E m \in Moves : Spend(m)) \/ \E o : Charge(o)
  <2>1. ASSUME NEW verb, ReadFails(verb) PROVE \E m \in Moves : Spend(m)
    BY <1>1, <2>1 DEF ReadFails
  <2>2. ASSUME NEW n, NEW state, UpdateCRState(n, state)
        PROVE  UNCHANGED used \/ (\E m \in Moves : Spend(m)) \/ \E o : Charge(o)
    BY <2>1, <2>2 DEF UpdateCRState
  <2>3. CASE Reconcile /\ pass.pc = "idle"
    BY <2>1, <2>3, IdleCases
    DEF ReconcileGetFails, ReconcileNotFound, ReconcileIgnore, ReconcileInitFails,
        ReconcileBegin
  <2>4. CASE DaemonSetDisabled \/ DaemonSetNoSpec \/ DaemonSetCreate \/ DaemonSetUpdate
    BY <2>4 DEF DaemonSetDisabled, DaemonSetNoSpec, DaemonSetCreate, DaemonSetUpdate
  <2>5. CASE DaemonSetGetFails \/ DaemonSetSkip \/ DaemonSetReadiness
    BY <2>1, <2>5 DEF DaemonSetGetFails, DaemonSetSkip, DaemonSetReadiness
  <2>6. CASE RuntimeClassDisabled \/ RuntimeClassGetFails \/ RuntimeClassCreate \/ RuntimeClassUpdate
    BY <2>1, <2>6 DEF RuntimeClassDisabled, RuntimeClassGetFails, RuntimeClassCreate,
                      RuntimeClassUpdate
  <2>7. CASE StepNext \/ FinishNotReady \/ FinishReady \/ FinishFailed
    BY <2>2, <2>7 DEF StepNext, FinishNotReady, FinishReady, FinishFailed, ReportNotReady
  <2>8. CASE Cluster \/ UNCHANGED vars
    BY <2>8 DEF Cluster, vars, DeliverClusterPolicy, TimerFires, DeliverDaemonSet,
                CollectDaemonSet, DaemonSetObserved, PodsUp, DeliverRuntimeClass,
                CollectRuntimeClass
  <2>9. CASE Environment
    BY <2>9 DEF Environment, UserCreates, UserEdits, UserDeletes, UserDeletesDaemonSet,
                PodsDown, UserDeletesRuntimeClass, NodesChange, Restart, Resync, Moves
  <2> QED BY <2>3, <2>4, <2>5, <2>6, <2>7, <2>8, <2>9, PassCases DEF Next
<1>6. used.classDrift = 0 BY <1>2, <1>3, <1>5
<1> QED BY <1>4, <1>6

(* The garbage collector leaves alone what the main policy owns.           *)
LEMMA ClassStays ==
    ASSUME TypeOK, Cluster \/ Environment \/ UNCHANGED vars, ~Restart, MainExists,
           NEW r \in RuntimeClasses, Stored(rc[r]) = MainOwner,
           \A e \in RuntimeClasses : ~UserDeletesRuntimeClass(e)
    PROVE  Stored(rc'[r]) = MainOwner
<1>1. CASE rc' = rc BY <1>1
<1>2. ASSUME NEW e \in RuntimeClasses, DeliverRuntimeClass(e)
      PROVE  Stored(rc'[r]) = Stored(rc[r])
  <2>1. rc[e] \in Histories(Owners) /\ Len(rc[e]) > 1 /\ rc' = [rc EXCEPT ![e] = Tail(rc[e])]
    BY <1>2 DEF TypeOK, DeliverRuntimeClass
  <2>2. Stored(Tail(rc[e])) = Stored(rc[e]) BY <2>1, TailType
  <2> QED BY <2>1, <2>2 DEF TypeOK
<1>3. ASSUME NEW e \in RuntimeClasses, CollectRuntimeClass(e)
      PROVE  rc'[r] = rc[r]
  <2>1. Alive(MainOwner)
    <3>1. MainOwner.name = Main /\ MainOwner.uid = Stored(cps[Main]).uid BY DEF MainOwner
    <3> QED BY <3>1 DEF Alive, MainExists
  <2>2. e # r BY <1>3, <2>1 DEF CollectRuntimeClass
  <2> QED BY <1>3, <2>2 DEF CollectRuntimeClass, TypeOK
<1>4. rc' = rc \/ \E e \in RuntimeClasses : DeliverRuntimeClass(e) \/ CollectRuntimeClass(e)
  BY DEF Cluster, Environment, vars, DeliverClusterPolicy, TimerFires, DeliverDaemonSet,
         CollectDaemonSet, UserDeletesDaemonSet, DaemonSetObserved, PodsUp, PodsDown,
         SetStatus, UserCreates, UserEdits, UserDeletes, NodesChange, Resync
<1> QED BY <1>1, <1>2, <1>3, <1>4

(* Every step keeps ClassInv.                                              *)
LEMMA ClassNext ==
    ASSUME OneRuntimeClass, TypeOK, TypeOK', PassServesMain, InstanceCurrent, PlaceMeant,
           ClassInv, [Next]_vars
    PROVE  ClassInv'
<1> SUFFICES ASSUME MainExists', ~Due(Main)', used'.classDrift = 0, NEW k \in 1..3,
                    PassedClass(k)', HasRuntimeClass(k),
                    IsStateEnabled(StateNames[k], MainSpec')
             PROVE  Stored(rc'[GetRuntimeClass(MainSpec')]) = MainOwner'
  BY DEF ClassInv, Stored
<1>1. ~Notified(Main)' /\ Main' \notin delayed' BY DEF Due
<1>2. Main' # Absent /\ Main' \in Names BY DEF MainExists, TypeOK, Controllers, Main
<1>3. ~Restart
  <2>1. Fresh.singleton = Absent BY DEF Fresh
  <2> QED BY <1>2, <2>1 DEF Restart, Main
<1>4. used.classDrift = 0 /\ \A r \in RuntimeClasses : ~UserDeletesRuntimeClass(r)
  BY DriftRemembered
<1>5. CASE Reconcile /\ pass.pc = "idle"
  <2>1. ~ReconcileBegin(Main') BY BeginPassesNothing
  <2>2. UNCHANGED <<cps, ds, rc, ctl, pass>> /\ Main \notin queue /\ delayed \subseteq delayed'
    BY <1>1, <1>5, <2>1, IdleStep
  <2>3. /\ Main' = Main /\ (MainExists' <=> MainExists) /\ MainSpec' = MainSpec
        /\ MainOwner' = MainOwner
    BY <2>2 DEF Main, MainExists, MainSpec, MainOwner
  <2>4. ~Due(Main) BY <1>1, <2>2, <2>3 DEF Due, Notified
  <2>5. PassedClass(k) BY <2>2 DEF PassedClass
  <2> QED BY <1>4, <2>2, <2>3, <2>4, <2>5 DEF ClassInv
<1>6. CASE ~(Reconcile /\ pass.pc = "idle")
  <2>1. Main \in Names
    <3>1. ctl' = ctl BY <1>3, <1>6, RequestKept, OthersStep DEF Next
    <3> QED BY <1>2, <3>1 DEF Main
  <2>2. /\ Main' = Main /\ MainExists /\ ~Due(Main) /\ MainSpec' = MainSpec /\ ~Notified(Main)
        /\ MainOwner' = MainOwner
    BY <1>1, <1>3, <1>6, <2>1, MainSteady
  <2>3. PassedClass(k) => Stored(rc[GetRuntimeClass(MainSpec)]) = MainOwner
    BY <1>4, <2>2 DEF ClassInv
  <2>4. CASE Reconcile /\ pass.pc # "idle"
    <3>1. ~FinishFailed BY <1>1, <2>2, <2>4 DEF FinishFailed, Requeue, PassServesMain
    <3>2. Stored(rc'[GetRuntimeClass(MainSpec)]) = MainOwner
      BY <2>2, <2>3, <2>4, <3>1, ClassOwned
    <3> QED BY <2>2, <3>2
  <2>5. CASE ~Reconcile
    <3>1. pass' = pass BY <1>3, <2>5, OthersStep DEF Next
    <3>2. PassedClass(k) BY <3>1 DEF PassedClass
    <3>3. GetRuntimeClass(MainSpec) \in RuntimeClasses BY <2>1, <2>2, MainClassType
    <3>4. Stored(rc'[GetRuntimeClass(MainSpec)]) = MainOwner
      BY <1>3, <1>4, <2>2, <2>3, <2>5, <3>2, <3>3, ClassStays DEF Next
    <3> QED BY <2>2, <3>4
  <2> QED BY <1>6, <2>4, <2>5
<1> QED BY <1>5, <1>6

(* Whatever fails, the operator does not go to sleep before the runtime    *)
(* class of the main policy belongs to that very policy object, unless     *)
(* somebody has deleted a runtime class behind its back.                   *)
THEOREM SleepsWithRuntimeClass ==
    ASSUME OneRuntimeClass
    PROVE  Spec => []QuietRuntimeClass
<1> DEFINE IInv == TypeOK /\ PassServesMain /\ InstanceCurrent /\ PlaceMeant /\ ClassInv
<1>1. Init => IInv
  <2> SUFFICES ASSUME Init PROVE IInv OBVIOUS
  <2>1. TypeOK BY TypeInit
  <2>2. pass.pc = "idle" /\ ctl.singleton = Absent BY DEF Init, Idle, Fresh
  <2> QED BY <2>1, <2>2 DEF PassServesMain, InstanceCurrent, PlaceMeant, ClassInv,
                            MainExists, Main
<1>2. IInv /\ [Next]_vars => IInv'
  BY TypeNext, ServesNext, InstanceCurrentNext, PlaceMeantNext, ClassNext
<1>3. IInv => QuietRuntimeClass
  <2> SUFFICES ASSUME IInv, MainQuiet, used.classDrift = 0, NEW k \in 1..3,
                      HasRuntimeClass(k), IsStateEnabled(StateNames[k], MainSpec)
               PROVE  Stored(rc[GetRuntimeClass(MainSpec)]) = MainOwner
    BY DEF QuietRuntimeClass
  <2>1. Calm /\ delayed = {} /\ MainExists BY DEF MainQuiet, Quiet
  <2>2. Main \in Names BY <2>1 DEF MainExists, TypeOK, Controllers, Main
  <2>3. pass.pc = "idle" /\ ~Due(Main) BY <2>1, <2>2, CalmFacts DEF Due
  <2>4. PassedClass(k) BY <2>3 DEF PassedClass
  <2> QED BY <2>1, <2>3, <2>4 DEF ClassInv
<1> QED BY <1>1, <1>2, <1>3, PTL DEF Spec
==============================================================================
