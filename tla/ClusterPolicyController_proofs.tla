-------------------- MODULE ClusterPolicyController_proofs --------------------
(***************************************************************************)
(* Machine-checked proofs about ClusterPolicyController, for every set of  *)
(* policies, manifests and nodes, every kind of failing request and every  *)
(* bound on the outside events.                                            *)
(***************************************************************************)
EXTENDS ClusterPolicyController, TLAPS
-----------------------------------------------------------------------------
(* Histories.                                                              *)

(* Both ends of a history are versions of the object, or absent.           *)
LEMMA EndsType ==
    ASSUME NEW V, NEW h \in Histories(V)
    PROVE  /\ Len(h) \in Nat \ {0}
           /\ Stored(h) \in V \cup {Absent}
           /\ Cached(h) \in V \cup {Absent}
BY DEF Histories, Stored, Cached

(* A write leaves a history of the same kind.                              *)
LEMMA AppendType ==
    ASSUME NEW V, NEW h \in Histories(V), NEW v \in V \cup {Absent}
    PROVE  /\ Append(h, v) \in Histories(V)
           /\ Store(h, v) \in Histories(V)
           /\ Stored(Append(h, v)) = v
           /\ Stored(Store(h, v)) = v
<1>1. Append(h, v) \in Histories(V) /\ Stored(Append(h, v)) = v
  BY DEF Histories, Stored
<1> QED BY <1>1 DEF Store

(* So does a watch event, and it does not touch what is stored.            *)
LEMMA TailType ==
    ASSUME NEW V, NEW h \in Histories(V), Len(h) > 1
    PROVE  Tail(h) \in Histories(V) /\ Stored(Tail(h)) = Stored(h)
BY DEF Histories, Stored

(* A fresh list holds the stored version and nothing else.                 *)
LEMMA LatestType ==
    ASSUME NEW V, NEW X, NEW f \in [X -> Histories(V)]
    PROVE  /\ Latest(f) \in [X -> Histories(V)]
           /\ \A x \in X : Stored(Latest(f)[x]) = Stored(f[x])
<1>1. ASSUME NEW x \in X
      PROVE <<Stored(f[x])>> \in Histories(V) /\ Stored(<<Stored(f[x])>>) = Stored(f[x])
  <2>1. f[x] \in Histories(V) OBVIOUS
  <2>2. Stored(f[x]) \in V \cup {Absent} BY <2>1, EndsType
  <2>3. ASSUME NEW v \in V \cup {Absent}
        PROVE  <<v>> \in Histories(V) /\ Stored(<<v>>) = v
    BY DEF Histories, Stored
  <2> QED BY <2>2, <2>3
<1> QED BY <1>1 DEF Latest

(* Whatever comes of a request, the object's history is the old one or the *)
(* one the API server accepted.                                            *)
LEMMA OutcomeType ==
    ASSUME NEW verb, NEW accepted \in BOOLEAN, NEW H, NEW old \in H, NEW new,
           accepted => new \in H,
           NEW o \in Outcomes(verb, accepted, old, new)
    PROVE  o.hist \in H /\ o.fault \in Nat
<1> DEFINE result == IF accepted THEN new ELSE old
<1>1. result \in H OBVIOUS
<1>2. \/ o = [ok |-> accepted, hist |-> result, fault |-> 0]
      \/ o \in [ok : {FALSE}, hist : {old, result}, fault : {1}]
  BY DEF Outcomes
<1> HIDE DEF result
<1>3. CASE o = [ok |-> accepted, hist |-> result, fault |-> 0]
  BY <1>1, <1>3
<1>4. CASE o \in [ok : {FALSE}, hist : {old, result}, fault : {1}]
  <2>1. o.hist \in {old, result} /\ o.fault \in {1} BY <1>4, Zenon
  <2> QED BY <1>1, <2>1
<1> QED BY <1>2, <1>3, <1>4

(* Charging a request keeps the counters.                                  *)
LEMMA ChargeType ==
    ASSUME used \in [Moves -> Nat], NEW o, o.fault \in Nat, Charge(o)
    PROVE  used' \in [Moves -> Nat]
BY DEF Charge, Moves

(* So does an outside event.                                               *)
LEMMA SpendType ==
    ASSUME used \in [Moves -> Nat], NEW m \in Moves, Spend(m)
    PROVE  used' \in [Moves -> Nat]
BY DEF Spend
-----------------------------------------------------------------------------
(* The pass and the controller.                                            *)

(* The manifests of a state are a sequence of DaemonSet names.             *)
LEMMA ManifestsType ==
    ASSUME NEW k \in 1..3
    PROVE  /\ Manifests(k) \in Seq(STRING)
           /\ HasRuntimeClass(k) \in BOOLEAN
           /\ \A j \in 1..Len(Manifests(k)) : Manifests(k)[j] \in DaemonSets
BY AssetsAssumption DEF Manifests, HasRuntimeClass, StateNames, DaemonSets

(* A pass in the DaemonSet loop is at a known DaemonSet.                   *)
LEMMA ManifestType ==
    ASSUME pass \in Passes, InRange(pass), pass.pc \in {"daemonset", "ready"}
    PROVE  Manifest \in DaemonSets
BY ManifestsType DEF Manifest, InRange, Passes

(* The step loop enters a state within range.                              *)
LEMMA EnterStateType ==
    ASSUME NEW p \in Passes, NEW k \in 1..3, p.req \in Names, p.instance \in Policies
    PROVE  EnterState(p, k) \in Passes /\ InRange(EnterState(p, k))
<1>1. Manifests(k) \in Seq(STRING) BY ManifestsType
<1>2. FirstControl(k) \in {"daemonset", "runtimeclass", "stepped"} BY DEF FirstControl
<1>3. FirstControl(k) = "daemonset" => Len(Manifests(k)) \in Nat \ {0}
  BY <1>1 DEF FirstControl
<1>4. Ready \in States /\ 1 \in Nat BY DEF States
<1>5. EnterState(p, k) \in Passes BY <1>2, <1>4, Zenon DEF EnterState, Passes
<1>6. /\ EnterState(p, k).pc = FirstControl(k) /\ EnterState(p, k).req = p.req
      /\ EnterState(p, k).instance = p.instance
      /\ EnterState(p, k).idx = k /\ EnterState(p, k).ds = 1
  BY Zenon DEF EnterState, Passes
<1> QED BY <1>2, <1>3, <1>5, <1>6 DEF InRange

(* After a manifest the pass is at the next one or past the last.          *)
LEMMA AfterManifestType ==
    ASSUME pass \in Passes, InRange(pass), pass.pc \in {"daemonset", "ready"},
           NEW r \in States
    PROVE  AfterManifest(r) \in Passes /\ InRange(AfterManifest(r))
<1>1. Manifests(pass.idx) \in Seq(STRING) BY ManifestsType DEF Passes
<1>2. Combine(pass.step, r) \in States BY DEF Passes, Combine
<1>3. Ready \in States BY DEF States
<1>4. pass.req \in Names /\ pass.instance \in Policies BY DEF InRange
<1>5. CASE pass.ds < Len(Manifests(pass.idx))
  <2>1. AfterManifest(r) = [pass EXCEPT !.pc = "daemonset", !.ds = @ + 1, !.result = r]
    BY <1>5 DEF AfterManifest
  <2>2. pass.ds + 1 \in Nat BY DEF Passes
  <2>3. AfterManifest(r) \in Passes BY <2>1, <2>2, Zenon DEF Passes
  <2>4. /\ AfterManifest(r).pc = "daemonset" /\ AfterManifest(r).req = pass.req
        /\ AfterManifest(r).instance = pass.instance
        /\ AfterManifest(r).idx = pass.idx /\ AfterManifest(r).ds = pass.ds + 1
    BY <2>1, Zenon DEF Passes
  <2> QED BY <1>1, <1>4, <1>5, <2>2, <2>3, <2>4 DEF InRange, Passes
<1>6. CASE ~(pass.ds < Len(Manifests(pass.idx)))
  <2> DEFINE next == IF HasRuntimeClass(pass.idx) THEN "runtimeclass" ELSE "stepped"
  <2>1. AfterManifest(r) = [pass EXCEPT !.pc = next, !.ds = 1, !.result = Ready,
                                        !.step = Combine(@, r)]
    BY <1>6 DEF AfterManifest
  <2>2. next \in {"runtimeclass", "stepped"} OBVIOUS
  <2> HIDE DEF next
  <2>3. 1 \in Nat OBVIOUS
  <2>4. AfterManifest(r) \in Passes BY <1>2, <1>3, <2>1, <2>2, <2>3, Zenon DEF Passes
  <2>5. /\ AfterManifest(r).pc = next /\ AfterManifest(r).req = pass.req
        /\ AfterManifest(r).instance = pass.instance
    BY <2>1, Zenon DEF Passes
  <2> QED BY <1>4, <2>2, <2>4, <2>5 DEF InRange
<1> QED BY <1>5, <1>6

(* No pass in progress is a pass.                                          *)
LEMMA IdleType == Idle \in Passes /\ InRange(Idle)
BY DEF Idle, Passes, InRange, States, Ready

(* A process that has just started has claimed nothing.                    *)
LEMMA FreshType == Fresh \in Controllers
BY DEF Fresh, Controllers

(* What init leaves behind, wherever it stops.                             *)
LEMMA InitStagesType ==
    ASSUME ctl \in Controllers, nodes \subseteq Nodes, NEW n \in Names, NEW spec \in Specs
    PROVE  LET claimed == Claimed(ctl, n)
               loaded  == Loaded(claimed, spec)
           IN  /\ {claimed, loaded, Counted(loaded), Surveyed(Counted(loaded))}
                      \subseteq Controllers
               /\ claimed.singleton = n /\ loaded.singleton = n
               /\ Counted(loaded).singleton = n
               /\ Surveyed(Counted(loaded)).singleton = n
<1> DEFINE claimed == Claimed(ctl, n)
           loaded  == Loaded(claimed, spec)
<1>1. claimed \in Controllers /\ claimed.singleton = n
  BY Zenon DEF Claimed, Controllers
<1>2. GetRuntime(nodes, spec) \in Runtimes \cup {""}
  BY SpecsAssumption DEF GetRuntime, Runtimes
<1>3. loaded \in Controllers /\ loaded.singleton = n
  BY <1>1, <1>2, Zenon DEF Loaded, Controllers
<1>4. ASSUME NEW c \in Controllers, c.singleton = n
      PROVE  /\ Counted(c) \in Controllers /\ Counted(c).singleton = n
             /\ Surveyed(c) \in Controllers /\ Surveyed(c).singleton = n
  <2>1. ClusterHasNFDLabels(nodes) \in BOOLEAN /\ HasFPGANodes(nodes) \in BOOLEAN
    BY Zenon DEF ClusterHasNFDLabels, HasFPGANodes
  <2>2. OsDistributions(nodes) \in SUBSET OsDistributions(Nodes)
    BY Zenon DEF OsDistributions
  <2>3. Counted(c) \in Controllers /\ Counted(c).singleton = n
    BY <1>4, <2>1, Zenon DEF Counted, Controllers
  <2> QED BY <1>4, <2>2, <2>3, Zenon DEF Surveyed, Controllers
<1> QED BY <1>1, <1>3, <1>4, Zenon

(* What a pass writes into the API.                                        *)
LEMMA ContentType ==
    ASSUME pass \in Passes, InRange(pass), pass.pc = "daemonset", ctl \in Controllers,
           HasSpec(Manifest, pass.instance.spec)
    PROVE  Content \in Contents
<1>1. Manifest \in DaemonSets BY ManifestType
<1>2. pass.instance.spec \in Specs BY DEF InRange, Policies
<1>3. ctl.runtime \in Runtimes \cup {""} BY Zenon DEF Controllers
<1> DEFINE x == <<Manifest, pass.instance.spec, ctl.runtime>>
<1>4. /\ x \in DaemonSets \X Specs \X (Runtimes \cup {""})
      /\ x[1] = Manifest /\ x[2] = pass.instance.spec /\ x[3] = ctl.runtime
  BY <1>1, <1>2, <1>3
<1> HIDE DEF x
<1> QED BY <1>4, Zenon DEF Content, Contents

(* The controller reference names the policy of the pass.                  *)
LEMMA OwnerType ==
    ASSUME pass \in Passes, InRange(pass), pass.pc # "idle"
    PROVE  Owner \in Owners /\ Owner.name = pass.req
BY DEF Owner, Owners, InRange, Policies

(* The RuntimeClass of a pass is one that some policy names.               *)
LEMMA ClassType ==
    ASSUME pass \in Passes, InRange(pass), pass.pc # "idle"
    PROVE  Class \in RuntimeClasses
BY DEF Class, RuntimeClasses, InRange, Policies

(* A status update, lost or not, leaves a policy in the history.           *)
LEMMA UpdateCRStateType ==
    ASSUME cps \in [Names -> Histories(Policies)], used \in [Moves -> Nat],
           NEW n \in Names, NEW state \in {Ready, NotReady}, UpdateCRState(n, state)
    PROVE  cps' \in [Names -> Histories(Policies)] /\ used' \in [Moves -> Nat]
<1> DEFINE new == Append(cps[n], [Cached(cps[n]) EXCEPT !.status = state])
<1>1. CASE UNCHANGED cps /\ (UNCHANGED used \/ ReadFails("get"))
  BY <1>1, SpendType DEF ReadFails, Moves
<1>2. CASE /\ Cached(cps[n]) # Absent
           /\ \E o \in Outcomes("status", Len(cps[n]) = 1, cps[n], new) :
                 cps' = [cps EXCEPT ![n] = o.hist] /\ Charge(o)
  <2>1. cps[n] \in Histories(Policies) OBVIOUS
  <2>2. Cached(cps[n]) \in Policies BY <1>2, <2>1, EndsType
  <2>3. [Cached(cps[n]) EXCEPT !.status = state] \in Policies
    BY <2>2 DEF Policies, States
  <2>4. new \in Histories(Policies) BY <2>1, <2>3, AppendType
  <2> HIDE DEF new
  <2>5. PICK o \in Outcomes("status", Len(cps[n]) = 1, cps[n], new) :
           cps' = [cps EXCEPT ![n] = o.hist] /\ Charge(o)
    BY <1>2
  <2>6. o.hist \in Histories(Policies) /\ o.fault \in Nat
    BY <2>1, <2>4, OutcomeType
  <2> QED BY <2>5, <2>6, ChargeType
<1> QED BY <1>1, <1>2 DEF UpdateCRState, StatusDiffers
-----------------------------------------------------------------------------
(* Type correctness is inductive.  One lemma per group of actions.         *)

(* The initial state is well typed.                                        *)
LEMMA TypeInit == Init => TypeOK
<1> SUFFICES ASSUME Init PROVE TypeOK OBVIOUS
<1>1. ASSUME NEW V PROVE <<Absent>> \in Histories(V) BY DEF Histories
<1>2. /\ cps \in [Names -> Histories(Policies)]
      /\ ds \in [DaemonSets -> Histories(Deployed)]
      /\ rc \in [RuntimeClasses -> Histories(Owners)]
  BY <1>1 DEF Init
<1>3. pass \in Passes /\ InRange(pass) /\ ctl \in Controllers
  BY IdleType, FreshType DEF Init
<1> QED BY <1>2, <1>3, ControllerAssumption DEF Init, TypeOK

(* Reconcile up to init.                                                   *)
LEMMA TypeReconcileBegin ==
    ASSUME TypeOK, NEW n \in Names,
           \/ ReconcileGetFails(n) \/ ReconcileNotFound(n) \/ ReconcileIgnore(n)
           \/ ReconcileInitFails(n) \/ ReconcileBegin(n)
    PROVE  TypeOK'
<1>1. cps[n] \in Histories(Policies) BY DEF TypeOK
<1>2. Cached(cps[n]) \in Policies \cup {Absent} BY <1>1, EndsType
<1>3. CASE ReconcileGetFails(n)
  BY <1>3, SpendType DEF TypeOK, ReconcileGetFails, Dequeue, ReadFails, Requeue, Moves
<1>4. CASE ReconcileNotFound(n)
  BY <1>4 DEF TypeOK, ReconcileNotFound, Dequeue
<1>5. CASE ReconcileIgnore(n)
  BY <1>5 DEF TypeOK, ReconcileIgnore, Dequeue
<1>6. CASE ReconcileInitFails(n)
  <2>1. Cached(cps[n]).spec \in Specs BY <1>2, <1>6 DEF ReconcileInitFails, Policies
  <2>2. ctl' \in Controllers
    BY <1>6, <2>1, InitStagesType DEF TypeOK, ReconcileInitFails
  <2> QED BY <1>6, <2>2, SpendType
          DEF TypeOK, ReconcileInitFails, Dequeue, ReadFails, Requeue, Moves
<1>7. CASE ReconcileBegin(n)
  <2>1. Cached(cps[n]) \in Policies BY <1>2, <1>7 DEF ReconcileBegin
  <2>2. Cached(cps[n]).spec \in Specs BY <2>1 DEF Policies
  <2>3. ctl' \in Controllers
    BY <1>7, <2>2, InitStagesType DEF TypeOK, ReconcileBegin
  <2> DEFINE p == [Idle EXCEPT !.req = n, !.instance = Cached(cps[n])]
  <2>4. p \in Passes /\ p.req = n /\ p.instance = Cached(cps[n])
    BY <2>1, IdleType, Zenon DEF Passes
  <2> HIDE DEF p
  <2>5. EnterState(p, 1) \in Passes /\ InRange(EnterState(p, 1))
    BY <2>1, <2>4, EnterStateType
  <2>6. pass' \in Passes /\ InRange(pass)'
    BY <1>7, <2>5 DEF ReconcileBegin, p
  <2> QED BY <1>7, <2>3, <2>6 DEF TypeOK, ReconcileBegin, Dequeue
<1> QED BY <1>3, <1>4, <1>5, <1>6, <1>7

(* The DaemonSet control function.                                         *)
LEMMA TypeDaemonSet ==
    ASSUME TypeOK,
           \/ DaemonSetDisabled \/ DaemonSetNoSpec \/ DaemonSetGetFails
           \/ DaemonSetCreate \/ DaemonSetUpdate \/ DaemonSetSkip
    PROVE  TypeOK'
<1> DEFINE h == ds[Manifest]
<1>1. pass.pc = "daemonset" /\ UNCHANGED <<cps, rc, nodes, ctl, queue, delayed>>
  BY DEF AtManifest, DaemonSetDisabled, DaemonSetNoSpec, DaemonSetGetFails,
         DaemonSetCreate, DaemonSetUpdate, DaemonSetSkip
<1>2. Manifest \in DaemonSets BY <1>1, ManifestType DEF TypeOK
<1>3. h \in Histories(Deployed) BY <1>2 DEF TypeOK
<1>4. Store(h, Absent) \in Histories(Deployed) BY <1>3, AppendType
<1>5. ASSUME NEW r \in States
      PROVE  AfterManifest(r) \in Passes /\ InRange(AfterManifest(r))
  BY <1>1, AfterManifestType DEF TypeOK
<1>6. ASSUME NEW r \in States
      PROVE  /\ [pass EXCEPT !.pc = "ready", !.result = r] \in Passes
             /\ InRange([pass EXCEPT !.pc = "ready", !.result = r])
  <2> DEFINE p == [pass EXCEPT !.pc = "ready", !.result = r]
  <2>1. pass \in Passes /\ InRange(pass) BY DEF TypeOK
  <2>2. p \in Passes BY <1>6, <2>1, Zenon DEF Passes
  <2>3. /\ p.pc = "ready" /\ p.req = pass.req /\ p.instance = pass.instance
        /\ p.idx = pass.idx /\ p.ds = pass.ds
    BY <2>1, Zenon DEF Passes
  <2> HIDE DEF p
  <2>4. InRange(p) BY <1>1, <2>1, <2>3 DEF InRange
  <2> QED BY <2>2, <2>4 DEF p
<1>7. ASSUME pass' \in Passes, InRange(pass)', NEW g \in Histories(Deployed),
             ds' = [ds EXCEPT ![Manifest] = g], used' \in [Moves -> Nat]
      PROVE  TypeOK'
  <2>1. ds' \in [DaemonSets -> Histories(Deployed)] BY <1>2, <1>7 DEF TypeOK
  <2> QED BY <1>1, <1>7, <2>1 DEF TypeOK
<1>8. {Disabled, NotReady, Ignored, Ready} \subseteq States /\ pass.result \in States
  BY DEF States, TypeOK, Passes
<1>9. used \in [Moves -> Nat] BY DEF TypeOK
<1> HIDE DEF h
<1>10. CASE DaemonSetDisabled
  <2>1. PICK o \in Outcomes("delete", TRUE, h, Store(h, Absent)) :
          /\ ds' = [ds EXCEPT ![Manifest] = o.hist]
          /\ Charge(o)
          /\ pass' = AfterManifest(IF o.ok THEN Disabled ELSE NotReady)
    BY <1>10 DEF DaemonSetDisabled, h
  <2>2. o.hist \in Histories(Deployed) /\ o.fault \in Nat BY <1>3, <1>4, OutcomeType
  <2>3. used' \in [Moves -> Nat] BY <1>9, <2>1, <2>2, ChargeType
  <2>4. pass' \in Passes /\ InRange(pass)' BY <1>5, <1>8, <2>1
  <2> QED BY <1>7, <2>1, <2>2, <2>3, <2>4
<1>11. CASE DaemonSetNoSpec
  <2>1. PICK o \in Outcomes("delete", TRUE, h, Store(h, Absent)) :
          /\ ds' = [ds EXCEPT ![Manifest] = o.hist]
          /\ Charge(o)
          /\ pass' = AfterManifest(IgnoredUnless(IF o.ok THEN pass.result ELSE NotReady))
    BY <1>11 DEF DaemonSetNoSpec, h
  <2>2. o.hist \in Histories(Deployed) /\ o.fault \in Nat BY <1>3, <1>4, OutcomeType
  <2>3. used' \in [Moves -> Nat] BY <1>9, <2>1, <2>2, ChargeType
  <2>4. IgnoredUnless(IF o.ok THEN pass.result ELSE NotReady) \in States
    BY <1>8 DEF IgnoredUnless
  <2>5. pass' \in Passes /\ InRange(pass)' BY <1>5, <2>1, <2>4
  <2> QED BY <1>7, <2>1, <2>2, <2>3, <2>5
<1>12. CASE DaemonSetGetFails
  <2>1. used' \in [Moves -> Nat]
    BY <1>9, <1>12, SpendType DEF DaemonSetGetFails, ReadFails, Moves
  <2>2. pass' \in Passes /\ InRange(pass)' BY <1>5, <1>8, <1>12 DEF DaemonSetGetFails
  <2> QED BY <1>1, <1>12, <2>1, <2>2 DEF TypeOK, DaemonSetGetFails
<1>13. CASE DaemonSetCreate
  <2> DEFINE v == [owner |-> Owner, content |-> Content, observed |-> FALSE,
                   unavailable |-> FALSE]
  <2>1. Owner \in Owners BY <1>1, OwnerType DEF TypeOK
  <2>2. Content \in Contents
    BY <1>1, <1>13, ContentType DEF TypeOK, DaemonSetCreate, Wanted
  <2>3. v \in Deployed BY <2>1, <2>2 DEF Deployed
  <2>4. Append(h, v) \in Histories(Deployed) BY <1>3, <2>3, AppendType
  <2>5. PICK o \in Outcomes("create", ~Exists(h), h, Append(h, v)) :
          /\ ds' = [ds EXCEPT ![Manifest] = o.hist]
          /\ Charge(o)
          /\ pass' = [pass EXCEPT !.pc = "ready",
                                  !.result = IF o.ok THEN @ ELSE NotReady]
    BY <1>13 DEF DaemonSetCreate, h
  <2> HIDE DEF v
  <2>6. o.hist \in Histories(Deployed) /\ o.fault \in Nat
    BY <1>3, <2>4, OutcomeType DEF Exists
  <2>7. used' \in [Moves -> Nat] BY <1>9, <2>5, <2>6, ChargeType
  <2>8. pass' \in Passes /\ InRange(pass)' BY <1>6, <1>8, <2>5
  <2> QED BY <1>7, <2>5, <2>6, <2>7, <2>8
<1>14. CASE DaemonSetUpdate
  <2> DEFINE v == [Stored(h) EXCEPT !.owner = Owner, !.content = Content,
                      !.observed = @ /\ Stored(h).content = Content]
  <2>1. Owner \in Owners BY <1>1, OwnerType DEF TypeOK
  <2>2. Content \in Contents
    BY <1>1, <1>14, ContentType DEF TypeOK, DaemonSetUpdate, Wanted
  <2>3. ASSUME Exists(h) PROVE v \in Deployed
    <3>1. Stored(h) \in Deployed BY <1>3, <2>3, EndsType DEF Exists
    <3> QED BY <2>1, <2>2, <3>1, Zenon DEF Deployed
  <2>4. Exists(h) => Store(h, v) \in Histories(Deployed)
    BY <1>3, <2>3, AppendType
  <2>5. PICK o \in Outcomes("update", Exists(h), h, Store(h, v)) :
          /\ ds' = [ds EXCEPT ![Manifest] = o.hist]
          /\ Charge(o)
          /\ pass' = IF o.ok THEN [pass EXCEPT !.pc = "ready"]
                             ELSE AfterManifest(NotReady)
    BY <1>14 DEF DaemonSetUpdate, h
  <2> HIDE DEF v
  <2>6. o.hist \in Histories(Deployed) /\ o.fault \in Nat
    BY <1>3, <2>4, OutcomeType DEF Exists
  <2>7. used' \in [Moves -> Nat] BY <1>9, <2>5, <2>6, ChargeType
  <2>8. [pass EXCEPT !.pc = "ready"] = [pass EXCEPT !.pc = "ready", !.result = pass.result]
    BY Zenon DEF TypeOK, Passes
  <2>9. pass' \in Passes /\ InRange(pass)' BY <1>5, <1>6, <1>8, <2>5, <2>8
  <2> QED BY <1>7, <2>5, <2>6, <2>7, <2>9
<1>15. CASE DaemonSetSkip
  <2>1. [pass EXCEPT !.pc = "ready"] = [pass EXCEPT !.pc = "ready", !.result = pass.result]
    BY Zenon DEF TypeOK, Passes
  <2>2. pass' \in Passes /\ InRange(pass)' BY <1>6, <1>8, <1>15, <2>1 DEF DaemonSetSkip
  <2> QED BY <1>1, <1>15, <2>2 DEF TypeOK, DaemonSetSkip
<1> QED BY <1>10, <1>11, <1>12, <1>13, <1>14, <1>15

(* isDaemonSetReady.                                                       *)
LEMMA TypeReadiness == ASSUME TypeOK, DaemonSetReadiness PROVE TypeOK'
<1>1. pass.pc = "ready" BY DEF DaemonSetReadiness
<1>2. NotReady \in States /\ pass.result \in States BY DEF States, TypeOK, Passes
<1>3. ASSUME NEW r \in States
      PROVE  AfterManifest(r) \in Passes /\ InRange(AfterManifest(r))
  BY <1>1, AfterManifestType DEF TypeOK
<1>4. pass' \in Passes /\ InRange(pass)' BY <1>2, <1>3 DEF DaemonSetReadiness
<1>5. used' \in [Moves -> Nat]
  BY SpendType DEF TypeOK, DaemonSetReadiness, ReadFails, Moves
<1> QED BY <1>4, <1>5 DEF TypeOK, DaemonSetReadiness

(* The RuntimeClass control function.                                      *)
LEMMA TypeRuntimeClass ==
    ASSUME TypeOK,
           \/ RuntimeClassDisabled \/ RuntimeClassGetFails
           \/ RuntimeClassCreate \/ RuntimeClassUpdate
    PROVE  TypeOK'
<1> DEFINE h == rc[Class]
<1>1. pass.pc = "runtimeclass" /\ UNCHANGED <<cps, ds, nodes, ctl, queue, delayed>>
  BY DEF AtRuntimeClass, RuntimeClassDisabled, RuntimeClassGetFails,
         RuntimeClassCreate, RuntimeClassUpdate
<1>2. Class \in RuntimeClasses BY <1>1, ClassType DEF TypeOK
<1>3. h \in Histories(Owners) BY <1>2 DEF TypeOK
<1>4. Owner \in Owners BY <1>1, OwnerType DEF TypeOK
<1>5. /\ Store(h, Absent) \in Histories(Owners)
      /\ Store(h, Owner) \in Histories(Owners)
      /\ Append(h, Owner) \in Histories(Owners)
  BY <1>3, <1>4, AppendType
<1>6. pass \in Passes /\ InRange(pass) BY DEF TypeOK
<1>7. ASSUME NEW pc \in {"stepped", "failed"}, NEW r \in States
      PROVE  /\ [pass EXCEPT !.pc = pc, !.step = r] \in Passes
             /\ InRange([pass EXCEPT !.pc = pc, !.step = r])
  <2> DEFINE p == [pass EXCEPT !.pc = pc, !.step = r]
  <2>1. p \in Passes BY <1>6, <1>7, Zenon DEF Passes
  <2>2. p.pc = pc /\ p.req = pass.req /\ p.instance = pass.instance
    BY <1>6, Zenon DEF Passes
  <2> HIDE DEF p
  <2>3. InRange(p) BY <1>1, <1>6, <2>2 DEF InRange
  <2> QED BY <2>1, <2>3 DEF p
<1>8. ASSUME NEW r \in States
      PROVE  AfterRuntimeClass(r) \in Passes /\ InRange(AfterRuntimeClass(r))
  <2>1. Combine(pass.step, r) \in States BY <1>6 DEF Combine, Passes
  <2> QED BY <1>7, <2>1 DEF AfterRuntimeClass
<1>9. /\ [pass EXCEPT !.pc = "failed"] \in Passes
      /\ InRange([pass EXCEPT !.pc = "failed"])
  <2>1. [pass EXCEPT !.pc = "failed"] = [pass EXCEPT !.pc = "failed", !.step = pass.step]
    BY <1>6, Zenon DEF Passes
  <2>2. pass.step \in States BY <1>6 DEF Passes
  <2> QED BY <1>7, <2>1, <2>2
<1>10. {Disabled, NotReady, Ready} \subseteq States BY DEF States
<1>11. used \in [Moves -> Nat] BY DEF TypeOK
<1>12. ASSUME NEW g \in Histories(Owners), rc' = [rc EXCEPT ![Class] = g],
              used' \in [Moves -> Nat], pass' \in Passes, InRange(pass)'
       PROVE  TypeOK'
  <2>1. rc' \in [RuntimeClasses -> Histories(Owners)] BY <1>2, <1>12 DEF TypeOK
  <2> QED BY <1>1, <1>12, <2>1 DEF TypeOK
<1> HIDE DEF h
<1>13. CASE RuntimeClassDisabled
  <2>1. PICK o \in Outcomes("delete", TRUE, h, Store(h, Absent)) :
          /\ rc' = [rc EXCEPT ![Class] = o.hist]
          /\ Charge(o)
          /\ pass' = AfterRuntimeClass(IF o.ok THEN Disabled ELSE NotReady)
    BY <1>13 DEF RuntimeClassDisabled, h
  <2>2. o.hist \in Histories(Owners) /\ o.fault \in Nat BY <1>3, <1>5, OutcomeType
  <2>3. used' \in [Moves -> Nat] BY <1>11, <2>1, <2>2, ChargeType
  <2>4. pass' \in Passes /\ InRange(pass)' BY <1>8, <1>10, <2>1
  <2> QED BY <1>12, <2>1, <2>2, <2>3, <2>4
<1>14. CASE RuntimeClassGetFails
  <2>1. used' \in [Moves -> Nat]
    BY <1>11, <1>14, SpendType DEF RuntimeClassGetFails, ReadFails, Moves
  <2> QED BY <1>1, <1>9, <1>14, <2>1 DEF TypeOK, RuntimeClassGetFails
<1>15. CASE RuntimeClassCreate
  <2>1. PICK o \in Outcomes("create", ~Exists(h), h, Append(h, Owner)) :
          /\ rc' = [rc EXCEPT ![Class] = o.hist]
          /\ Charge(o)
          /\ pass' = IF o.ok THEN AfterRuntimeClass(Ready) ELSE [pass EXCEPT !.pc = "failed"]
    BY <1>15 DEF RuntimeClassCreate, h
  <2>2. o.hist \in Histories(Owners) /\ o.fault \in Nat
    BY <1>3, <1>5, OutcomeType DEF Exists
  <2>3. used' \in [Moves -> Nat] BY <1>11, <2>1, <2>2, ChargeType
  <2>4. pass' \in Passes /\ InRange(pass)' BY <1>8, <1>9, <1>10, <2>1
  <2> QED BY <1>12, <2>1, <2>2, <2>3, <2>4
<1>16. CASE RuntimeClassUpdate
  <2>1. PICK o \in Outcomes("update", Len(h) = 1, h, Store(h, Owner)) :
          /\ rc' = [rc EXCEPT ![Class] = o.hist]
          /\ Charge(o)
          /\ pass' = IF o.ok THEN AfterRuntimeClass(Ready) ELSE [pass EXCEPT !.pc = "failed"]
    BY <1>16 DEF RuntimeClassUpdate, h
  <2>2. o.hist \in Histories(Owners) /\ o.fault \in Nat BY <1>3, <1>5, OutcomeType
  <2>3. used' \in [Moves -> Nat] BY <1>11, <2>1, <2>2, ChargeType
  <2>4. pass' \in Passes /\ InRange(pass)' BY <1>8, <1>9, <1>10, <2>1
  <2> QED BY <1>12, <2>1, <2>2, <2>3, <2>4
<1> QED BY <1>13, <1>14, <1>15, <1>16

(* The step loop and the ends of Reconcile.                                *)
LEMMA TypeStepLoop ==
    ASSUME TypeOK, StepNext \/ FinishNotReady \/ FinishReady \/ FinishFailed
    PROVE  TypeOK'
<1>1. pass \in Passes /\ InRange(pass) /\ pass.pc \in {"stepped", "failed"}
  BY DEF TypeOK, StepNext, FinishNotReady, FinishReady, FinishFailed
<1>2. pass.req \in Names /\ pass.instance \in Policies BY <1>1 DEF InRange
<1>3. cps' \in [Names -> Histories(Policies)] /\ used' \in [Moves -> Nat]
  BY <1>2, UpdateCRStateType
  DEF TypeOK, StepNext, FinishNotReady, FinishReady, FinishFailed, ReportNotReady
<1>4. pass' \in Passes /\ InRange(pass)'
  <2>1. CASE StepNext
    <3> DEFINE p == [pass EXCEPT !.overall = Overall]
    <3>1. Overall \in {Ready, NotReady} BY <1>1 DEF Overall, Passes
    <3>2. p \in Passes /\ p.req = pass.req /\ p.instance = pass.instance
      BY <1>1, <3>1, Zenon DEF Passes
    <3>3. pass.idx + 1 \in 1..3
      BY <1>1, <2>1 DEF StepNext, Last, StateNames, Passes
    <3> HIDE DEF p
    <3>4. EnterState(p, pass.idx + 1) \in Passes /\ InRange(EnterState(p, pass.idx + 1))
      BY <1>2, <3>2, <3>3, EnterStateType
    <3> QED BY <2>1, <3>4 DEF StepNext, p
  <2>2. CASE FinishNotReady \/ FinishReady \/ FinishFailed
    BY <2>2, IdleType DEF FinishNotReady, FinishReady, FinishFailed
  <2> QED BY <2>1, <2>2
<1>5. delayed' \subseteq Names
  BY <1>2 DEF TypeOK, StepNext, FinishNotReady, FinishReady, FinishFailed, Requeue
<1> QED BY <1>3, <1>4, <1>5
        DEF TypeOK, StepNext, FinishNotReady, FinishReady, FinishFailed

(* The name a watch event enqueues is the name of a policy.                *)
LEMMA OwnerOfType ==
    ASSUME NEW v \in Deployed \cup {Absent}
    PROVE  OwnerOf(v) \subseteq Names
BY DEF OwnerOf, Deployed, Owners

(* A full list enqueues names of policies.                                 *)
LEMMA ListedType ==
    ASSUME NEW f, NEW g \in [DaemonSets -> Histories(Deployed)]
    PROVE  Listed(f, g) \subseteq Names
<1>1. ASSUME NEW d \in DaemonSets PROVE OwnerOf(Cached(g[d])) \subseteq Names
  <2>1. g[d] \in Histories(Deployed) OBVIOUS
  <2>2. Cached(g[d]) \in Deployed \cup {Absent} BY <2>1, EndsType
  <2> QED BY <2>2, OwnerOfType
<1> QED BY <1>1, Zenon DEF Listed

(* Watch events, timers and the resync.                                    *)
LEMMA TypeDeliver ==
    ASSUME TypeOK,
           \/ \E n \in Names : DeliverClusterPolicy(n) \/ TimerFires(n)
           \/ \E d \in DaemonSets : DeliverDaemonSet(d)
           \/ \E r \in RuntimeClasses : DeliverRuntimeClass(r)
           \/ Resync
    PROVE  TypeOK'
<1>1. ASSUME NEW n \in Names, DeliverClusterPolicy(n) PROVE TypeOK'
  <2>1. cps[n] \in Histories(Policies) /\ Len(cps[n]) > 1
    BY <1>1 DEF TypeOK, DeliverClusterPolicy
  <2>2. Tail(cps[n]) \in Histories(Policies) BY <2>1, TailType
  <2> QED BY <1>1, <2>2 DEF TypeOK, DeliverClusterPolicy
<1>2. ASSUME NEW n \in Names, TimerFires(n) PROVE TypeOK'
  BY <1>2 DEF TypeOK, TimerFires
<1>3. ASSUME NEW d \in DaemonSets, DeliverDaemonSet(d) PROVE TypeOK'
  <2>1. ds[d] \in Histories(Deployed) /\ Len(ds[d]) > 1
    BY <1>3 DEF TypeOK, DeliverDaemonSet
  <2>2. Tail(ds[d]) \in Histories(Deployed) BY <2>1, TailType
  <2>3. ds[d][1] \in Deployed \cup {Absent} /\ ds[d][2] \in Deployed \cup {Absent}
    BY <2>1 DEF Histories
  <2>4. OwnerOf(ds[d][1]) \subseteq Names /\ OwnerOf(ds[d][2]) \subseteq Names
    BY <2>3, OwnerOfType
  <2>5. queue' \subseteq Names BY <1>3, <2>4 DEF TypeOK, DeliverDaemonSet
  <2> QED BY <1>3, <2>2, <2>5 DEF TypeOK, DeliverDaemonSet
<1>4. ASSUME NEW r \in RuntimeClasses, DeliverRuntimeClass(r) PROVE TypeOK'
  <2>1. rc[r] \in Histories(Owners) /\ Len(rc[r]) > 1
    BY <1>4 DEF TypeOK, DeliverRuntimeClass
  <2>2. Tail(rc[r]) \in Histories(Owners) BY <2>1, TailType
  <2> QED BY <1>4, <2>2 DEF TypeOK, DeliverRuntimeClass
<1>5. CASE Resync
  <2>1. Listed(cps, ds) \subseteq Names BY ListedType DEF TypeOK
  <2> QED BY <1>5, <2>1, SpendType DEF TypeOK, Resync, Moves
<1> QED BY <1>1, <1>2, <1>3, <1>4, <1>5

(* The restart of the process.                                             *)
LEMMA TypeRestart == ASSUME TypeOK, Restart PROVE TypeOK'
<1>1. /\ cps' \in [Names -> Histories(Policies)]
      /\ ds' \in [DaemonSets -> Histories(Deployed)]
      /\ rc' \in [RuntimeClasses -> Histories(Owners)]
  BY LatestType DEF TypeOK, Restart
<1>2. queue' \subseteq Names BY <1>1, ListedType DEF Restart
<1>3. pass' \in Passes /\ InRange(pass)' /\ ctl' \in Controllers
  BY IdleType, FreshType DEF Restart
<1> QED BY <1>1, <1>2, <1>3, SpendType DEF TypeOK, Restart, Moves

(* The user, the garbage collector and the nodes.                          *)
LEMMA TypeUser ==
    ASSUME TypeOK,
           \/ \E n \in Names : \E spec \in Specs : UserCreates(n, spec) \/ UserEdits(n, spec)
           \/ \E n \in Names : UserDeletes(n)
           \/ \E d \in DaemonSets : UserDeletesDaemonSet(d) \/ CollectDaemonSet(d)
           \/ \E r \in RuntimeClasses : UserDeletesRuntimeClass(r) \/ CollectRuntimeClass(r)
           \/ NodesChange
    PROVE  TypeOK'
<1>1. ASSUME NEW n \in Names, NEW spec \in Specs, UserCreates(n, spec) PROVE TypeOK'
  <2> DEFINE v == [uid |-> used.create + 1, spec |-> spec, status |-> NoState]
  <2>1. cps[n] \in Histories(Policies) BY DEF TypeOK
  <2>2. v \in Policies BY DEF TypeOK, Policies, Moves
  <2>3. Append(cps[n], v) \in Histories(Policies) BY <2>1, <2>2, AppendType
  <2>4. cps' = [cps EXCEPT ![n] = Append(cps[n], v)] BY <1>1 DEF UserCreates
  <2> HIDE DEF v
  <2>5. cps' \in [Names -> Histories(Policies)] BY <2>3, <2>4 DEF TypeOK
  <2> QED BY <1>1, <2>5, SpendType DEF TypeOK, UserCreates, UserStep, Moves
<1>2. ASSUME NEW n \in Names, NEW spec \in Specs, UserEdits(n, spec) PROVE TypeOK'
  <2> DEFINE v == [Stored(cps[n]) EXCEPT !.spec = spec]
  <2>1. cps[n] \in Histories(Policies) BY DEF TypeOK
  <2>2. Stored(cps[n]) \in Policies BY <1>2, <2>1, EndsType DEF UserEdits, Exists
  <2>3. v \in Policies BY <2>2, Zenon DEF Policies
  <2>4. Append(cps[n], v) \in Histories(Policies) BY <2>1, <2>3, AppendType
  <2>5. cps' = [cps EXCEPT ![n] = Append(cps[n], v)] BY <1>2 DEF UserEdits
  <2> HIDE DEF v
  <2>6. cps' \in [Names -> Histories(Policies)] BY <2>4, <2>5 DEF TypeOK
  <2> QED BY <1>2, <2>6, SpendType DEF TypeOK, UserEdits, UserStep, Moves
<1>3. ASSUME NEW n \in Names, UserDeletes(n) PROVE TypeOK'
  <2>1. cps[n] \in Histories(Policies) BY DEF TypeOK
  <2>2. Append(cps[n], Absent) \in Histories(Policies) BY <2>1, AppendType
  <2> QED BY <1>3, <2>2, SpendType DEF TypeOK, UserDeletes, UserStep, Moves
<1>4. ASSUME NEW d \in DaemonSets, UserDeletesDaemonSet(d) \/ CollectDaemonSet(d)
      PROVE  TypeOK'
  <2>1. ds[d] \in Histories(Deployed) BY DEF TypeOK
  <2>2. Append(ds[d], Absent) \in Histories(Deployed) BY <2>1, AppendType
  <2> QED BY <1>4, <2>2, SpendType
          DEF TypeOK, UserDeletesDaemonSet, CollectDaemonSet, UserStep, Moves
<1>5. ASSUME NEW r \in RuntimeClasses, UserDeletesRuntimeClass(r) \/ CollectRuntimeClass(r)
      PROVE  TypeOK'
  <2>1. rc[r] \in Histories(Owners) BY DEF TypeOK
  <2>2. Append(rc[r], Absent) \in Histories(Owners) BY <2>1, AppendType
  <2> QED BY <1>5, <2>2, SpendType
          DEF TypeOK, UserDeletesRuntimeClass, CollectRuntimeClass, UserStep, Moves
<1>6. CASE NodesChange
  BY <1>6, SpendType DEF TypeOK, NodesChange, Moves
<1> QED BY <1>1, <1>2, <1>3, <1>4, <1>5, <1>6

(* The DaemonSet controller and the pods.                                  *)
LEMMA TypePods ==
    ASSUME TypeOK, NEW d \in DaemonSets,
           DaemonSetObserved(d) \/ PodsUp(d) \/ PodsDown(d)
    PROVE  TypeOK'
<1>1. ds[d] \in Histories(Deployed) BY DEF TypeOK
<1>2. Stored(ds[d]) \in Deployed
  BY <1>1, EndsType DEF Exists, DaemonSetObserved, PodsUp, PodsDown
<1>3. PICK o \in BOOLEAN, u \in BOOLEAN : SetStatus(d, o, u)
  BY Zenon DEF DaemonSetObserved, PodsUp, PodsDown
<1> DEFINE v == [Stored(ds[d]) EXCEPT !.observed = o, !.unavailable = u]
<1>4. v \in Deployed BY <1>2, <1>3, Zenon DEF Deployed
<1>5. Store(ds[d], v) \in Histories(Deployed) BY <1>1, <1>4, AppendType
<1>6. ds' = [ds EXCEPT ![d] = Store(ds[d], v)] BY <1>3 DEF SetStatus
<1> HIDE DEF v
<1>7. ds' \in [DaemonSets -> Histories(Deployed)] BY <1>5, <1>6 DEF TypeOK
<1>8. used' \in [Moves -> Nat]
  BY SpendType DEF TypeOK, DaemonSetObserved, PodsUp, PodsDown, Moves
<1> QED BY <1>3, <1>7, <1>8 DEF TypeOK, SetStatus

(* Every step keeps the types.                                             *)
LEMMA TypeNext == TypeOK /\ [Next]_vars => TypeOK'
<1> SUFFICES ASSUME TypeOK, [Next]_vars PROVE TypeOK' OBVIOUS
<1>1. CASE Reconcile
  BY <1>1, TypeReconcileBegin, TypeDaemonSet, TypeReadiness, TypeRuntimeClass, TypeStepLoop
  DEF Reconcile
<1>2. CASE Cluster
  BY <1>2, TypeDeliver, TypeUser, TypePods DEF Cluster
<1>3. CASE Environment
  BY <1>3, TypeDeliver, TypeUser, TypePods, TypeRestart DEF Environment
<1>4. CASE UNCHANGED vars
  BY <1>4 DEF vars, TypeOK
<1> QED BY <1>1, <1>2, <1>3, <1>4 DEF Next

(* Whatever the user, the cluster and failing requests do, every variable  *)
(* keeps its type and no pass indexes a state or a manifest that was not   *)
(* loaded: the Go code cannot panic on controlFuncs[idx], resources[idx]   *)
(* or Daemonsets[i].                                                       *)
THEOREM TypeCorrect == Spec => []TypeOK
BY TypeInit, TypeNext, PTL DEF Spec
-----------------------------------------------------------------------------
(* One process serves one policy.                                          *)

(* Within a pass the request and the instance fetched for it never change, *)
(* nor does the claim.                                                     *)
LEMMA RequestKept ==
    ASSUME TypeOK, Reconcile, pass.pc # "idle"
    PROVE  /\ ctl' = ctl
           /\ pass' = Idle \/ (pass'.req = pass.req /\ pass'.instance = pass.instance)
<1>1. pass \in Passes BY DEF TypeOK
<1>2. ASSUME NEW n \in Names
      PROVE ~(\/ ReconcileGetFails(n) \/ ReconcileNotFound(n) \/ ReconcileIgnore(n)
              \/ ReconcileInitFails(n) \/ ReconcileBegin(n))
  BY DEF ReconcileGetFails, ReconcileNotFound, ReconcileIgnore, ReconcileInitFails,
         ReconcileBegin, Dequeue
<1>3. ASSUME NEW r
      PROVE  /\ AfterManifest(r).req = pass.req /\ AfterRuntimeClass(r).req = pass.req
             /\ AfterManifest(r).instance = pass.instance
             /\ AfterRuntimeClass(r).instance = pass.instance
  BY <1>1, Zenon DEF AfterManifest, AfterRuntimeClass, Passes
<1>4. ASSUME NEW pc, NEW r
      PROVE  /\ [pass EXCEPT !.pc = pc].req = pass.req
             /\ [pass EXCEPT !.pc = pc, !.result = r].req = pass.req
             /\ [pass EXCEPT !.pc = pc].instance = pass.instance
             /\ [pass EXCEPT !.pc = pc, !.result = r].instance = pass.instance
  BY <1>1, Zenon DEF Passes
<1>5. ASSUME NEW x, NEW k
      PROVE  /\ EnterState([pass EXCEPT !.overall = x], k).req = pass.req
             /\ EnterState([pass EXCEPT !.overall = x], k).instance = pass.instance
  BY <1>1, Zenon DEF EnterState, Passes
<1>6. CASE DaemonSetDisabled \/ DaemonSetNoSpec \/ DaemonSetGetFails
  BY <1>3, <1>6 DEF AtManifest, DaemonSetDisabled, DaemonSetNoSpec, DaemonSetGetFails
<1>7. CASE DaemonSetCreate
  BY <1>4, <1>7 DEF AtManifest, DaemonSetCreate
<1>8. CASE DaemonSetUpdate \/ DaemonSetSkip
  BY <1>3, <1>4, <1>8 DEF AtManifest, DaemonSetUpdate, DaemonSetSkip
<1>9. CASE DaemonSetReadiness
  BY <1>3, <1>9 DEF DaemonSetReadiness
<1>10. CASE \/ RuntimeClassDisabled \/ RuntimeClassGetFails
            \/ RuntimeClassCreate \/ RuntimeClassUpdate
  <2>1. ctl' = ctl
    BY <1>10 DEF AtRuntimeClass, RuntimeClassDisabled, RuntimeClassGetFails,
                 RuntimeClassCreate, RuntimeClassUpdate
  <2>2. (\E r : pass' = AfterRuntimeClass(r)) \/ pass' = [pass EXCEPT !.pc = "failed"]
    BY <1>10 DEF RuntimeClassDisabled, RuntimeClassGetFails, RuntimeClassCreate,
                 RuntimeClassUpdate
  <2> QED BY <1>3, <1>4, <2>1, <2>2
<1>11. CASE StepNext \/ FinishNotReady \/ FinishReady \/ FinishFailed
  BY <1>5, <1>11 DEF StepNext, FinishNotReady, FinishReady, FinishFailed
<1> QED BY <1>2, <1>6, <1>7, <1>8, <1>9, <1>10, <1>11 DEF Reconcile

(* What a Reconcile step from idle does to the claim.                      *)
LEMMA ClaimStep ==
    ASSUME TypeOK, Reconcile, pass.pc = "idle"
    PROVE  /\ ds' = ds
           /\ Main # Absent => Main' = Main
           /\ pass' = pass \/ pass'.req = Main'
<1>1. PICK n \in Names :
         \/ ReconcileGetFails(n) \/ ReconcileNotFound(n) \/ ReconcileIgnore(n)
         \/ ReconcileInitFails(n) \/ ReconcileBegin(n)
  BY DEF Reconcile, AtManifest, AtRuntimeClass, DaemonSetDisabled, DaemonSetNoSpec,
         DaemonSetGetFails, DaemonSetCreate, DaemonSetUpdate, DaemonSetSkip,
         DaemonSetReadiness, RuntimeClassDisabled, RuntimeClassGetFails,
         RuntimeClassCreate, RuntimeClassUpdate, StepNext, FinishNotReady,
         FinishReady, FinishFailed
<1>2. cps[n] \in Histories(Policies) BY DEF TypeOK
<1>3. Cached(cps[n]) \in Policies \cup {Absent} BY <1>2, EndsType
<1>4. CASE ReconcileGetFails(n) \/ ReconcileNotFound(n) \/ ReconcileIgnore(n)
  BY <1>4 DEF ReconcileGetFails, ReconcileNotFound, ReconcileIgnore, Dequeue, Main
<1>5. CASE ReconcileInitFails(n)
  <2>1. Cached(cps[n]).spec \in Specs BY <1>3, <1>5 DEF ReconcileInitFails, Policies
  <2>2. ctl'.singleton = n
    BY <1>5, <2>1, InitStagesType DEF TypeOK, ReconcileInitFails
  <2> QED BY <1>5, <2>2 DEF ReconcileInitFails, Dequeue, IsDuplicate, Main
<1>6. CASE ReconcileBegin(n)
  <2>1. Cached(cps[n]).spec \in Specs BY <1>3, <1>6 DEF ReconcileBegin, Policies
  <2>2. ctl'.singleton = n
    BY <1>6, <2>1, InitStagesType DEF TypeOK, ReconcileBegin
  <2>3. pass'.req = n
    BY <1>6, Zenon DEF ReconcileBegin, EnterState, Idle
  <2> QED BY <1>6, <2>2, <2>3 DEF ReconcileBegin, Dequeue, IsDuplicate, Main
<1> QED BY <1>1, <1>4, <1>5, <1>6

(* The steps of everybody else leave the pass and the claim alone, except  *)
(* for a restart, which ends both.                                         *)
LEMMA OthersStep ==
    ASSUME Cluster \/ Environment \/ UNCHANGED vars
    PROVE  \/ ctl' = ctl /\ pass' = pass
           \/ Restart
BY DEF Cluster, Environment, vars, DeliverClusterPolicy, TimerFires, DeliverDaemonSet,
       CollectDaemonSet, DaemonSetObserved, PodsUp, PodsDown, SetStatus,
       DeliverRuntimeClass, CollectRuntimeClass, UserCreates, UserEdits, UserDeletes,
       UserDeletesDaemonSet, UserDeletesRuntimeClass, UserStep, NodesChange, Resync

(* Every step keeps the pass with the claimed policy.                      *)
LEMMA ServesNext == TypeOK /\ PassServesMain /\ [Next]_vars => PassServesMain'
<1> SUFFICES ASSUME TypeOK, PassServesMain, [Next]_vars PROVE PassServesMain' OBVIOUS
<1>1. CASE Reconcile /\ pass.pc = "idle"
  BY <1>1, ClaimStep DEF PassServesMain
<1>2. CASE Reconcile /\ pass.pc # "idle"
  <2>1. Idle.pc = "idle" BY DEF Idle
  <2> QED BY <1>2, <2>1, RequestKept DEF PassServesMain, Main
<1>3. CASE Cluster \/ Environment \/ UNCHANGED vars
  <2>1. CASE Restart BY <2>1 DEF Restart, Idle, PassServesMain
  <2> QED BY <1>3, <2>1, OthersStep DEF PassServesMain, Main
<1> QED BY <1>1, <1>2, <1>3 DEF Next

(* Every pass works for the one policy the process has claimed, so all     *)
(* that it writes carries that policy's owner reference.                   *)
THEOREM ServesOnePolicy == Spec => []PassServesMain
<1>1. Init => PassServesMain BY DEF Init, Idle, PassServesMain
<1> QED BY <1>1, TypeCorrect, ServesNext, PTL DEF Spec
-----------------------------------------------------------------------------
(* No step hands a DaemonSet of the main policy to another policy.         *)

(* The stored DaemonSet stays, goes, or belongs to policy n.               *)
StaysWith(d, n) ==
    \/ Stored(ds[d])' = Stored(ds[d])
    \/ Stored(ds[d])' = Absent
    \/ Stored(ds[d])'.owner.name = n

(* A write to one DaemonSet leaves the others alone.                       *)
LEMMA OneWrite ==
    ASSUME TypeOK, NEW m \in DaemonSets, NEW g, ds' = [ds EXCEPT ![m] = g], NEW n,
           \/ Stored(g) = Stored(ds[m]) \/ Stored(g) = Absent \/ Stored(g).owner.name = n
    PROVE  \A d \in DaemonSets : StaysWith(d, n)
<1> SUFFICES ASSUME NEW d \in DaemonSets PROVE StaysWith(d, n) OBVIOUS
<1>1. ds'[m] = g /\ (d # m => ds'[d] = ds[d]) BY DEF TypeOK
<1>2. CASE d = m BY <1>1, <1>2 DEF StaysWith, Stored
<1>3. CASE d # m BY <1>1, <1>3 DEF StaysWith, Stored
<1> QED BY <1>2, <1>3

(* What the reconciler writes belongs to the policy of its pass.           *)
LEMMA PassWritesOwn ==
    ASSUME TypeOK, Reconcile, pass.pc # "idle"
    PROVE  \A d \in DaemonSets : StaysWith(d, pass.req)
<1>1. pass \in Passes /\ InRange(pass) /\ ctl \in Controllers BY DEF TypeOK
<1>2. Owner \in Owners /\ Owner.name = pass.req BY <1>1, OwnerType
<1>3. CASE ds' = ds BY <1>3 DEF StaysWith
<1>4. ASSUME DaemonSetDisabled \/ DaemonSetNoSpec \/ DaemonSetCreate \/ DaemonSetUpdate
      PROVE  \A d \in DaemonSets : StaysWith(d, pass.req)
  <2> DEFINE h == ds[Manifest]
  <2>1. pass.pc = "daemonset"
    BY <1>4 DEF AtManifest, DaemonSetDisabled, DaemonSetNoSpec, DaemonSetCreate, DaemonSetUpdate
  <2>2. Manifest \in DaemonSets BY <1>1, <2>1, ManifestType
  <2>3. h \in Histories(Deployed) BY <2>2 DEF TypeOK
  <2> HIDE DEF h
  <2>4. CASE DaemonSetDisabled \/ DaemonSetNoSpec
    <3>1. Store(h, Absent) \in Histories(Deployed) /\ Stored(Store(h, Absent)) = Absent
      BY <2>3, AppendType
    <3>2. PICK o \in Outcomes("delete", TRUE, h, Store(h, Absent)) :
            ds' = [ds EXCEPT ![Manifest] = o.hist]
      BY <2>4 DEF DaemonSetDisabled, DaemonSetNoSpec, h
    <3>3. o.hist \in {h, Store(h, Absent)} BY OutcomeType
    <3>4. Stored(o.hist) = Stored(ds[Manifest]) \/ Stored(o.hist) = Absent
      BY <3>1, <3>3 DEF h
    <3> QED BY <2>2, <3>2, <3>4, OneWrite
  <2>5. CASE DaemonSetCreate
    <3> DEFINE v == [owner |-> Owner, content |-> Content, observed |-> FALSE,
                     unavailable |-> FALSE]
    <3>1. Content \in Contents BY <1>1, <2>1, <2>5, ContentType DEF DaemonSetCreate, Wanted
    <3>2. v \in Deployed /\ v.owner = Owner BY <1>2, <3>1 DEF Deployed
    <3>3. PICK o \in Outcomes("create", ~Exists(h), h, Append(h, v)) :
            ds' = [ds EXCEPT ![Manifest] = o.hist]
      BY <2>5 DEF DaemonSetCreate, h
    <3> HIDE DEF v
    <3>4. Append(h, v) \in Histories(Deployed) /\ Stored(Append(h, v)) = v
      BY <2>3, <3>2, AppendType
    <3>5. o.hist \in {h, Append(h, v)} BY OutcomeType DEF Exists
    <3>6. Stored(o.hist) = Stored(ds[Manifest]) \/ Stored(o.hist).owner.name = pass.req
      BY <1>2, <3>2, <3>4, <3>5 DEF h
    <3> QED BY <2>2, <3>3, <3>6, OneWrite
  <2>6. CASE DaemonSetUpdate
    <3> DEFINE v == [Stored(h) EXCEPT !.owner = Owner, !.content = Content,
                        !.observed = @ /\ Stored(h).content = Content]
    <3>1. Content \in Contents BY <1>1, <2>1, <2>6, ContentType DEF DaemonSetUpdate, Wanted
    <3>2. ASSUME Exists(h) PROVE v \in Deployed /\ v.owner = Owner
      <4>1. Stored(h) \in Deployed BY <2>3, <3>2, EndsType DEF Exists
      <4> QED BY <1>2, <3>1, <4>1, Zenon DEF Deployed
    <3>3. PICK o \in Outcomes("update", Exists(h), h, Store(h, v)) :
            ds' = [ds EXCEPT ![Manifest] = o.hist]
      BY <2>6 DEF DaemonSetUpdate, h
    <3> HIDE DEF v
    <3>4. Exists(h) => Store(h, v) \in Histories(Deployed) /\ Stored(Store(h, v)) = v
      BY <2>3, <3>2, AppendType
    <3>5. o.hist \in {h} \cup {g \in {Store(h, v)} : Exists(h)}
      BY OutcomeType DEF Exists
    <3>6. Stored(o.hist) = Stored(ds[Manifest]) \/ Stored(o.hist).owner.name = pass.req
      BY <1>2, <3>2, <3>4, <3>5 DEF h
    <3> QED BY <2>2, <3>3, <3>6, OneWrite
  <2> QED BY <1>4, <2>4, <2>5, <2>6
<1> QED
  BY <1>3, <1>4
  DEF Reconcile, Dequeue, AtManifest, AtRuntimeClass, ReconcileGetFails, ReconcileNotFound,
      ReconcileIgnore, ReconcileInitFails, ReconcileBegin, DaemonSetGetFails, DaemonSetSkip,
      DaemonSetReadiness, RuntimeClassDisabled, RuntimeClassGetFails, RuntimeClassCreate,
      RuntimeClassUpdate, StepNext, FinishNotReady, FinishReady, FinishFailed

(* The others keep the owner of what they write.                           *)
LEMMA OthersKeepOwner ==
    ASSUME TypeOK, Cluster \/ Environment \/ UNCHANGED vars, NEW d \in DaemonSets, Exists(ds[d])
    PROVE  StaysWith(d, Stored(ds[d]).owner.name)
<1>1. ds[d] \in Histories(Deployed) BY DEF TypeOK
<1>2. Stored(ds[d]) \in Deployed BY <1>1, EndsType DEF Exists
<1>3. CASE ds' = ds BY <1>3 DEF StaysWith
<1>4. ASSUME NEW e \in DaemonSets, DeliverDaemonSet(e)
      PROVE  StaysWith(d, Stored(ds[d]).owner.name)
  <2>1. ds[e] \in Histories(Deployed) /\ Len(ds[e]) > 1 /\ ds' = [ds EXCEPT ![e] = Tail(ds[e])]
    BY <1>4 DEF TypeOK, DeliverDaemonSet
  <2>2. Stored(Tail(ds[e])) = Stored(ds[e]) BY <2>1, TailType
  <2> QED BY <2>1, <2>2, OneWrite
<1>5. ASSUME NEW e \in DaemonSets, CollectDaemonSet(e) \/ UserDeletesDaemonSet(e)
      PROVE  StaysWith(d, Stored(ds[d]).owner.name)
  <2>1. ds[e] \in Histories(Deployed) /\ ds' = [ds EXCEPT ![e] = Append(ds[e], Absent)]
    BY <1>5 DEF TypeOK, CollectDaemonSet, UserDeletesDaemonSet
  <2>2. Stored(Append(ds[e], Absent)) = Absent BY <2>1, AppendType
  <2> QED BY <2>1, <2>2, OneWrite
<1>6. ASSUME NEW e \in DaemonSets, DaemonSetObserved(e) \/ PodsUp(e) \/ PodsDown(e)
      PROVE  StaysWith(d, Stored(ds[d]).owner.name)
  <2>1. PICK o \in BOOLEAN, u \in BOOLEAN : SetStatus(e, o, u)
    BY <1>6, Zenon DEF DaemonSetObserved, PodsUp, PodsDown
  <2> DEFINE v == [Stored(ds[e]) EXCEPT !.observed = o, !.unavailable = u]
  <2>2. ds[e] \in Histories(Deployed) BY DEF TypeOK
  <2>3. Stored(ds[e]) \in Deployed
    BY <1>6, <2>2, EndsType DEF Exists, DaemonSetObserved, PodsUp, PodsDown
  <2>4. v \in Deployed /\ v.owner = Stored(ds[e]).owner BY <2>1, <2>3, Zenon DEF Deployed
  <2>5. ds' = [ds EXCEPT ![e] = Store(ds[e], v)] BY <2>1 DEF SetStatus
  <2> HIDE DEF v
  <2>6. Stored(Store(ds[e], v)) = v BY <2>2, <2>4, AppendType
  <2>7. CASE d = e
    <3>1. Stored(Store(ds[e], v)).owner.name = Stored(ds[d]).owner.name
      BY <2>4, <2>6, <2>7
    <3> QED BY <2>5, <3>1, OneWrite
  <2>8. CASE d # e
    BY <2>5, <2>8 DEF TypeOK, StaysWith, Stored
  <2> QED BY <2>7, <2>8
<1>7. CASE Restart
  <2>1. ds' = Latest(ds) BY <1>7 DEF Restart
  <2>2. Stored(Latest(ds)[d]) = Stored(ds[d]) BY LatestType DEF TypeOK
  <2> QED BY <2>1, <2>2 DEF StaysWith, Stored
<1> QED
  BY <1>3, <1>4, <1>5, <1>6, <1>7
  DEF Cluster, Environment, vars, DeliverClusterPolicy, TimerFires, DeliverRuntimeClass,
      CollectRuntimeClass, UserCreates, UserEdits, UserDeletes, UserDeletesRuntimeClass,
      NodesChange, Resync

(* Every step of a well typed state that serves one policy keeps the       *)
(* claim.                                                                  *)
LEMMA KeepsClaimNext ==
    ASSUME TypeOK, PassServesMain, [Next]_vars
    PROVE  KeepsClaim
<1>1. CASE Reconcile /\ pass.pc = "idle"
  <2>1. ds' = ds /\ (Main # Absent => Main' = Main) BY <1>1, ClaimStep
  <2> QED BY <2>1 DEF KeepsClaim
<1>2. CASE Reconcile /\ pass.pc # "idle"
  <2>1. ctl' = ctl /\ pass.req = Main BY <1>2, RequestKept DEF PassServesMain
  <2>2. \A d \in DaemonSets : StaysWith(d, Main) BY <1>2, <2>1, PassWritesOwn
  <2> QED BY <2>1, <2>2 DEF KeepsClaim, StaysWith, Main
<1>3. CASE Cluster \/ Environment \/ UNCHANGED vars
  <2>1. Restart => Main' = Absent
    <3>1. Fresh.singleton = Absent BY DEF Fresh
    <3> QED BY <3>1 DEF Restart, Main
  <2>3. ctl' = ctl => Main' = Main BY DEF Main
  <2>4. Main' \in {Main, Absent} BY <1>3, <2>1, <2>3, OthersStep
  <2>2. \A d \in DaemonSets : Exists(ds[d]) => StaysWith(d, Stored(ds[d]).owner.name)
    BY <1>3, OthersKeepOwner
  <2> QED BY <2>2, <2>4 DEF KeepsClaim, StaysWith
<1> QED BY <1>1, <1>2, <1>3 DEF Next

(* For any number of competing policies, and whatever fails, a duplicate   *)
(* policy never takes over a DaemonSet of the main policy, and the process *)
(* serves the policy it has claimed until it is restarted.                 *)
THEOREM DuplicatesNeverTakeOver == Spec => NoTakeover
<1>1. TypeOK /\ PassServesMain /\ [Next]_vars => [KeepsClaim]_vars
  BY KeepsClaimNext
<1> QED BY <1>1, TypeCorrect, ServesOnePolicy, PTL DEF Spec, NoTakeover
==============================================================================
