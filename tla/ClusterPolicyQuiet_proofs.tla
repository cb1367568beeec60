---------------------- MODULE ClusterPolicyQuiet_proofs ----------------------
(***************************************************************************)
(* The operator never goes to sleep too early: machine-checked proofs that *)
(* the invariants of ClusterPolicyInvariants are inductive, and that they  *)
(* imply what ClusterPolicyController says of the states in which nothing  *)
(* is left to do.                                                          *)
(***************************************************************************)
EXTENDS ClusterPolicyInvariants, ClusterPolicyController_proofs
-----------------------------------------------------------------------------
(* Histories as the informers see them.                                    *)

(* A cache that nothing is on its way to is up to date.                    *)
LEMMA OneVersion ==
    ASSUME NEW V, NEW h \in Histories(V), ~(Len(h) > 1)
    PROVE  Len(h) = 1 /\ Stored(h) = Cached(h)
<1>1. ASSUME NEW l \in Nat \ {0}, ~(l > 1) PROVE l = 1 BY <1>1
<1>2. Len(h) \in Nat \ {0} BY EndsType
<1>3. Len(h) = 1 BY <1>1, <1>2, Zenon
<1> QED BY <1>3 DEF Stored, Cached

(* The object was written at most once.                                    *)
Grows(h, g) == g = h \/ \E v : g = Append(h, v)

(* A write that may change nothing.                                        *)
LEMMA StoreGrows == ASSUME NEW h, NEW v PROVE Grows(h, Store(h, v))
BY Zenon DEF Grows, Store

(* Whatever comes of a request, the object was written at most once.       *)
LEMMA OutcomeGrows ==
    ASSUME NEW verb, NEW accepted \in BOOLEAN, NEW old, NEW new,
           accepted => Grows(old, new),
           NEW o \in Outcomes(verb, accepted, old, new)
    PROVE  Grows(old, o.hist)
<1> DEFINE H == {old} \cup {g \in {new} : accepted}
<1>1. old \in H /\ (accepted => new \in H) OBVIOUS
<1>2. \A g \in H : Grows(old, g) BY DEF Grows
<1> HIDE DEF H
<1>3. o.hist \in H BY <1>1, OutcomeType
<1> QED BY <1>2, <1>3

(* The cache does not see a write before it is delivered.                  *)
LEMMA GrowsCached ==
    ASSUME NEW V, NEW h \in Histories(V), NEW g \in Histories(V), Grows(h, g)
    PROVE  /\ Cached(g) = Cached(h)
           /\ Len(g) = 1 => g = h /\ Stored(h) = Cached(h)
           /\ g # h => Len(g) = Len(h) + 1 /\ \A j \in 1..Len(h) : g[j] = h[j]
<1>1. CASE g = h BY <1>1 DEF Histories, Cached, Stored
<1>2. ASSUME NEW v, g = Append(h, v)
      PROVE  /\ Cached(g) = Cached(h) /\ Len(g) = Len(h) + 1
             /\ \A j \in 1..Len(h) : g[j] = h[j]
             /\ Len(g) # 1
  <2>1. v \in V \cup {Absent}
    <3>1. g[Len(g)] = v BY <1>2 DEF Histories
    <3> QED BY <3>1, EndsType DEF Stored
  <2> QED BY <1>2, <2>1 DEF Histories, Cached
<1> QED BY <1>1, <1>2 DEF Grows

(* An event that is due stays due under any write.                         *)
LEMMA EventDueGrows ==
    ASSUME NEW V, NEW h \in Histories(V), NEW g \in Histories(V), Grows(h, g), NEW n,
           EventDue(h, n)
    PROVE  EventDue(g, n)
<1>1. Len(h) \in Nat BY EndsType
<1>2. CASE g = h BY <1>2
<1>3. CASE g # h
  <2>1. Len(g) = Len(h) + 1 /\ \A j \in 1..Len(h) : g[j] = h[j] BY <1>3, GrowsCached
  <2> QED BY <1>1, <2>1 DEF EventDue
<1> QED BY <1>2, <1>3

(* A write of one's own makes an event due.                                *)
LEMMA OwnWriteDue ==
    ASSUME NEW V, NEW h \in Histories(V), NEW v \in V, NEW n, OwnedBy(v, n)
    PROVE  EventDue(Append(h, v), n)
<1>1. Len(h) \in Nat \ {0} BY EndsType
<1>2. Len(Append(h, v)) = Len(h) + 1 /\ Append(h, v)[Len(h) + 1] = v
  BY DEF Histories
<1> QED BY <1>1, <1>2 DEF EventDue

(* A delivered event enqueues its owner, or one that is still due stays.   *)
LEMMA EventDueTail ==
    ASSUME NEW h \in Histories(Deployed), Len(h) > 1, NEW n,
           n \notin OwnerOf(h[1]), n \notin OwnerOf(h[2])
    PROVE  /\ ~OwnedBy(Cached(h), n)
           /\ EventDue(h, n) => EventDue(Tail(h), n)
<1>1. Len(h) \in Nat BY EndsType
<1>2. ~OwnedBy(h[1], n) /\ ~OwnedBy(h[2], n) BY DEF OwnedBy, OwnerOf
<1>3. ASSUME EventDue(h, n) PROVE EventDue(Tail(h), n)
  <2>1. PICK j \in 1..Len(h) : OwnedBy(h[j], n) BY <1>3 DEF EventDue
  <2>2. j > 2 BY <1>2, <2>1
  <2>3. Len(Tail(h)) = Len(h) - 1 /\ Tail(h)[j - 1] = h[j]
    BY <2>1, <2>2 DEF Histories
  <2> QED BY <1>1, <2>1, <2>2, <2>3 DEF EventDue
<1> QED BY <1>2, <1>3 DEF Cached
-----------------------------------------------------------------------------
(* What one step does to a history.                                        *)

(* A status update leaves a policy alone or writes it once.                *)
LEMMA UpdateCRStateStep ==
    ASSUME TypeOK, NEW m \in Names, NEW state, UpdateCRState(m, state), NEW n \in Names
    PROVE  Grows(cps[n], cps'[n])
<1> DEFINE new == Append(cps[m], [Cached(cps[m]) EXCEPT !.status = state])
<1>1. CASE UNCHANGED cps BY <1>1 DEF Grows
<1>2. CASE \E o \in Outcomes("status", Len(cps[m]) = 1, cps[m], new) :
              cps' = [cps EXCEPT ![m] = o.hist]
  <2>1. Grows(cps[m], new) BY DEF Grows
  <2> HIDE DEF new
  <2>2. PICK o \in Outcomes("status", Len(cps[m]) = 1, cps[m], new) :
           cps' = [cps EXCEPT ![m] = o.hist]
    BY <1>2
  <2>3. Grows(cps[m], o.hist) BY <2>1, OutcomeGrows
  <2> QED BY <2>2, <2>3 DEF TypeOK, Grows
<1> QED BY <1>1, <1>2 DEF UpdateCRState

(* The steps of a pass write a policy at most once, and they take nothing  *)
(* out of the queue and stop no timer.                                     *)
LEMMA PassStep ==
    ASSUME TypeOK, Reconcile, pass.pc # "idle"
    PROVE  /\ \A n \in Names : Grows(cps[n], cps'[n])
           /\ queue' = queue /\ delayed \subseteq delayed'
<1>1. pass.req \in Names BY DEF TypeOK, InRange
<1>2. CASE cps' = cps /\ queue' = queue /\ delayed' = delayed
  BY <1>2 DEF Grows
<1>3. CASE StepNext \/ FinishNotReady \/ FinishReady \/ FinishFailed
  <2>1. cps' = cps \/ \E state : UpdateCRState(pass.req, state)
    BY <1>3 DEF StepNext, FinishNotReady, FinishReady, FinishFailed, ReportNotReady
  <2>2. \A n \in Names : Grows(cps[n], cps'[n])
    BY <1>1, <2>1, UpdateCRStateStep DEF Grows
  <2> QED BY <1>3, <2>2
          DEF StepNext, FinishNotReady, FinishReady, FinishFailed, Requeue
<1> QED
  BY <1>2, <1>3
  DEF Reconcile, Dequeue, AtManifest, AtRuntimeClass, ReconcileGetFails, ReconcileNotFound,
      ReconcileIgnore, ReconcileInitFails, ReconcileBegin, DaemonSetDisabled, DaemonSetNoSpec,
      DaemonSetGetFails, DaemonSetCreate, DaemonSetUpdate, DaemonSetSkip, DaemonSetReadiness,
      RuntimeClassDisabled, RuntimeClassGetFails, RuntimeClassCreate, RuntimeClassUpdate

(* The others write a policy at most once or deliver an event that         *)
(* enqueues it; a timer that stops has put its request into the queue.     *)
LEMMA OthersPolicyStep ==
    ASSUME TypeOK, Cluster \/ Environment \/ UNCHANGED vars, ~Restart
    PROVE  /\ \A n \in Names : Grows(cps[n], cps'[n]) \/ n \in queue'
           /\ queue \subseteq queue' /\ delayed \subseteq delayed' \cup queue'
<1>1. CASE cps' = cps /\ queue \subseteq queue' /\ delayed \subseteq delayed' \cup queue'
  BY <1>1 DEF Grows
<1>2. ASSUME NEW m \in Names, DeliverClusterPolicy(m)
      PROVE  /\ \A n \in Names : Grows(cps[n], cps'[n]) \/ n \in queue'
             /\ queue \subseteq queue' /\ delayed \subseteq delayed' \cup queue'
  BY <1>2 DEF DeliverClusterPolicy, TypeOK, Grows
<1>3. ASSUME NEW m \in Names, NEW v, cps' = [cps EXCEPT ![m] = Append(cps[m], v)],
             UNCHANGED <<queue, delayed>>
      PROVE  /\ \A n \in Names : Grows(cps[n], cps'[n]) \/ n \in queue'
             /\ queue \subseteq queue' /\ delayed \subseteq delayed' \cup queue'
  BY <1>3 DEF TypeOK, Grows
<1>4. ASSUME NEW m \in Names, NEW spec, UserCreates(m, spec) \/ UserEdits(m, spec)
      PROVE  /\ \E v : cps' = [cps EXCEPT ![m] = Append(cps[m], v)]
             /\ UNCHANGED <<queue, delayed>>
  BY <1>4 DEF UserCreates, UserEdits, UserStep
<1>5. ASSUME NEW m \in Names, UserDeletes(m)
      PROVE  /\ \E v : cps' = [cps EXCEPT ![m] = Append(cps[m], v)]
             /\ UNCHANGED <<queue, delayed>>
  BY <1>5 DEF UserDeletes, UserStep
<1> QED
  BY <1>1, <1>2, <1>3, <1>4, <1>5
  DEF Cluster, Environment, vars, TimerFires, DeliverDaemonSet, CollectDaemonSet,
      DaemonSetObserved, PodsUp, PodsDown, SetStatus, DeliverRuntimeClass,
      CollectRuntimeClass, UserDeletesDaemonSet, UserDeletesRuntimeClass, UserStep,
      NodesChange, Resync

(* A policy that is not notified after a step was not written by it.       *)
LEMMA NotNotified ==
    ASSUME TypeOK, TypeOK', [Next]_vars, ~Restart, NEW n \in Names, ~Notified(n)'
    PROVE  cps'[n] = cps[n] /\ Len(cps[n]) = 1
<1>1. Grows(cps[n], cps'[n])
  <2>1. CASE Reconcile /\ pass.pc # "idle" BY <2>1, PassStep
  <2>2. CASE Reconcile /\ pass.pc = "idle"
    BY <2>2 DEF Grows, Reconcile, AtManifest, AtRuntimeClass, DaemonSetDisabled,
         DaemonSetNoSpec, DaemonSetGetFails, DaemonSetCreate, DaemonSetUpdate, DaemonSetSkip,
         DaemonSetReadiness, RuntimeClassDisabled, RuntimeClassGetFails, RuntimeClassCreate,
         RuntimeClassUpdate, StepNext, FinishNotReady, FinishReady, FinishFailed, Dequeue,
         ReconcileGetFails, ReconcileNotFound, ReconcileIgnore, ReconcileInitFails,
         ReconcileBegin
  <2>3. CASE Cluster \/ Environment \/ UNCHANGED vars
    BY <2>3, OthersPolicyStep DEF Notified
  <2> QED BY <2>1, <2>2, <2>3 DEF Next
<1>2. cps[n] \in Histories(Policies) /\ cps'[n] \in Histories(Policies) BY DEF TypeOK
<1>3. Len(cps'[n]) = 1
  <2>1. ~(Len(cps'[n]) > 1) BY DEF Notified
  <2> QED BY <1>2, <2>1, OneVersion
<1> QED BY <1>1, <1>2, <1>3, GrowsCached

(* A write to one DaemonSet leaves the others alone.                       *)
LEMMA OneGrows ==
    ASSUME TypeOK, NEW m, NEW g, Grows(ds[m], g), ds' = [ds EXCEPT ![m] = g]
    PROVE  \A d \in DaemonSets : Grows(ds[d], ds'[d])
BY DEF TypeOK, Grows

(* A pass writes a DaemonSet at most once per step.                        *)
LEMMA PassDaemonSetStep ==
    ASSUME TypeOK, Reconcile
    PROVE  \A d \in DaemonSets : Grows(ds[d], ds'[d])
<1> DEFINE h == ds[Manifest]
<1>1. CASE ds' = ds BY <1>1 DEF Grows
<1>2. ASSUME NEW verb, NEW accepted \in BOOLEAN, NEW new, Grows(h, new),
             \E o \in Outcomes(verb, accepted, h, new) : ds' = [ds EXCEPT ![Manifest] = o.hist]
      PROVE  \A d \in DaemonSets : Grows(ds[d], ds'[d])
  <2>1. PICK o \in Outcomes(verb, accepted, h, new) : ds' = [ds EXCEPT ![Manifest] = o.hist]
    BY <1>2
  <2>2. Grows(h, o.hist) BY <1>2, OutcomeGrows
  <2> QED BY <2>1, <2>2, OneGrows
<1>3. CASE DaemonSetDisabled \/ DaemonSetNoSpec
  <2>1. Grows(h, Store(h, Absent)) BY StoreGrows
  <2>2. \E o \in Outcomes("delete", TRUE, h, Store(h, Absent)) :
           ds' = [ds EXCEPT ![Manifest] = o.hist]
    BY <1>3 DEF DaemonSetDisabled, DaemonSetNoSpec
  <2> HIDE DEF h
  <2> QED BY <1>2, <2>1, <2>2
<1>4. CASE DaemonSetCreate
  <2> DEFINE v == [owner |-> Owner, content |-> Content, observed |-> FALSE,
                   unavailable |-> FALSE]
  <2>1. Grows(h, Append(h, v)) BY DEF Grows
  <2>2. \E o \in Outcomes("create", ~Exists(h), h, Append(h, v)) :
           ds' = [ds EXCEPT ![Manifest] = o.hist]
    BY <1>4 DEF DaemonSetCreate
  <2>3. (~Exists(h)) \in BOOLEAN BY DEF Exists
  <2> HIDE DEF h, v
  <2> QED BY <1>2, <2>1, <2>2, <2>3
<1>5. CASE DaemonSetUpdate
  <2> DEFINE v == [Stored(h) EXCEPT !.owner = Owner, !.content = Content,
                      !.observed = @ /\ Stored(h).content = Content]
  <2>1. Grows(h, Store(h, v)) BY StoreGrows
  <2>2. \E o \in Outcomes("update", Exists(h), h, Store(h, v)) :
           ds' = [ds EXCEPT ![Manifest] = o.hist]
    BY <1>5 DEF DaemonSetUpdate
  <2>3. Exists(h) \in BOOLEAN BY DEF Exists
  <2> HIDE DEF h, v
  <2> QED BY <1>2, <2>1, <2>2, <2>3
<1> QED
  BY <1>1, <1>3, <1>4, <1>5
  DEF Reconcile, Dequeue, AtManifest, AtRuntimeClass, ReconcileGetFails, ReconcileNotFound,
      ReconcileIgnore, ReconcileInitFails, ReconcileBegin, DaemonSetGetFails, DaemonSetSkip,
      DaemonSetReadiness, RuntimeClassDisabled, RuntimeClassGetFails, RuntimeClassCreate,
      RuntimeClassUpdate, StepNext, FinishNotReady, FinishReady, FinishFailed

(* The event was delivered, and the owners of both versions enqueued.      *)
Delivered(d) ==
    /\ Len(ds[d]) > 1 /\ ds'[d] = Tail(ds[d])
    /\ OwnerOf(ds[d][1]) \subseteq queue' /\ OwnerOf(ds[d][2]) \subseteq queue'

(* Every step but a restart writes a DaemonSet at most once or delivers an *)
(* event about it.                                                         *)
LEMMA DaemonSetStep ==
    ASSUME TypeOK, [Next]_vars, ~Restart
    PROVE  \A d \in DaemonSets : Grows(ds[d], ds'[d]) \/ Delivered(d)
<1>1. CASE Reconcile BY <1>1, PassDaemonSetStep
<1>2. CASE ds' = ds BY <1>2 DEF Grows
<1>3. ASSUME NEW e \in DaemonSets, DeliverDaemonSet(e)
      PROVE  \A d \in DaemonSets : Grows(ds[d], ds'[d]) \/ Delivered(d)
  BY <1>3 DEF TypeOK, DeliverDaemonSet, Delivered, Grows
<1>4. ASSUME NEW e \in DaemonSets, CollectDaemonSet(e) \/ UserDeletesDaemonSet(e)
      PROVE  \A d \in DaemonSets : Grows(ds[d], ds'[d])
  <2>1. ds' = [ds EXCEPT ![e] = Append(ds[e], Absent)]
    BY <1>4 DEF CollectDaemonSet, UserDeletesDaemonSet
  <2>2. Grows(ds[e], Append(ds[e], Absent)) BY DEF Grows
  <2> QED BY <2>1, <2>2, OneGrows
<1>5. ASSUME NEW e \in DaemonSets, DaemonSetObserved(e) \/ PodsUp(e) \/ PodsDown(e)
      PROVE  \A d \in DaemonSets : Grows(ds[d], ds'[d])
  <2>1. PICK o \in BOOLEAN, u \in BOOLEAN : SetStatus(e, o, u)
    BY <1>5, Zenon DEF DaemonSetObserved, PodsUp, PodsDown
  <2> DEFINE v == [Stored(ds[e]) EXCEPT !.observed = o, !.unavailable = u]
  <2>2. ds' = [ds EXCEPT ![e] = Store(ds[e], v)] BY <2>1 DEF SetStatus
  <2>3. Grows(ds[e], Store(ds[e], v)) BY StoreGrows
  <2> QED BY <2>2, <2>3, OneGrows
<1> QED
  BY <1>1, <1>2, <1>3, <1>4, <1>5
  DEF Next, Cluster, Environment, vars, DeliverClusterPolicy, TimerFires, DeliverRuntimeClass,
      CollectRuntimeClass, UserCreates, UserEdits, UserDeletes, UserDeletesRuntimeClass,
      NodesChange, Resync
-----------------------------------------------------------------------------
(* What stays as it is while nobody notifies the main policy.              *)

(* An event of the main policy that is due stays due, and what the cache   *)
(* holds of the main policy's DaemonSets stays.                            *)
LEMMA EventKept ==
    ASSUME TypeOK, TypeOK', [Next]_vars, ~Restart, NEW n, n \notin queue',
           NEW d \in DaemonSets
    PROVE  /\ EventDue(ds[d], n) => EventDue(ds'[d], n)
           /\ OwnedBy(Cached(ds[d]), n) => Cached(ds'[d]) = Cached(ds[d])
<1>1. ds[d] \in Histories(Deployed) /\ ds'[d] \in Histories(Deployed) BY DEF TypeOK
<1>2. CASE Grows(ds[d], ds'[d]) BY <1>1, <1>2, GrowsCached, EventDueGrows
<1>3. CASE Delivered(d)
  <2>1. n \notin OwnerOf(ds[d][1]) /\ n \notin OwnerOf(ds[d][2]) BY <1>3 DEF Delivered
  <2> QED BY <1>1, <1>3, <2>1, EventDueTail DEF Delivered
<1> QED BY <1>2, <1>3, DaemonSetStep

(* What is seen, good or deployed for the main policy stays so.            *)
LEMMA GoodKept ==
    ASSUME TypeOK, TypeOK', [Next]_vars, ~Restart, ctl' = ctl, Main \notin queue',
           cps'[Main] = cps[Main], NEW d \in DaemonSets
    PROVE  /\ SpecSeen(d) => SpecSeen(d)'
           /\ Good(d) => Good(d)'
<1>1. Main' = Main /\ MainSpec' = MainSpec /\ MainOwner' = MainOwner
  BY DEF Main, MainSpec, MainOwner, Stored
<1>2. EventDue(ds[d], Main) => EventDue(ds'[d], Main) BY EventKept
<1>3. OwnedBy(Cached(ds[d]), Main) => Cached(ds'[d]) = Cached(ds[d]) BY EventKept
<1>4. Matches(Cached(ds[d]), d) => OwnedBy(Cached(ds[d]), Main)
  BY DEF Matches, OwnedBy, MainOwner
<1>5. Cached(ds'[d]) = Cached(ds[d]) /\ Matches(Cached(ds[d]), d) => Matches(Cached(ds[d]), d)'
  BY <1>1, Zenon DEF Matches, Cached
<1> QED BY <1>1, <1>2, <1>3, <1>4, <1>5, Zenon DEF SpecSeen, Good, Cached, EventDue
-----------------------------------------------------------------------------
(* The moves of a pass.                                                    *)

(* Without a pass in progress the worker takes a request from the queue.   *)
LEMMA IdleCases ==
    ASSUME Reconcile, pass.pc = "idle"
    PROVE  \E n \in Names :
              \/ ReconcileGetFails(n) \/ ReconcileNotFound(n) \/ ReconcileIgnore(n)
              \/ ReconcileInitFails(n) \/ ReconcileBegin(n)
BY DEF Reconcile, AtManifest, AtRuntimeClass, DaemonSetDisabled, DaemonSetNoSpec,
       DaemonSetGetFails, DaemonSetCreate, DaemonSetUpdate, DaemonSetSkip,
       DaemonSetReadiness, RuntimeClassDisabled, RuntimeClassGetFails, RuntimeClassCreate,
       RuntimeClassUpdate, StepNext, FinishNotReady, FinishReady, FinishFailed

(* With a pass in progress it takes the next step of that pass.            *)
LEMMA PassCases ==
    ASSUME Reconcile, pass.pc # "idle"
    PROVE  \/ DaemonSetDisabled \/ DaemonSetNoSpec \/ DaemonSetGetFails
           \/ DaemonSetCreate   \/ DaemonSetUpdate \/ DaemonSetSkip \/ DaemonSetReadiness
           \/ RuntimeClassDisabled \/ RuntimeClassGetFails
           \/ RuntimeClassCreate   \/ RuntimeClassUpdate
           \/ StepNext \/ FinishNotReady \/ FinishReady \/ FinishFailed
BY DEF Reconcile, Dequeue, ReconcileGetFails, ReconcileNotFound, ReconcileIgnore,
       ReconcileInitFails, ReconcileBegin

(* A pass starts at the first state with what the cache holds.             *)
LEMMA BeginFields ==
    ASSUME NEW n, ReconcileBegin(n)
    PROVE  /\ pass'.req = n /\ pass'.instance = Cached(cps[n]) /\ pass'.overall = Ready
           /\ pass'.pc = FirstControl(1) /\ pass'.idx = 1 /\ pass'.ds = 1
           /\ pass'.result = Ready /\ pass'.step = Ready
BY Zenon DEF ReconcileBegin, EnterState, Idle

(* After a manifest: the next one, or past the last one.                   *)
LEMMA AfterManifestFields ==
    ASSUME pass \in Passes, InRange(pass), pass.pc \in {"daemonset", "ready"}, NEW r
    PROVE  /\ AfterManifest(r).idx = pass.idx /\ AfterManifest(r).overall = pass.overall
           /\ \/ /\ AfterManifest(r).pc = "daemonset" /\ AfterManifest(r).result = r
                 /\ AfterManifest(r).ds = pass.ds + 1
              \/ /\ AfterManifest(r).pc = IF HasRuntimeClass(pass.idx) THEN "runtimeclass"
                                                                       ELSE "stepped"
                 /\ AfterManifest(r).step = Combine(pass.step, r)
                 /\ Len(Manifests(pass.idx)) = pass.ds
<1>1. CASE pass.ds < Len(Manifests(pass.idx))
  BY <1>1, Zenon DEF AfterManifest, Passes
<1>2. CASE ~(pass.ds < Len(Manifests(pass.idx)))
  <2>1. Manifests(pass.idx) \in Seq(STRING) BY ManifestsType DEF Passes
  <2>2. Len(Manifests(pass.idx)) = pass.ds BY <1>2, <2>1 DEF InRange
  <2> QED BY <1>2, <2>2, Zenon DEF AfterManifest, Passes
<1> QED BY <1>1, <1>2

(* After the runtime class: the end of the state.                          *)
LEMMA AfterRuntimeClassFields ==
    ASSUME pass \in Passes, NEW r
    PROVE  /\ AfterRuntimeClass(r).idx = pass.idx /\ AfterRuntimeClass(r).pc = "stepped"
           /\ AfterRuntimeClass(r).overall = pass.overall
           /\ AfterRuntimeClass(r).step = Combine(pass.step, r)
BY Zenon DEF AfterRuntimeClass, Passes

(* Changing the place or the result of the pass changes nothing else.      *)
LEMMA ExceptFields ==
    ASSUME pass \in Passes, NEW pc, NEW r
    PROVE  LET p == [pass EXCEPT !.pc = pc]
               q == [pass EXCEPT !.pc = pc, !.result = r]
           IN  /\ p.pc = pc /\ p.idx = pass.idx /\ p.ds = pass.ds /\ p.overall = pass.overall
               /\ p.result = pass.result /\ p.step = pass.step
               /\ q.pc = pc /\ q.idx = pass.idx /\ q.ds = pass.ds /\ q.overall = pass.overall
               /\ q.result = r /\ q.step = pass.step
BY Zenon DEF Passes

(* The next state of the step loop.                                        *)
LEMMA StepNextFields ==
    ASSUME pass \in Passes, StepNext
    PROVE  /\ pass'.pc = FirstControl(pass.idx + 1) /\ pass'.idx = pass.idx + 1
           /\ pass'.ds = 1 /\ pass'.overall = Overall
           /\ pass'.result = Ready /\ pass'.step = Ready
<1> DEFINE p == [pass EXCEPT !.overall = Overall]
           k == pass.idx + 1
<1>1. pass' = EnterState(p, k) BY DEF StepNext
<1> HIDE DEF k
<1>2. /\ pass'.pc = FirstControl(k) /\ pass'.idx = k /\ pass'.ds = 1
      /\ pass'.overall = Overall /\ pass'.result = Ready /\ pass'.step = Ready
  BY <1>1, Zenon DEF EnterState, Passes
<1> QED BY <1>2 DEF k
-----------------------------------------------------------------------------
(* Where a pass is, and what that means.                                   *)

(* The first control function of a state looks for a runtime class only if *)
(* there is one, and the readiness is never checked first.                 *)
LEMMA FirstControlMeant ==
    ASSUME NEW k
    PROVE  /\ FirstControl(k) \in {"daemonset", "runtimeclass", "stepped"}
           /\ FirstControl(k) = "runtimeclass" => HasRuntimeClass(k)
           /\ FirstControl(k) = "stepped" => ~HasRuntimeClass(k)
           /\ FirstControl(k) # "daemonset" => Manifests(k) = <<>>
BY DEF FirstControl

(* Every step keeps PlaceMeant.                                            *)
LEMMA PlaceMeantNext ==
    ASSUME TypeOK, PlaceMeant, [Next]_vars
    PROVE  PlaceMeant'
<1>1. pass \in Passes /\ InRange(pass) BY DEF TypeOK
<1>2. CASE pass' = pass
  BY <1>2 DEF PlaceMeant, Wanted, Enabled, Manifest
<1>3. CASE pass' = Idle BY <1>3 DEF PlaceMeant, Idle
<1>4. ASSUME NEW n, ReconcileBegin(n) PROVE PlaceMeant'
  BY <1>4, BeginFields, FirstControlMeant DEF PlaceMeant
<1>5. CASE StepNext
  BY <1>1, <1>5, StepNextFields, FirstControlMeant DEF PlaceMeant
<1>6. ASSUME NEW r, pass.pc \in {"daemonset", "ready"}, pass' = AfterManifest(r)
      PROVE  PlaceMeant'
  BY <1>1, <1>6, AfterManifestFields DEF PlaceMeant
<1>7. CASE \E r : pass' = AfterRuntimeClass(r)
  BY <1>1, <1>7, AfterRuntimeClassFields DEF PlaceMeant
<1>8. CASE pass' = [pass EXCEPT !.pc = "failed"]
  <2>1. pass'.pc = "failed" BY <1>1, <1>8, Zenon DEF Passes
  <2> QED BY <2>1 DEF PlaceMeant
<1>9. ASSUME Wanted, pass' = [pass EXCEPT !.pc = "ready"]
             \/ \E r : pass' = [pass EXCEPT !.pc = "ready", !.result = r]
      PROVE  PlaceMeant'
  <2>1. /\ pass'.pc = "ready" /\ pass'.idx = pass.idx /\ pass'.ds = pass.ds
        /\ pass'.instance = pass.instance
    BY <1>1, <1>9, Zenon DEF Passes
  <2> QED BY <1>9, <2>1 DEF PlaceMeant, Wanted, Enabled, Manifest
<1>10. CASE Reconcile /\ pass.pc = "idle"
  BY <1>2, <1>4, <1>10, IdleCases
  DEF ReconcileGetFails, ReconcileNotFound, ReconcileIgnore, ReconcileInitFails
<1>11. CASE Reconcile /\ pass.pc # "idle"
  <2>1. CASE DaemonSetDisabled \/ DaemonSetNoSpec \/ DaemonSetGetFails
    <3>1. pass.pc = "daemonset" /\ \E r : pass' = AfterManifest(r)
      BY <2>1 DEF DaemonSetDisabled, DaemonSetNoSpec, DaemonSetGetFails, AtManifest
    <3> QED BY <1>6, <3>1
  <2>2. CASE DaemonSetCreate
    <3>1. Wanted /\ \E r : pass' = [pass EXCEPT !.pc = "ready", !.result = r]
      BY <2>2 DEF DaemonSetCreate
    <3> QED BY <1>9, <3>1
  <2>3. CASE DaemonSetUpdate \/ DaemonSetSkip
    <3>1. /\ pass.pc = "daemonset" /\ Wanted
          /\ pass' = [pass EXCEPT !.pc = "ready"] \/ pass' = AfterManifest(NotReady)
      BY <2>3 DEF DaemonSetUpdate, DaemonSetSkip, AtManifest
    <3>2. pass' = AfterManifest(NotReady) => PlaceMeant' BY <1>6, <3>1
    <3> QED BY <1>9, <3>1, <3>2
  <2>4. CASE DaemonSetReadiness BY <1>6, <2>4 DEF DaemonSetReadiness
  <2>5. CASE RuntimeClassDisabled \/ RuntimeClassGetFails \/ RuntimeClassCreate \/ RuntimeClassUpdate
    <3>1. (\E r : pass' = AfterRuntimeClass(r)) \/ pass' = [pass EXCEPT !.pc = "failed"]
      BY <2>5 DEF RuntimeClassDisabled, RuntimeClassGetFails, RuntimeClassCreate,
                  RuntimeClassUpdate
    <3> QED BY <1>7, <1>8, <3>1
  <2>6. CASE FinishNotReady \/ FinishReady \/ FinishFailed
    BY <1>3, <2>6 DEF FinishNotReady, FinishReady, FinishFailed
  <2> QED BY <1>5, <1>11, <2>1, <2>2, <2>3, <2>4, <2>5, <2>6, PassCases
<1>12. CASE ~Reconcile BY <1>2, <1>3, <1>12, OthersStep DEF Next, Restart
<1> QED BY <1>10, <1>11, <1>12
-----------------------------------------------------------------------------
(* The pass works from the latest version of its policy, or another pass   *)
(* will follow.                                                            *)

(* A fresh pass has what is stored, if nothing is on its way to the cache. *)
LEMMA InstanceCurrentNext ==
    ASSUME TypeOK, TypeOK', InstanceCurrent, [Next]_vars
    PROVE  InstanceCurrent'
<1> SUFFICES ASSUME pass'.pc # "idle", ~Notified(pass.req)', NEW n \in Names, n = pass'.req
             PROVE  pass'.instance = Stored(cps'[n]) /\ Exists(cps'[n])
  <2>1. pass'.pc # "idle" => pass'.req \in Names BY DEF TypeOK, InRange
  <2> QED BY <2>1 DEF InstanceCurrent, Stored, Exists
<1>1. ~Restart BY DEF Restart, Idle
<1>2. ~Notified(n)' BY DEF Notified
<1>3. cps'[n] = cps[n] /\ Len(cps[n]) = 1 BY <1>1, <1>2, NotNotified
<1>4. ASSUME pass.req = n, pass.instance = pass'.instance, pass.pc # "idle", queue \subseteq queue'
      PROVE  pass'.instance = Stored(cps'[n]) /\ Exists(cps'[n])
  <2>1. ~Notified(n)
    <3>1. n \notin queue BY <1>2, <1>4 DEF Notified
    <3>2. ~(Len(cps[n]) > 1) BY <1>3
    <3> QED BY <3>1, <3>2 DEF Notified
  <2> QED BY <1>3, <1>4, <2>1 DEF InstanceCurrent
<1>5. CASE Reconcile /\ pass.pc = "idle"
  <2>1. PICK m \in Names :
           \/ ReconcileGetFails(m) \/ ReconcileNotFound(m) \/ ReconcileIgnore(m)
           \/ ReconcileInitFails(m) \/ ReconcileBegin(m)
    BY <1>5, IdleCases
  <2>2. ReconcileBegin(m)
    BY <1>5, <2>1 DEF ReconcileGetFails, ReconcileNotFound, ReconcileIgnore, ReconcileInitFails
  <2>3. n = m /\ pass'.instance = Cached(cps[n]) BY <2>2, BeginFields
  <2>4. Cached(cps[n]) # Absent BY <2>2, <2>3 DEF ReconcileBegin
  <2>5. Stored(cps[n]) = Cached(cps[n]) BY <1>3 DEF Stored, Cached
  <2> QED BY <1>3, <2>3, <2>4, <2>5 DEF Exists
<1>6. CASE Reconcile /\ pass.pc # "idle"
  <2>1. pass' # Idle BY DEF Idle
  <2>2. pass.req = n /\ pass.instance = pass'.instance BY <1>6, <2>1, RequestKept
  <2> QED BY <1>4, <1>6, <2>2, PassStep
<1>7. CASE Cluster \/ Environment \/ UNCHANGED vars
  <2>1. pass' = pass /\ queue \subseteq queue' BY <1>1, <1>7, OthersStep, OthersPolicyStep
  <2> QED BY <1>4, <2>1
<1> QED BY <1>5, <1>6, <1>7 DEF Next

(* What a pass reads, it reads of the main policy's latest version.        *)
LEMMA PassReadsMain ==
    ASSUME TypeOK, PassServesMain, InstanceCurrent, pass.pc # "idle", ~Notified(Main)
    PROVE  /\ Main \in Names /\ MainExists
           /\ pass.instance = Stored(cps[Main]) /\ pass.instance.spec = MainSpec
           /\ Owner = MainOwner
           /\ Enabled <=> IsStateEnabled(StateNames[pass.idx], MainSpec)
           /\ Content = PreProcessDaemonSet(Manifest, MainSpec, ctl.runtime)
<1>1. pass.req = Main /\ pass.req \in Names BY DEF PassServesMain, TypeOK, InRange
<1>2. pass.instance = Stored(cps[Main]) /\ Exists(cps[Main])
  BY <1>1 DEF InstanceCurrent
<1> QED BY <1>1, <1>2, ControllerAssumption
        DEF MainExists, MainSpec, MainOwner, Owner, Enabled, Content

(* While nobody notifies the main policy it stays as it is.                *)
LEMMA MainSteady ==
    ASSUME TypeOK, TypeOK', [Next]_vars, ~Restart, ~(Reconcile /\ pass.pc = "idle"),
           Main \in Names, ~Notified(Main)'
    PROVE  /\ ctl' = ctl /\ Main' = Main /\ Main \notin queue'
           /\ cps'[Main] = cps[Main] /\ Len(cps[Main]) = 1
           /\ MainSpec' = MainSpec /\ MainOwner' = MainOwner /\ (MainExists' <=> MainExists)
           /\ ~Notified(Main) /\ (~Due(Main)' => ~Due(Main))
<1>1. ctl' = ctl BY RequestKept, OthersStep DEF Next
<1>2. Main' = Main BY <1>1 DEF Main
<1>3. PICK n \in Names : n = Main OBVIOUS
<1>4. ~Notified(n)' BY <1>2, <1>3 DEF Notified
<1>5. cps'[n] = cps[n] /\ Len(cps[n]) = 1 BY <1>4, NotNotified
<1>6. queue \subseteq queue' /\ delayed \subseteq delayed' \cup queue'
  BY PassStep, OthersPolicyStep DEF Next
<1>7. n \notin queue' BY <1>4 DEF Notified
<1>8. ~Notified(n) /\ (n \notin delayed' => n \notin delayed)
  <2>1. ~(Len(cps[n]) > 1) BY <1>5
  <2> QED BY <1>6, <1>7, <2>1 DEF Notified
<1>9. MainSpec' = MainSpec /\ MainOwner' = MainOwner /\ (MainExists' <=> MainExists)
  BY <1>2, <1>3, <1>5, Zenon DEF MainSpec, MainOwner, MainExists, Exists, Stored
<1> QED BY <1>1, <1>2, <1>3, <1>5, <1>7, <1>8, <1>9 DEF Due

(* A request that went through had its effect.                             *)
LEMMA OutcomeOk ==
    ASSUME NEW verb, NEW accepted \in BOOLEAN, NEW old, NEW new,
           NEW o \in Outcomes(verb, accepted, old, new)
    PROVE  /\ o.ok => accepted /\ o.hist = new
           /\ verb \notin Faulty /\ accepted => o.ok
<1> DEFINE result == IF accepted THEN new ELSE old
<1>1. \/ o = [ok |-> accepted, hist |-> result, fault |-> 0]
      \/ verb \in Faulty /\ o \in [ok : {FALSE}, hist : {old, result}, fault : {1}]
  BY DEF Outcomes
<1>2. accepted => result = new OBVIOUS
<1> HIDE DEF result
<1>3. CASE o = [ok |-> accepted, hist |-> result, fault |-> 0] BY <1>2, <1>3
<1>4. CASE verb \in Faulty /\ o \in [ok : {FALSE}, hist : {old, result}, fault : {1}]
  <2>1. o.ok = FALSE BY <1>4, Zenon
  <2> QED BY <1>4, <2>1
<1> QED BY <1>1, <1>3, <1>4
-----------------------------------------------------------------------------
(* What the pass is about to check the readiness of.                       *)

(* The create went through: the cache will hear of it.                     *)
LEMMA CreateSeen ==
    ASSUME TypeOK, TypeOK', pass.req = Main, DaemonSetCreate, pass'.result # NotReady
    PROVE  EventDue(ds'[Manifest], Main)
<1> DEFINE h == ds[Manifest]
           v == [owner |-> Owner, content |-> Content, observed |-> FALSE,
                 unavailable |-> FALSE]
<1>1. pass \in Passes /\ InRange(pass) /\ pass.pc = "daemonset" /\ ctl \in Controllers
  BY DEF TypeOK, DaemonSetCreate, AtManifest
<1>2. Manifest \in DaemonSets BY <1>1, ManifestType
<1>3. h \in Histories(Deployed) BY <1>2 DEF TypeOK
<1>4. Owner \in Owners /\ Owner.name = Main BY <1>1, OwnerType
<1>5. Content \in Contents BY <1>1, ContentType DEF DaemonSetCreate, Wanted
<1>6. v \in Deployed /\ v.owner = Owner /\ OwnedBy(v, Main)
  <2>1. v \in Deployed BY <1>4, <1>5 DEF Deployed
  <2>2. v # Absent BY <2>1, AbsentAssumption
  <2> QED BY <1>4, <2>1, <2>2 DEF OwnedBy
<1>7. PICK o \in Outcomes("create", ~Exists(h), h, Append(h, v)) :
         /\ ds' = [ds EXCEPT ![Manifest] = o.hist]
         /\ pass' = [pass EXCEPT !.pc = "ready", !.result = IF o.ok THEN @ ELSE NotReady]
  BY DEF DaemonSetCreate
<1> HIDE DEF h, v
<1>8. pass'.result = IF o.ok THEN pass.result ELSE NotReady BY <1>1, <1>7, Zenon DEF Passes
<1>9. o.ok BY <1>8
<1>10. o.hist = Append(h, v) BY <1>9, OutcomeOk DEF Exists
<1>11. ds'[Manifest] = Append(h, v) BY <1>2, <1>7, <1>10 DEF TypeOK
<1> QED BY <1>3, <1>6, <1>11, OwnWriteDue

(* The update went through: the cache will hear of it, or it has yet to    *)
(* hear that somebody else wrote the very same.                            *)
LEMMA UpdateSeen ==
    ASSUME TypeOK, pass.req = Main, DaemonSetUpdate, pass'.pc = "ready"
    PROVE  EventDue(ds'[Manifest], Main)
<1> DEFINE h == ds[Manifest]
           v == [Stored(h) EXCEPT !.owner = Owner, !.content = Content,
                    !.observed = @ /\ Stored(h).content = Content]
<1>1. pass \in Passes /\ InRange(pass) /\ pass.pc = "daemonset" /\ ctl \in Controllers
  BY DEF TypeOK, DaemonSetUpdate, AtManifest
<1>2. Manifest \in DaemonSets BY <1>1, ManifestType
<1>3. h \in Histories(Deployed) BY <1>2 DEF TypeOK
<1>4. Owner \in Owners /\ Owner.name = Main BY <1>1, OwnerType
<1>5. Content \in Contents BY <1>1, ContentType DEF DaemonSetUpdate, Wanted
<1>6. PICK o \in Outcomes("update", Exists(h), h, Store(h, v)) :
         /\ ds' = [ds EXCEPT ![Manifest] = o.hist]
         /\ pass' = IF o.ok THEN [pass EXCEPT !.pc = "ready"] ELSE AfterManifest(NotReady)
  BY DEF DaemonSetUpdate
<1>7. o.ok
  <2>1. AfterManifest(NotReady).pc # "ready" BY <1>1, AfterManifestFields
  <2> QED BY <1>6, <2>1
<1>8. ASSUME Exists(h)
      PROVE  v \in Deployed /\ v.owner = Owner /\ v.content = Content /\ OwnedBy(v, Main)
  <2>1. Stored(h) \in Deployed BY <1>3, <1>8, EndsType DEF Exists
  <2>2. v \in Deployed /\ v.owner = Owner /\ v.content = Content
    BY <1>4, <1>5, <2>1, Zenon DEF Deployed
  <2>3. v # Absent BY <2>2, AbsentAssumption
  <2> QED BY <1>4, <2>2, <2>3 DEF OwnedBy
<1>9. Cached(h).owner # Owner \/ Cached(h).content # Content
  BY DEF DaemonSetUpdate, IsDaemonsetSpecChanged
<1> HIDE DEF h, v
<1>10. Exists(h) /\ o.hist = Store(h, v) BY <1>7, OutcomeOk DEF Exists
<1>11. ds'[Manifest] = Store(h, v) BY <1>2, <1>6, <1>10 DEF TypeOK
<1>12. CASE v = Stored(h)
  <2>1. Len(h) \in Nat \ {0} /\ h[Len(h)] = v BY <1>3, <1>12, EndsType DEF Stored
  <2>2. Cached(h) # v BY <1>8, <1>9, <1>10
  <2>3. Len(h) > 1 BY <2>1, <2>2 DEF Cached
  <2>4. EventDue(h, Main) BY <1>8, <1>10, <2>1, <2>3 DEF EventDue
  <2> QED BY <1>11, <1>12, <2>4 DEF Store
<1>13. CASE v # Stored(h)
  <2>1. ds'[Manifest] = Append(h, v) BY <1>11, <1>13 DEF Store
  <2> QED BY <1>3, <1>8, <1>10, <2>1, OwnWriteDue
<1> QED BY <1>12, <1>13

(* Only these three steps lead to a readiness check.                       *)
LEMMA ReadyCases ==
    ASSUME TypeOK, [Next]_vars, pass'.pc = "ready"
    PROVE  \/ DaemonSetCreate \/ DaemonSetUpdate \/ DaemonSetSkip
           \/ (Cluster \/ Environment \/ UNCHANGED vars) /\ ~Restart
<1>1. pass \in Passes /\ InRange(pass) BY DEF TypeOK
<1>2. ASSUME NEW k PROVE FirstControl(k) # "ready" BY DEF FirstControl
<1>3. ~Restart BY DEF Restart, Idle
<1>4. CASE Reconcile /\ pass.pc = "idle"
  <2>1. PICK m \in Names :
           \/ ReconcileGetFails(m) \/ ReconcileNotFound(m) \/ ReconcileIgnore(m)
           \/ ReconcileInitFails(m) \/ ReconcileBegin(m)
    BY <1>4, IdleCases
  <2>2. ReconcileBegin(m)
    BY <1>4, <2>1 DEF ReconcileGetFails, ReconcileNotFound, ReconcileIgnore, ReconcileInitFails
  <2> QED BY <1>2, <2>2, BeginFields
<1>5. CASE Reconcile /\ pass.pc # "idle"
  <2>1. ASSUME NEW r, pass.pc \in {"daemonset", "ready"} PROVE AfterManifest(r).pc # "ready"
    BY <1>1, <2>1, AfterManifestFields
  <2>2. ASSUME NEW r PROVE AfterRuntimeClass(r).pc # "ready"
    BY <1>1, AfterRuntimeClassFields
  <2>3. ~(DaemonSetDisabled \/ DaemonSetNoSpec \/ DaemonSetGetFails)
    <3>1. ASSUME DaemonSetDisabled \/ DaemonSetNoSpec \/ DaemonSetGetFails
          PROVE  pass.pc = "daemonset" /\ \E r : pass' = AfterManifest(r)
      BY <3>1 DEF DaemonSetDisabled, DaemonSetNoSpec, DaemonSetGetFails, AtManifest
    <3> QED BY <2>1, <3>1
  <2>4. ~DaemonSetReadiness BY <2>1 DEF DaemonSetReadiness
  <2>5. ~(RuntimeClassDisabled \/ RuntimeClassGetFails \/ RuntimeClassCreate \/ RuntimeClassUpdate)
    <3>1. [pass EXCEPT !.pc = "failed"].pc # "ready" BY <1>1, ExceptFields
    <3> QED BY <2>2, <3>1 DEF RuntimeClassDisabled, RuntimeClassGetFails, RuntimeClassCreate,
                             RuntimeClassUpdate
  <2>6. ~StepNext BY <1>1, <1>2, StepNextFields
  <2>7. ~(FinishNotReady \/ FinishReady \/ FinishFailed)
    BY DEF FinishNotReady, FinishReady, FinishFailed, Idle
  <2> QED BY <1>5, <2>3, <2>4, <2>5, <2>6, <2>7, PassCases
<1> QED BY <1>3, <1>4, <1>5 DEF Next

(* What is about to be checked is what was asked for, as far as the cache  *)
(* knows, or the cache will hear of it.                                    *)
LEMMA ReadinessMeantNext ==
    ASSUME TypeOK, TypeOK', PassServesMain, InstanceCurrent, ReadinessMeant, [Next]_vars
    PROVE  ReadinessMeant'
<1> SUFFICES ASSUME pass'.pc = "ready", ~Notified(Main)', pass'.result # NotReady
             PROVE  SpecSeen(Manifest)'
  BY DEF ReadinessMeant
<1>1. pass \in Passes /\ InRange(pass) BY DEF TypeOK
<1>2. ~Restart BY DEF Restart, Idle
<1>3. /\ pass.pc \in {"daemonset", "ready"} /\ Manifest' = Manifest
      /\ \/ DaemonSetCreate \/ DaemonSetUpdate \/ DaemonSetSkip
         \/ pass' = pass /\ (Cluster \/ Environment \/ UNCHANGED vars)
  <2>1. CASE DaemonSetCreate
    <3>1. pass.pc = "daemonset" /\ \E r : pass' = [pass EXCEPT !.pc = "ready", !.result = r]
      BY <2>1 DEF DaemonSetCreate, AtManifest
    <3>2. pass'.idx = pass.idx /\ pass'.ds = pass.ds BY <1>1, <3>1, Zenon DEF Passes
    <3> QED BY <2>1, <3>1, <3>2 DEF Manifest
  <2>2. CASE DaemonSetUpdate \/ DaemonSetSkip
    <3>1. pass.pc = "daemonset" BY <2>2 DEF DaemonSetUpdate, DaemonSetSkip, AtManifest
    <3>2. pass' = [pass EXCEPT !.pc = "ready"] \/ pass' = AfterManifest(NotReady)
      BY <2>2 DEF DaemonSetUpdate, DaemonSetSkip
    <3>3. AfterManifest(NotReady).pc # "ready" BY <1>1, <3>1, AfterManifestFields
    <3>4. pass' = [pass EXCEPT !.pc = "ready"] BY <3>2, <3>3
    <3>5. pass'.idx = pass.idx /\ pass'.ds = pass.ds BY <1>1, <3>4, Zenon DEF Passes
    <3> QED BY <2>2, <3>1, <3>5 DEF Manifest
  <2>3. CASE pass' = pass /\ (Cluster \/ Environment \/ UNCHANGED vars)
    BY <2>3 DEF Manifest
  <2> QED BY <1>2, <2>1, <2>2, <2>3, ReadyCases, OthersStep
<1>4. Manifest \in DaemonSets BY <1>1, <1>3, ManifestType
<1>5. pass.req = Main /\ Main \in Names BY <1>1, <1>3 DEF PassServesMain, InRange
<1>6. /\ ctl' = ctl /\ Main' = Main /\ Main \notin queue' /\ cps'[Main] = cps[Main]
      /\ MainSpec' = MainSpec /\ MainOwner' = MainOwner /\ ~Notified(Main)
  BY <1>2, <1>3, <1>5, MainSteady
<1>7. CASE DaemonSetCreate
  <2>1. EventDue(ds'[Manifest], Main) BY <1>5, <1>7, CreateSeen
  <2> QED BY <1>3, <1>6, <2>1 DEF SpecSeen, EventDue
<1>8. CASE DaemonSetUpdate
  <2>1. EventDue(ds'[Manifest], Main) BY <1>5, <1>8, UpdateSeen
  <2> QED BY <1>3, <1>6, <2>1 DEF SpecSeen, EventDue
<1>9. CASE DaemonSetSkip
  <2>1. Owner = MainOwner /\ Content = PreProcessDaemonSet(Manifest, MainSpec, ctl.runtime)
    BY <1>3, <1>6, PassReadsMain
  <2>2. /\ Cached(ds[Manifest]) # Absent /\ Cached(ds[Manifest]).owner = Owner
        /\ Cached(ds[Manifest]).content = Content
    BY <1>9 DEF DaemonSetSkip, IsDaemonsetSpecChanged
  <2>3. SpecSeen(Manifest) BY <2>1, <2>2 DEF SpecSeen, Matches
  <2>4. PICK d \in DaemonSets : d = Manifest BY <1>4
  <2>5. SpecSeen(d)' BY <1>2, <1>6, <2>3, <2>4, GoodKept
  <2>6. d = Manifest' BY <1>3, <2>4
  <2> QED BY <2>5, <2>6, Zenon DEF SpecSeen, Matches
<1>10. CASE pass' = pass /\ (Cluster \/ Environment \/ UNCHANGED vars)
  <2>1. SpecSeen(Manifest) BY <1>6, <1>10 DEF ReadinessMeant
  <2>2. PICK d \in DaemonSets : d = Manifest BY <1>4
  <2>3. SpecSeen(d)' BY <1>2, <1>6, <2>1, <2>2, GoodKept
  <2>4. d = Manifest' BY <1>3, <2>2
  <2> QED BY <2>3, <2>4, Zenon DEF SpecSeen, Matches
<1> QED BY <1>3, <1>7, <1>8, <1>9, <1>10
-----------------------------------------------------------------------------
(* How a pass gets past a manifest without a failure.                      *)

(* A manifest that is dealt with counts with its result.                   *)
LEMMA AfterManifestProgress ==
    ASSUME TypeOK, pass.pc \in {"daemonset", "ready"}, NEW r, pass' = AfterManifest(r),
           NEW k \in 1..3, NEW j \in 1..Len(Manifests(k)), Passed(k, j)', ~Failed(k)'
    PROVE  \/ k < pass.idx /\ Passed(k, j) /\ ~Failed(k)
           \/ k = pass.idx /\ r # NotReady /\ j <= pass.ds
<1>1. pass \in Passes /\ InRange(pass) BY DEF TypeOK
<1>2. pass.idx \in 1..3 /\ pass.ds \in Nat BY <1>1 DEF Passes
<1>3. Len(Manifests(k)) \in Nat BY ManifestsType
<1>4. /\ pass'.idx = pass.idx /\ pass'.overall = pass.overall
      /\ \/ pass'.pc = "daemonset" /\ pass'.result = r /\ pass'.ds = pass.ds + 1
         \/ /\ pass'.pc \in {"runtimeclass", "stepped"}
            /\ pass'.step = Combine(pass.step, r)
            /\ Len(Manifests(pass.idx)) = pass.ds
  BY <1>1, AfterManifestFields
<1>5. pass'.pc # "idle" BY <1>4
<1>6. CASE k < pass.idx BY <1>2, <1>4, <1>5, <1>6 DEF Passed, Failed
<1>7. CASE k = pass.idx
  <2>1. NotReady # Ready BY DEF NotReady, Ready
  <2>2. CASE pass'.pc = "daemonset" /\ pass'.result = r /\ pass'.ds = pass.ds + 1
    BY <1>2, <1>3, <1>4, <1>7, <2>2 DEF Passed, Failed
  <2>3. CASE /\ pass'.pc \in {"runtimeclass", "stepped"}
             /\ pass'.step = Combine(pass.step, r) /\ Len(Manifests(pass.idx)) = pass.ds
    BY <1>2, <1>3, <1>4, <1>7, <2>1, <2>3 DEF Failed, Combine
  <2> QED BY <1>4, <2>2, <2>3
<1>8. CASE k > pass.idx BY <1>2, <1>4, <1>5, <1>8 DEF Passed
<1> QED BY <1>2, <1>6, <1>7, <1>8

(* A step within a manifest passes nothing.                                *)
LEMMA WithinManifest ==
    ASSUME TypeOK, pass.pc = "daemonset", pass'.pc = "ready", pass'.idx = pass.idx,
           pass'.ds = pass.ds, pass'.overall = pass.overall,
           pass'.result \in {pass.result, NotReady},
           NEW k, NEW j, Passed(k, j)', ~Failed(k)'
    PROVE  Passed(k, j) /\ ~Failed(k)
<1>1. Passed(k, j) BY DEF Passed
<1>2. ~Failed(k) BY DEF Failed
<1> QED BY <1>1, <1>2

(* What a pass has passed without a failure after a step, it had passed    *)
(* before, or the state is disabled, or no entry of the policy fits the    *)
(* manifest, or its DaemonSet was found ready.                             *)
LEMMA Progress ==
    ASSUME TypeOK, Reconcile, pass.pc # "idle", ~FinishNotReady, ~FinishFailed,
           NEW k \in 1..3, NEW j \in 1..Len(Manifests(k)), Passed(k, j)', ~Failed(k)'
    PROVE  \/ Passed(k, j) /\ ~Failed(k)
           \/ k = pass.idx /\ ~Enabled
           \/ /\ k = pass.idx /\ j = pass.ds /\ pass.pc = "daemonset"
              /\ ~HasSpec(Manifest, pass.instance.spec)
           \/ /\ k = pass.idx /\ j = pass.ds /\ pass.pc = "ready" /\ pass.result # NotReady
              /\ IsDaemonSetReady(ds[Manifest])
<1>1. pass \in Passes /\ InRange(pass) BY DEF TypeOK
<1>2. pass.idx \in 1..3 /\ pass.ds \in Nat /\ pass.overall \in {Ready, NotReady}
  BY <1>1 DEF Passes
<1>3. Len(Manifests(k)) \in Nat BY ManifestsType
<1>4. Ready # NotReady /\ Ignored # NotReady BY DEF Ready, NotReady, Ignored
<1>5. CASE DaemonSetDisabled
  <2>1. pass.pc = "daemonset" /\ ~Enabled /\ \E r : pass' = AfterManifest(r)
    BY <1>5 DEF DaemonSetDisabled, AtManifest
  <2> QED BY <2>1, AfterManifestProgress
<1>6. CASE DaemonSetNoSpec
  <2>1. PICK r : pass' = AfterManifest(IgnoredUnless(r)) /\ r \in {pass.result, NotReady}
    BY <1>6 DEF DaemonSetNoSpec
  <2>2. pass.pc = "daemonset" /\ ~HasSpec(Manifest, pass.instance.spec)
    BY <1>6 DEF DaemonSetNoSpec, AtManifest
  <2>3. \/ k < pass.idx /\ Passed(k, j) /\ ~Failed(k)
        \/ k = pass.idx /\ IgnoredUnless(r) # NotReady /\ j <= pass.ds
    BY <2>1, <2>2, AfterManifestProgress
  <2>4. IgnoredUnless(r) # NotReady => pass.result # NotReady
    BY <1>4, <2>1 DEF IgnoredUnless
  <2> QED BY <1>2, <2>2, <2>3, <2>4 DEF Passed, Failed
<1>7. CASE DaemonSetGetFails
  <2>1. pass.pc = "daemonset" /\ pass' = AfterManifest(NotReady)
    BY <1>7 DEF DaemonSetGetFails, AtManifest
  <2> QED BY <2>1, AfterManifestProgress
<1>8. CASE DaemonSetCreate
  <2>1. pass.pc = "daemonset" /\ \E r \in {pass.result, NotReady} :
           pass' = [pass EXCEPT !.pc = "ready", !.result = r]
    BY <1>8 DEF DaemonSetCreate, AtManifest
  <2>2. /\ pass'.pc = "ready" /\ pass'.idx = pass.idx /\ pass'.ds = pass.ds
        /\ pass'.overall = pass.overall /\ pass'.result \in {pass.result, NotReady}
    BY <1>1, <2>1, Zenon DEF Passes
  <2> QED BY <2>1, <2>2, WithinManifest
<1>9. CASE DaemonSetUpdate \/ DaemonSetSkip
  <2>1. pass.pc = "daemonset" BY <1>9 DEF DaemonSetUpdate, DaemonSetSkip, AtManifest
  <2>2. pass' = [pass EXCEPT !.pc = "ready"] \/ pass' = AfterManifest(NotReady)
    BY <1>9 DEF DaemonSetUpdate, DaemonSetSkip
  <2>3. CASE pass' = AfterManifest(NotReady) BY <2>1, <2>3, AfterManifestProgress
  <2>4. CASE pass' = [pass EXCEPT !.pc = "ready"]
    <3>1. /\ pass'.pc = "ready" /\ pass'.idx = pass.idx /\ pass'.ds = pass.ds
          /\ pass'.overall = pass.overall /\ pass'.result \in {pass.result, NotReady}
      BY <1>1, <2>4, Zenon DEF Passes
    <3> QED BY <2>1, <3>1, WithinManifest
  <2> QED BY <2>2, <2>3, <2>4
<1>10. CASE DaemonSetReadiness
  <2>1. pass.pc = "ready" BY <1>10 DEF DaemonSetReadiness
  <2>2. \/ pass' = AfterManifest(NotReady)
        \/ pass' = AfterManifest(pass.result) /\ IsDaemonSetReady(ds[Manifest])
    BY <1>10 DEF DaemonSetReadiness
  <2>3. CASE pass' = AfterManifest(NotReady) BY <2>1, <2>3, AfterManifestProgress
  <2>4. CASE pass' = AfterManifest(pass.result) /\ IsDaemonSetReady(ds[Manifest])
    <3>1. \/ k < pass.idx /\ Passed(k, j) /\ ~Failed(k)
          \/ k = pass.idx /\ pass.result # NotReady /\ j <= pass.ds
      BY <2>1, <2>4, AfterManifestProgress
    <3> QED BY <1>2, <2>1, <2>4, <3>1 DEF Passed, Failed
  <2> QED BY <2>2, <2>3, <2>4
<1>11. CASE RuntimeClassDisabled \/ RuntimeClassGetFails \/ RuntimeClassCreate \/ RuntimeClassUpdate
  <2>1. pass.pc = "runtimeclass"
    BY <1>11 DEF AtRuntimeClass, RuntimeClassDisabled, RuntimeClassGetFails,
                 RuntimeClassCreate, RuntimeClassUpdate
  <2>2. \/ (\E r : pass' = AfterRuntimeClass(r)) /\ ~Enabled
        \/ pass' = AfterRuntimeClass(Ready)
        \/ pass' = [pass EXCEPT !.pc = "failed"]
    BY <1>11 DEF RuntimeClassDisabled, RuntimeClassGetFails, RuntimeClassCreate,
                 RuntimeClassUpdate
  <2>3. CASE pass' = [pass EXCEPT !.pc = "failed"]
    <3>1. pass'.pc = "failed" /\ pass'.idx = pass.idx /\ pass'.overall = pass.overall
      BY <1>1, <2>3, Zenon DEF Passes
    <3> QED BY <1>2, <3>1 DEF Passed, Failed
  <2>4. CASE \E r : pass' = AfterRuntimeClass(r) /\ (~Enabled \/ r = Ready)
    <3>1. PICK r : pass' = AfterRuntimeClass(r) /\ (~Enabled \/ r = Ready) BY <2>4
    <3>2. /\ pass'.idx = pass.idx /\ pass'.pc = "stepped" /\ pass'.overall = pass.overall
          /\ pass'.step = Combine(pass.step, r)
      BY <1>1, <3>1, AfterRuntimeClassFields
    <3>3. r = Ready => Combine(pass.step, r) = pass.step BY DEF Combine
    <3> QED BY <1>2, <2>1, <3>1, <3>2, <3>3 DEF Passed, Failed
  <2> QED BY <2>2, <2>3, <2>4
<1>12. CASE StepNext
  <2>1. /\ pass'.pc = FirstControl(pass.idx + 1) /\ pass'.idx = pass.idx + 1
        /\ pass'.ds = 1 /\ pass'.overall = Overall
    BY <1>1, <1>12, StepNextFields
  <2>2. pass.pc = "stepped" BY <1>12 DEF StepNext
  <2>3. k # pass.idx + 1
    <3>1. CASE FirstControl(pass.idx + 1) = "daemonset"
      BY <1>2, <1>3, <2>1, <3>1 DEF Passed
    <3>2. CASE Manifests(pass.idx + 1) = <<>> BY <3>2
    <3> QED BY <3>1, <3>2 DEF FirstControl
  <2>4. pass'.pc # "idle" BY <2>1 DEF FirstControl
  <2>5. k < pass.idx + 1 BY <1>2, <2>1, <2>3, <2>4 DEF Passed
  <2>6. Overall # NotReady BY <1>2, <2>1, <2>4, <2>5 DEF Failed
  <2>7. pass.step # NotReady /\ pass.overall # NotReady BY <2>6 DEF Overall
  <2> QED BY <1>2, <2>2, <2>5, <2>7 DEF Passed, Failed
<1>13. CASE FinishReady
  <2>1. pass.pc = "stepped" /\ pass.idx = 3 /\ Overall = Ready
    BY <1>13 DEF FinishReady, Last, StateNames
  <2>2. pass.step # NotReady /\ pass.overall # NotReady BY <1>4, <2>1 DEF Overall
  <2> QED BY <2>1, <2>2 DEF Passed, Failed
<1> QED BY <1>5, <1>6, <1>7, <1>8, <1>9, <1>10, <1>11, <1>12, <1>13, PassCases
-----------------------------------------------------------------------------
(* All that a pass has passed without a failure is deployed.               *)

(* A step of the pass keeps it so, unless the pass ends with a retry.      *)
LEMMA FulfilledPass ==
    ASSUME TypeOK, TypeOK', PassServesMain, InstanceCurrent, ReadinessMeant, Reconcile,
           pass.pc # "idle", ~FinishNotReady, ~FinishFailed, ~Notified(Main)', Fulfilled
    PROVE  Fulfilled'
<1> SUFFICES ASSUME NEW k \in 1..3, NEW j \in 1..Len(Manifests(k)),
                    Passed(k, j)', ~Failed(k)', MainWants(k, Manifests(k)[j])'
             PROVE  Good(Manifests(k)[j])'
  BY DEF Fulfilled
<1> DEFINE d == Manifests(k)[j]
<1>1. pass.req = Main /\ Main \in Names BY DEF PassServesMain, TypeOK, InRange
<1>2. ~Restart
  <2>1. ctl' = ctl BY RequestKept
  <2>2. Restart => ctl'.singleton = Absent
    <3>1. Fresh.singleton = Absent BY DEF Fresh
    <3> QED BY <3>1 DEF Restart
  <2> QED BY <1>1, <2>1, <2>2, ControllerAssumption DEF Main
<1>3. [Next]_vars BY DEF Next
<1>4. /\ ctl' = ctl /\ Main \notin queue' /\ cps'[Main] = cps[Main]
      /\ MainSpec' = MainSpec /\ MainOwner' = MainOwner /\ ~Notified(Main)
  BY <1>1, <1>2, <1>3, MainSteady
<1>5. /\ pass.instance.spec = MainSpec
      /\ Enabled <=> IsStateEnabled(StateNames[pass.idx], MainSpec)
  BY <1>4, PassReadsMain
<1>6. MainWants(k, d) BY <1>4 DEF MainWants
<1>7. d \in DaemonSets BY ManifestsType
<1>8. Good(d)
  <2>1. CASE Passed(k, j) /\ ~Failed(k) BY <1>6, <2>1 DEF Fulfilled
  <2>2. CASE k = pass.idx /\ ~Enabled BY <1>5, <1>6, <2>2 DEF MainWants
  <2>3. CASE /\ k = pass.idx /\ j = pass.ds /\ pass.pc = "daemonset"
             /\ ~HasSpec(Manifest, pass.instance.spec)
    BY <1>5, <1>6, <2>3 DEF MainWants, Manifest
  <2>4. CASE /\ k = pass.idx /\ j = pass.ds /\ pass.pc = "ready" /\ pass.result # NotReady
             /\ IsDaemonSetReady(ds[Manifest])
    <3>1. d = Manifest BY <2>4 DEF Manifest
    <3>2. SpecSeen(d) BY <1>4, <2>4, <3>1 DEF ReadinessMeant
    <3> QED BY <2>4, <3>1, <3>2 DEF SpecSeen, Good, IsDaemonSetReady
  <2> QED BY <2>1, <2>2, <2>3, <2>4, Progress
<1> QED BY <1>2, <1>3, <1>4, <1>7, <1>8, GoodKept

(* Nobody else can undo it without an event for the main policy.           *)
LEMMA FulfilledOthers ==
    ASSUME TypeOK, TypeOK', [Next]_vars, ~Reconcile, ~Restart, Main \in Names,
           ~Notified(Main)', Fulfilled
    PROVE  Fulfilled'
<1> SUFFICES ASSUME NEW k \in 1..3, NEW j \in 1..Len(Manifests(k)),
                    Passed(k, j)', ~Failed(k)', MainWants(k, Manifests(k)[j])'
             PROVE  Good(Manifests(k)[j])'
  BY DEF Fulfilled
<1> DEFINE d == Manifests(k)[j]
<1>1. pass' = pass BY OthersStep DEF Next
<1>2. /\ ctl' = ctl /\ Main \notin queue' /\ cps'[Main] = cps[Main] /\ MainSpec' = MainSpec
  BY MainSteady
<1>3. Passed(k, j) /\ ~Failed(k) BY <1>1 DEF Passed, Failed
<1>4. MainWants(k, d) BY <1>2 DEF MainWants
<1>5. d \in DaemonSets BY ManifestsType
<1>6. Good(d) BY <1>3, <1>4 DEF Fulfilled
<1> QED BY <1>2, <1>5, <1>6, GoodKept

(* The worker takes up a request: it starts a pass for the main policy, or *)
(* will try again, or leaves the main policy alone.                        *)
LEMMA IdleStep ==
    ASSUME TypeOK, TypeOK', Reconcile, pass.pc = "idle", MainExists', ~Notified(Main)'
    PROVE  \/ ReconcileBegin(Main')
           \/ Main' \in delayed' /\ (ReconcileGetFails(Main') \/ ReconcileInitFails(Main'))
           \/ /\ UNCHANGED <<cps, ds, rc, ctl, pass>>
              /\ Main \notin queue /\ delayed \subseteq delayed' /\ Main \in Names
              /\ UNCHANGED used \/ ReadFails("get")
<1>1. PICK n \in Names :
         \/ ReconcileGetFails(n) \/ ReconcileNotFound(n) \/ ReconcileIgnore(n)
         \/ ReconcileInitFails(n) \/ ReconcileBegin(n)
  BY IdleCases
<1>2. cps' = cps /\ ds' = ds /\ rc' = rc /\ queue' = queue \ {n}
  BY <1>1 DEF ReconcileGetFails, ReconcileNotFound, ReconcileIgnore, ReconcileInitFails,
              ReconcileBegin, Dequeue
<1>3. Main' \in Names BY DEF MainExists, TypeOK, Controllers, Main
<1>4. cps[n] \in Histories(Policies) BY DEF TypeOK
<1>5. Cached(cps[n]) \in Policies \cup {Absent} BY <1>4, EndsType
<1>6. CASE ReconcileInitFails(n)
  <2>1. Cached(cps[n]).spec \in Specs BY <1>5, <1>6 DEF ReconcileInitFails, Policies
  <2>2. ctl'.singleton = n
    BY <1>6, <2>1, InitStagesType DEF TypeOK, ReconcileInitFails
  <2> QED BY <1>6, <2>2 DEF ReconcileInitFails, Requeue, Main
<1>7. CASE ReconcileBegin(n)
  <2>1. Cached(cps[n]).spec \in Specs BY <1>5, <1>7 DEF ReconcileBegin, Policies
  <2>2. ctl'.singleton = n
    BY <1>7, <2>1, InitStagesType DEF TypeOK, ReconcileBegin
  <2> QED BY <1>7, <2>2 DEF Main
<1>8. CASE ReconcileGetFails(n) \/ ReconcileNotFound(n) \/ ReconcileIgnore(n)
  <2>1. /\ ctl' = ctl /\ pass' = pass /\ delayed \subseteq delayed'
        /\ UNCHANGED used \/ ReadFails("get")
    BY <1>8 DEF ReconcileGetFails, ReconcileNotFound, ReconcileIgnore, Requeue
  <2>2. Main' = Main BY <2>1 DEF Main
  <2>3. CASE n # Main
    <3>1. Main \notin queue' BY <2>2 DEF Notified
    <3> QED BY <1>2, <1>3, <2>1, <2>2, <2>3, <3>1
  <2>4. CASE n = Main /\ ReconcileGetFails(n)
    BY <2>2, <2>4 DEF ReconcileGetFails, Requeue
  <2>5. ~(n = Main /\ ReconcileIgnore(n)) BY DEF ReconcileIgnore, IsDuplicate, Main
  <2>6. ~(n = Main /\ ReconcileNotFound(n))
    <3> SUFFICES ASSUME n = Main, ReconcileNotFound(n) PROVE FALSE OBVIOUS
    <3>1. Cached(cps[n]) = Absent BY DEF ReconcileNotFound
    <3>2. ~(Len(cps[n]) > 1) BY <1>2, <2>2 DEF Notified
    <3>3. Stored(cps[n]) = Absent BY <1>4, <3>1, <3>2, OneVersion
    <3> QED BY <1>2, <2>2, <3>3 DEF MainExists, Exists, Stored
  <2> QED BY <1>8, <2>3, <2>4, <2>5, <2>6
<1> QED BY <1>1, <1>6, <1>7, <1>8

(* A pass that has just begun has passed nothing.                          *)
LEMMA BeginPassesNothing ==
    ASSUME NEW n, ReconcileBegin(n), NEW k \in 1..3
    PROVE  /\ \A j \in 1..Len(Manifests(k)) : ~Passed(k, j)'
           /\ HasRuntimeClass(k) => ~PassedClass(k)'
<1>1. pass'.pc = FirstControl(1) /\ pass'.idx = 1 /\ pass'.ds = 1 BY BeginFields
<1>2. CASE Manifests(1) # <<>>
  BY <1>1, <1>2 DEF FirstControl, Passed, PassedClass
<1>3. CASE Manifests(1) = <<>>
  <2>1. ASSUME k = 1 PROVE 1..Len(Manifests(k)) = {} BY <1>3, <2>1
  <2>2. pass'.pc \in {"runtimeclass", "stepped"}
        /\ (HasRuntimeClass(1) => pass'.pc = "runtimeclass")
    BY <1>1, <1>3 DEF FirstControl
  <2> QED BY <1>1, <2>1, <2>2 DEF Passed, PassedClass
<1> QED BY <1>2, <1>3

(* Every step keeps DeployedInv.                                           *)
LEMMA DeployedNext ==
    ASSUME TypeOK, TypeOK', PassServesMain, InstanceCurrent, ReadinessMeant, DeployedInv,
           [Next]_vars
    PROVE  DeployedInv'
<1> SUFFICES ASSUME MainExists', ~Due(Main)' PROVE Fulfilled' BY DEF DeployedInv
<1>1. ~Notified(Main)' /\ Main' \notin delayed' BY DEF Due
<1>2. Main' # Absent /\ Main' \in Names BY DEF MainExists, TypeOK, Controllers, Main
<1>3. ~Restart
  <2>1. Fresh.singleton = Absent BY DEF Fresh
  <2> QED BY <1>2, <2>1 DEF Restart, Main
<1>4. CASE Reconcile /\ pass.pc = "idle"
  <2>1. CASE ReconcileBegin(Main') BY <2>1, BeginPassesNothing DEF Fulfilled
  <2>2. CASE /\ UNCHANGED <<cps, ds, rc, ctl, pass>>
             /\ Main \notin queue /\ delayed \subseteq delayed'
    <3>1. Main' = Main /\ (MainExists' <=> MainExists) /\ MainSpec' = MainSpec
      BY <2>2 DEF Main, MainExists, MainSpec
    <3>2. ~Due(Main) BY <1>1, <2>2, <3>1 DEF Due, Notified
    <3>3. Fulfilled BY <3>1, <3>2 DEF DeployedInv
    <3> QED BY <2>2, <3>3
            DEF Fulfilled, Passed, Failed, MainWants, MainSpec, Good, Matches, MainOwner, Main
  <2> QED BY <1>1, <1>4, <2>1, <2>2, IdleStep
<1>5. CASE ~(Reconcile /\ pass.pc = "idle")
  <2>1. Main \in Names
    <3>1. ctl' = ctl BY <1>3, <1>5, RequestKept, OthersStep DEF Next
    <3> QED BY <1>2, <3>1 DEF Main
  <2>2. MainExists /\ ~Due(Main) /\ Main' = Main BY <1>1, <1>3, <1>5, <2>1, MainSteady
  <2>3. Fulfilled BY <2>2 DEF DeployedInv
  <2>4. CASE Reconcile /\ pass.pc # "idle"
    <3>1. ~FinishNotReady /\ ~FinishFailed
      BY <1>1, <2>2, <2>4 DEF FinishNotReady, FinishFailed, Requeue, PassServesMain
    <3> QED BY <1>1, <2>3, <2>4, <3>1, FulfilledPass
  <2>5. CASE ~Reconcile BY <1>1, <1>3, <2>1, <2>3, <2>5, FulfilledOthers
  <2> QED BY <1>5, <2>4, <2>5
<1> QED BY <1>4, <1>5

(* The state in which nothing is left to do.                               *)
LEMMA CalmFacts ==
    ASSUME TypeOK, Calm
    PROVE  /\ pass.pc = "idle"
           /\ \A n \in Names : ~Notified(n)
           /\ \A d \in DaemonSets, n \in Names : ~EventDue(ds[d], n)
           /\ \A d \in DaemonSets : Cached(ds[d]) = Stored(ds[d])
<1>1. ASSUME NEW n \in Names PROVE ~Notified(n)
  <2>1. n \notin queue /\ Len(cps[n]) = 1 BY DEF Calm
  <2>2. ~(Len(cps[n]) > 1) BY <2>1
  <2> QED BY <2>1, <2>2 DEF Notified
<1>2. ASSUME NEW d \in DaemonSets PROVE Cached(ds[d]) = Stored(ds[d]) /\ ~(Len(ds[d]) > 1)
  <2>1. Len(ds[d]) = 1 BY DEF Calm
  <2>2. ~(Len(ds[d]) > 1) BY <2>1
  <2> QED BY <2>1, <2>2 DEF Cached, Stored
<1> QED BY <1>1, <1>2 DEF EventDue, Calm

(* DeployedInv says what it should of that state.                          *)
LEMMA DeployedQuiet == ASSUME TypeOK, DeployedInv PROVE QuietDeployed
<1> SUFFICES ASSUME MainQuiet, NEW k \in 1..3, NEW d \in ManifestsOf(k), MainWants(k, d)
             PROVE  /\ Exists(ds[d])
                    /\ Stored(ds[d]).owner = MainOwner
                    /\ Stored(ds[d]).content = PreProcessDaemonSet(d, MainSpec, ctl.runtime)
                    /\ ~Stored(ds[d]).unavailable
  BY DEF QuietDeployed
<1>1. Calm /\ delayed = {} /\ MainExists BY DEF MainQuiet, Quiet
<1>2. Main \in Names BY <1>1 DEF MainExists, TypeOK, Controllers, Main
<1>3. pass.pc = "idle" /\ ~Due(Main) BY <1>1, <1>2, CalmFacts DEF Due
<1>4. PICK j \in 1..Len(Manifests(k)) : d = Manifests(k)[j] BY DEF ManifestsOf
<1>5. d \in DaemonSets BY <1>4, ManifestsType
<1>6. Good(d)
  <2>1. Fulfilled BY <1>1, <1>3 DEF DeployedInv
  <2>2. Passed(k, j) /\ ~Failed(k) BY <1>3 DEF Passed, Failed
  <2> QED BY <1>4, <2>1, <2>2 DEF Fulfilled
<1>7. ~EventDue(ds[d], Main) /\ Cached(ds[d]) = Stored(ds[d])
  BY <1>1, <1>2, <1>5, CalmFacts
<1> QED BY <1>6, <1>7 DEF Good, Matches, Exists

(* Whatever fails, is lost or comes late, and however many policies and    *)
(* manifests there are: when the operator goes to sleep with the main      *)
(* policy in place, each DaemonSet that the policy asks for exists, is     *)
(* owned by that policy object, carries what the policy says now and has   *)
(* no unavailable pod.                                                     *)
THEOREM SleepsDeployed == Spec => []QuietDeployed
<1> DEFINE IInv == TypeOK /\ PassServesMain /\ InstanceCurrent /\ ReadinessMeant /\ DeployedInv
<1>1. Init => IInv
  <2> SUFFICES ASSUME Init PROVE IInv OBVIOUS
  <2>1. TypeOK BY TypeInit
  <2>2. pass.pc = "idle" /\ ctl.singleton = Absent BY DEF Init, Idle, Fresh
  <2> QED BY <2>1, <2>2 DEF PassServesMain, InstanceCurrent, ReadinessMeant, DeployedInv,
                            MainExists, Main
<1>2. IInv /\ [Next]_vars => IInv'
  BY TypeNext, ServesNext, InstanceCurrentNext, ReadinessMeantNext, DeployedNext
<1>3. IInv => QuietDeployed BY DeployedQuiet
<1> QED BY <1>1, <1>2, <1>3, PTL DEF Spec
==============================================================================
