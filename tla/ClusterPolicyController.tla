----------------------- MODULE ClusterPolicyController -----------------------
(***************************************************************************)
(* The reconciler of the operator (src/controllers), the API server it     *)
(* reads and writes, the informer cache it reads through, the work queue   *)
(* that drives it, and the actors that change the cluster under it: the    *)
(* user, the DaemonSet controller, the garbage collector, the nodes and    *)
(* the restart of the operator's own process.                              *)
(*                                                                         *)
(* An API object is its history: the sequence of its versions from the one *)
(* the informer cache holds (the first) to the one the API server stores   *)
(* (the last).  A write appends a version, a watch event drops the first.  *)
(* The cached resourceVersion is current exactly when one version is left. *)
(*                                                                         *)
(* A definition whose name begins with Mut is a plausible mistake in the   *)
(* definition that follows it; no specification uses one.                  *)
(***************************************************************************)
EXTENDS NodeDiscovery

CONSTANTS
    Names,      \* names of ClusterPolicy objects
    Nodes,      \* the nodes that may be in the cluster
    InitNodes,  \* the nodes in the cluster at the start
    Faulty,     \* the kinds of request that may fail: get, list, create,
                \* update, delete, status
    Bound,      \* how often each kind of outside event may happen
    MaxLag,     \* how many versions behind the garbage collector lets a
                \* watch fall before it deletes the object once more
    Absent      \* the version of an object that does not exist

Verbs == {"get", "list", "create", "update", "delete", "status"}

Moves == {"create", "edit", "remove", "drift", "classDrift", "pods", "node",
          "crash", "resync", "fault"}

ASSUME ControllerAssumption ==
    /\ InitNodes \subseteq Nodes
    /\ Faulty \subseteq Verbs
    /\ Bound \in [Moves -> Nat]
    /\ MaxLag \in Nat \ {0}
    /\ Absent \notin Names

VARIABLES
    cps,        \* history of each ClusterPolicy
    ds,         \* history of each DaemonSet
    rc,         \* history of each RuntimeClass
    nodes,      \* the nodes the operator's node informer lists
    ctl,        \* the package variable clusterPolicyCtrl
    queue,      \* requests ready to be handed to the worker
    delayed,    \* requests that a timer will put into the queue
    pass,       \* the Reconcile call in progress
    used        \* how often each kind of outside event has happened

vars == <<cps, ds, rc, nodes, ctl, queue, delayed, pass, used>>

Owners   == [name : Names, uid : Nat]
Policies == [uid : Nat, spec : Specs, status : States \cup {NoState}]

(* observed: the DaemonSet controller has acted on the present content.    *)
(* unavailable: status.numberUnavailable is not 0.                         *)
Deployed == [owner : Owners, content : Contents,
             observed : BOOLEAN, unavailable : BOOLEAN]

Histories(V) == {h \in Seq(V \cup {Absent}) : Len(h) > 0}

ASSUME AbsentAssumption ==
    Absent \notin Policies /\ Absent \notin Deployed /\ Absent \notin Owners
-----------------------------------------------------------------------------
Cached(h) == h[1]
Stored(h) == h[Len(h)]
Exists(h) == Stored(h) # Absent

(* An update that changes nothing makes no new version.                    *)
Store(h, v) == IF v = Stored(h) THEN h ELSE Append(h, v)

Spend(move) ==
    /\ used[move] < Bound[move]
    /\ used' = [used EXCEPT ![move] = @ + 1]

(* A read that fails for a reason other than "not found".                  *)
ReadFails(verb) == verb \in Faulty /\ Spend("fault")

(* A write that the API server accepts takes effect, one that it refuses   *)
(* does not; a request may also fail on the way there or on the way back.  *)
Outcomes(verb, accepted, old, new) ==
    LET result == IF accepted THEN new ELSE old
    IN  {[ok |-> accepted, hist |-> result, fault |-> 0]}
        \cup {o \in [ok : {FALSE}, hist : {old, result}, fault : {1}] :
                verb \in Faulty /\ used.fault < Bound.fault}

Charge(o) == used' = [used EXCEPT !.fault = @ + o.fault]
-----------------------------------------------------------------------------
Idle == [pc |-> "idle", req |-> Absent, instance |-> Absent, idx |-> 1,
         ds |-> 1, result |-> Ready, step |-> Ready, overall |-> Ready]

Fresh == [singleton |-> Absent, loaded |-> FALSE, runtime |-> "",
          hasNFDLabels |-> FALSE, hasFPGANodes |-> FALSE, osDists |-> {}]

Manifests(k)        == Assets[StateNames[k]].daemonsets
HasRuntimeClass(k)  == Assets[StateNames[k]].runtimeClass

(* What this pass wants, from the instance it fetched at its start.        *)
Enabled   == IsStateEnabled(StateNames[pass.idx], pass.instance.spec)
Manifest  == Manifests(pass.idx)[pass.ds]
Owner     == [name |-> pass.req, uid |-> pass.instance.uid]
Content   == PreProcessDaemonSet(Manifest, pass.instance.spec, ctl.runtime)

(* The first control function of state k that addResourceControls added.   *)
FirstControl(k) ==
    IF Manifests(k) # <<>> THEN "daemonset"
    ELSE IF HasRuntimeClass(k) THEN "runtimeclass" ELSE "stepped"

EnterState(p, k) ==
    [p EXCEPT !.pc = FirstControl(k), !.idx = k, !.ds = 1,
              !.result = Ready, !.step = Ready]

(* step: a control function that is not ready overrides the earlier ones.  *)
Combine(step, result) == IF result # Ready THEN result ELSE step

MutAfterManifestOffByOne(result) ==
    [pass EXCEPT !.pc = "daemonset", !.ds = @ + 1, !.result = result]

(* The pass after one DaemonSet has been dealt with: the next manifest, or *)
(* the end of the DaemonSet control function.                              *)
AfterManifest(result) ==
    IF pass.ds < Len(Manifests(pass.idx))
      THEN [pass EXCEPT !.pc = "daemonset", !.ds = @ + 1, !.result = result]
      ELSE [pass EXCEPT
              !.pc = IF HasRuntimeClass(pass.idx) THEN "runtimeclass" ELSE "stepped",
              !.ds = 1, !.result = Ready, !.step = Combine(@, result)]

AfterRuntimeClass(result) ==
    [pass EXCEPT !.pc = "stepped", !.step = Combine(@, result)]
-----------------------------------------------------------------------------
StatusDiffers(n, state) == Cached(cps[n]) # Absent /\ Cached(cps[n]).status # state

MutUpdateCRStateBlind(n, state) ==
    /\ StatusDiffers(n, state)
    /\ cps' = [cps EXCEPT ![n] = Append(@, [Cached(@) EXCEPT !.status = state])]
    /\ UNCHANGED used

(* updateCRState: read the policy again, write only a changed state, and   *)
(* drop the error of either: no caller looks at it.                        *)
UpdateCRState(n, state) ==
    \/ ReadFails("get") /\ UNCHANGED cps
    \/ ~StatusDiffers(n, state) /\ UNCHANGED <<cps, used>>
    \/ /\ StatusDiffers(n, state)
       /\ \E o \in Outcomes("status", Len(cps[n]) = 1, cps[n],
                        Append(cps[n], [Cached(cps[n]) EXCEPT !.status = state])) :
             /\ cps' = [cps EXCEPT ![n] = o.hist]
             /\ Charge(o)
-----------------------------------------------------------------------------
(* Reconcile, up to and including init.                                    *)

MutRequeueDropped(n) == delayed

(* An error or a RequeueAfter makes the request due again later.           *)
Requeue(n) == delayed \cup {n}

Dequeue(n) ==
    /\ pass.pc = "idle"
    /\ n \in queue
    /\ queue' = queue \ {n}
    /\ UNCHANGED <<cps, ds, rc, nodes>>

ReconcileGetFails(n) ==
    /\ Dequeue(n)
    /\ ReadFails("get")
    /\ delayed' = Requeue(n)
    /\ UNCHANGED <<ctl, pass>>

ReconcileNotFound(n) ==
    /\ Dequeue(n)
    /\ Cached(cps[n]) = Absent
    /\ UNCHANGED <<ctl, delayed, pass, used>>

MutIsDuplicateNever(n) == FALSE

IsDuplicate(n) == ctl.singleton # Absent /\ ctl.singleton # n

(* SetStatus(Ignored) changes only the copy in memory.                     *)
ReconcileIgnore(n) ==
    /\ Dequeue(n)
    /\ Cached(cps[n]) # Absent
    /\ IsDuplicate(n)
    /\ UNCHANGED <<ctl, delayed, pass, used>>

MutClaimedNot(c, n) == c

Claimed(c, n) == [c EXCEPT !.singleton = n]

(* The manifests and the container runtime are looked up once per process. *)
Loaded(c, spec) ==
    IF c.loaded THEN c
    ELSE [c EXCEPT !.loaded = TRUE, !.runtime = GetRuntime(nodes, spec)]

Counted(c) == [c EXCEPT !.hasNFDLabels = ClusterHasNFDLabels(nodes),
                        !.hasFPGANodes = HasFPGANodes(nodes)]

Surveyed(c) == [c EXCEPT !.osDists = OsDistributions(nodes)]

(* init fails at the server version or the first node list, or at one of   *)
(* the two node lists after the manifests are loaded; what it has already  *)
(* assigned stays.                                                         *)
ReconcileInitFails(n) ==
    /\ Dequeue(n)
    /\ Cached(cps[n]) # Absent
    /\ ~IsDuplicate(n)
    /\ ReadFails("list")
    /\ LET claimed == Claimed(ctl, n)
           loaded  == Loaded(claimed, Cached(cps[n]).spec)
       IN  ctl' \in {loaded, Counted(loaded)}
                      \cup {c \in {claimed} : ~ctl.loaded}
    /\ delayed' = Requeue(n)
    /\ UNCHANGED pass

ReconcileBegin(n) ==
    /\ Dequeue(n)
    /\ Cached(cps[n]) # Absent
    /\ ~IsDuplicate(n)
    /\ ctl' = Surveyed(Counted(Loaded(Claimed(ctl, n), Cached(cps[n]).spec)))
    /\ pass' = EnterState([Idle EXCEPT !.req = n, !.instance = Cached(cps[n])], 1)
    /\ UNCHANGED <<delayed, used>>
-----------------------------------------------------------------------------
(* The DaemonSet control function, one manifest at a time.                 *)

AtManifest == pass.pc = "daemonset" /\ UNCHANGED <<cps, rc, nodes, ctl, queue, delayed>>

MutDisabledKeeps ==
    /\ AtManifest
    /\ ~Enabled
    /\ pass' = AfterManifest(Disabled)
    /\ UNCHANGED <<ds, used>>

(* A delete of what is not there (NotFound) counts as done.                *)
DaemonSetDisabled ==
    /\ AtManifest
    /\ ~Enabled
    /\ \E o \in Outcomes("delete", TRUE, ds[Manifest], Store(ds[Manifest], Absent)) :
          /\ ds' = [ds EXCEPT ![Manifest] = o.hist]
          /\ Charge(o)
          /\ pass' = AfterManifest(IF o.ok THEN Disabled ELSE NotReady)

MutIgnoredAlways(result) == Ignored

(* No entry of the policy fits the manifest (NoSpecError).                 *)
IgnoredUnless(result) == IF result = Ready THEN Ignored ELSE result

MutNoSpecKeeps ==
    /\ AtManifest
    /\ Enabled
    /\ ~HasSpec(Manifest, pass.instance.spec)
    /\ pass' = AfterManifest(IgnoredUnless(pass.result))
    /\ UNCHANGED <<ds, used>>

DaemonSetNoSpec ==
    /\ AtManifest
    /\ Enabled
    /\ ~HasSpec(Manifest, pass.instance.spec)
    /\ \E o \in Outcomes("delete", TRUE, ds[Manifest], Store(ds[Manifest], Absent)) :
          /\ ds' = [ds EXCEPT ![Manifest] = o.hist]
          /\ Charge(o)
          /\ pass' = AfterManifest(IgnoredUnless(IF o.ok THEN pass.result ELSE NotReady))

Wanted == Enabled /\ HasSpec(Manifest, pass.instance.spec)

DaemonSetGetFails ==
    /\ AtManifest
    /\ Wanted
    /\ ReadFails("get")
    /\ pass' = AfterManifest(NotReady)
    /\ UNCHANGED ds

DaemonSetCreate ==
    /\ AtManifest
    /\ Wanted
    /\ Cached(ds[Manifest]) = Absent
    /\ \E o \in Outcomes("create", ~Exists(ds[Manifest]), ds[Manifest],
                  Append(ds[Manifest], [owner |-> Owner, content |-> Content,
                                        observed |-> FALSE, unavailable |-> FALSE])) :
          /\ ds' = [ds EXCEPT ![Manifest] = o.hist]
          /\ Charge(o)
          /\ pass' = [pass EXCEPT !.pc = "ready",
                                  !.result = IF o.ok THEN @ ELSE NotReady]

MutSpecChangedContentOnly(found) == found.content # Content
MutSpecChangedOwnerOnly(found)   == found.owner # Owner

(* isDaemonsetSpecChanged: the hash annotation covers the rendered         *)
(* template and the owner reference.                                       *)
IsDaemonsetSpecChanged(found) == found.owner # Owner \/ found.content # Content

(* The update carries no resourceVersion, so only a missing object refuses *)
(* it; a new content is a new generation, the status stays.                *)
DaemonSetUpdate ==
    /\ AtManifest
    /\ Wanted
    /\ Cached(ds[Manifest]) # Absent
    /\ IsDaemonsetSpecChanged(Cached(ds[Manifest]))
    /\ \E o \in Outcomes("update", Exists(ds[Manifest]), ds[Manifest],
                  Store(ds[Manifest],
                     [Stored(ds[Manifest]) EXCEPT
                         !.owner = Owner, !.content = Content,
                         !.observed = @ /\ Stored(ds[Manifest]).content = Content])) :
          /\ ds' = [ds EXCEPT ![Manifest] = o.hist]
          /\ Charge(o)
          /\ pass' = IF o.ok THEN [pass EXCEPT !.pc = "ready"]
                             ELSE AfterManifest(NotReady)

DaemonSetSkip ==
    /\ AtManifest
    /\ Wanted
    /\ Cached(ds[Manifest]) # Absent
    /\ ~IsDaemonsetSpecChanged(Cached(ds[Manifest]))
    /\ pass' = [pass EXCEPT !.pc = "ready"]
    /\ UNCHANGED <<ds, used>>

MutReadyInverted(h) == Cached(h) # Absent /\ Cached(h).unavailable

(* isDaemonSetReady looks at numberUnavailable of the cached object only.  *)
IsDaemonSetReady(h) == Cached(h) # Absent /\ ~Cached(h).unavailable

DaemonSetReadiness ==
    /\ pass.pc = "ready"
    /\ \/ /\ UNCHANGED used
          /\ pass' = AfterManifest(IF IsDaemonSetReady(ds[Manifest])
                                     THEN pass.result ELSE NotReady)
       \/ /\ ReadFails("get")
          /\ pass' = AfterManifest(NotReady)
    /\ UNCHANGED <<cps, ds, rc, nodes, ctl, queue, delayed>>
-----------------------------------------------------------------------------
(* The RuntimeClass control function.                                      *)

MutClassDefault == DefaultRuntimeClass

Class == GetRuntimeClass(pass.instance.spec)

AtRuntimeClass ==
    pass.pc = "runtimeclass" /\ UNCHANGED <<cps, ds, nodes, ctl, queue, delayed>>

RuntimeClassDisabled ==
    /\ AtRuntimeClass
    /\ ~Enabled
    /\ \E o \in Outcomes("delete", TRUE, rc[Class], Store(rc[Class], Absent)) :
          /\ rc' = [rc EXCEPT ![Class] = o.hist]
          /\ Charge(o)
          /\ pass' = AfterRuntimeClass(IF o.ok THEN Disabled ELSE NotReady)

RuntimeClassGetFails ==
    /\ AtRuntimeClass
    /\ Enabled
    /\ ReadFails("get")
    /\ pass' = [pass EXCEPT !.pc = "failed"]
    /\ UNCHANGED rc

RuntimeClassCreate ==
    /\ AtRuntimeClass
    /\ Enabled
    /\ Cached(rc[Class]) = Absent
    /\ \E o \in Outcomes("create", ~Exists(rc[Class]), rc[Class], Append(rc[Class], Owner)) :
          /\ rc' = [rc EXCEPT ![Class] = o.hist]
          /\ Charge(o)
          /\ pass' = IF o.ok THEN AfterRuntimeClass(Ready) ELSE [pass EXCEPT !.pc = "failed"]

MutRuntimeClassKeep ==
    /\ AtRuntimeClass
    /\ Enabled
    /\ Cached(rc[Class]) # Absent
    /\ pass' = AfterRuntimeClass(Ready)
    /\ UNCHANGED <<rc, used>>

(* Always an update, with the resourceVersion of the cached object.        *)
RuntimeClassUpdate ==
    /\ AtRuntimeClass
    /\ Enabled
    /\ Cached(rc[Class]) # Absent
    /\ \E o \in Outcomes("update", Len(rc[Class]) = 1, rc[Class], Store(rc[Class], Owner)) :
          /\ rc' = [rc EXCEPT ![Class] = o.hist]
          /\ Charge(o)
          /\ pass' = IF o.ok THEN AfterRuntimeClass(Ready) ELSE [pass EXCEPT !.pc = "failed"]
-----------------------------------------------------------------------------
(* The rest of the step loop of Reconcile.                                 *)

Last(idx) == idx = Len(StateNames)

MutOverallLatest == IF pass.step = NotReady THEN NotReady ELSE Ready

Overall == IF pass.step = NotReady THEN NotReady ELSE pass.overall

MutReportNothing == UNCHANGED <<cps, used>>

(* A policy that was ready before is reset at the first state that is not. *)
ReportNotReady ==
    IF pass.step = NotReady /\ pass.instance.status = Ready
      THEN UpdateCRState(pass.req, NotReady)
      ELSE UNCHANGED <<cps, used>>

StepNext ==
    /\ pass.pc = "stepped"
    /\ ~Last(pass.idx)
    /\ ReportNotReady
    /\ pass' = EnterState([pass EXCEPT !.overall = Overall], pass.idx + 1)
    /\ UNCHANGED <<ds, rc, nodes, ctl, queue, delayed>>

FinishNotReady ==
    /\ pass.pc = "stepped"
    /\ Last(pass.idx)
    /\ Overall # Ready
    /\ ReportNotReady
    /\ pass' = Idle
    /\ delayed' = Requeue(pass.req)
    /\ UNCHANGED <<ds, rc, nodes, ctl, queue>>

MutFinishReadyRequeues ==
    /\ pass.pc = "stepped"
    /\ Last(pass.idx)
    /\ Overall = Ready
    /\ UpdateCRState(pass.req, Ready)
    /\ pass' = Idle
    /\ delayed' = Requeue(pass.req)
    /\ UNCHANGED <<ds, rc, nodes, ctl, queue>>

FinishReady ==
    /\ pass.pc = "stepped"
    /\ Last(pass.idx)
    /\ Overall = Ready
    /\ UpdateCRState(pass.req, Ready)
    /\ pass' = Idle
    /\ UNCHANGED <<ds, rc, nodes, ctl, queue, delayed>>

(* A control function returned an error: a rate limited retry.             *)
FinishFailed ==
    /\ pass.pc = "failed"
    /\ UpdateCRState(pass.req, NotReady)
    /\ pass' = Idle
    /\ delayed' = Requeue(pass.req)
    /\ UNCHANGED <<ds, rc, nodes, ctl, queue>>

Reconcile ==
    \/ \E n \in Names : \/ ReconcileGetFails(n)  \/ ReconcileNotFound(n)
                        \/ ReconcileIgnore(n)    \/ ReconcileInitFails(n)
                        \/ ReconcileBegin(n)
    \/ DaemonSetDisabled \/ DaemonSetNoSpec \/ DaemonSetGetFails
    \/ DaemonSetCreate   \/ DaemonSetUpdate \/ DaemonSetSkip \/ DaemonSetReadiness
    \/ RuntimeClassDisabled \/ RuntimeClassGetFails
    \/ RuntimeClassCreate   \/ RuntimeClassUpdate
    \/ StepNext \/ FinishNotReady \/ FinishReady \/ FinishFailed
-----------------------------------------------------------------------------
(* The work queue and the watches set up by SetupWithManager.              *)

TimerFires(n) ==
    /\ n \in delayed
    /\ delayed' = delayed \ {n}
    /\ queue' = queue \cup {n}
    /\ UNCHANGED <<cps, ds, rc, nodes, ctl, pass, used>>

DeliverClusterPolicy(n) ==
    /\ Len(cps[n]) > 1
    /\ cps' = [cps EXCEPT ![n] = Tail(@)]
    /\ queue' = queue \cup {n}
    /\ UNCHANGED <<ds, rc, nodes, ctl, delayed, pass, used>>

MutOwnerOfNobody(v) == {}

(* EnqueueRequestForOwner: the name of the controller reference.           *)
OwnerOf(v) == IF v = Absent THEN {} ELSE {v.owner.name}

DeliverDaemonSet(d) ==
    /\ Len(ds[d]) > 1
    /\ ds' = [ds EXCEPT ![d] = Tail(@)]
    /\ queue' = queue \cup OwnerOf(ds[d][1]) \cup OwnerOf(ds[d][2])
    /\ UNCHANGED <<cps, rc, nodes, ctl, delayed, pass, used>>

(* The client keeps RuntimeClasses cached; no handler watches them.        *)
DeliverRuntimeClass(r) ==
    /\ Len(rc[r]) > 1
    /\ rc' = [rc EXCEPT ![r] = Tail(@)]
    /\ UNCHANGED <<cps, ds, nodes, ctl, queue, delayed, pass, used>>

MutListedOwnersOnly(policies, daemonsets) ==
    UNION {OwnerOf(Cached(daemonsets[d])) : d \in DaemonSets}

(* What a full list hands to the event handlers.                           *)
Listed(policies, daemonsets) ==
    {n \in Names : Cached(policies[n]) # Absent}
        \cup UNION {OwnerOf(Cached(daemonsets[d])) : d \in DaemonSets}

(* The informers replay their cache every ten hours.                       *)
Resync ==
    /\ Spend("resync")
    /\ queue' = queue \cup Listed(cps, ds)
    /\ UNCHANGED <<cps, ds, rc, nodes, ctl, delayed, pass>>
-----------------------------------------------------------------------------
(* The process stops at any point and its successor starts: memory, queue  *)
(* and timers are gone, the informers list everything afresh.              *)
Latest(objects) == [x \in DOMAIN objects |-> <<Stored(objects[x])>>]

Restart ==
    /\ Spend("crash")
    /\ cps' = Latest(cps)
    /\ ds' = Latest(ds)
    /\ rc' = Latest(rc)
    /\ ctl' = Fresh
    /\ pass' = Idle
    /\ delayed' = {}
    /\ queue' = Listed(cps', ds')
    /\ UNCHANGED nodes
-----------------------------------------------------------------------------
(* The user.                                                               *)

UserStep == UNCHANGED <<nodes, ctl, queue, delayed, pass>>

UserCreates(n, spec) ==
    /\ ~Exists(cps[n])
    /\ Spend("create")
    /\ cps' = [cps EXCEPT ![n] = Append(@, [uid |-> used.create + 1, spec |-> spec,
                                            status |-> NoState])]
    /\ UNCHANGED <<ds, rc>> /\ UserStep

UserEdits(n, spec) ==
    /\ Exists(cps[n])
    /\ Stored(cps[n]).spec # spec
    /\ Spend("edit")
    /\ cps' = [cps EXCEPT ![n] = Append(@, [Stored(@) EXCEPT !.spec = spec])]
    /\ UNCHANGED <<ds, rc>> /\ UserStep

UserDeletes(n) ==
    /\ Exists(cps[n])
    /\ Spend("remove")
    /\ cps' = [cps EXCEPT ![n] = Append(@, Absent)]
    /\ UNCHANGED <<ds, rc>> /\ UserStep

UserDeletesDaemonSet(d) ==
    /\ Exists(ds[d])
    /\ Spend("drift")
    /\ ds' = [ds EXCEPT ![d] = Append(@, Absent)]
    /\ UNCHANGED <<cps, rc>> /\ UserStep

UserDeletesRuntimeClass(r) ==
    /\ Exists(rc[r])
    /\ Spend("classDrift")
    /\ rc' = [rc EXCEPT ![r] = Append(@, Absent)]
    /\ UNCHANGED <<cps, ds>> /\ UserStep
-----------------------------------------------------------------------------
(* The rest of the cluster.                                                *)

SetStatus(d, observed, unavailable) ==
    /\ ds' = [ds EXCEPT ![d] = Store(@, [Stored(@) EXCEPT
                  !.observed = observed, !.unavailable = unavailable])]
    /\ UNCHANGED <<cps, rc, nodes, ctl, queue, delayed, pass>>

(* The DaemonSet controller acts on a new content: pods may have to be     *)
(* started or replaced, or there may be nothing to do.                     *)
DaemonSetObserved(d) ==
    /\ Exists(ds[d])
    /\ ~Stored(ds[d]).observed
    /\ \E unavailable \in BOOLEAN : SetStatus(d, TRUE, unavailable)
    /\ UNCHANGED used

PodsUp(d) ==
    /\ Exists(ds[d])
    /\ Stored(ds[d]).observed /\ Stored(ds[d]).unavailable
    /\ SetStatus(d, TRUE, FALSE)
    /\ UNCHANGED used

PodsDown(d) ==
    /\ Exists(ds[d])
    /\ Stored(ds[d]).observed /\ ~Stored(ds[d]).unavailable
    /\ Spend("pods")
    /\ SetStatus(d, TRUE, TRUE)

Alive(owner) == Exists(cps[owner.name]) /\ Stored(cps[owner.name]).uid = owner.uid

CollectDaemonSet(d) ==
    /\ Exists(ds[d]) /\ Len(ds[d]) <= MaxLag
    /\ ~Alive(Stored(ds[d]).owner)
    /\ ds' = [ds EXCEPT ![d] = Append(@, Absent)]
    /\ UNCHANGED <<cps, rc, used>> /\ UserStep

CollectRuntimeClass(r) ==
    /\ Exists(rc[r]) /\ Len(rc[r]) <= MaxLag
    /\ ~Alive(Stored(rc[r]))
    /\ rc' = [rc EXCEPT ![r] = Append(@, Absent)]
    /\ UNCHANGED <<cps, ds, used>> /\ UserStep

NodesChange ==
    /\ Spend("node")
    /\ \E node \in Nodes :
          nodes' = IF node \in nodes THEN nodes \ {node} ELSE nodes \cup {node}
    /\ UNCHANGED <<cps, ds, rc, ctl, queue, delayed, pass>>
-----------------------------------------------------------------------------
Init ==
    /\ cps = [n \in Names |-> <<Absent>>]
    /\ ds = [d \in DaemonSets |-> <<Absent>>]
    /\ rc = [r \in RuntimeClasses |-> <<Absent>>]
    /\ nodes = InitNodes
    /\ ctl = Fresh
    /\ queue = {}
    /\ delayed = {}
    /\ pass = Idle
    /\ used = [m \in Moves |-> 0]

Cluster ==
    \/ \E n \in Names : DeliverClusterPolicy(n) \/ TimerFires(n)
    \/ \E d \in DaemonSets : \/ DeliverDaemonSet(d) \/ CollectDaemonSet(d)
                             \/ DaemonSetObserved(d) \/ PodsUp(d)
    \/ \E r \in RuntimeClasses : DeliverRuntimeClass(r) \/ CollectRuntimeClass(r)

Environment ==
    \/ \E n \in Names : \/ \E spec \in Specs : UserCreates(n, spec) \/ UserEdits(n, spec)
                        \/ UserDeletes(n)
    \/ \E d \in DaemonSets : UserDeletesDaemonSet(d) \/ PodsDown(d)
    \/ \E r \in RuntimeClasses : UserDeletesRuntimeClass(r)
    \/ NodesChange \/ Restart \/ Resync

Next == Reconcile \/ Cluster \/ Environment

Spec == Init /\ [][Next]_vars

(* The worker of the controller runs, informers receive their events,      *)
(* timers fire, and the other controllers of the cluster do their part:    *)
(* pods that are started come up.  Nothing is assumed of users, nodes,     *)
(* failures, restarts or the periodic resync.                              *)
Fairness ==
    /\ WF_vars(Reconcile)
    /\ \A n \in Names : WF_vars(DeliverClusterPolicy(n)) /\ WF_vars(TimerFires(n))
    /\ \A d \in DaemonSets :
          /\ WF_vars(DeliverDaemonSet(d))  /\ WF_vars(CollectDaemonSet(d))
          /\ WF_vars(DaemonSetObserved(d)) /\ WF_vars(PodsUp(d))
    /\ \A r \in RuntimeClasses :
          WF_vars(DeliverRuntimeClass(r)) /\ WF_vars(CollectRuntimeClass(r))

FairSpec == Spec /\ Fairness
-----------------------------------------------------------------------------
(* Type correctness.                                                       *)

Passes ==
    [ pc       : {"idle", "daemonset", "ready", "runtimeclass", "stepped", "failed"},
      req      : Names \cup {Absent},
      instance : Policies \cup {Absent},
      idx      : 1..3,
      ds       : Nat,
      result   : States,
      step     : States,
      overall  : {Ready, NotReady} ]

Controllers ==
    [ singleton    : Names \cup {Absent},
      loaded       : BOOLEAN,
      runtime      : Runtimes \cup {""},
      hasNFDLabels : BOOLEAN,
      hasFPGANodes : BOOLEAN,
      osDists      : SUBSET OsDistributions(Nodes) ]

(* The indices that a pass uses are in range: resources[idx] and, inside   *)
(* the DaemonSet control function, Daemonsets[ds] of that state.           *)
InRange(p) ==
    /\ p.pc # "idle" => p.req \in Names /\ p.instance \in Policies
    /\ p.pc \in {"daemonset", "ready"} => p.ds \in 1..Len(Manifests(p.idx))

(* Every variable has its type, and a pass in progress has a policy to     *)
(* work for and never indexes beyond the states and manifests loaded.      *)
TypeOK ==
    /\ cps \in [Names -> Histories(Policies)]
    /\ ds \in [DaemonSets -> Histories(Deployed)]
    /\ rc \in [RuntimeClasses -> Histories(Owners)]
    /\ nodes \subseteq Nodes
    /\ ctl \in Controllers
    /\ queue \subseteq Names
    /\ delayed \subseteq Names
    /\ pass \in Passes
    /\ used \in [Moves -> Nat]
    /\ InRange(pass)
-----------------------------------------------------------------------------
(* What holds when the operator has nothing left to do.                    *)

Main == ctl.singleton

(* No call in progress, nothing queued, no event on its way.               *)
Calm ==
    /\ pass.pc = "idle" /\ queue = {}
    /\ \A n \in Names : Len(cps[n]) = 1
    /\ \A d \in DaemonSets : Len(ds[d]) = 1

(* No timer either: the operator sleeps until something else changes.      *)
Quiet == Calm /\ delayed = {}

MainExists == Main # Absent /\ Exists(cps[Main])
MainQuiet  == Quiet /\ MainExists

MainSpec  == Stored(cps[Main]).spec
MainOwner == [name |-> Main, uid |-> Stored(cps[Main]).uid]

ManifestsOf(k) == {Manifests(k)[j] : j \in 1..Len(Manifests(k))}

MainWants(k, d) == IsStateEnabled(StateNames[k], MainSpec) /\ HasSpec(d, MainSpec)

(* When the operator sleeps, every DaemonSet that the main policy asks for *)
(* exists, belongs to that very policy object, carries what the policy     *)
(* says now, and has no unavailable pod.                                   *)
QuietDeployed ==
    MainQuiet =>
        \A k \in 1..3 : \A d \in ManifestsOf(k) :
            MainWants(k, d) =>
                /\ Exists(ds[d])
                /\ Stored(ds[d]).owner = MainOwner
                /\ Stored(ds[d]).content = PreProcessDaemonSet(d, MainSpec, ctl.runtime)
                /\ ~Stored(ds[d]).unavailable

(* When the operator sleeps, no DaemonSet is left of a state that the main *)
(* policy disables, nor of a host setup for an OS it does not list, and no *)
(* RuntimeClass of the class name that the policy has now.  A class that   *)
(* an edit has renamed stays behind: the code looks at the present name.   *)
QuietCleanedUp ==
    MainQuiet =>
        \A k \in 1..3 :
            /\ \A d \in ManifestsOf(k) : ~MainWants(k, d) => ~Exists(ds[d])
            /\ HasRuntimeClass(k) /\ ~IsStateEnabled(StateNames[k], MainSpec)
                  => ~Exists(rc[GetRuntimeClass(MainSpec)])

(* When the operator sleeps, the runtime class of the main policy exists   *)
(* and belongs to that very policy object, so that it dies with it, unless *)
(* somebody has deleted a runtime class: no watch tells the operator so.   *)
QuietRuntimeClass ==
    MainQuiet /\ used.classDrift = 0 =>
        \A k \in 1..3 :
            HasRuntimeClass(k) /\ IsStateEnabled(StateNames[k], MainSpec)
                => Stored(rc[GetRuntimeClass(MainSpec)]) = MainOwner

(* When the operator sleeps, the main policy is reported as ready, and no  *)
(* policy has been overlooked: there is a main policy if there is any.     *)
QuietReported ==
    /\ MainQuiet => Stored(cps[Main]).status = Ready
    /\ Quiet /\ Main = Absent => \A n \in Names : ~Exists(cps[n])

(* A policy that needs work is not called ready: with every event handled, *)
(* a retry timer running or not, a policy reported as ready has all its    *)
(* DaemonSets deployed and none of their pods unavailable.                 *)
OutageReported ==
    Calm /\ MainExists /\ Stored(cps[Main]).status = Ready =>
        \A k \in 1..3 : \A d \in ManifestsOf(k) :
            MainWants(k, d) => Exists(ds[d]) /\ ~Stored(ds[d]).unavailable

(* One process serves one policy: the pass in progress works for the       *)
(* policy that the process has claimed.                                    *)
PassServesMain == pass.pc # "idle" => pass.req = Main

(* A step keeps the main policy's claim: only a restart makes the process  *)
(* give up the policy it has claimed, and no step hands a DaemonSet of     *)
(* that policy to another one.                                             *)
KeepsClaim ==
    /\ Main # Absent => Main' \in {Main, Absent}
    /\ \A d \in DaemonSets :
          Exists(ds[d]) /\ Stored(ds[d]).owner.name = Main
              => Stored(ds[d])' = Absent \/ Stored(ds[d])'.owner.name = Main

(* The duplicates that the reconciler skips never touch what is deployed:  *)
(* every step keeps the claim of the main policy.                          *)
NoTakeover == [][KeepsClaim]_vars

(* After the last outside event the operator does its work and goes to     *)
(* sleep for good: it neither loops on its own writes nor waits for ever.  *)
(* If the main policy is gone, all that it owned is gone too.              *)
Settled ==
    /\ Quiet
    /\ Main # Absent /\ ~Exists(cps[Main]) =>
          /\ \A d \in DaemonSets : ~Exists(ds[d])
          /\ \A r \in RuntimeClasses : ~Exists(rc[r])

Convergence == <>[]Settled
-----------------------------------------------------------------------------
(* What comments and documents say of the operator and the code does not   *)
(* keep; each is refuted by a run of its own.                              *)

(* "Ready indicates all components of ClusterPolicy are ready": a policy   *)
(* becomes ready only when, as far as the cache knows, the DaemonSet       *)
(* controller has acted on each DaemonSet the policy asks for.             *)
ReadyIsObserved ==
    [][pass.pc = "stepped" /\ MainExists /\ Stored(cps[Main]).status # Ready
         /\ Stored(cps[Main])' # Absent /\ Stored(cps[Main])'.status = Ready
         => \A k \in 1..3 : \A d \in ManifestsOf(k) :
                MainWants(k, d) /\ Cached(ds[d]) # Absent => Cached(ds[d]).observed]_vars

(* "Ignored indicates duplicate ClusterPolicy instances": when the         *)
(* operator sleeps, every policy but the main one is reported as ignored.  *)
DuplicatesIgnored ==
    Quiet /\ Main # Absent =>
        \A n \in Names \ {Main} : Exists(cps[n]) => Stored(cps[n]).status = Ignored

(* A change of the policy reaches the resources: the container runtime     *)
(* DaemonSet is set up for the runtime that the nodes and the default      *)
(* runtime of the present policy call for.                                 *)
RuntimeFollowsPolicy ==
    MainQuiet /\ ContainerRuntimeDS \in DaemonSets /\ Exists(ds[ContainerRuntimeDS]) =>
        Stored(ds[ContainerRuntimeDS]).content.runtime = GetRuntime(nodes, MainSpec)
==============================================================================
