----------------------- MODULE ClusterPolicyInvariants -----------------------
(***************************************************************************)
(* Why the operator may go to sleep: the inductive invariants behind       *)
(* QuietDeployed, QuietCleanedUp, QuietRuntimeClass, QuietReported and     *)
(* OutageReported of ClusterPolicyController.  Those speak of the states   *)
(* in which nothing is left to do; these speak of every state, and say     *)
(* that whatever is not yet as the main policy wants it is still to be     *)
(* visited by the present pass, or will start another one.                 *)
(***************************************************************************)
EXTENDS ClusterPolicyController

(* At most one state comes with a RuntimeClass.  All states share its      *)
(* name: two of them, one enabled and one not, would undo each other's     *)
(* work in every pass.                                                     *)
OneRuntimeClass ==
    \A k, l \in 1..3 : HasRuntimeClass(k) /\ HasRuntimeClass(l) => k = l

(* A pass for policy n will start without anybody's help: it is queued, or *)
(* its policy has versions that the cache has not seen, ...                *)
Notified(n) == n \in queue \/ Len(cps[n]) > 1

(* ... or a timer is running.                                              *)
Due(n) == Notified(n) \/ n \in delayed

OwnedBy(v, n) == v # Absent /\ v.owner.name = n

(* A watch event is on its way that will enqueue policy n.                 *)
EventDue(h, n) == Len(h) > 1 /\ \E j \in 1..Len(h) : OwnedBy(h[j], n)

(* The version carries what the main policy says.                          *)
Matches(v, d) ==
    /\ v # Absent
    /\ v.owner = MainOwner
    /\ v.content = PreProcessDaemonSet(d, MainSpec, ctl.runtime)

SpecSeen(d) == EventDue(ds[d], Main) \/ Matches(Cached(ds[d]), d)

Good(d) ==
    \/ EventDue(ds[d], Main)
    \/ Matches(Cached(ds[d]), d) /\ ~Cached(ds[d]).unavailable

Gone(d) == ~Exists(ds[d]) \/ EventDue(ds[d], Main)
-----------------------------------------------------------------------------
(* The pass has dealt with manifest j of state k; with no pass in          *)
(* progress, the last one has dealt with all of them.                      *)
Passed(k, j) ==
    \/ pass.pc = "idle" \/ k < pass.idx
    \/ k = pass.idx /\ pass.pc \in {"runtimeclass", "stepped"}
    \/ k = pass.idx /\ pass.pc \in {"daemonset", "ready"} /\ j < pass.ds

(* It has dealt with the runtime class of state k.                         *)
PassedClass(k) ==
    \/ pass.pc = "idle" \/ k < pass.idx
    \/ k = pass.idx /\ pass.pc = "stepped"

(* It has met a failure in state k that will lead to a retry.              *)
Failed(k) ==
    /\ pass.pc # "idle"
    /\ NotReady = IF k < pass.idx THEN pass.overall
                  ELSE IF pass.pc \in {"daemonset", "ready"} THEN pass.result ELSE pass.step

(* What the pass has passed without a failure is as it should be.          *)
Fulfilled ==
    \A k \in 1..3 : \A j \in 1..Len(Manifests(k)) :
        Passed(k, j) /\ ~Failed(k) /\ MainWants(k, Manifests(k)[j]) => Good(Manifests(k)[j])

(* The pass works from the latest version unless it will be followed by    *)
(* another one.                                                            *)
InstanceCurrent ==
    pass.pc # "idle" /\ ~Notified(pass.req) =>
        pass.instance = Stored(cps[pass.req]) /\ Exists(cps[pass.req])

(* A DaemonSet whose readiness is to be checked is the one that was asked  *)
(* for, as far as the cache knows, or has an event on its way.             *)
ReadinessMeant ==
    pass.pc = "ready" /\ ~Notified(Main) /\ pass.result # NotReady => SpecSeen(Manifest)

(* The pass checks the readiness only of what its policy wants, and looks  *)
(* for a runtime class only in a state that has one.                       *)
PlaceMeant ==
    /\ pass.pc = "ready" => Wanted
    /\ pass.pc = "runtimeclass" => HasRuntimeClass(pass.idx)

(* The manifests and the container runtime are looked up together.         *)
RuntimeDecided == ctl.loaded <=> ctl.runtime # ""

(* Without a retry in sight, all that the pass has passed is deployed.     *)
DeployedInv == MainExists /\ ~Due(Main) => Fulfilled

(* The same with a retry timer running, if the policy is reported ready.   *)
OutageInv ==
    MainExists /\ ~Notified(Main) /\ Stored(cps[Main]).status = Ready =>
        Fulfilled /\ (pass.pc # "idle" => pass.overall = Ready)

(* Without a retry in sight, all that the pass has passed and that the     *)
(* policy does not want is gone.                                           *)
CleanedInv ==
    MainExists /\ ~Due(Main) =>
        \A k \in 1..3 :
            /\ \A j \in 1..Len(Manifests(k)) :
                  Passed(k, j) /\ ~MainWants(k, Manifests(k)[j]) => Gone(Manifests(k)[j])
            /\ PassedClass(k) /\ HasRuntimeClass(k) /\ ~IsStateEnabled(StateNames[k], MainSpec)
                  => ~Exists(rc[GetRuntimeClass(MainSpec)])

(* And the runtime class that it wants is its own.                         *)
ClassInv ==
    MainExists /\ ~Due(Main) /\ used.classDrift = 0 =>
        \A k \in 1..3 :
            PassedClass(k) /\ HasRuntimeClass(k) /\ IsStateEnabled(StateNames[k], MainSpec)
                => Stored(rc[GetRuntimeClass(MainSpec)]) = MainOwner

(* A policy that nothing will visit again is reported ready, and a policy  *)
(* that exists is claimed or will be visited.                              *)
ReportedInv ==
    /\ MainExists /\ ~Due(Main) /\ pass.pc = "idle" => Stored(cps[Main]).status = Ready
    /\ Main = Absent => \A n \in Names : Exists(cps[n]) => Due(n)
==============================================================================
