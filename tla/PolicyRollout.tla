---------------------------- MODULE PolicyRollout ----------------------------
(***************************************************************************)
(* What the operator promises to the user of ClusterPolicies, without the  *)
(* caches, the work queue and the order of the steps of a pass:            *)
(*                                                                         *)
(*   - the operator serves one policy, and works from one version of it at *)
(*     a time, each no older than the one before;                          *)
(*   - whatever it writes or deletes is what that version asks for;        *)
(*   - a report of the policy's state never undoes what the user has       *)
(*     written in the meantime;                                            *)
(*   - the container runtime is decided once in the life of a process.     *)
(***************************************************************************)
EXTENDS ClusterPolicyTypes

CONSTANTS
    Names,      \* names of ClusterPolicy objects
    Absent      \* the version of an object that does not exist

VARIABLES
    versions,   \* of each policy, from the one the operator knows to the latest
    created,    \* the number of policies created so far
    main,       \* the policy that the operator serves
    runtime,    \* the container runtime it has decided on
    serving,    \* the version it is working from, if it is at work
    deployed,   \* each DaemonSet as it is in the cluster
    classes,    \* the owner of each RuntimeClass
    deletions   \* the number of objects that users have deleted

vars == <<versions, created, main, runtime, serving, deployed, classes, deletions>>

policies == <<versions, created>>
objects  == <<deployed, classes, deletions>>
process  == <<main, runtime, serving>>

Known(n)  == versions[n][1]
Latest(n) == versions[n][Len(versions[n])]
-----------------------------------------------------------------------------
Init ==
    /\ versions = [n \in Names |-> <<Absent>>]
    /\ created = 0
    /\ main = Absent
    /\ runtime = ""
    /\ serving = Absent
    /\ deployed = [d \in DaemonSets |-> Absent]
    /\ classes = [r \in RuntimeClasses |-> Absent]
    /\ deletions = 0

(* The user writes a version, the operator learns of it some time later.   *)

Creates(n, spec) ==
    /\ Latest(n) = Absent
    /\ created' = created + 1
    /\ versions' = [versions EXCEPT ![n] =
                      Append(@, [uid |-> created', spec |-> spec, status |-> NoState])]
    /\ UNCHANGED <<objects, process>>

Edits(n, spec) ==
    /\ Latest(n) # Absent
    /\ versions' = [versions EXCEPT ![n] = Append(@, [Latest(n) EXCEPT !.spec = spec])]
    /\ UNCHANGED <<created, objects, process>>

Deletes(n) ==
    /\ versions' = [versions EXCEPT ![n] = Append(@, Absent)]
    /\ UNCHANGED <<created, objects, process>>

Learns(n) ==
    /\ Len(versions[n]) > 1
    /\ versions' = [versions EXCEPT ![n] = Tail(@)]
    /\ UNCHANGED <<created, objects, process>>
-----------------------------------------------------------------------------
(* The operator claims a policy for the life of its process and works from *)
(* the version that it knows; it may also give up before it starts.        *)
Serve(n) ==
    /\ serving = Absent
    /\ main \in {Absent, n}
    /\ Known(n) # Absent
    /\ main' = n
    /\ runtime' \in IF runtime = "" THEN Runtimes \cup {""} ELSE {runtime}
    /\ \/ serving' = Absent
       \/ serving' = [name |-> n, policy |-> Known(n)] /\ runtime' # ""
    /\ UNCHANGED <<policies, objects>>

AtWork == serving # Absent /\ UNCHANGED <<main, runtime>>

Owner == [name |-> serving.name, uid |-> serving.policy.uid]

Asked(state) == IsStateEnabled(state, serving.policy.spec)

HasManifest(state, d) ==
    \E j \in 1..Len(Assets[state].daemonsets) : Assets[state].daemonsets[j] = d

Wants(d) ==
    \E state \in DOMAIN Assets :
        HasManifest(state, d) /\ Asked(state) /\ HasSpec(d, serving.policy.spec)

Class == GetRuntimeClass(serving.policy.spec)

(* A DaemonSet that the version wants gets what the version says ...       *)
Deploy(d) ==
    /\ AtWork
    /\ Wants(d)
    /\ deployed' = [deployed EXCEPT ![d] =
                      [owner |-> Owner,
                       content |-> PreProcessDaemonSet(d, serving.policy.spec, runtime)]]
    /\ UNCHANGED <<policies, serving, classes, deletions>>

(* ... and one that it does not want goes.                                 *)
Withdraw(d) ==
    /\ AtWork
    /\ \E state \in DOMAIN Assets :
          HasManifest(state, d) /\ ~(Asked(state) /\ HasSpec(d, serving.policy.spec))
    /\ deployed' = [deployed EXCEPT ![d] = Absent]
    /\ UNCHANGED <<policies, serving, classes, deletions>>

SetClass(state) ==
    /\ AtWork
    /\ Assets[state].runtimeClass
    /\ classes' = [classes EXCEPT ![Class] = IF Asked(state) THEN Owner ELSE Absent]
    /\ UNCHANGED <<policies, serving, deployed, deletions>>

(* The state goes to the latest version or nowhere; ready ends the work.   *)
Report(state) ==
    /\ AtWork
    /\ Len(versions[serving.name]) = 1
    /\ versions' = [versions EXCEPT ![serving.name] =
                      Append(@, [Latest(serving.name) EXCEPT !.status = state])]
    /\ Latest(serving.name) # Absent
    /\ serving' \in {Absent} \cup {s \in {serving} : state # Ready}
    /\ UNCHANGED <<created, objects>>

Finish ==
    /\ AtWork
    /\ serving' = Absent
    /\ UNCHANGED <<policies, objects>>

(* The process dies; its successor lists everything and has no claim yet.  *)
Restart ==
    /\ versions' = [n \in Names |-> <<Latest(n)>>]
    /\ main' = Absent
    /\ runtime' = ""
    /\ serving' = Absent
    /\ UNCHANGED <<created, objects>>
-----------------------------------------------------------------------------
(* Objects also go because a user deletes them or because the policy that  *)
(* owns them is gone.                                                      *)

Alive(owner) == Latest(owner.name) # Absent /\ Latest(owner.name).uid = owner.uid

UserRemovesDaemonSet(d) ==
    /\ deployed' = [deployed EXCEPT ![d] = Absent]
    /\ deletions' = deletions + 1
    /\ UNCHANGED <<policies, process, classes>>

UserRemovesClass(r) ==
    /\ classes' = [classes EXCEPT ![r] = Absent]
    /\ deletions' = deletions + 1
    /\ UNCHANGED <<policies, process, deployed>>

Collect(d) ==
    /\ deployed[d] # Absent
    /\ ~Alive(deployed[d].owner)
    /\ deployed' = [deployed EXCEPT ![d] = Absent]
    /\ UNCHANGED <<policies, process, classes, deletions>>

CollectClass(r) ==
    /\ classes[r] # Absent
    /\ ~Alive(classes[r])
    /\ classes' = [classes EXCEPT ![r] = Absent]
    /\ UNCHANGED <<policies, process, deployed, deletions>>
-----------------------------------------------------------------------------
Next ==
    \/ \E n \in Names : \/ \E spec \in Specs : Creates(n, spec) \/ Edits(n, spec)
                        \/ Deletes(n) \/ Learns(n) \/ Serve(n)
    \/ \E d \in DaemonSets : \/ Deploy(d) \/ Withdraw(d) \/ Collect(d)
    \/ \E state \in DOMAIN Assets : SetClass(state)
    \/ \E state \in {Ready, NotReady} : Report(state)
    \/ Finish \/ Restart
    \/ \E d \in DaemonSets : UserRemovesDaemonSet(d)
    \/ \E r \in RuntimeClasses : UserRemovesClass(r) \/ CollectClass(r)

Spec == Init /\ [][Next]_vars
==============================================================================
