------------------------- MODULE ClusterPolicyRollout -------------------------
(***************************************************************************)
(* The reconciler implements PolicyRollout: caches, queue, timers and the  *)
(* position in the list of manifests are left out, and of a DaemonSet only *)
(* its owner and its content are seen.                                     *)
(***************************************************************************)
EXTENDS ClusterPolicyController

Serving ==
    IF pass.pc = "idle" THEN Absent
    ELSE [name |-> pass.req, policy |-> pass.instance]

Visible(v) ==
    IF v = Absent THEN Absent ELSE [owner |-> v.owner, content |-> v.content]

(* No record of PolicyRollout stands for an object that does not exist.    *)
ASSUME MappingAssumption ==
    /\ Absent \notin [name : Names, policy : Policies]
    /\ Absent \notin [owner : Owners, content : Contents]

Rollout == INSTANCE PolicyRollout WITH
    versions  <- cps,
    created   <- used.create,
    main      <- ctl.singleton,
    runtime   <- ctl.runtime,
    serving   <- Serving,
    deployed  <- [d \in DaemonSets |-> Visible(Stored(ds[d]))],
    classes   <- [r \in RuntimeClasses |-> Stored(rc[r])],
    deletions <- used.drift + used.classDrift

(* Every step of the operator and of its cluster is one that PolicyRollout *)
(* allows: what a pass writes or deletes is what the version it works from *)
(* asks for, passes work from ever newer versions of one policy, and a     *)
(* status update never overwrites an edit of the user.                     *)
ImplementsRollout == Rollout!Spec
===============================================================================
