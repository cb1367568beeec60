--------------------- MODULE ClusterPolicyRollout_proofs ---------------------
(***************************************************************************)
(* Machine-checked proof that the reconciler implements PolicyRollout: the *)
(* initial states map to initial states, and every step maps to a step of  *)
(* PolicyRollout or to none.                                               *)
(***************************************************************************)
EXTENDS ClusterPolicyRollout, ClusterPolicyQuiet_proofs
-----------------------------------------------------------------------------
(* The two specifications read the policies alike.                         *)
LEMMA SameReading ==
    /\ Rollout!DaemonSets = DaemonSets
    /\ Rollout!RuntimeClasses = RuntimeClasses
    /\ Rollout!Runtimes = Runtimes
    /\ Rollout!Ready = Ready /\ Rollout!NotReady = NotReady /\ Rollout!NoState = NoState
<1>1. Rollout!DaemonSets = DaemonSets BY DEF Rollout!DaemonSets, DaemonSets
<1>2. Rollout!RuntimeClasses = RuntimeClasses
  BY DEF Rollout!RuntimeClasses, RuntimeClasses, Rollout!GetRuntimeClass, GetRuntimeClass,
         Rollout!DefaultRuntimeClass, DefaultRuntimeClass
<1>3. Rollout!Runtimes = Runtimes
  BY DEF Rollout!Runtimes, Runtimes, Rollout!Docker, Docker, Rollout!Containerd, Containerd
<1> QED
  BY <1>1, <1>2, <1>3 DEF Rollout!Ready, Ready, Rollout!NotReady, NotReady, Rollout!NoState, NoState

(* The two specifications read a policy alike.                             *)
LEMMA SameWishes ==
    ASSUME NEW spec, NEW d, NEW runtime, NEW state
    PROVE  /\ Rollout!IsStateEnabled(state, spec) = IsStateEnabled(state, spec)
           /\ Rollout!HasSpec(d, spec) = HasSpec(d, spec)
           /\ Rollout!GetRuntimeClass(spec) = GetRuntimeClass(spec)
           /\ Rollout!PreProcessDaemonSet(d, spec, runtime) = PreProcessDaemonSet(d, spec, runtime)
<1>1. Rollout!IsStateEnabled(state, spec) = IsStateEnabled(state, spec)
  BY DEF Rollout!IsStateEnabled, IsStateEnabled, Rollout!IsEnabled, IsEnabled
<1>2. Rollout!GetRuntimeClass(spec) = GetRuntimeClass(spec)
  BY DEF Rollout!GetRuntimeClass, GetRuntimeClass, Rollout!DefaultRuntimeClass, DefaultRuntimeClass
<1>3. Rollout!HostSetupOs = HostSetupOs BY DEF Rollout!HostSetupOs, HostSetupOs
<1>4. Rollout!HasSpec(d, spec) = HasSpec(d, spec)
  BY <1>3 DEF Rollout!HasSpec, HasSpec, Rollout!MatchingOsDists, MatchingOsDists
<1>5. Rollout!TransformHostSetup(d, spec) = TransformHostSetup(d, spec)
  BY <1>3 DEF Rollout!TransformHostSetup, TransformHostSetup,
         Rollout!MatchingOsDists, MatchingOsDists, Rollout!Template, Template
<1>6. Rollout!PreProcessDaemonSet(d, spec, runtime) = PreProcessDaemonSet(d, spec, runtime)
  BY <1>2, <1>3, <1>5 DEF Rollout!PreProcessDaemonSet, PreProcessDaemonSet,
     Rollout!ContainerRuntimeDS, ContainerRuntimeDS, Rollout!DevicePluginDS, DevicePluginDS,
     Rollout!TransformContainerRuntime, TransformContainerRuntime,
     Rollout!TransformDevicePlugin, TransformDevicePlugin, Rollout!Template, Template
<1> QED BY <1>1, <1>2, <1>4, <1>6

(* The initial states.                                                     *)
LEMMA RolloutInit == Init => Rollout!Init
<1> SUFFICES ASSUME Init PROVE Rollout!Init OBVIOUS
<1>1. Stored(<<Absent>>) = Absent /\ Visible(Absent) = Absent BY DEF Stored, Visible
<1>2. Serving = Absent BY DEF Init, Serving, Idle
<1>3. used.create = 0 /\ used.drift + used.classDrift = 0 BY DEF Init, Moves
<1>4. ctl.singleton = Absent /\ ctl.runtime = "" BY DEF Init, Fresh
<1>5. [d \in DaemonSets |-> Visible(Stored(ds[d]))] = [d \in DaemonSets |-> Absent]
  BY <1>1 DEF Init
<1>6. [r \in RuntimeClasses |-> Stored(rc[r])] = [r \in RuntimeClasses |-> Absent]
  BY <1>1 DEF Init
<1> QED BY <1>2, <1>3, <1>4, <1>5, <1>6, SameReading DEF Init, Rollout!Init
-----------------------------------------------------------------------------
(* The objects as PolicyRollout sees them.                                 *)

Shown       == [d \in DaemonSets |-> Visible(Stored(ds[d]))]
ClassOwners == [r \in RuntimeClasses |-> Stored(rc[r])]
Deletions   == used.drift + used.classDrift

(* A step that changes nothing of what PolicyRollout sees.                 *)
LEMMA Unseen ==
    ASSUME cps' = cps, used'.create = used.create, Deletions' = Deletions,
           ctl'.singleton = ctl.singleton, ctl'.runtime = ctl.runtime,
           Serving' = Serving, Shown' = Shown, ClassOwners' = ClassOwners
    PROVE  UNCHANGED Rollout!vars
BY DEF Rollout!vars, Shown, ClassOwners, Deletions

(* The other counters are not seen.                                        *)
LEMMA CountersKept ==
    ASSUME used \in [Moves -> Nat], NEW m \in Moves \ {"create", "drift", "classDrift"},
           NEW x, used' = [used EXCEPT ![m] = x]
    PROVE  used'.create = used.create /\ Deletions' = Deletions
BY DEF Moves, Deletions

(* A request that may fail counts failures at most.                        *)
LEMMA FaultsKept ==
    ASSUME used \in [Moves -> Nat],
           UNCHANGED used \/ (\E verb : ReadFails(verb)) \/ (\E o : Charge(o))
    PROVE  used'.create = used.create /\ Deletions' = Deletions
<1>1. CASE UNCHANGED used BY <1>1 DEF Deletions
<1>2. CASE \E x : used' = [used EXCEPT !["fault"] = x]
  BY <1>2, CountersKept DEF Moves
<1> QED BY <1>1, <1>2 DEF ReadFails, Spend, Charge

(* A write to a DaemonSet shows as a write to that DaemonSet.              *)
LEMMA ShownWrite ==
    ASSUME TypeOK, NEW m \in DaemonSets, NEW g, ds' = [ds EXCEPT ![m] = g]
    PROVE  Shown' = [Shown EXCEPT ![m] = Visible(Stored(g))]
<1>1. ASSUME NEW d \in DaemonSets
      PROVE  Visible(Stored(ds[d]))' = IF d = m THEN Visible(Stored(g)) ELSE Visible(Stored(ds[d]))
  BY DEF TypeOK, Visible, Stored
<1> QED BY <1>1 DEF Shown

(* The same for a RuntimeClass.                                            *)
LEMMA ClassWrite ==
    ASSUME TypeOK, NEW m \in RuntimeClasses, NEW g, rc' = [rc EXCEPT ![m] = g]
    PROVE  ClassOwners' = [ClassOwners EXCEPT ![m] = Stored(g)]
<1>1. ASSUME NEW r \in RuntimeClasses
      PROVE  Stored(rc[r])' = IF r = m THEN Stored(g) ELSE Stored(rc[r])
  BY DEF TypeOK, Stored
<1> QED BY <1>1 DEF ClassOwners

(* A write that stores what was stored is not seen.                        *)
LEMMA NothingStored ==
    ASSUME TypeOK
    PROVE  /\ \A m \in DaemonSets : [Shown EXCEPT ![m] = Visible(Stored(ds[m]))] = Shown
           /\ \A m \in RuntimeClasses : [ClassOwners EXCEPT ![m] = Stored(rc[m])] = ClassOwners
BY DEF Shown, ClassOwners
-----------------------------------------------------------------------------
(* The pass in progress.                                                   *)

(* It serves the policy that it fetched, and wants what that one says.     *)
LEMMA Served ==
    ASSUME TypeOK, pass.pc # "idle"
    PROVE  /\ Serving # Absent
           /\ Serving.name = pass.req /\ Serving.policy = pass.instance
           /\ Rollout!Owner = Owner /\ Rollout!Class = Class
           /\ StateNames[pass.idx] \in DOMAIN Assets
           /\ Rollout!Asked(StateNames[pass.idx]) = Enabled
<1>1. pass.req \in Names /\ pass.instance \in Policies BY DEF TypeOK, InRange
<1>2. Serving = [name |-> pass.req, policy |-> pass.instance] BY DEF Serving
<1>3. Serving \in [name : Names, policy : Policies] BY <1>1, <1>2
<1>4. Serving.name = pass.req /\ Serving.policy = pass.instance BY <1>2
<1>5. pass.idx \in 1..3 BY DEF TypeOK, Passes
<1>6. StateNames[pass.idx] \in DOMAIN Assets BY <1>5, AssetsAssumption
<1>7. Rollout!Owner = Owner BY <1>4 DEF Rollout!Owner, Owner
<1>8. Rollout!Class = Class BY <1>4, SameWishes DEF Rollout!Class, Class
<1>9. Rollout!Asked(StateNames[pass.idx]) = Enabled
  BY <1>4, SameWishes DEF Rollout!Asked, Enabled
<1> QED BY <1>3, <1>4, <1>6, <1>7, <1>8, <1>9, MappingAssumption

(* It goes on with the same version until it ends.                         *)
LEMMA GoesOn ==
    ASSUME TypeOK, Reconcile, pass.pc # "idle"
    PROVE  /\ ctl' = ctl
           /\ pass'.pc # "idle" => Serving' = Serving
           /\ pass'.pc = "idle" => Serving' = Absent
<1>1. Idle.pc = "idle" BY DEF Idle
<1> QED BY <1>1, RequestKept DEF Serving

(* The manifest it is at belongs to the state it is in.                    *)
LEMMA AtItsManifest ==
    ASSUME TypeOK, pass.pc \in {"daemonset", "ready"}
    PROVE  Rollout!HasManifest(StateNames[pass.idx], Manifest)
<1>1. pass.ds \in 1..Len(Assets[StateNames[pass.idx]].daemonsets)
  BY DEF TypeOK, InRange, Manifests
<1> QED BY <1>1, Zenon DEF Rollout!HasManifest, Manifest, Manifests
-----------------------------------------------------------------------------
(* The DaemonSet control function deploys or withdraws one DaemonSet, or   *)
(* nothing that is seen.                                                   *)

(* What a pass does to one DaemonSet, where it is not seen otherwise.      *)
LEMMA ManifestSeen ==
    ASSUME TypeOK, Reconcile, pass.pc \in {"daemonset", "ready"}, pass'.pc # "idle",
           UNCHANGED <<cps, rc>>,
           UNCHANGED used \/ (\E verb : ReadFails(verb)) \/ (\E o : Charge(o)),
           NEW v, Shown' = [Shown EXCEPT ![Manifest] = v],
           \/ v = Visible(Stored(ds[Manifest]))
           \/ v = Absent /\ ~Wanted
           \/ v = [owner |-> Owner, content |-> Content] /\ Wanted
    PROVE  [Rollout!Next]_Rollout!vars
<1>1. Manifest \in DaemonSets BY ManifestType DEF TypeOK
<1>2. Serving # Absent /\ ctl' = ctl /\ Serving' = Serving
  BY Served, GoesOn
<1>3. used'.create = used.create /\ Deletions' = Deletions BY FaultsKept DEF TypeOK
<1>4. ClassOwners' = ClassOwners BY DEF ClassOwners
<1>5. Rollout!AtWork BY <1>2 DEF Rollout!AtWork
<1>6. /\ StateNames[pass.idx] \in DOMAIN Assets
      /\ Rollout!HasManifest(StateNames[pass.idx], Manifest)
      /\ Rollout!Asked(StateNames[pass.idx]) = Enabled
      /\ Rollout!HasSpec(Manifest, Serving.policy.spec)
            = HasSpec(Manifest, pass.instance.spec)
      /\ Rollout!PreProcessDaemonSet(Manifest, Serving.policy.spec, ctl.runtime) = Content
      /\ Rollout!Owner = Owner
  BY Served, AtItsManifest, SameWishes DEF Content
<1>7. CASE v = Visible(Stored(ds[Manifest]))
  <2>1. Shown' = Shown BY <1>1, <1>7, NothingStored
  <2> QED BY <1>2, <1>3, <1>4, <2>1, Unseen
<1>8. CASE v = Absent /\ ~Wanted
  <2>1. Rollout!Withdraw(Manifest)
    BY <1>2, <1>3, <1>4, <1>5, <1>6, <1>8
    DEF Rollout!Withdraw, Rollout!policies, Wanted, Shown, ClassOwners, Deletions
  <2> QED BY <1>1, <2>1, SameReading DEF Rollout!Next
<1>9. CASE v = [owner |-> Owner, content |-> Content] /\ Wanted
  <2>1. Rollout!Wants(Manifest) BY <1>6, <1>9 DEF Rollout!Wants, Wanted
  <2>2. Rollout!Deploy(Manifest)
    BY <1>2, <1>3, <1>4, <1>5, <1>6, <1>9, <2>1
    DEF Rollout!Deploy, Rollout!policies, Shown, ClassOwners, Deletions
  <2> QED BY <1>1, <2>2, SameReading DEF Rollout!Next
<1> QED BY <1>7, <1>8, <1>9

(* Between two manifests the pass is not at its end.                       *)
LEMMA NotAtEnd ==
    ASSUME TypeOK, pass.pc \in {"daemonset", "ready"}, NEW r
    PROVE  AfterManifest(r).pc # "idle"
BY AfterManifestFields DEF TypeOK

(* A DaemonSet that is not wanted.                                         *)
LEMMA DeleteSeen ==
    ASSUME TypeOK, DaemonSetDisabled \/ DaemonSetNoSpec
    PROVE  [Rollout!Next]_Rollout!vars
<1> DEFINE h == ds[Manifest]
<1>1. pass.pc = "daemonset" /\ UNCHANGED <<cps, rc>> /\ ~Wanted
  BY DEF AtManifest, DaemonSetDisabled, DaemonSetNoSpec, Wanted
<1>2. Reconcile BY DEF Reconcile
<1>3. Manifest \in DaemonSets BY <1>1, ManifestType DEF TypeOK
<1>4. h \in Histories(Deployed) BY <1>3 DEF TypeOK
<1>5. Stored(Store(h, Absent)) = Absent BY <1>4, AppendType
<1> HIDE DEF h
<1>6. PICK o \in Outcomes("delete", TRUE, h, Store(h, Absent)) :
         /\ ds' = [ds EXCEPT ![Manifest] = o.hist] /\ Charge(o)
         /\ \E r : pass' = AfterManifest(r)
  BY DEF DaemonSetDisabled, DaemonSetNoSpec, h
<1>7. o.hist \in {h, Store(h, Absent)} BY OutcomeType
<1>8. pass'.pc # "idle" BY <1>1, <1>6, NotAtEnd
<1>9. Shown' = [Shown EXCEPT ![Manifest] = Visible(Stored(o.hist))]
  BY <1>3, <1>6, ShownWrite
<1>10. Visible(Absent) = Absent BY DEF Visible
<1> QED BY <1>1, <1>2, <1>5, <1>6, <1>7, <1>8, <1>9, <1>10, ManifestSeen DEF h

(* A DaemonSet that is created or updated.                                 *)
LEMMA DeploySeen ==
    ASSUME TypeOK, DaemonSetCreate \/ DaemonSetUpdate
    PROVE  [Rollout!Next]_Rollout!vars
<1> DEFINE h == ds[Manifest]
           shown == [owner |-> Owner, content |-> Content]
<1>1. pass.pc = "daemonset" /\ UNCHANGED <<cps, rc>> /\ Wanted
  BY DEF AtManifest, DaemonSetCreate, DaemonSetUpdate
<1>2. Reconcile BY DEF Reconcile
<1>3. Manifest \in DaemonSets BY <1>1, ManifestType DEF TypeOK
<1>4. h \in Histories(Deployed) BY <1>3 DEF TypeOK
<1>5. Owner \in Owners BY <1>1, OwnerType DEF TypeOK
<1>6. Content \in Contents BY <1>1, ContentType DEF TypeOK, Wanted
<1>7. ASSUME NEW v \in Deployed, v.owner = Owner, v.content = Content
      PROVE  Visible(v) = shown
  BY <1>7, AbsentAssumption DEF Visible
<1> HIDE DEF h
<1>8. PICK o :
         /\ ds' = [ds EXCEPT ![Manifest] = o.hist] /\ Charge(o)
         /\ Visible(Stored(o.hist)) \in {Visible(Stored(h)), shown}
         /\ pass'.pc # "idle"
  <2>1. CASE DaemonSetCreate
    <3> DEFINE v == [owner |-> Owner, content |-> Content, observed |-> FALSE,
                     unavailable |-> FALSE]
    <3>1. v \in Deployed /\ v.owner = Owner /\ v.content = Content
      BY <1>5, <1>6 DEF Deployed
    <3>2. PICK o \in Outcomes("create", ~Exists(h), h, Append(h, v)) :
            /\ ds' = [ds EXCEPT ![Manifest] = o.hist] /\ Charge(o)
            /\ \E r : pass' = [pass EXCEPT !.pc = "ready", !.result = r]
      BY <2>1 DEF DaemonSetCreate, h
    <3> HIDE DEF v
    <3>3. Stored(Append(h, v)) = v BY <1>4, <3>1, AppendType
    <3>4. o.hist \in {h, Append(h, v)} BY OutcomeType DEF Exists
    <3>5. pass'.pc = "ready" BY <3>2, ExceptFields DEF TypeOK
    <3> QED BY <1>7, <3>1, <3>2, <3>3, <3>4, <3>5
  <2>2. CASE DaemonSetUpdate
    <3> DEFINE v == [Stored(h) EXCEPT !.owner = Owner, !.content = Content,
                        !.observed = @ /\ Stored(h).content = Content]
    <3>1. ASSUME Exists(h) PROVE v \in Deployed /\ v.owner = Owner /\ v.content = Content
      <4>1. Stored(h) \in Deployed BY <1>4, <3>1, EndsType DEF Exists
      <4> QED BY <1>5, <1>6, <4>1, Zenon DEF Deployed
    <3>2. PICK o \in Outcomes("update", Exists(h), h, Store(h, v)) :
            /\ ds' = [ds EXCEPT ![Manifest] = o.hist] /\ Charge(o)
            /\ pass' = [pass EXCEPT !.pc = "ready"] \/ \E r : pass' = AfterManifest(r)
      BY <2>2 DEF DaemonSetUpdate, h
    <3> HIDE DEF v
    <3>3. Exists(h) => Stored(Store(h, v)) = v BY <1>4, <3>1, AppendType
    <3>4. o.hist \in {h} \cup {g \in {Store(h, v)} : Exists(h)} BY OutcomeType DEF Exists
    <3>5. pass'.pc # "idle"
      <4>1. [pass EXCEPT !.pc = "ready"].pc = "ready" BY ExceptFields DEF TypeOK
      <4> QED BY <1>1, <3>2, <4>1, NotAtEnd
    <3> QED BY <1>7, <3>1, <3>2, <3>3, <3>4, <3>5
  <2> QED BY <2>1, <2>2
<1>9. Shown' = [Shown EXCEPT ![Manifest] = Visible(Stored(o.hist))]
  BY <1>3, <1>8, ShownWrite
<1> QED BY <1>1, <1>2, <1>8, <1>9, ManifestSeen DEF h

(* A DaemonSet that the pass only looks at.                                *)
LEMMA LookUnseen ==
    ASSUME TypeOK, DaemonSetGetFails \/ DaemonSetSkip \/ DaemonSetReadiness
    PROVE  [Rollout!Next]_Rollout!vars
<1>1. /\ pass.pc \in {"daemonset", "ready"} /\ UNCHANGED <<cps, ds, rc>>
      /\ UNCHANGED used \/ \E verb : ReadFails(verb)
  BY DEF AtManifest, DaemonSetGetFails, DaemonSetSkip, DaemonSetReadiness
<1>2. pass'.pc # "idle"
  <2>1. pass' = [pass EXCEPT !.pc = "ready"] \/ \E r : pass' = AfterManifest(r)
    BY DEF DaemonSetGetFails, DaemonSetSkip, DaemonSetReadiness
  <2>2. [pass EXCEPT !.pc = "ready"].pc = "ready" BY ExceptFields DEF TypeOK
  <2> QED BY <1>1, <2>1, <2>2, NotAtEnd
<1>3. Reconcile BY DEF Reconcile
<1>4. ctl' = ctl /\ Serving' = Serving BY <1>1, <1>2, <1>3, GoesOn
<1>5. used'.create = used.create /\ Deletions' = Deletions BY <1>1, FaultsKept DEF TypeOK
<1>6. Shown' = Shown /\ ClassOwners' = ClassOwners BY <1>1 DEF Shown, ClassOwners
<1> QED BY <1>1, <1>4, <1>5, <1>6, Unseen
-----------------------------------------------------------------------------
(* The RuntimeClass control function sets or removes the class of the      *)
(* policy, or nothing that is seen.                                        *)
LEMMA ClassSeen ==
    ASSUME TypeOK, PlaceMeant,
           \/ RuntimeClassDisabled \/ RuntimeClassGetFails
           \/ RuntimeClassCreate \/ RuntimeClassUpdate
    PROVE  [Rollout!Next]_Rollout!vars
<1> DEFINE h == rc[Class]
<1>1. pass.pc = "runtimeclass" /\ UNCHANGED <<cps, ds>>
  BY DEF AtRuntimeClass, RuntimeClassDisabled, RuntimeClassGetFails,
         RuntimeClassCreate, RuntimeClassUpdate
<1>2. Reconcile BY DEF Reconcile
<1>3. Class \in RuntimeClasses /\ Owner \in Owners BY <1>1, ClassType, OwnerType DEF TypeOK
<1>4. h \in Histories(Owners) BY <1>3 DEF TypeOK
<1>5. pass'.pc # "idle"
  <2>1. (\E r : pass' = AfterRuntimeClass(r)) \/ pass' = [pass EXCEPT !.pc = "failed"]
    BY DEF RuntimeClassDisabled, RuntimeClassGetFails, RuntimeClassCreate, RuntimeClassUpdate
  <2>2. [pass EXCEPT !.pc = "failed"].pc = "failed" BY ExceptFields DEF TypeOK
  <2>3. \A r : AfterRuntimeClass(r).pc = "stepped" BY AfterRuntimeClassFields DEF TypeOK
  <2> QED BY <2>1, <2>2, <2>3
<1>6. Serving # Absent /\ ctl' = ctl /\ Serving' = Serving
  BY <1>1, <1>2, <1>5, Served, GoesOn
<1>7. used'.create = used.create /\ Deletions' = Deletions
  <2>1. (\E verb : ReadFails(verb)) \/ (\E o : Charge(o))
    BY DEF RuntimeClassDisabled, RuntimeClassGetFails, RuntimeClassCreate, RuntimeClassUpdate
  <2> QED BY <2>1, FaultsKept DEF TypeOK
<1>8. Shown' = Shown BY <1>1 DEF Shown
<1>9. CASE ClassOwners' = ClassOwners BY <1>1, <1>6, <1>7, <1>8, <1>9, Unseen
<1>10. CASE ClassOwners' = [ClassOwners EXCEPT ![Class] = IF Enabled THEN Owner ELSE Absent]
  <2>1. /\ StateNames[pass.idx] \in DOMAIN Assets /\ Assets[StateNames[pass.idx]].runtimeClass
        /\ Rollout!Asked(StateNames[pass.idx]) = Enabled
        /\ Rollout!Owner = Owner /\ Rollout!Class = Class
    BY <1>1, Served DEF PlaceMeant, HasRuntimeClass
  <2>2. Rollout!AtWork BY <1>6 DEF Rollout!AtWork
  <2>3. Rollout!SetClass(StateNames[pass.idx])
    BY <1>1, <1>6, <1>7, <1>8, <1>10, <2>1, <2>2
    DEF Rollout!SetClass, Rollout!policies, Shown, ClassOwners, Deletions
  <2> QED BY <2>1, <2>3 DEF Rollout!Next
<1>11. ASSUME NEW g, rc' = [rc EXCEPT ![Class] = g],
              Stored(g) \in {Stored(h), IF Enabled THEN Owner ELSE Absent}
       PROVE  [Rollout!Next]_Rollout!vars
  <2>1. ClassOwners' = [ClassOwners EXCEPT ![Class] = Stored(g)] BY <1>3, <1>11, ClassWrite
  <2> QED BY <1>3, <1>9, <1>10, <1>11, <2>1, NothingStored
<1> HIDE DEF h
<1>12. CASE RuntimeClassGetFails BY <1>9, <1>12 DEF RuntimeClassGetFails, ClassOwners
<1>13. CASE RuntimeClassDisabled
  <2>1. PICK o \in Outcomes("delete", TRUE, h, Store(h, Absent)) :
           rc' = [rc EXCEPT ![Class] = o.hist]
    BY <1>13 DEF RuntimeClassDisabled, h
  <2>2. o.hist \in {h, Store(h, Absent)} BY OutcomeType
  <2>3. Stored(Store(h, Absent)) = Absent /\ ~Enabled
    BY <1>4, <1>13, AppendType DEF RuntimeClassDisabled
  <2> QED BY <1>11, <2>1, <2>2, <2>3
<1>14. CASE RuntimeClassCreate \/ RuntimeClassUpdate
  <2>1. PICK g \in {h, Append(h, Owner), Store(h, Owner)} : rc' = [rc EXCEPT ![Class] = g]
    <3>1. ASSUME NEW verb, NEW accepted \in BOOLEAN, NEW new,
                 NEW o \in Outcomes(verb, accepted, h, new)
          PROVE  o.hist \in {h, new}
      BY OutcomeType
    <3>2. CASE RuntimeClassCreate
      <4>1. PICK o \in Outcomes("create", ~Exists(h), h, Append(h, Owner)) :
               rc' = [rc EXCEPT ![Class] = o.hist]
        BY <3>2 DEF RuntimeClassCreate, h
      <4>2. o.hist \in {h, Append(h, Owner)} BY <3>1 DEF Exists
      <4> QED BY <4>1, <4>2
    <3>3. CASE RuntimeClassUpdate
      <4>1. PICK o \in Outcomes("update", Len(h) = 1, h, Store(h, Owner)) :
               rc' = [rc EXCEPT ![Class] = o.hist]
        BY <3>3 DEF RuntimeClassUpdate, h
      <4>2. o.hist \in {h, Store(h, Owner)} BY <3>1
      <4> QED BY <4>1, <4>2
    <3> QED BY <1>14, <3>2, <3>3
  <2>2. Stored(Append(h, Owner)) = Owner /\ Stored(Store(h, Owner)) = Owner
    BY <1>3, <1>4, AppendType
  <2>3. Enabled BY <1>14 DEF RuntimeClassCreate, RuntimeClassUpdate
  <2> QED BY <1>11, <2>1, <2>2, <2>3
<1> QED BY <1>12, <1>13, <1>14
-----------------------------------------------------------------------------
(* The ends of a state and of a pass.                                      *)

(* A status update is seen as a report to the latest version, or not.      *)
LEMMA UpdateCases ==
    ASSUME TypeOK, NEW n \in Names, NEW state, UpdateCRState(n, state)
    PROVE  /\ UNCHANGED used \/ (\E verb : ReadFails(verb)) \/ (\E o : Charge(o))
           /\ \/ UNCHANGED cps
              \/ /\ Len(cps[n]) = 1 /\ Stored(cps[n]) # Absent
                 /\ cps' = [cps EXCEPT ![n] =
                              Append(cps[n], [Stored(cps[n]) EXCEPT !.status = state])]
<1> DEFINE new == Append(cps[n], [Cached(cps[n]) EXCEPT !.status = state])
<1>1. CASE ReadFails("get") /\ UNCHANGED cps BY <1>1
<1>2. CASE UNCHANGED <<cps, used>> BY <1>2
<1>3. CASE /\ StatusDiffers(n, state)
           /\ \E o \in Outcomes("status", Len(cps[n]) = 1, cps[n], new) :
                 cps' = [cps EXCEPT ![n] = o.hist] /\ Charge(o)
  <2>1. Cached(cps[n]) # Absent BY <1>3 DEF StatusDiffers
  <2>2. Len(cps[n]) = 1 => Cached(cps[n]) = Stored(cps[n]) BY DEF Cached, Stored
  <2> HIDE DEF new
  <2>3. PICK o \in Outcomes("status", Len(cps[n]) = 1, cps[n], new) :
           cps' = [cps EXCEPT ![n] = o.hist] /\ Charge(o)
    BY <1>3
  <2>4. o.hist \in {cps[n]} \cup {g \in {new} : Len(cps[n]) = 1} BY OutcomeType
  <2>5. CASE o.hist = cps[n]
    <3>1. cps' = cps BY <2>3, <2>5 DEF TypeOK
    <3> QED BY <2>3, <3>1
  <2>6. CASE o.hist = new /\ Len(cps[n]) = 1
    BY <2>1, <2>2, <2>3, <2>6 DEF new
  <2> QED BY <2>4, <2>5, <2>6
<1> QED BY <1>1, <1>2, <1>3 DEF UpdateCRState

(* The end of a state or of a pass, with or without a report.              *)
LEMMA ReportSeen ==
    ASSUME TypeOK, StepNext \/ FinishNotReady \/ FinishReady \/ FinishFailed
    PROVE  [Rollout!Next]_Rollout!vars
<1> DEFINE n == pass.req
<1>1. /\ pass.pc \in {"stepped", "failed"} /\ UNCHANGED <<ds, rc>>
      /\ FinishReady => pass' = Idle
  BY DEF StepNext, FinishNotReady, FinishReady, FinishFailed
<1>2. Reconcile BY DEF Reconcile
<1>3. n \in Names BY <1>1 DEF TypeOK, InRange
<1>4. PICK state \in {Ready, NotReady} :
         /\ UpdateCRState(n, state) \/ UNCHANGED <<cps, used>>
         /\ state = Ready => pass' = Idle
  <2>1. CASE FinishReady BY <1>1, <2>1 DEF FinishReady
  <2>2. CASE StepNext \/ FinishNotReady \/ FinishFailed
    <3>1. UpdateCRState(n, NotReady) \/ UNCHANGED <<cps, used>>
      BY <2>2 DEF StepNext, FinishNotReady, FinishFailed, ReportNotReady
    <3> QED BY <3>1 DEF Ready, NotReady
  <2> QED BY <2>1, <2>2
<1>5. ctl' = ctl /\ Serving' \in {Serving, Absent} /\ (state = Ready => Serving' = Absent)
  <2>1. Idle.pc = "idle" BY DEF Idle
  <2> QED BY <1>1, <1>2, <1>4, <2>1, GoesOn
<1>6. Serving # Absent /\ Serving.name = n BY <1>1, Served
<1>7. Rollout!AtWork BY <1>5, <1>6 DEF Rollout!AtWork
<1>8. Shown' = Shown /\ ClassOwners' = ClassOwners BY <1>1 DEF Shown, ClassOwners
<1>9. used'.create = used.create /\ Deletions' = Deletions
  BY <1>3, <1>4, UpdateCases, FaultsKept DEF TypeOK
<1>10. CASE UNCHANGED cps
  <2>1. CASE Serving' = Serving BY <1>5, <1>8, <1>9, <1>10, <2>1, Unseen
  <2>2. CASE Serving' = Absent
    <3>1. Rollout!Finish
      BY <1>5, <1>7, <1>8, <1>9, <1>10, <2>2
      DEF Rollout!Finish, Rollout!policies, Rollout!objects, Shown, ClassOwners, Deletions
    <3> QED BY <3>1 DEF Rollout!Next
  <2> QED BY <1>5, <2>1, <2>2
<1>11. CASE /\ Len(cps[n]) = 1 /\ Stored(cps[n]) # Absent
            /\ cps' = [cps EXCEPT ![n] =
                         Append(cps[n], [Stored(cps[n]) EXCEPT !.status = state])]
  <2>1. Rollout!Latest(n) = Stored(cps[n]) BY DEF Rollout!Latest, Stored
  <2> HIDE DEF n
  <2>2. Rollout!Report(state)
    BY <1>5, <1>6, <1>7, <1>8, <1>9, <1>11, <2>1, SameReading
    DEF Rollout!Report, Rollout!objects, Shown, ClassOwners, Deletions
  <2> QED BY <1>4, <2>2, SameReading DEF Rollout!Next
<1> QED BY <1>3, <1>4, <1>10, <1>11, UpdateCases
-----------------------------------------------------------------------------
(* The start of a pass.                                                    *)

(* What init decides about the container runtime, wherever it stops.       *)
LEMMA Decides ==
    ASSUME TypeOK, RuntimeDecided, NEW n \in Names, NEW spec \in Specs
    PROVE  LET claimed == Claimed(ctl, n)
               loaded  == Loaded(claimed, spec)
           IN  /\ claimed.runtime = ctl.runtime /\ claimed.loaded = ctl.loaded
               /\ loaded.loaded /\ loaded.runtime \in Runtimes
               /\ ctl.runtime # "" => loaded.runtime = ctl.runtime
               /\ Counted(loaded).runtime = loaded.runtime
               /\ Counted(loaded).loaded = loaded.loaded
               /\ Surveyed(Counted(loaded)).runtime = loaded.runtime
               /\ Surveyed(Counted(loaded)).loaded = loaded.loaded
<1> DEFINE claimed == Claimed(ctl, n)
           loaded  == Loaded(claimed, spec)
           counted == Counted(loaded)
<1>1. ctl \in Controllers /\ nodes \subseteq Nodes BY DEF TypeOK
<1>2. {claimed, loaded, counted} \subseteq Controllers BY <1>1, InitStagesType
<1>3. claimed.runtime = ctl.runtime /\ claimed.loaded = ctl.loaded
  BY <1>1, Zenon DEF Claimed, Controllers
<1>4. GetRuntime(nodes, spec) \in Runtimes
  BY SpecsAssumption DEF GetRuntime, Runtimes
<1>5. CASE ctl.loaded
  <2>1. loaded = claimed BY <1>3, <1>5 DEF Loaded
  <2>2. ctl.runtime # "" /\ ctl.runtime \in Runtimes \cup {""}
    BY <1>1, <1>5 DEF RuntimeDecided, Controllers
  <2>3. loaded.loaded /\ loaded.runtime \in Runtimes /\ loaded.runtime = ctl.runtime
    BY <1>3, <1>5, <2>1, <2>2
  <2> QED BY <1>2, <1>3, <2>3, Zenon DEF Counted, Surveyed, Controllers
<1>6. CASE ~ctl.loaded
  <2>1. loaded = [claimed EXCEPT !.loaded = TRUE, !.runtime = GetRuntime(nodes, spec)]
    BY <1>3, <1>6 DEF Loaded
  <2>2. ctl.runtime = "" BY <1>6 DEF RuntimeDecided
  <2>3. loaded.loaded /\ loaded.runtime \in Runtimes
    BY <1>2, <1>4, <2>1, Zenon DEF Controllers
  <2> QED BY <1>2, <1>3, <2>2, <2>3, Zenon DEF Counted, Surveyed, Controllers
<1> QED BY <1>5, <1>6

(* Every step keeps RuntimeDecided.                                        *)
LEMMA DecidedNext ==
    ASSUME TypeOK, RuntimeDecided, [Next]_vars
    PROVE  RuntimeDecided'
<1>1. CASE ctl' = ctl BY <1>1 DEF RuntimeDecided
<1>2. "" \notin Runtimes BY DEF Runtimes, Docker, Containerd
<1>3. ASSUME NEW n \in Names, ReconcileInitFails(n) \/ ReconcileBegin(n)
      PROVE  RuntimeDecided'
  <2>1. Cached(cps[n]) \in Policies
    BY <1>3, EndsType DEF TypeOK, ReconcileInitFails, ReconcileBegin
  <2>2. Cached(cps[n]).spec \in Specs BY <2>1 DEF Policies
  <2>3. \/ ctl'.runtime = ctl.runtime /\ ctl'.loaded = ctl.loaded
        \/ ctl'.runtime \in Runtimes /\ ctl'.loaded
    BY <1>3, <2>2, Decides DEF ReconcileInitFails, ReconcileBegin
  <2> QED BY <1>2, <2>3 DEF RuntimeDecided
<1>4. CASE Reconcile /\ pass.pc = "idle"
  BY <1>1, <1>3, <1>4, IdleCases
  DEF ReconcileGetFails, ReconcileNotFound, ReconcileIgnore
<1>5. CASE Reconcile /\ pass.pc # "idle" BY <1>1, <1>5, RequestKept
<1>6. CASE ~Reconcile
  <2>1. CASE Restart BY <2>1 DEF Restart, Fresh, RuntimeDecided
  <2> QED BY <1>1, <1>6, <2>1, OthersStep DEF Next
<1> QED BY <1>4, <1>5, <1>6

(* A request that is taken from the queue.                                 *)
LEMMA BeginSeen ==
    ASSUME TypeOK, RuntimeDecided, Reconcile, pass.pc = "idle"
    PROVE  [Rollout!Next]_Rollout!vars
<1>1. PICK n \in Names :
         \/ ReconcileGetFails(n) \/ ReconcileNotFound(n) \/ ReconcileIgnore(n)
         \/ ReconcileInitFails(n) \/ ReconcileBegin(n)
  BY IdleCases
<1>2. /\ UNCHANGED <<cps, ds, rc>>
      /\ UNCHANGED used \/ \E verb : ReadFails(verb)
      /\ ReconcileBegin(n) \/ UNCHANGED pass
  BY <1>1 DEF Dequeue, ReconcileGetFails, ReconcileNotFound, ReconcileIgnore,
              ReconcileInitFails, ReconcileBegin
<1>3. used'.create = used.create /\ Deletions' = Deletions BY <1>2, FaultsKept DEF TypeOK
<1>4. Shown' = Shown /\ ClassOwners' = ClassOwners BY <1>2 DEF Shown, ClassOwners
<1>5. Serving = Absent BY DEF Serving
<1>6. UNCHANGED pass => Serving' = Serving BY DEF Serving
<1>7. CASE ReconcileGetFails(n) \/ ReconcileNotFound(n) \/ ReconcileIgnore(n)
  <2>1. ctl' = ctl /\ UNCHANGED pass
    BY <1>7 DEF ReconcileGetFails, ReconcileNotFound, ReconcileIgnore
  <2> QED BY <1>2, <1>3, <1>4, <1>6, <2>1, Unseen
<1>8. CASE ReconcileInitFails(n) \/ ReconcileBegin(n)
  <2>1. Cached(cps[n]) # Absent /\ ~IsDuplicate(n)
    BY <1>8 DEF ReconcileInitFails, ReconcileBegin
  <2>2. Cached(cps[n]) \in Policies BY <2>1, EndsType DEF TypeOK
  <2>3. Cached(cps[n]).spec \in Specs BY <2>2 DEF Policies
  <2>4. ctl'.singleton = n
    BY <1>8, <2>3, InitStagesType DEF TypeOK, ReconcileInitFails, ReconcileBegin
  <2>5. ctl.runtime \in Runtimes \cup {""} BY DEF TypeOK, Controllers
  <2>6. ctl'.runtime \in IF ctl.runtime = "" THEN Runtimes \cup {""} ELSE {ctl.runtime}
    BY <1>8, <2>3, <2>5, Decides DEF ReconcileInitFails, ReconcileBegin
  <2>7. \/ Serving' = Absent
        \/ Serving' = [name |-> n, policy |-> Cached(cps[n])] /\ ctl'.runtime # ""
    <3>1. CASE UNCHANGED pass BY <1>5, <1>6, <3>1
    <3>2. CASE ReconcileBegin(n)
      <4>1. pass'.pc # "idle" /\ pass'.req = n /\ pass'.instance = Cached(cps[n])
        BY <3>2, BeginFields, FirstControlMeant
      <4>2. ctl'.runtime \in Runtimes BY <3>2, <2>3, Decides DEF ReconcileBegin
      <4>3. "" \notin Runtimes BY DEF Runtimes, Docker, Containerd
      <4> QED BY <4>1, <4>2, <4>3 DEF Serving
    <3> QED BY <1>2, <3>1, <3>2
  <2>8. Rollout!Known(n) = Cached(cps[n]) BY DEF Rollout!Known, Cached
  <2>9. ctl.singleton \in {Absent, n} BY <2>1 DEF IsDuplicate
  <2>10. Rollout!Serve(n)
    BY <1>2, <1>3, <1>4, <1>5, <2>1, <2>4, <2>6, <2>7, <2>8, <2>9, SameReading
    DEF Rollout!Serve, Rollout!policies, Rollout!objects, Shown, ClassOwners, Deletions
  <2> QED BY <2>10 DEF Rollout!Next
<1> QED BY <1>1, <1>7, <1>8
-----------------------------------------------------------------------------
(* Everybody else.                                                         *)

(* Timers, the resync, the nodes and the caches of the objects that the    *)
(* operator deploys.                                                       *)
LEMMA EventsUnseen ==
    ASSUME TypeOK,
           \/ \E n \in Names : TimerFires(n)
           \/ \E d \in DaemonSets : DeliverDaemonSet(d)
           \/ \E r \in RuntimeClasses : DeliverRuntimeClass(r)
           \/ NodesChange \/ Resync \/ UNCHANGED vars
    PROVE  UNCHANGED Rollout!vars
<1>1. UNCHANGED <<cps, ctl, pass>>
  BY DEF TimerFires, DeliverDaemonSet, DeliverRuntimeClass, NodesChange, Resync, vars
<1>2. Serving' = Serving BY <1>1 DEF Serving
<1>3. used'.create = used.create /\ Deletions' = Deletions
  <2>1. CASE UNCHANGED used BY <2>1 DEF Deletions
  <2>2. CASE Spend("node") \/ Spend("resync") BY <2>2, CountersKept DEF Spend, TypeOK, Moves
  <2> QED BY <2>1, <2>2
          DEF TimerFires, DeliverDaemonSet, DeliverRuntimeClass, NodesChange, Resync, vars
<1>4. Shown' = Shown
  <2>1. CASE UNCHANGED ds BY <2>1 DEF Shown
  <2>2. ASSUME NEW d \in DaemonSets, DeliverDaemonSet(d) PROVE Shown' = Shown
    <3>1. ds[d] \in Histories(Deployed) /\ Len(ds[d]) > 1 /\ ds' = [ds EXCEPT ![d] = Tail(ds[d])]
      BY <2>2 DEF TypeOK, DeliverDaemonSet
    <3>2. Stored(Tail(ds[d])) = Stored(ds[d]) BY <3>1, TailType
    <3>3. Shown' = [Shown EXCEPT ![d] = Visible(Stored(Tail(ds[d])))] BY <3>1, ShownWrite
    <3> QED BY <3>2, <3>3, NothingStored
  <2> QED BY <2>1, <2>2 DEF TimerFires, DeliverRuntimeClass, NodesChange, Resync, vars
<1>5. ClassOwners' = ClassOwners
  <2>1. CASE UNCHANGED rc BY <2>1 DEF ClassOwners
  <2>2. ASSUME NEW r \in RuntimeClasses, DeliverRuntimeClass(r) PROVE ClassOwners' = ClassOwners
    <3>1. rc[r] \in Histories(Owners) /\ Len(rc[r]) > 1 /\ rc' = [rc EXCEPT ![r] = Tail(rc[r])]
      BY <2>2 DEF TypeOK, DeliverRuntimeClass
    <3>2. Stored(Tail(rc[r])) = Stored(rc[r]) BY <3>1, TailType
    <3>3. ClassOwners' = [ClassOwners EXCEPT ![r] = Stored(Tail(rc[r]))] BY <3>1, ClassWrite
    <3> QED BY <3>2, <3>3, NothingStored
  <2> QED BY <2>1, <2>2 DEF TimerFires, DeliverDaemonSet, NodesChange, Resync, vars
<1> QED BY <1>1, <1>2, <1>3, <1>4, <1>5, Unseen

(* The status of a DaemonSet is not seen.                                  *)
LEMMA PodsUnseen ==
    ASSUME TypeOK, NEW d \in DaemonSets, DaemonSetObserved(d) \/ PodsUp(d) \/ PodsDown(d)
    PROVE  UNCHANGED Rollout!vars
<1>1. PICK o \in BOOLEAN, u \in BOOLEAN : SetStatus(d, o, u)
  BY Zenon DEF DaemonSetObserved, PodsUp, PodsDown
<1> DEFINE v == [Stored(ds[d]) EXCEPT !.observed = o, !.unavailable = u]
<1>2. ds[d] \in Histories(Deployed) BY DEF TypeOK
<1>3. Stored(ds[d]) \in Deployed
  BY <1>2, EndsType DEF Exists, DaemonSetObserved, PodsUp, PodsDown
<1>4. v \in Deployed /\ v.owner = Stored(ds[d]).owner /\ v.content = Stored(ds[d]).content
  BY <1>1, <1>3, Zenon DEF Deployed
<1>5. ds' = [ds EXCEPT ![d] = Store(ds[d], v)] BY <1>1 DEF SetStatus
<1> HIDE DEF v
<1>6. Stored(Store(ds[d], v)) = v BY <1>2, <1>4, AppendType
<1>7. Visible(v) = Visible(Stored(ds[d])) BY <1>3, <1>4, AbsentAssumption DEF Visible
<1>8. Shown' = Shown
  <2>1. Shown' = [Shown EXCEPT ![d] = Visible(Stored(Store(ds[d], v)))] BY <1>5, ShownWrite
  <2> QED BY <1>6, <1>7, <2>1, NothingStored
<1>9. UNCHANGED <<cps, rc, ctl, pass>> BY <1>1 DEF SetStatus
<1>10. Serving' = Serving /\ ClassOwners' = ClassOwners BY <1>9 DEF Serving, ClassOwners
<1>11. used'.create = used.create /\ Deletions' = Deletions
  <2>1. CASE UNCHANGED used BY <2>1 DEF Deletions
  <2>2. CASE Spend("pods") BY <2>2, CountersKept DEF Spend, TypeOK, Moves
  <2> QED BY <2>1, <2>2 DEF DaemonSetObserved, PodsUp, PodsDown
<1> QED BY <1>8, <1>9, <1>10, <1>11, Unseen

(* What happens to the policies.                                           *)
LEMMA PoliciesSeen ==
    ASSUME TypeOK, NEW n \in Names,
           \/ \E spec \in Specs : UserCreates(n, spec) \/ UserEdits(n, spec)
           \/ UserDeletes(n) \/ DeliverClusterPolicy(n)
    PROVE  Rollout!Next
<1>1. UNCHANGED <<ds, rc, ctl, pass>>
  BY DEF UserCreates, UserEdits, UserDeletes, DeliverClusterPolicy, UserStep
<1>2. /\ Shown' = Shown /\ ClassOwners' = ClassOwners /\ Serving' = Serving
      /\ ctl' = ctl
  BY <1>1 DEF Shown, ClassOwners, Serving
<1>3. Rollout!Latest(n) = Stored(cps[n]) BY DEF Rollout!Latest, Stored
<1>4. used \in [Moves -> Nat] BY DEF TypeOK
<1>5. ASSUME NEW spec \in Specs, UserCreates(n, spec) PROVE Rollout!Creates(n, spec)
  <2>1. used'.create = used.create + 1 /\ Deletions' = Deletions
    BY <1>4, <1>5 DEF UserCreates, Spend, Moves, Deletions
  <2> QED BY <1>2, <1>3, <1>5, <2>1, SameReading
          DEF UserCreates, Exists, Rollout!Creates, Rollout!objects, Rollout!process,
              Shown, ClassOwners, Deletions
<1>6. ASSUME NEW spec \in Specs, UserEdits(n, spec) PROVE Rollout!Edits(n, spec)
  <2>1. used'.create = used.create /\ Deletions' = Deletions
    BY <1>4, <1>6, CountersKept DEF UserEdits, Spend, Moves
  <2> QED BY <1>2, <1>3, <1>6, <2>1
          DEF UserEdits, Exists, Rollout!Edits, Rollout!objects, Rollout!process,
              Shown, ClassOwners, Deletions
<1>7. CASE UserDeletes(n)
  <2>1. used'.create = used.create /\ Deletions' = Deletions
    BY <1>4, <1>7, CountersKept DEF UserDeletes, Spend, Moves
  <2>2. Rollout!Deletes(n)
    BY <1>2, <1>7, <2>1
    DEF UserDeletes, Rollout!Deletes, Rollout!objects, Rollout!process, Shown, ClassOwners,
        Deletions
  <2> QED BY <2>2 DEF Rollout!Next
<1>8. CASE DeliverClusterPolicy(n)
  <2>1. Rollout!Learns(n)
    BY <1>2, <1>8
    DEF DeliverClusterPolicy, Rollout!Learns, Rollout!objects, Rollout!process, Shown,
        ClassOwners, Deletions
  <2> QED BY <2>1 DEF Rollout!Next
<1> QED BY <1>5, <1>6, <1>7, <1>8 DEF Rollout!Next

(* What users and the garbage collector take away.                         *)
LEMMA RemovalsSeen ==
    ASSUME TypeOK,
           \/ \E d \in DaemonSets : UserDeletesDaemonSet(d) \/ CollectDaemonSet(d)
           \/ \E r \in RuntimeClasses : UserDeletesRuntimeClass(r) \/ CollectRuntimeClass(r)
    PROVE  Rollout!Next
<1>1. UNCHANGED <<cps, ctl, pass>>
  BY DEF UserDeletesDaemonSet, CollectDaemonSet, UserDeletesRuntimeClass, CollectRuntimeClass,
         UserStep
<1>2. Serving' = Serving /\ ctl' = ctl BY <1>1 DEF Serving
<1>3. used \in [Moves -> Nat] BY DEF TypeOK
<1>4. Visible(Absent) = Absent BY DEF Visible
<1>5. ASSUME NEW o PROVE Rollout!Alive(o) = Alive(o)
  BY DEF Rollout!Alive, Alive, Rollout!Latest, Exists, Stored
<1>6. ASSUME NEW d \in DaemonSets, UserDeletesDaemonSet(d) \/ CollectDaemonSet(d)
      PROVE  Rollout!Next
  <2>1. ds[d] \in Histories(Deployed) /\ ds' = [ds EXCEPT ![d] = Append(ds[d], Absent)]
    BY <1>6 DEF TypeOK, UserDeletesDaemonSet, CollectDaemonSet
  <2>2. Stored(Append(ds[d], Absent)) = Absent BY <2>1, AppendType
  <2>3. Shown' = [Shown EXCEPT ![d] = Absent] BY <1>4, <2>1, <2>2, ShownWrite
  <2>4. ClassOwners' = ClassOwners
    BY <1>6 DEF UserDeletesDaemonSet, CollectDaemonSet, ClassOwners
  <2>5. CASE UserDeletesDaemonSet(d)
    <3>1. used'.create = used.create /\ Deletions' = Deletions + 1
      BY <1>3, <2>5 DEF UserDeletesDaemonSet, Spend, Moves, Deletions
    <3>2. Rollout!UserRemovesDaemonSet(d)
      BY <1>1, <1>2, <2>3, <2>4, <3>1
      DEF Rollout!UserRemovesDaemonSet, Rollout!policies, Rollout!process, Shown, ClassOwners,
          Deletions
    <3> QED BY <3>2, SameReading DEF Rollout!Next
  <2>6. CASE CollectDaemonSet(d)
    <3>1. used' = used /\ Exists(ds[d]) /\ ~Alive(Stored(ds[d]).owner)
      BY <2>6 DEF CollectDaemonSet
    <3>2. Stored(ds[d]) \in Deployed BY <2>1, <3>1, EndsType DEF Exists
    <3>3. Shown[d] = [owner |-> Stored(ds[d]).owner, content |-> Stored(ds[d]).content]
      BY <3>2, AbsentAssumption DEF Shown, Visible
    <3>4. Shown[d] \in [owner : Owners, content : Contents] BY <3>2, <3>3 DEF Deployed
    <3>5. Shown[d] # Absent /\ Shown[d].owner = Stored(ds[d]).owner
      BY <3>3, <3>4, MappingAssumption
    <3>6. Rollout!Collect(d)
      BY <1>1, <1>2, <1>5, <2>3, <2>4, <3>1, <3>5
      DEF Rollout!Collect, Rollout!policies, Rollout!process, Shown, ClassOwners
    <3> QED BY <3>6, SameReading DEF Rollout!Next
  <2> QED BY <1>6, <2>5, <2>6
<1>7. ASSUME NEW r \in RuntimeClasses, UserDeletesRuntimeClass(r) \/ CollectRuntimeClass(r)
      PROVE  Rollout!Next
  <2>1. rc[r] \in Histories(Owners) /\ rc' = [rc EXCEPT ![r] = Append(rc[r], Absent)]
    BY <1>7 DEF TypeOK, UserDeletesRuntimeClass, CollectRuntimeClass
  <2>2. Stored(Append(rc[r], Absent)) = Absent BY <2>1, AppendType
  <2>3. ClassOwners' = [ClassOwners EXCEPT ![r] = Absent] BY <2>1, <2>2, ClassWrite
  <2>4. Shown' = Shown
    BY <1>7 DEF UserDeletesRuntimeClass, CollectRuntimeClass, Shown
  <2>5. CASE UserDeletesRuntimeClass(r)
    <3>1. used'.create = used.create /\ Deletions' = Deletions + 1
      BY <1>3, <2>5 DEF UserDeletesRuntimeClass, Spend, Moves, Deletions
    <3>2. Rollout!UserRemovesClass(r)
      BY <1>1, <1>2, <2>3, <2>4, <3>1
      DEF Rollout!UserRemovesClass, Rollout!policies, Rollout!process, Shown, ClassOwners,
          Deletions
    <3> QED BY <3>2, SameReading DEF Rollout!Next
  <2>6. CASE CollectRuntimeClass(r)
    <3>1. used' = used /\ Exists(rc[r]) /\ ~Alive(Stored(rc[r]))
      BY <2>6 DEF CollectRuntimeClass
    <3>2. ClassOwners[r] # Absent /\ ~Rollout!Alive(ClassOwners[r])
      BY <1>5, <3>1 DEF ClassOwners, Exists
    <3>3. Rollout!CollectClass(r)
      BY <1>1, <1>2, <2>3, <2>4, <3>1, <3>2
      DEF Rollout!CollectClass, Rollout!policies, Rollout!process, Shown, ClassOwners
    <3> QED BY <3>3, SameReading DEF Rollout!Next
  <2> QED BY <1>7, <2>5, <2>6
<1> QED BY <1>6, <1>7

(* The restart of the process.                                             *)
LEMMA RestartSeen == ASSUME TypeOK, Restart PROVE Rollout!Next
<1>1. Serving' = Absent BY DEF Restart, Idle, Serving
<1>2. ctl'.singleton = Absent /\ ctl'.runtime = "" BY DEF Restart, Fresh
<1>3. used'.create = used.create /\ Deletions' = Deletions
  BY CountersKept DEF Restart, Spend, TypeOK, Moves
<1>4. Shown' = Shown
  <2>1. \A d \in DaemonSets : Stored(ds'[d]) = Stored(ds[d]) BY LatestType DEF Restart, TypeOK
  <2> QED BY <2>1 DEF Shown, Stored
<1>5. ClassOwners' = ClassOwners
  <2>1. \A r \in RuntimeClasses : Stored(rc'[r]) = Stored(rc[r]) BY LatestType DEF Restart, TypeOK
  <2> QED BY <2>1 DEF ClassOwners, Stored
<1>6. cps' = [n \in Names |-> <<Rollout!Latest(n)>>]
  BY DEF Restart, Latest, TypeOK, Rollout!Latest, Stored
<1>7. Rollout!Restart
  BY <1>1, <1>2, <1>3, <1>4, <1>5, <1>6
  DEF Rollout!Restart, Rollout!objects, Shown, ClassOwners, Deletions
<1> QED BY <1>7 DEF Rollout!Next
-----------------------------------------------------------------------------
(* Every step is one of PolicyRollout, or is not seen.                     *)
LEMMA RolloutNext ==
    ASSUME TypeOK, PlaceMeant, RuntimeDecided, [Next]_vars
    PROVE  [Rollout!Next]_Rollout!vars
<1>1. CASE Reconcile /\ pass.pc = "idle" BY <1>1, BeginSeen
<1>2. CASE Reconcile /\ pass.pc # "idle"
  BY <1>2, PassCases, DeleteSeen, DeploySeen, LookUnseen, ClassSeen, ReportSeen
<1>3. CASE Cluster
  BY <1>3, EventsUnseen, PodsUnseen, PoliciesSeen, RemovalsSeen DEF Cluster
<1>4. CASE Environment
  BY <1>4, EventsUnseen, PodsUnseen, PoliciesSeen, RemovalsSeen, RestartSeen DEF Environment
<1>5. CASE UNCHANGED vars BY <1>5, EventsUnseen
<1> QED BY <1>1, <1>2, <1>3, <1>4, <1>5 DEF Next

(* Whatever fails, restarts or comes late, the operator does nothing but   *)
(* what PolicyRollout promises: it serves one policy at a time from ever   *)
(* newer versions, what it writes or deletes is what that version asks     *)
(* for, and its reports overwrite no edit of the user.                     *)
THEOREM ImplementsPolicyRollout == Spec => ImplementsRollout
<1> DEFINE IInv == TypeOK /\ PlaceMeant /\ RuntimeDecided
<1>1. Init => IInv
  <2> SUFFICES ASSUME Init PROVE IInv OBVIOUS
  <2>1. pass.pc = "idle" /\ ~ctl.loaded /\ ctl.runtime = "" BY DEF Init, Idle, Fresh
  <2> QED BY <2>1, TypeInit DEF PlaceMeant, RuntimeDecided
<1>2. IInv /\ [Next]_vars => IInv'
  BY TypeNext, PlaceMeantNext, DecidedNext
<1>3. IInv /\ [Next]_vars => [Rollout!Next]_Rollout!vars BY RolloutNext
<1> QED BY <1>1, <1>2, <1>3, RolloutInit, PTL DEF Spec, ImplementsRollout, Rollout!Spec
==============================================================================
