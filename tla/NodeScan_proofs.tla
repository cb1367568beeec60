--------------------------- MODULE NodeScan_proofs ---------------------------
(***************************************************************************)
(* The loops of NodeScan return what NodeDiscovery says, for node lists of *)
(* any length: LoopInv is inductive, and ScanCorrect follows from it.      *)
(***************************************************************************)
EXTENDS NodeScan, TLAPS

(* The list and the policy do not change while init reads them.            *)
Inputs == list \in NodeLists /\ spec \in Specs

Inv == Inputs /\ LoopInv

(* One more position, one more node.                                       *)
LEMMA BeforeStep ==
    ASSUME NEW k \in Nat \ {0}
    PROVE  Before(k + 1) = Before(k) \cup {list[k]}
<1>1. 1..((k + 1) - 1) = (1..(k - 1)) \cup {k} OBVIOUS
<1> QED BY <1>1 DEF Before

(* No node comes before the first.                                         *)
LEMMA BeforeFirst == Before(1) = {}
BY DEF Before

(* The nodes passed are nodes of the list.                                 *)
LEMMA BeforeListed ==
    ASSUME Len(list) \in Nat, NEW k \in 1..(Len(list) + 1)
    PROVE  Before(k) \subseteq Listed
BY DEF Before, Listed

(* The releases of one more node are added to those found.                 *)
LEMMA DistsStep ==
    ASSUME NEW S, NEW node
    PROVE  OsDistributions(S \cup {node}) = OsDistributions(S) \cup OsDistributions({node})
BY DEF OsDistributions

(* The list has a length, and the position is within it or just behind.    *)
LEMMA Position ==
    ASSUME Inv
    PROVE  /\ list \in NodeLists /\ spec \in Specs
           /\ Len(list) \in Nat /\ i \in 1..(Len(list) + 1)
           /\ loop \in {"runtime", "count", "dists", "done"}
           /\ RuntimeInv /\ CountInv /\ DistsInv
BY NodeListsAssumption DEF Inv, Inputs, LoopInv

(* Before the first node nothing is known.                                 *)
LEMMA InvInit == Init => Inv
<1> SUFFICES ASSUME Init PROVE Inv OBVIOUS
<1>1. list \in NodeLists /\ spec \in Specs BY DEF Init
<1>2. Len(list) \in Nat BY <1>1, NodeListsAssumption
<1>0. i = 1 BY DEF Init
<1>3. i \in 1..(Len(list) + 1) BY <1>0, <1>2
<1>4. RuntimeInv
  <2>1. loop = "runtime" /\ Before(i) = {} /\ runtime = "" BY BeforeFirst DEF Init
  <2>2. SoFar({}) = "" BY DEF SoFar, RunsOn
  <2> QED BY <2>1, <2>2 DEF RuntimeInv, Containerd
<1>5. CountInv
  <2>1. NodesCounted = {} /\ nfd = FALSE /\ fpgaNodes = 0 BY DEF Init, NodesCounted
  <2>2. nfd \in BOOLEAN /\ (nfd <=> ClusterHasNFDLabels(NodesCounted))
    BY <2>1, Zenon DEF ClusterHasNFDLabels
  <2>3. fpgaNodes \in Nat /\ ~(fpgaNodes > 0) BY <2>1
  <2>4. ~HasFPGANodes(NodesCounted) BY <2>1 DEF HasFPGANodes
  <2> QED BY <2>2, <2>3, <2>4 DEF CountInv
<1>6. DistsInv BY DEF Init, DistsInv, NodesSurveyed, OsDistributions
<1> QED BY <1>1, <1>3, <1>4, <1>5, <1>6 DEF Init, Inv, Inputs, LoopInv

(* A step of the first loop leaves the results of the others alone.        *)
LEMMA RuntimeStepKeeps ==
    ASSUME CountInv, DistsInv, loop = "runtime", loop' = "runtime",
           nfd' = nfd, fpgaNodes' = fpgaNodes, dists' = dists
    PROVE  CountInv' /\ DistsInv'
<1>1. NodesCounted = {} /\ NodesCounted' = {} BY DEF NodesCounted
<1>2. NodesSurveyed = {} /\ NodesSurveyed' = {} BY DEF NodesSurveyed
<1>3. CountInv'
  BY <1>1 DEF CountInv, ClusterHasNFDLabels, HasFPGANodes
<1>4. DistsInv' BY <1>2 DEF DistsInv, OsDistributions
<1> QED BY <1>3, <1>4

(* getRuntime passes one node.                                             *)
LEMMA InvRuntimeNode == ASSUME Inv, RuntimeNode PROVE Inv'
<1>1. /\ loop = "runtime" /\ loop' = "runtime"
      /\ i <= Len(list) /\ list' = list /\ spec' = spec
      /\ runtime' = list[i].runtimeVersion /\ runtime' \in Runtimes
      /\ i' = IF runtime' = Containerd THEN Len(list) + 1 ELSE i + 1
      /\ nfd' = nfd /\ fpgaNodes' = fpgaNodes /\ dists' = dists
  BY DEF RuntimeNode, At, Node
<1>2. Len(list) \in Nat /\ i \in 1..Len(list) BY <1>1, Position
<1>3. i' \in 1..(Len(list) + 1) BY <1>1, <1>2
<1>4. Before(i + 1) = Before(i) \cup {list[i]} BY <1>2, BeforeStep
<1>5. runtime' = SoFar(Before(i'))
  <2>1. CASE runtime' = Containerd
    <3>1. Before(i + 1) \subseteq Listed BY <1>2, BeforeListed
    <3>2. RunsOn(Listed, Containerd) BY <1>1, <1>4, <2>1, <3>1 DEF RunsOn
    <3> QED BY <1>1, <2>1, <3>2 DEF SoFar, Listed
  <2>2. CASE runtime' = Docker
    <3>1. i' = i + 1 BY <1>1, <2>2 DEF Docker, Containerd
    <3>2. runtime # Containerd /\ runtime = SoFar(Before(i))
      <4>1. RuntimeInv BY Position
      <4>2. runtime = Containerd => i = Len(list) + 1 BY <1>1, <4>1 DEF RuntimeInv
      <4>3. i # Len(list) + 1 BY <1>2
      <4> QED BY <1>1, <4>1, <4>2, <4>3 DEF RuntimeInv
    <3>3. ~RunsOn(Before(i), Containerd) BY <3>2 DEF SoFar
    <3>4. ~RunsOn(Before(i + 1), Containerd)
      BY <1>1, <1>4, <2>2, <3>3 DEF RunsOn, Docker, Containerd
    <3>5. RunsOn(Before(i + 1), Docker) BY <1>1, <1>4, <2>2 DEF RunsOn
    <3> QED BY <2>2, <3>1, <3>4, <3>5 DEF SoFar
  <2> QED BY <1>1, <2>1, <2>2 DEF Runtimes
<1>6. RuntimeInv' BY <1>1, <1>5 DEF RuntimeInv, Before, SoFar, RunsOn
<1>7. CountInv' /\ DistsInv' BY <1>1, Position, RuntimeStepKeeps
<1> QED BY <1>1, <1>3, <1>6, <1>7, Position DEF Inv, Inputs, LoopInv

(* getRuntime passes a node whose runtime it does not recognise.           *)
LEMMA InvUnknownRuntimeNode == ASSUME Inv, UnknownRuntimeNode PROVE Inv'
<1>1. /\ loop = "runtime" /\ loop' = "runtime"
      /\ i <= Len(list) /\ list' = list /\ spec' = spec
      /\ list[i].runtimeVersion \notin Runtimes /\ runtime' = runtime
      /\ i' = i + 1
      /\ nfd' = nfd /\ fpgaNodes' = fpgaNodes /\ dists' = dists
  BY DEF UnknownRuntimeNode, At, Node
<1>2. Len(list) \in Nat /\ i \in 1..Len(list) BY <1>1, Position
<1>3. i' \in 1..(Len(list) + 1) BY <1>1, <1>2
<1>4. Before(i + 1) = Before(i) \cup {list[i]} BY <1>2, BeforeStep
<1>5. RuntimeInv BY Position
<1>6. runtime = SoFar(Before(i)) /\ (runtime = Containerd => i = Len(list) + 1)
  BY <1>1, <1>5 DEF RuntimeInv
<1>7. SoFar(Before(i + 1)) = SoFar(Before(i))
  BY <1>1, <1>4 DEF SoFar, RunsOn, Runtimes
<1>8. i # Len(list) + 1 BY <1>2
<1>9. RuntimeInv' BY <1>1, <1>6, <1>7, <1>8 DEF RuntimeInv, Before, SoFar, RunsOn
<1>10. CountInv' /\ DistsInv' BY <1>1, Position, RuntimeStepKeeps
<1> QED BY <1>1, <1>3, <1>9, <1>10, Position DEF Inv, Inputs, LoopInv

(* The end of getRuntime: the default where no node decided.               *)
LEMMA InvRuntimeFound == ASSUME Inv, RuntimeFound PROVE Inv'
<1>1. /\ loop = "runtime" /\ loop' = "count"
      /\ i > Len(list) /\ list' = list /\ spec' = spec
      /\ runtime' = IF runtime = "" THEN spec.operator.defaultRuntime ELSE runtime
      /\ i' = 1
      /\ nfd' = nfd /\ fpgaNodes' = fpgaNodes /\ dists' = dists
  BY DEF RuntimeFound, Ends
<1>2. Len(list) \in Nat /\ i = Len(list) + 1
  <2>1. i > Len(list) BY <1>1
  <2> QED BY <2>1, Position
<1>3. i' \in 1..(Len(list) + 1)
  <2>1. i' = 1 BY <1>1
  <2> QED BY <1>2, <2>1
<1>4. RuntimeInv BY Position
<1>5. runtime = SoFar(Listed) BY <1>1, <1>2, <1>4 DEF RuntimeInv, Listed
<1>6. runtime' = GetRuntime(Listed, spec)
  BY <1>1, <1>5 DEF SoFar, GetRuntime, Docker, Containerd
<1>7. RuntimeInv' BY <1>1, <1>6 DEF RuntimeInv, GetRuntime, Listed, Before, RunsOn
<1>8. NodesCounted = {} /\ NodesSurveyed = {} BY <1>1 DEF NodesCounted, NodesSurveyed
<1>9. NodesCounted' = {}
  <2>1. loop' = "count" /\ i' = 1 BY <1>1
  <2> QED BY <2>1 DEF NodesCounted, Before
<1>10. NodesSurveyed' = {} BY <1>1 DEF NodesSurveyed
<1>11. CountInv'
  <2>1. CountInv BY Position
  <2> QED BY <1>1, <1>8, <1>9, <2>1 DEF CountInv, ClusterHasNFDLabels, HasFPGANodes
<1>12. DistsInv'
  <2>1. DistsInv BY Position
  <2> QED BY <1>1, <1>8, <1>10, <2>1 DEF DistsInv, OsDistributions
<1> QED BY <1>1, <1>3, <1>7, <1>11, <1>12, Position DEF Inv, Inputs, LoopInv

(* A step behind the first loop keeps what it found.                       *)
LEMMA RuntimeKept ==
    ASSUME RuntimeInv, loop # "runtime", loop' # "runtime",
           list' = list, spec' = spec, runtime' = runtime
    PROVE  RuntimeInv'
BY DEF RuntimeInv, GetRuntime, Listed, Before, RunsOn

(* getFPGANodeCount passes one node.                                       *)
LEMMA InvCountNode == ASSUME Inv, CountNode PROVE Inv'
<1>1. /\ loop = "count" /\ loop' = "count"
      /\ i <= Len(list) /\ list' = list /\ spec' = spec
      /\ runtime' = runtime /\ i' = i + 1 /\ dists' = dists
  BY DEF CountNode, At
<1>2. Len(list) \in Nat /\ i \in 1..Len(list) BY <1>1, Position
<1>3. i' \in 1..(Len(list) + 1) BY <1>1, <1>2
<1>4. NodesCounted' = NodesCounted \cup {list[i]}
  <2>1. NodesCounted = Before(i) BY <1>1 DEF NodesCounted
  <2>2. NodesCounted' = Before(i + 1) BY <1>1 DEF NodesCounted, Before
  <2> QED BY <1>2, <2>1, <2>2, BeforeStep
<1>5. CountInv BY Position
<1>6. nfd' \in BOOLEAN /\ (nfd' <=> ClusterHasNFDLabels(NodesCounted'))
  <2>1. nfd \in BOOLEAN /\ (nfd <=> ClusterHasNFDLabels(NodesCounted)) BY <1>5 DEF CountInv
  <2>2. nfd' = IF nfd THEN nfd ELSE HasNFDLabels(list[i].labels)
    BY DEF CountNode, Node
  <2>3. ClusterHasNFDLabels(NodesCounted')
            <=> ClusterHasNFDLabels(NodesCounted) \/ HasNFDLabels(list[i].labels)
    BY <1>4 DEF ClusterHasNFDLabels
  <2>4. HasNFDLabels(list[i].labels) \in BOOLEAN BY DEF HasNFDLabels
  <2> QED BY <2>1, <2>2, <2>3, <2>4, Zenon
<1>7. fpgaNodes' \in Nat /\ (fpgaNodes' > 0 <=> HasFPGANodes(NodesCounted'))
  <2>1. fpgaNodes \in Nat /\ (fpgaNodes > 0 <=> HasFPGANodes(NodesCounted))
    BY <1>5 DEF CountInv
  <2>2. HasFPGANodes(NodesCounted')
            <=> HasFPGANodes(NodesCounted) \/ HasFPGALables(list[i].labels)
    BY <1>4 DEF HasFPGANodes
  <2>3. fpgaNodes' = IF HasFPGALables(list[i].labels) THEN fpgaNodes + 1 ELSE fpgaNodes
    BY DEF CountNode, Node
  <2>4. CASE HasFPGALables(list[i].labels)
    <3>1. fpgaNodes' \in Nat /\ fpgaNodes' > 0 BY <2>1, <2>3, <2>4
    <3> QED BY <2>2, <2>4, <3>1
  <2>5. CASE ~HasFPGALables(list[i].labels)
    <3>1. fpgaNodes' = fpgaNodes BY <2>3, <2>5
    <3> QED BY <2>1, <2>2, <2>5, <3>1
  <2> QED BY <2>4, <2>5
<1>8. CountInv' BY <1>6, <1>7 DEF CountInv
<1>9. DistsInv'
  <2>1. NodesSurveyed = {} /\ NodesSurveyed' = {} BY <1>1 DEF NodesSurveyed
  <2>2. DistsInv BY Position
  <2> QED BY <1>1, <2>1, <2>2 DEF DistsInv, OsDistributions
<1>10. RuntimeInv' BY <1>1, Position, RuntimeKept
<1> QED BY <1>1, <1>3, <1>8, <1>9, <1>10, Position DEF Inv, Inputs, LoopInv

(* A step behind the second loop keeps what it found.                      *)
LEMMA CountKept ==
    ASSUME CountInv, NodesCounted' = NodesCounted, nfd' = nfd, fpgaNodes' = fpgaNodes
    PROVE  CountInv'
BY DEF CountInv, ClusterHasNFDLabels, HasFPGANodes

(* The end of getFPGANodeCount.                                            *)
LEMMA InvCounted == ASSUME Inv, Counted PROVE Inv'
<1>1. /\ loop = "count" /\ loop' = "dists"
      /\ i > Len(list) /\ list' = list /\ spec' = spec
      /\ runtime' = runtime /\ i' = 1
      /\ nfd' = nfd /\ fpgaNodes' = fpgaNodes /\ dists' = dists
  BY DEF Counted, Ends
<1>2. Len(list) \in Nat /\ i = Len(list) + 1 BY <1>1, Position
<1>3. i' \in 1..(Len(list) + 1) BY <1>1, <1>2
<1>4. NodesCounted' = NodesCounted
  <2>1. NodesCounted = Listed BY <1>1, <1>2 DEF NodesCounted, Listed
  <2>2. NodesCounted' = Listed BY <1>1 DEF NodesCounted, Listed, Before
  <2> QED BY <2>1, <2>2
<1>5. CountInv' BY <1>1, <1>4, Position, CountKept
<1>6. DistsInv'
  <2>1. NodesSurveyed = {} BY <1>1 DEF NodesSurveyed
  <2>2. NodesSurveyed' = {} BY <1>1 DEF NodesSurveyed, Before
  <2>3. DistsInv BY Position
  <2> QED BY <1>1, <2>1, <2>2, <2>3 DEF DistsInv, OsDistributions
<1>7. RuntimeInv' BY <1>1, Position, RuntimeKept
<1> QED BY <1>1, <1>3, <1>5, <1>6, <1>7, Position DEF Inv, Inputs, LoopInv

(* getOsDistributions passes one node.                                     *)
LEMMA InvDistNode == ASSUME Inv, DistNode PROVE Inv'
<1>1. /\ loop = "dists" /\ loop' = "dists"
      /\ i <= Len(list) /\ list' = list /\ spec' = spec
      /\ runtime' = runtime /\ i' = i + 1
      /\ nfd' = nfd /\ fpgaNodes' = fpgaNodes
      /\ dists' = dists \cup OsDistributions({list[i]})
  BY DEF DistNode, At, Node
<1>2. Len(list) \in Nat /\ i \in 1..Len(list) BY <1>1, Position
<1>3. i' \in 1..(Len(list) + 1) BY <1>1, <1>2
<1>4. NodesCounted' = NodesCounted BY <1>1 DEF NodesCounted, Listed, Before
<1>5. CountInv' BY <1>1, <1>4, Position, CountKept
<1>6. NodesSurveyed' = NodesSurveyed \cup {list[i]}
  <2>1. NodesSurveyed = Before(i) BY <1>1 DEF NodesSurveyed
  <2>2. NodesSurveyed' = Before(i + 1) BY <1>1 DEF NodesSurveyed, Before
  <2> QED BY <1>2, <2>1, <2>2, BeforeStep
<1>7. DistsInv'
  <2>1. dists = OsDistributions(NodesSurveyed) BY Position DEF DistsInv
  <2>2. dists' = OsDistributions(NodesSurveyed') BY <1>1, <1>6, <2>1, DistsStep
  <2> QED BY <2>2 DEF DistsInv, OsDistributions
<1>8. RuntimeInv' BY <1>1, Position, RuntimeKept
<1> QED BY <1>1, <1>3, <1>5, <1>7, <1>8, Position DEF Inv, Inputs, LoopInv

(* The end of getOsDistributions.                                          *)
LEMMA InvSurveyed == ASSUME Inv, Surveyed PROVE Inv'
<1>1. /\ loop = "dists" /\ loop' = "done"
      /\ i > Len(list) /\ list' = list /\ spec' = spec
      /\ runtime' = runtime /\ i' = 1
      /\ nfd' = nfd /\ fpgaNodes' = fpgaNodes /\ dists' = dists
  BY DEF Surveyed, Ends
<1>2. Len(list) \in Nat /\ i = Len(list) + 1 BY <1>1, Position
<1>3. i' \in 1..(Len(list) + 1) BY <1>1, <1>2
<1>4. NodesCounted' = NodesCounted BY <1>1 DEF NodesCounted, Listed, Before
<1>5. CountInv' BY <1>1, <1>4, Position, CountKept
<1>6. DistsInv'
  <2>1. NodesSurveyed = Listed BY <1>1, <1>2 DEF NodesSurveyed, Listed
  <2>2. NodesSurveyed' = Listed BY <1>1 DEF NodesSurveyed, Listed, Before
  <2>3. DistsInv BY Position
  <2> QED BY <1>1, <2>1, <2>2, <2>3 DEF DistsInv, OsDistributions
<1>7. RuntimeInv' BY <1>1, Position, RuntimeKept
<1> QED BY <1>1, <1>3, <1>5, <1>6, <1>7, Position DEF Inv, Inputs, LoopInv

(* Every step of the loops keeps the invariant.                            *)
LEMMA InvNext == Inv /\ [Next]_vars => Inv'
<1> SUFFICES ASSUME Inv, [Next]_vars PROVE Inv' OBVIOUS
<1>1. CASE Next
  BY <1>1, InvRuntimeNode, InvUnknownRuntimeNode, InvRuntimeFound, InvCountNode,
     InvCounted, InvDistNode, InvSurveyed DEF Next
<1>2. CASE UNCHANGED vars
  BY <1>2 DEF vars, Inv, Inputs, LoopInv, RuntimeInv, CountInv, DistsInv,
              NodesCounted, NodesSurveyed, Listed, Before, SoFar, GetRuntime, RunsOn,
              ClusterHasNFDLabels, HasFPGANodes, OsDistributions
<1> QED BY <1>1, <1>2

(* At every node of every list the three loops have computed the runtime,  *)
(* the flags and the releases of the nodes they have passed.               *)
THEOREM LoopsAgree == Spec => []LoopInv
<1>1. Inv => LoopInv BY DEF Inv
<1> QED BY <1>1, InvInit, InvNext, PTL DEF Spec

(* init works with the runtime, the flags and the releases of the whole    *)
(* cluster, whatever the number and the order of its nodes.                *)
THEOREM ScanIsCorrect == Spec => []ScanCorrect
<1>1. LoopInv => ScanCorrect
  <2> SUFFICES ASSUME LoopInv, loop = "done" PROVE ScanCorrect BY DEF ScanCorrect
  <2>1. NodesCounted = Listed /\ NodesSurveyed = Listed
    BY DEF NodesCounted, NodesSurveyed
  <2>2. runtime = GetRuntime(Listed, spec) BY DEF LoopInv, RuntimeInv
  <2>3. CountInv /\ DistsInv BY DEF LoopInv
  <2> QED BY <2>1, <2>2, <2>3 DEF ScanCorrect, CountInv, DistsInv
<1> QED BY <1>1, LoopsAgree, PTL
==============================================================================
