------------------------------ MODULE NodeScan ------------------------------
(***************************************************************************)
(* The loops over the node list in init: getRuntime, getFPGANodeCount and  *)
(* getOsDistributions, one node per step.  NodeDiscovery says what they    *)
(* return for a set of nodes; here the loops are shown to return it, for   *)
(* every list and in whatever order the nodes come.                        *)
(* A definition whose name begins with Mut is a plausible mistake in the   *)
(* definition that follows it; no specification uses one.                  *)
(***************************************************************************)
EXTENDS NodeDiscovery

CONSTANT NodeLists      \* the lists that the node informer may return

ASSUME NodeListsAssumption == \A l \in NodeLists : Len(l) \in Nat

VARIABLES
    list,       \* the nodes listed
    spec,       \* the policy whose default runtime applies
    loop,       \* the loop that is running, or "done"
    i,          \* the next node of that loop
    runtime,    \* result of getRuntime so far
    nfd,        \* clusterHasNFDLabels
    fpgaNodes,  \* fpgaNodesTotal
    dists       \* the keys of dists

vars == <<list, spec, loop, i, runtime, nfd, fpgaNodes, dists>>

Init ==
    /\ list \in NodeLists
    /\ spec \in Specs
    /\ loop = "runtime" /\ i = 1
    /\ runtime = "" /\ nfd = FALSE /\ fpgaNodes = 0 /\ dists = {}

Node == list[i]

At(name) == loop = name /\ i <= Len(list) /\ UNCHANGED <<list, spec>>

(* A loop ends and the next one starts at the first node.                  *)
Ends(name, next) ==
    /\ loop = name /\ i > Len(list)
    /\ loop' = next /\ i' = 1
    /\ UNCHANGED <<list, spec>>

MutRuntimeNodeNoBreak ==
    /\ At("runtime")
    /\ Node.runtimeVersion \in Runtimes
    /\ runtime' = Node.runtimeVersion
    /\ i' = i + 1
    /\ UNCHANGED <<loop, nfd, fpgaNodes, dists>>

(* A recognised runtime replaces the one found before; the first           *)
(* containerd node ends the loop.                                          *)
RuntimeNode ==
    /\ At("runtime")
    /\ Node.runtimeVersion \in Runtimes
    /\ runtime' = Node.runtimeVersion
    /\ i' = IF runtime' = Containerd THEN Len(list) + 1 ELSE i + 1
    /\ UNCHANGED <<loop, nfd, fpgaNodes, dists>>

(* A runtime that getRuntimeString does not recognise is skipped.          *)
UnknownRuntimeNode ==
    /\ At("runtime")
    /\ Node.runtimeVersion \notin Runtimes
    /\ i' = i + 1
    /\ UNCHANGED <<loop, runtime, nfd, fpgaNodes, dists>>

RuntimeFound ==
    /\ Ends("runtime", "count")
    /\ runtime' = IF runtime = "" THEN spec.operator.defaultRuntime ELSE runtime
    /\ UNCHANGED <<nfd, fpgaNodes, dists>>

MutCountNodeForgets ==
    /\ At("count")
    /\ nfd' = HasNFDLabels(Node.labels)
    /\ fpgaNodes' = IF HasFPGALables(Node.labels) THEN fpgaNodes + 1 ELSE fpgaNodes
    /\ i' = i + 1
    /\ UNCHANGED <<loop, runtime, dists>>

CountNode ==
    /\ At("count")
    /\ nfd' = IF nfd THEN nfd ELSE HasNFDLabels(Node.labels)
    /\ fpgaNodes' = IF HasFPGALables(Node.labels) THEN fpgaNodes + 1 ELSE fpgaNodes
    /\ i' = i + 1
    /\ UNCHANGED <<loop, runtime, dists>>

Counted == Ends("count", "dists") /\ UNCHANGED <<runtime, nfd, fpgaNodes, dists>>

DistNode ==
    /\ At("dists")
    /\ dists' = dists \cup OsDistributions({Node})
    /\ i' = i + 1
    /\ UNCHANGED <<loop, runtime, nfd, fpgaNodes>>

Surveyed == Ends("dists", "done") /\ UNCHANGED <<runtime, nfd, fpgaNodes, dists>>

Next ==
    \/ RuntimeNode \/ UnknownRuntimeNode \/ RuntimeFound
    \/ CountNode \/ Counted \/ DistNode \/ Surveyed

Spec == Init /\ [][Next]_vars
-----------------------------------------------------------------------------
(* The nodes before position k.                                            *)
Before(k) == {list[j] : j \in 1..(k - 1)}

Listed == Before(Len(list) + 1)

(* What getRuntime knows after the nodes of S: containerd as soon as one   *)
(* node runs it, otherwise docker if some node does.                       *)
SoFar(S) ==
    IF RunsOn(S, Containerd) THEN Containerd
    ELSE IF RunsOn(S, Docker) THEN Docker ELSE ""

(* The nodes that the second and the third loop have passed.               *)
NodesCounted ==
    IF loop = "runtime" THEN {} ELSE IF loop = "count" THEN Before(i) ELSE Listed

NodesSurveyed ==
    IF loop \in {"runtime", "count"} THEN {}
    ELSE IF loop = "dists" THEN Before(i) ELSE Listed

RuntimeInv ==
    /\ loop = "runtime" =>
         /\ runtime = SoFar(Before(i))
         /\ runtime = Containerd => i = Len(list) + 1
    /\ loop # "runtime" => runtime = GetRuntime(Listed, spec)

CountInv ==
    /\ nfd \in BOOLEAN /\ fpgaNodes \in Nat
    /\ nfd <=> ClusterHasNFDLabels(NodesCounted)
    /\ fpgaNodes > 0 <=> HasFPGANodes(NodesCounted)

DistsInv == dists = OsDistributions(NodesSurveyed)

(* The loops agree with NodeDiscovery on the nodes they have passed; a     *)
(* finished getRuntime loop agrees on the whole list although the break,   *)
(* which nothing but a containerd node triggers, leaves part of it unread. *)
LoopInv ==
    /\ loop \in {"runtime", "count", "dists", "done"}
    /\ i \in 1..(Len(list) + 1)
    /\ RuntimeInv
    /\ CountInv
    /\ DistsInv

(* When init has read the nodes, the runtime, the NFD and FPGA flags and   *)
(* the OS releases are those of the set of nodes, whatever the order of    *)
(* the list and wherever the search for a runtime stopped.                 *)
ScanCorrect ==
    loop = "done" =>
        /\ runtime = GetRuntime(Listed, spec)
        /\ nfd <=> ClusterHasNFDLabels(Listed)
        /\ fpgaNodes > 0 <=> HasFPGANodes(Listed)
        /\ dists = OsDistributions(Listed)
=============================================================================
