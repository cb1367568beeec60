---------------------------- MODULE NodeDiscovery ----------------------------
(***************************************************************************)
(* What init learns from the list of cluster nodes: whether NFD has        *)
(* labelled any node, whether any node carries an FPGA, which OS releases  *)
(* are present and which container runtime to configure.                   *)
(*                                                                         *)
(* A node is [labels, runtimeVersion]: labels is a function from the       *)
(* label keys the node has to their values, runtimeVersion the scheme of   *)
(* ContainerRuntimeVersion (the part before "://").                        *)
(***************************************************************************)
EXTENDS ClusterPolicyTypes

OSReleaseID == "system-os_release.ID"
OSVersionID == "system-os_release.VERSION_ID"
OsMajorVersion == "system-os_release.VERSION_ID.major"
FPGAPresent == "pci-1200_10ee.present"

(* The label keys with prefix feature.node.kubernetes.io.                  *)
NFDKeys == {OSReleaseID, OSVersionID, OsMajorVersion, FPGAPresent}

FPGANodeLabels == [k \in {FPGAPresent} |-> "true"]

HasNFDLabels(labels) == DOMAIN labels \cap NFDKeys # {}

HasFPGALables(labels) ==
    \E k \in DOMAIN labels \cap DOMAIN FPGANodeLabels :
        labels[k] = FPGANodeLabels[k]

ClusterHasNFDLabels(nodes) == \E n \in nodes : HasNFDLabels(n.labels)

HasFPGANodes(nodes) == \E n \in nodes : HasFPGALables(n.labels)

LabelOrEmpty(labels, key) == IF key \in DOMAIN labels THEN labels[key] ELSE ""

(* The keys release+version of the map that getOsDistributions returns.    *)
OsDistributions(nodes) ==
    {LabelOrEmpty(n.labels, OSReleaseID) \o LabelOrEmpty(n.labels, OSVersionID)
        : n \in nodes}

(* getRuntimeString: a version that is neither docker nor containerd is    *)
(* skipped by the caller.                                                  *)
RunsOn(nodes, runtime) == \E n \in nodes : n.runtimeVersion = runtime

(* One containerd node is enough for containerd; docker needs a docker     *)
(* node and no containerd node; otherwise the policy's default decides.    *)
GetRuntime(nodes, spec) ==
    IF RunsOn(nodes, Containerd) THEN Containerd
    ELSE IF RunsOn(nodes, Docker) THEN Docker
    ELSE spec.operator.defaultRuntime
==============================================================================
