--------------------------- MODULE MCClusterPolicy ---------------------------
(***************************************************************************)
(* Small instances of ClusterPolicyController: the policies a user writes, *)
(* the manifests of the three states and the nodes of the cluster.         *)
(***************************************************************************)
EXTENDS ClusterPolicyRollout, TLC

(* Nothing in the model prefers one policy name to another.                *)
NameSymmetry == Permutations(Names)

OsDist(os, config) == [os |-> os, config |-> config]

PolicySpec(runtime, cr, class, config, dp, hs, dists) ==
    [ operator         |-> [defaultRuntime |-> runtime],
      containerRuntime |-> [enabled |-> cr, runtimeClass |-> class, config |-> config],
      devicePlugin     |-> [enabled |-> dp, config |-> config],
      hostSetup        |-> [enabled |-> hs, osDists |-> dists] ]

U18 == OsDist("ubuntu18", "2022.1")
U20 == OsDist("ubuntu20", "2022.1")

(* The defaults of the chart: no flag set, one OS.                         *)
DefaultSpec == PolicySpec("containerd", "nil", "", "v1", "nil", "nil", <<U18>>)

(* Container runtime switched off, another OS for the host setup.          *)
TrimmedSpec == PolicySpec("containerd", "false", "", "v1", "nil", "true", <<U20>>)

(* New images and XRT version, another runtime class and another default   *)
(* runtime; the second entry for the same OS is never used.                *)
UpgradeSpec == PolicySpec("docker", "true", "fpga", "v2", "false", "true",
                          <<OsDist("ubuntu18", "2022.2"), U18>>)

OneSpec    == {DefaultSpec}
TwoSpecs   == {DefaultSpec, TrimmedSpec}
EditSpecs  == {DefaultSpec, TrimmedSpec, UpgradeSpec}

State(daemonsets, class) == [daemonsets |-> daemonsets, runtimeClass |-> class]

AssetsOf(cr, class, dp, hs) ==
    [ s \in {"state-container-runtime", "state-device-plugin", "state-host-setup"} |->
        CASE s = "state-container-runtime" -> State(cr, class)
          [] s = "state-device-plugin"     -> State(dp, FALSE)
          [] s = "state-host-setup"        -> State(hs, FALSE) ]

XCR  == <<"xilinx-container-runtime-daemonset">>
DP   == <<"device-plugin-daemonset">>
HS18 == <<"host-setup-ubuntu18-daemonset">>
HS20 == <<"host-setup-ubuntu20-daemonset">>

RuntimeOnly   == AssetsOf(XCR, TRUE, <<>>, <<>>)
HostOnly      == AssetsOf(<<>>, FALSE, <<>>, HS18 \o HS20)

Node(labels, runtimeVersion) == [labels |-> labels, runtimeVersion |-> runtimeVersion]

FPGANode == Node([k \in NFDKeys |-> CASE k = OSReleaseID -> "ubuntu"
                                      [] k = OSVersionID -> "18.04"
                                      [] k = OsMajorVersion -> "18"
                                      [] k = FPGAPresent -> "true"], Docker)
PlainNode == Node([k \in {"kubernetes.io/hostname"} |-> "plain"], "cri-o")

OneNode  == {FPGANode}
NoNodes  == {}
AllNodes == {FPGANode, PlainNode}

Limits(create, edit, remove, drift, classDrift, pods, node, crash, resync, fault) ==
    [ m \in Moves |->
        CASE m = "create" -> create [] m = "edit"  -> edit  [] m = "remove" -> remove
          [] m = "drift"  -> drift  [] m = "pods"  -> pods  [] m = "node"   -> node
          [] m = "crash"  -> crash  [] m = "fault" -> fault [] m = "resync" -> resync
          [] m = "classDrift" -> classDrift ]

EditLimits   == Limits(1, 1, 0, 1, 0, 0, 0, 0, 0, 0)
FaultLimits  == Limits(1, 1, 0, 0, 1, 0, 0, 0, 0, 2)
RivalLimits  == Limits(2, 0, 0, 0, 0, 0, 1, 1, 0, 0)
PodLimits    == Limits(1, 1, 0, 0, 0, 1, 0, 0, 1, 0)
SettleLimits == Limits(2, 0, 1, 0, 0, 0, 0, 0, 0, 0)
==============================================================================
