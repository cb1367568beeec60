----------------------------- MODULE MCNodeScan -----------------------------
(***************************************************************************)
(* All lists of up to three nodes of five kinds, and a state with two      *)
(* DaemonSets, a RuntimeClass and a manifest of no interest.               *)
(***************************************************************************)
EXTENDS Rendering

CONSTANT MaxNodes       \* the length of the longest list

MCSpec(default) ==
    [ operator         |-> [defaultRuntime |-> default],
      containerRuntime |-> [enabled |-> "nil", runtimeClass |-> "", config |-> "v1"],
      devicePlugin     |-> [enabled |-> "nil", config |-> "v1"],
      hostSetup        |-> [enabled |-> "nil", osDists |-> <<>>] ]

MCSpecs == {MCSpec(Docker), MCSpec(Containerd)}

MCAssets ==
    [ s \in {"state-container-runtime", "state-device-plugin", "state-host-setup"} |->
        [daemonsets |-> <<>>, runtimeClass |-> FALSE] ]

Labels(id, version, fpga) ==
    [ k \in NFDKeys |-> CASE k = OSReleaseID -> id
                          [] k = OSVersionID -> version
                          [] k = OsMajorVersion -> version
                          [] k = FPGAPresent -> fpga ]

Unlabelled == [k \in {"kubernetes.io/hostname"} |-> "plain"]

Kinds ==
    { [labels |-> Labels("ubuntu", "18", "true"), runtimeVersion |-> Docker],
      [labels |-> Labels("centos", "7", "false"),    runtimeVersion |-> Containerd],
      [labels |-> Unlabelled,                        runtimeVersion |-> Docker],
      [labels |-> Unlabelled,                        runtimeVersion |-> "cri-o"],
      [labels |-> Labels("ubuntu", "20", "true"), runtimeVersion |-> "cri-o"] }

Var(name, value) == [name |-> name, value |-> value]

DaemonSetFile(name, env, volumes) ==
    [ kind |-> "DaemonSet", name |-> name, image |-> <<"filled_by_operator">>,
      imagePullPolicy |-> "",
      secrets |-> <<>>, env |-> env, volumes |-> volumes, args |-> [runtime |-> ""],
      selector |-> [k \in {} |-> ""] ]

(* The variables and the volume of the device plugin are those of its      *)
(* manifest; the two components share a state to be loaded in one loop.    *)
MCFiles ==
    << [kind |-> "ConfigMap"],
       DaemonSetFile(ContainerRuntimeDS, <<>>, <<>>),
       [kind |-> "RuntimeClass"],
       DaemonSetFile(DevicePluginDS,
           <<Var("U30NameConvention", "CommonName"), Var("U30AllocUnit", "Card")>>,
           <<Volume("device-plugin", "/var/lib/kubelet/device-plugins")>>) >>

Config(repository, tag, secrets, env, dir, default) ==
    [ repository |-> repository, image |-> "component", tag |-> tag, imagePullPolicy |-> "",
      secrets |-> secrets, env |-> env, installDir |-> dir, setAsDefault |-> default ]

(* Nothing set; one variable twice and a new one; a variable overridden.   *)
MCConfigs ==
    { Config("", "", <<>>, <<>>, "", "nil"),
      Config("local", "v2", <<"regcred">>,
             <<Var("U30AllocUnit", "Card"), Var("DEBUG", "1"), Var("U30AllocUnit", "Device")>>,
             "/opt/bin", "true"),
      Config("local", "sha256:1", <<>>, <<Var("U30AllocUnit", "Device")>>, "", "false") }

MCNodeLists == UNION {[1..n -> Kinds] : n \in 0..MaxNodes}
=============================================================================
