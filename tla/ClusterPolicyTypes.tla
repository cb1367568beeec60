------------------------- MODULE ClusterPolicyTypes -------------------------
(***************************************************************************)
(* The data of the operator: the ClusterPolicy API type (src/api/v1), the  *)
(* deployment states the controller steps through with the manifests of    *)
(* each, and the pure functions that turn a policy into the objects the    *)
(* controller wants in the cluster.                                        *)
(*                                                                         *)
(* Every field of a policy that a transformation only copies into a        *)
(* DaemonSet (image, pull policy, secrets, environment, install directory, *)
(* version, ...) is one opaque value, config.  The fields that decide      *)
(* anything keep their own name.                                           *)
(***************************************************************************)
EXTENDS Naturals, Sequences

CONSTANTS
    Specs,      \* the ClusterPolicySpecs a user may write
    Assets      \* state name -> [daemonsets, runtimeClass], the manifests
                \* found below /opt/fpga-operator/<state name>

Ready    == "ready"
NotReady == "notReady"
Disabled == "disabled"
Ignored  == "ignored"
NoState  == ""              \* the status of a policy nobody has written yet

States == {Ready, NotReady, Disabled, Ignored}

Docker     == "docker"
Containerd == "containerd"
Runtimes   == {Docker, Containerd}

(* The states, in the order in which init adds them.                       *)
StateNames == <<"state-container-runtime", "state-device-plugin",
                "state-host-setup">>

(* A *bool of the API: a pointer that may be nil.                          *)
OptionalBool == {"nil", "true", "false"}

(* The manifests with a host setup transformation and the OS that the      *)
(* nodeSelector of each asks for; al2 and centos8 have no manifest yet.    *)
HostSetupOs ==
    [ d \in {"host-setup-ubuntu18-daemonset", "host-setup-ubuntu20-daemonset",
             "host-setup-ubuntu22-daemonset", "host-setup-al2-daemonset",
             "host-setup-centos7-daemonset", "host-setup-centos8-daemonset"}
        |-> CASE d = "host-setup-ubuntu18-daemonset" -> "ubuntu18"
              [] d = "host-setup-ubuntu20-daemonset" -> "ubuntu20"
              [] d = "host-setup-ubuntu22-daemonset" -> "ubuntu22"
              [] d = "host-setup-al2-daemonset"      -> "al2"
              [] d = "host-setup-centos7-daemonset"  -> "centos7"
              [] d = "host-setup-centos8-daemonset"  -> "centos8" ]

ContainerRuntimeDS == "xilinx-container-runtime-daemonset"
DevicePluginDS     == "device-plugin-daemonset"

ASSUME AssetsAssumption ==
    /\ DOMAIN Assets = {StateNames[k] : k \in 1..3}
    /\ \A s \in DOMAIN Assets :
          /\ Assets[s].daemonsets \in Seq(STRING)
          /\ Assets[s].runtimeClass \in BOOLEAN

ASSUME SpecsAssumption ==
    \A s \in Specs :
       /\ s.operator.defaultRuntime \in Runtimes
       /\ s.containerRuntime.enabled \in OptionalBool
       /\ s.devicePlugin.enabled \in OptionalBool
       /\ s.hostSetup.enabled \in OptionalBool
       /\ Len(s.hostSetup.osDists) \in Nat

DaemonSets ==
    UNION { {Assets[s].daemonsets[j] : j \in 1..Len(Assets[s].daemonsets)}
              : s \in DOMAIN Assets }
-----------------------------------------------------------------------------
(* A component is enabled unless its flag is a pointer to false.           *)
IsEnabled(component) == component.enabled # "false"

IsStateEnabled(stateName, spec) ==
    CASE stateName = "state-container-runtime" -> IsEnabled(spec.containerRuntime)
      [] stateName = "state-device-plugin"     -> IsEnabled(spec.devicePlugin)
      [] stateName = "state-host-setup"        -> IsEnabled(spec.hostSetup)
      [] OTHER                                 -> FALSE

DefaultRuntimeClass == "xilinx"

GetRuntimeClass(spec) ==
    IF spec.containerRuntime.runtimeClass # ""
      THEN spec.containerRuntime.runtimeClass
      ELSE DefaultRuntimeClass

RuntimeClasses == {GetRuntimeClass(s) : s \in Specs}

(* A pod template, as far as the operator fills it in.                     *)
Template(config, runtime, class) ==
    [config |-> config, runtime |-> runtime, class |-> class]

(* The one transformation that depends on the detected runtime (config     *)
(* file and socket to mount) and on the runtime class (toolkit arguments). *)
TransformContainerRuntime(spec, runtime) ==
    Template(spec.containerRuntime.config, runtime, GetRuntimeClass(spec))

TransformDevicePlugin(spec) == Template(spec.devicePlugin.config, "", "")

(* The entries of the policy that fit the OS of a host-setup manifest.     *)
MatchingOsDists(d, spec) ==
    {j \in 1..Len(spec.hostSetup.osDists) :
        spec.hostSetup.osDists[j].os = HostSetupOs[d]}

(* FALSE where TransformHostSetup returns NoSpecError.                     *)
HasSpec(d, spec) ==
    d \in DOMAIN HostSetupOs => MatchingOsDists(d, spec) # {}

(* The first entry that fits decides.                                      *)
TransformHostSetup(d, spec) ==
    LET fits  == MatchingOsDists(d, spec)
        first == CHOOSE j \in fits : \A k \in fits : j <= k
    IN  Template(spec.hostSetup.osDists[first].config, "", "")

(* A manifest without a transformation is deployed as it is.               *)
PreProcessDaemonSet(d, spec, runtime) ==
    CASE d = ContainerRuntimeDS      -> TransformContainerRuntime(spec, runtime)
      [] d = DevicePluginDS          -> TransformDevicePlugin(spec)
      [] d \in DOMAIN HostSetupOs    -> TransformHostSetup(d, spec)
      [] OTHER                       -> Template("manifest", "", "")

(* The DaemonSet contents the operator can ever ask for.                   *)
Contents ==
    {PreProcessDaemonSet(x[1], x[2], x[3]) :
        x \in {y \in DaemonSets \X Specs \X (Runtimes \cup {""}) : HasSpec(y[1], y[2])}}
=============================================================================
