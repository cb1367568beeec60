------------------------------ MODULE Rendering ------------------------------
(***************************************************************************)
(* From manifest files to the DaemonSets that the operator sends: the loop *)
(* of addResourceControls over the files of one state, in its place in     *)
(* init between the search for the container runtime and the other scans   *)
(* of the node list, and the transformations of the container runtime and  *)
(* the device plugin, which start every pass from the loaded manifests.    *)
(***************************************************************************)
EXTENDS NodeScan, FiniteSets

CONSTANTS
    Files,      \* the manifests below the directory of the state, in order
    Digests,    \* the image tags that begin with sha256:
    Configs,    \* what the policy may say about the component
    MaxPasses   \* how many passes are looked at

EnvVars == [name : STRING, value : STRING]

(* The fields of a DaemonSet that a transformation reads or writes.        *)
Fields ==
    {"name", "image", "imagePullPolicy", "secrets", "env", "volumes", "args", "selector"}

ASSUME RenderingAssumption ==
    /\ Len(Files) \in Nat
    /\ \A f \in 1..Len(Files) : Files[f].kind = "DaemonSet" =>
          /\ Fields \subseteq DOMAIN Files[f]
          /\ Files[f].env \in Seq(EnvVars)
          /\ Files[f].volumes \in Seq([name : STRING, path : STRING])
    /\ \A c \in Configs : c.env \in Seq(EnvVars)
    /\ MaxPasses \in Nat

(* No container of a manifest below assets has a variable twice.           *)
Distinct(env) == \A m, n \in 1..Len(env) : env[m].name = env[n].name => m = n

ASSUME ManifestsAssumption ==
    \A f \in 1..Len(Files) : Files[f].kind = "DaemonSet" => Distinct(Files[f].env)

VARIABLES
    phase,      \* "load", "idle", "env" or "rendered"
    file,       \* the next file to load
    daemonsets, \* res.Daemonsets
    controls,   \* ctrlFuncs
    config,     \* the part of the policy that this pass applies
    obj,        \* the DaemonSet that this pass renders
    from,       \* the index of its manifest in daemonsets
    e,          \* the next environment variable of config
    passes      \* the number of DaemonSets rendered

rendering   == <<config, obj, from, e, passes>>
loading     == <<file, daemonsets, controls>>
renderVars  == <<vars, phase, loading, rendering>>

Nothing == [kind |-> "none"]

RenderInit ==
    /\ Init
    /\ phase = "load" /\ file = 1 /\ daemonsets = <<>> /\ controls = <<>>
    /\ config = Nothing /\ obj = Nothing /\ from = 0 /\ e = 1 /\ passes = 0
-----------------------------------------------------------------------------
(* The node loops; those after getRuntime wait for the manifests.          *)
Scan ==
    /\ loop = "runtime" \/ phase # "load"
    /\ Next
    /\ UNCHANGED <<phase, loading, rendering>>

Load(kind) ==
    /\ phase = "load" /\ loop = "count"
    /\ file <= Len(Files) /\ Files[file].kind = kind
    /\ file' = file + 1
    /\ UNCHANGED <<vars, phase, rendering>>

MutLoadDaemonSetControlEach ==
    /\ Load("DaemonSet")
    /\ controls' = Append(controls, "DaemonSet")
    /\ daemonsets' = Append(daemonsets, Files[file])

(* One control function deals with all DaemonSets of the state.            *)
LoadDaemonSet ==
    /\ Load("DaemonSet")
    /\ controls' = IF daemonsets = <<>> THEN Append(controls, "DaemonSet") ELSE controls
    /\ daemonsets' = Append(daemonsets, Files[file])

LoadRuntimeClass ==
    /\ Load("RuntimeClass")
    /\ controls' = Append(controls, "RuntimeClass")
    /\ UNCHANGED daemonsets

(* A manifest of any other kind is passed over.                            *)
LoadOther ==
    /\ \E kind \in {Files[f].kind : f \in 1..Len(Files)} \ {"DaemonSet", "RuntimeClass"} :
          Load(kind)
    /\ UNCHANGED <<controls, daemonsets>>

LoadEnds ==
    /\ phase = "load" /\ loop = "count"
    /\ file > Len(Files)
    /\ phase' = "idle"
    /\ UNCHANGED <<vars, loading, rendering>>
-----------------------------------------------------------------------------
(* The parts of an image name; a digest is attached with another sign.     *)
ImagePath(c) ==
    IF c.repository = "" /\ c.tag = "" THEN <<c.image>>
    ELSE <<c.repository, "/", c.image, IF c.tag \in Digests THEN "@" ELSE ":", c.tag>>

ImagePullPolicy(c) ==
    IF c.imagePullPolicy \in {"Always", "Never"} THEN c.imagePullPolicy ELSE "IfNotPresent"

(* A pass that finds the state enabled renders a deep copy of a manifest:  *)
(* image and secrets, then the environment one variable at a time, then    *)
(* mounts, arguments and node selector.                                    *)
Begin(k, c) ==
    /\ phase = "idle" /\ loop = "done" /\ passes < MaxPasses
    /\ daemonsets[k].name \in {ContainerRuntimeDS, DevicePluginDS}
    /\ phase' = "env" /\ from' = k /\ config' = c /\ e' = 1
    /\ obj' = [daemonsets[k] EXCEPT !.image = ImagePath(c),
                                    !.imagePullPolicy = ImagePullPolicy(c),
                                    !.secrets = @ \o c.secrets]
    /\ UNCHANGED <<vars, loading, passes>>

AtEnv ==
    /\ phase = "env" /\ e <= Len(config.env)
    /\ UNCHANGED <<vars, phase, file, controls, config, from, passes>>

Named(env, name) == {m \in 1..Len(env) : env[m].name = name}

First(S) == CHOOSE m \in S : \A n \in S : m <= n

Hits == Named(obj.env, config.env[e].name)

MutSetContainerEnvAliased ==
    /\ AtEnv
    /\ Hits # {}
    /\ obj' = [obj EXCEPT !.env[First(Hits)].value = config.env[e].value]
    /\ daemonsets' = IF First(Hits) > Len(daemonsets[from].env) THEN daemonsets
                     ELSE [daemonsets EXCEPT ![from].env[First(Hits)].value = config.env[e].value]
    /\ e' = e + 1

MutSetContainerEnvMoved ==
    /\ AtEnv
    /\ Hits # {}
    /\ obj' = [obj EXCEPT !.env =
                 [m \in 1..Len(@) |-> IF m < First(Hits) THEN @[m]
                                      ELSE IF m < Len(@) THEN @[m + 1] ELSE config.env[e]]]
    /\ e' = e + 1
    /\ UNCHANGED daemonsets

(* setContainerEnv: a variable that is there gets the value in place, in   *)
(* the copy and not in the manifest that it was copied from, ...           *)
SetContainerEnv ==
    /\ AtEnv
    /\ Hits # {}
    /\ obj' = [obj EXCEPT !.env[First(Hits)].value = config.env[e].value]
    /\ e' = e + 1
    /\ UNCHANGED daemonsets

(* ... any other one is appended.                                          *)
AppendContainerEnv ==
    /\ AtEnv
    /\ Hits = {}
    /\ obj' = [obj EXCEPT !.env = Append(@, config.env[e])]
    /\ e' = e + 1
    /\ UNCHANGED daemonsets

Volume(name, path) == [name |-> name, path |-> path]

GetRuntimeConfig(r) ==
    CASE r = Docker -> "/etc/docker/daemon.json" [] r = Containerd -> "/etc/containerd/config.toml"

GetRuntimeSocket(r) ==
    CASE r = Docker -> "/var/run/docker.sock" [] r = Containerd -> "/var/run/containerd/containerd.sock"

InstallDir(c) == IF c.installDir # "" THEN c.installDir ELSE "/usr/bin"

RuntimeVolumes(c, r) ==
    << Volume("install-dir", InstallDir(c)),
       Volume("config-dir", "/etc/xilinx-container-runtime"),
       Volume("runtime-config", GetRuntimeConfig(r)),
       Volume("runtime-socket", GetRuntimeSocket(r)) >>

ToolkitArgs(c, r) ==
    [ runtime |-> r, installDir |-> InstallDir(c), class |-> GetRuntimeClass(spec),
      default |-> c.setAsDefault = "true" ]

(* setDaemonSetSelector adds the labels of FPGA nodes to the selector.     *)
WithFPGALabels(selector) ==
    [ k \in DOMAIN selector \cup DOMAIN FPGANodeLabels |->
        IF k \in DOMAIN FPGANodeLabels THEN FPGANodeLabels[k] ELSE selector[k] ]

Finished(o, c, r) ==
    IF o.name = ContainerRuntimeDS
      THEN [o EXCEPT !.volumes = @ \o RuntimeVolumes(c, r), !.args = ToolkitArgs(c, r),
                     !.selector = WithFPGALabels(@)]
      ELSE [o EXCEPT !.selector = WithFPGALabels(@)]

Finish ==
    /\ phase = "env" /\ e > Len(config.env)
    /\ obj' = Finished(obj, config, runtime)
    /\ phase' = "rendered"
    /\ UNCHANGED <<vars, loading, config, from, e, passes>>

(* The object goes to the API server and the pass forgets it.              *)
Submit ==
    /\ phase = "rendered"
    /\ phase' = "idle" /\ passes' = passes + 1
    /\ config' = Nothing /\ obj' = Nothing /\ from' = 0 /\ e' = 1
    /\ UNCHANGED <<vars, loading>>

RenderNext ==
    \/ Scan
    \/ LoadDaemonSet \/ LoadRuntimeClass \/ LoadOther \/ LoadEnds
    \/ \E k \in 1..Len(daemonsets), c \in Configs : Begin(k, c)
    \/ SetContainerEnv \/ AppendContainerEnv \/ Finish \/ Submit

RenderSpec == RenderInit /\ [][RenderNext]_renderVars
-----------------------------------------------------------------------------
(* The members of a set of positions before k, and its jth member, which   *)
(* is the one that j - 1 others come before.                               *)
Below(S, k) == {m \in S : m < k}

Nth(S, j) == CHOOSE m \in S : Cardinality(Below(S, m)) = j - 1

FilesOf(kind) == {f \in 1..Len(Files) : Files[f].kind = kind}

(* The DaemonSet manifests in the order of the files.                      *)
DaemonSetFiles ==
    [j \in 1..Cardinality(FilesOf("DaemonSet")) |-> Files[Nth(FilesOf("DaemonSet"), j)]]

Positions(s, x) == {m \in 1..Len(s) : s[m] = x}

(* All DaemonSets of the state are loaded, in the order of the files, and  *)
(* a single control function deals with them; each RuntimeClass has one.   *)
ControlsComplete ==
    phase # "load" =>
        /\ daemonsets = DaemonSetFiles
        /\ Cardinality(Positions(controls, "DaemonSet")) = IF DaemonSetFiles = <<>> THEN 0 ELSE 1
        /\ Cardinality(Positions(controls, "RuntimeClass"))
             = Cardinality(FilesOf("RuntimeClass"))

Greatest(S) == CHOOSE m \in S : \A n \in S : m >= n

(* The value that the policy gives a variable last, or else the manifest.  *)
ValueOf(name, manifest, c) ==
    LET set == Named(c.env, name)
    IN  IF set # {} THEN c.env[Greatest(set)].value
        ELSE manifest.env[First(Named(manifest.env, name))].value

VariablesOf(env) == {env[m].name : m \in 1..Len(env)}

(* What is sent depends on the manifest file, the policy and the nodes and *)
(* on nothing else, in particular not on what earlier passes rendered: no  *)
(* variable twice, the last value of the policy, else that of the file;    *)
(* the secrets of both; the files and sockets of the runtime of the nodes. *)
RenderCorrect ==
    phase = "rendered" =>
        LET manifest == DaemonSetFiles[from]
        IN  /\ VariablesOf(obj.env) = VariablesOf(manifest.env) \cup VariablesOf(config.env)
            /\ Cardinality(VariablesOf(obj.env)) = Len(obj.env)
            /\ \A m \in 1..Len(obj.env) :
                  obj.env[m].value = ValueOf(obj.env[m].name, manifest, config)
            /\ obj.secrets = manifest.secrets \o config.secrets
            /\ obj.volumes = manifest.volumes \o
                  IF manifest.name = ContainerRuntimeDS
                    THEN RuntimeVolumes(config, GetRuntime(Listed, spec)) ELSE <<>>
            /\ manifest.name = ContainerRuntimeDS =>
                  obj.args = ToolkitArgs(config, GetRuntime(Listed, spec))
            /\ obj.selector = WithFPGALabels(manifest.selector)

(* Where the policy first mentions the variables that the manifest lacks.  *)
Added(manifest, c) ==
    {m \in 1..Len(c.env) : /\ Named(manifest.env, c.env[m].name) = {}
                           /\ \A k \in 1..(m - 1) : c.env[k].name # c.env[m].name}

(* The variables of the manifest in their places, then those added.        *)
NameAt(manifest, c, p) ==
    LET kept == Len(manifest.env)
    IN  IF p <= kept THEN manifest.env[p].name ELSE c.env[Nth(Added(manifest, c), p - kept)].name

RenderedEnv(manifest, c) ==
    [ p \in 1..(Len(manifest.env) + Cardinality(Added(manifest, c))) |->
        LET name == NameAt(manifest, c, p)
        IN  [name |-> name, value |-> ValueOf(name, manifest, c)] ]

(* Manifest, policy and runtime decide the DaemonSet in every field and in *)
(* the order of the variables, too: the hash that isDaemonsetSpecChanged   *)
(* compares is taken over all of it, and a pass that sent the same in      *)
(* another order would replace the pods of every node.                     *)
RenderStable ==
    phase = "rendered" =>
        LET manifest == DaemonSetFiles[from]
        IN  obj = Finished([manifest EXCEPT !.image = ImagePath(config),
                                            !.imagePullPolicy = ImagePullPolicy(config),
                                            !.secrets = @ \o config.secrets,
                                            !.env = RenderedEnv(manifest, config)],
                           config, GetRuntime(Listed, spec))
==============================================================================
