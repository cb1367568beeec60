# FPGA operator: a TLA+ model of the controller and the host setup

The FPGA operator is a Kubernetes operator. A user (usually through the Helm
chart) writes one cluster-scoped `ClusterPolicy`; the operator turns it into
DaemonSets (container runtime, device plugin, one host setup per OS release) and
a `RuntimeClass`, keeps them in step with the policy, and reports a state in the
policy's status. The host setup pods then install software on the nodes and
flash their cards. This directory models the controller against the cluster it
runs in and the host setup against the host it changes, checks both with TLC on
small instances, and proves the parts that hold for every instance with TLAPS.

## Inventory

| Component | State | Operations | Talks to |
|---|---|---|---|
| Reconciler, `controllers/clusterpolicy_controller.go` | none of its own; one request at a time (`MaxConcurrentReconciles: 1`) | `Reconcile`, `updateCRState`, `SetupWithManager` | API server through a cached client; work queue; `clusterPolicyCtrl` |
| Controller state machine, `controllers/state_manger.go` | package variable `clusterPolicyCtrl`: main policy, loaded manifests and control functions, index of the state, runtime, node flags | `init`, `step`, `last`, `isStateEnabled`, `getRuntime`, `getFPGANodeCount`, `getOsDistributions` | node informer, discovery client |
| Resource controls, `controllers/object_controls.go` | none; everything is in the cluster | `DaemonSet`, `RuntimeClass`, `isDaemonSetReady`, `isDaemonsetSpecChanged`, `preProcessDaemonSet`, `Transform*` | API server, cache |
| Manifest loading, `controllers/resource_manager.go` with `assets/` | files of the image | `addResourceControls`, `getAssetsFrom` | file system |
| API types, `api/v1` | spec and status of the policy | `IsEnabled`, `SetStatus`, `ImagePath`, `ImagePullPolicy` | everyone |
| Manager process, `main.go` | process lifetime | start, restart | controller-runtime |
| Host setup, `hostSetup/host_setup.sh`, `xrm_setup.sh`, `conf/spec.txt` | packages of a host, flash memory and running shell of its cards | `get_packages`, `install_xrt`, `install_xrm`, `check_current_shell_version`, `flash_cards` | `xbutil`, `xbmgmt`, package manager, download server |
| Helm chart, sample policy | values | rendering of the policy | user |

What is hard here is not the code's size but where it runs: every read comes
from an informer cache that lags behind the API server; a write is refused, or
takes effect although an error comes back; events of the controller's own writes
come back and start the next pass; users, the DaemonSet controller, the garbage
collector and nodes change the cluster between any two requests of a pass; the
process may die at any of them, and its memory holds the only record of which
policy it serves. The controller is correct if, *whenever it stops doing
anything*, the cluster is what the policy says (deployed, cleaned up, reported),
if it does stop, and if a second policy never disturbs the first. The host setup
is hard for another reason: the scripts look at no exit status, pods are killed
and replaced in the middle of an installation or a flash, and what a card runs and
what is in its flash memory differ until somebody reboots the host. It is correct
if a pod that runs, and of whose own commands none failed, has set up the host,
whatever its predecessors left behind. `hazards` in
`PROJECT.json` lists the lines where these go wrong most easily.

## Modules

| Module | Models |
|---|---|
| `ClusterPolicyTypes` | API types, states, manifests, and the pure functions from a policy to what is wanted (`IsStateEnabled`, `GetRuntimeClass`, `PreProcessDaemonSet`, `HasSpec`) |
| `NodeDiscovery` | what `init` learns from the set of nodes |
| `ClusterPolicyController` | reconciler, resource controls, work queue, API server and cache, users and the rest of the cluster; the properties |
| `PolicyRollout` | abstract specification: what the operator promises about policies and the objects it deploys |
| `ClusterPolicyRollout` | the refinement mapping from `ClusterPolicyController` to `PolicyRollout` |
| `NodeScan` | the three loops over the node list, one node per step |
| `Rendering` | the manifest loop of `addResourceControls`, and the transformations of container runtime and device plugin field by field |
| `HostSetup` | the host setup pod of one node, its scripts, the packages and the cards |
| `MCClusterPolicy`, `MCNodeScan`, `MCHostSetup` | policies, manifests, nodes, cards and bounds for TLC |
| `ClusterPolicyInvariants` | the inductive invariants behind the `Quiet*` properties and `OutageReported` |
| `ClusterPolicyController_proofs` | types, claim and takeover of the controller |
| `ClusterPolicyQuiet_proofs`, `ClusterPolicyStatus_proofs`, `ClusterPolicyCleanup_proofs` | what holds when the operator sleeps: deployment; status; clean-up and RuntimeClass |
| `ClusterPolicyRollout_proofs` | the refinement |
| `NodeScan_proofs`, `Rendering_proofs` | the node loops; the manifest loop and the rendering |
| `HostSetup_proofs` | the host setup |

`ClusterPolicyController` and `NodeScan` both extend `NodeDiscovery`: the first
uses its definitions in `ReconcileBegin`, the second shows that the code's loops
compute them. `Rendering` extends `NodeScan` with the rest of `init`, in the
order of the code: runtime, manifests, then the other two loops.

### How the state corresponds to the code

- `cps`, `ds`, `rc`: an API object is its *history*, the sequence of versions
  from the one the cache holds (first) to the one the API server stores (last).
  A write appends, a watch event drops the first. `client.Get` reads the first;
  an update with a `resourceVersion` (status, RuntimeClass) is accepted only if
  one version is left; an update without one (DaemonSet) needs only that the
  object exists; a create needs that it does not. `Outcomes` adds a request that
  fails on its way there or on its way back, for the verbs in `Faulty`.
- A DaemonSet is `[owner, content, observed, unavailable]`. `content` stands for
  the rendered template, `owner` for the controller reference with its uid; the
  hash annotation covers both, so `IsDaemonsetSpecChanged` compares both.
  `observed` is `observedGeneration = generation`, `unavailable` is
  `numberUnavailable # 0`. A new content keeps the status of the old one.
- `ctl` is `clusterPolicyCtrl`; `pass` is the call of `Reconcile` in progress:
  the instance fetched, the state index, the manifest index, and the three
  results (`result` of the `DaemonSet` loop, `step` of `step`, `overall`).
- `queue` and `delayed` are the work queue: requests ready, and requests that a
  `RequeueAfter` or the rate limiter will add. Delays are not measured.
- `nodes` is what the node informer lists. `init` lists it up to three times; a
  change between two of these lists would only mix the flags of two moments, and
  no flag is used for anything but the log, so one reading stands for the three.

Each action is the code between two requests that another actor can come
between. A cached read followed by the write it decides is one action: the cache
is private to the process, and whatever happens between the two could have
happened before the read without being delivered. The readiness check reads the
cache again and is an action of its own. `FinishReady` and its siblings include
`updateCRState`, and drop its error as the code does.

### The promise: `PolicyRollout`

`PolicyRollout` has no cache, queue, timer or position in a list. It says that
the operator serves one policy for the life of a process; that it works from one
version of that policy at a time, the one it knows, and may learn of later ones
meanwhile; that whatever it deploys, withdraws or reports at that time follows
from that version (`Deploy`, `Withdraw`, `SetClass`, with the owner's uid); that
a status goes to the latest version or nowhere, so that it never undoes an edit
(`Report`); that the container runtime is decided once; and that objects
otherwise disappear only because a user removes them or their owner is gone.
`ClusterPolicyRollout` maps the histories of the policies to `versions`, the
last version of each DaemonSet (owner and content) to `deployed`, and the pass
in progress to `serving`; everything else is a stutter. `ImplementsRollout` is
`Rollout!Spec` under that mapping. It is about safety: that the operator gets
anywhere is `Convergence`.

### Rendering

The manifests are loaded one file per step into `daemonsets` and `controls`.
Each pass then renders a copy of one of them: `Begin` is the deep copy with
image, pull policy and secrets, `SetContainerEnv` and `AppendContainerEnv` are
the two branches of `setContainerEnv`, `Finish` the mounts, arguments and node
selector. An image name is the sequence of its parts, the arguments of the
toolkit are a record.

### Host setup

- `cards`: of each card its platform, what is in its flash memory (`Partial`
  while it is written) and the shell it runs. `host`: the versions of XRT and XRM
  (0: none), the `xrmd` service, per platform the release whose shell package
  is installed, and `torn`: an installation has stopped half way, its package is
  listed but not configured. `SpecTxt` is `conf/spec.txt` for one OS.
  `cardTypeArr` lists the platforms of the known cards in their order (`Ranked(j)` is
  the j-th of them), and is not the list of all cards.
- `pod` is the pod: `pc`, and the variables of the script (`cur` is
  the XRT version that `detect_xrt` found, `spec` what `get_packages` has
  set, `skip` is `SKIP_SHELL_FLASH`, `idx` the card in turn), and `busy`: the
  package manager is at work. `clean` and `flashed` are history: that no command of
  this pod failed whose exit status the script should have looked at and that no
  installation before it was broken off, and that it has written to a card.
- One action per command that changes the host or the cards. What takes time is
  two, so that it can fail or the pod can die in between: writing a card
  (`ProgramBegins`, then `ProgramEnds` or `ProgramBreaks`, which leaves the flash
  memory unfinished), and every installation (`Installs`, then `InstallEnds` or
  `InstallBreaks`). No failed command stops the script, and the containers end
  with 0.
- Any of these may fail at any time, with everything it needs present: a download
  or an installation (`Installs`), the start of `xrmd` (`XrmService`), `xbmgmt
  program` (`ProgramFails`, `ProgramBreaks`), the loading of the second layer
  (`LoadFails`), `xbutil examine` (`ExamineFails`).
- The removal of another XRT (`XrtRemove`) takes effect or not, at every occasion
  and without counting as a failure: `dpkg -r` refuses while a dependant is
  installed, and `yum remove`, the only call without `-y`, aborts in a pod, which
  has no standard input. What was not removed is not downgraded either.
- Outside events, each limited by `Bound`: the pod is killed (`Kill`) or replaced
  after an edit of the policy (`Edit`), the host is rebooted, a command fails, a
  card cannot be examined. On a torn host commands fail without limit.
- External, modelled from how the script uses it: the package manager lists a
  package from when it begins to unpack it, and replaces one only by a newer one
  (`Newest`); a card boots from its flash memory, or from the factory image if that
  is unfinished; whether the second layer of the U250 survives a reboot is left
  open.

## Runs

Every run lets the cache lag, and lets users and cluster act between any two
requests. `Bound` limits how often each outside event happens; everything the
operator and the other controllers do is unlimited. `MaxLag = 2` keeps the
garbage collector from deleting an object again while the cache is two versions
behind, because with an unbounded watch lag the operator and the collector can
go on creating and deleting for ever. The operator may rest, so deadlock is not
an error.

| Run | Setting | Properties | Distinct states |
|---|---|---|---|
| `edit` | a policy and one edit (new images, other runtime class and default runtime, or container runtime switched off); a DaemonSet deleted by hand | `TypeOK` `QuietDeployed` `QuietCleanedUp` `QuietRuntimeClass` `OutageReported` | 1 173 000 |
| `pods` | two host setup manifests, an edit that moves the entry from one OS to the other, failing pods, a resync | `QuietDeployed` `QuietCleanedUp` `OutageReported` `ImplementsRollout` | 406 000 |
| `fault` | two failing requests (any but deletes), one edit, a RuntimeClass deleted by hand; fairness | `QuietDeployed` `QuietCleanedUp` `QuietRuntimeClass` `Convergence` | 325 000 |
| `rival` | two policies, one crash anywhere, a node that joins or leaves | `PassServesMain` `QuietDeployed` `QuietRuntimeClass` `QuietReported` `NoTakeover` `ImplementsRollout` | 685 000 |
| `settle` | create, delete, create again, with the garbage collector at work; fairness | `QuietDeployed` `QuietRuntimeClass` `Convergence` | 368 000 |
| `nodescan` | all lists of up to three nodes of five kinds, four manifest files, two renderings with any of three configurations | `LoopInv` `ScanCorrect` `ControlsComplete` `RenderCorrect` `RenderStable` | 18 300 |
| `host` | nodes with one to three cards (U200, U250, U50, one without packages, one unknown, one node with none that is supported), an older XRT on the host, two releases, one edit, kill, reboot, failed command and failed examination; fairness | `TypeOK` `SetupComplete` `ColdBootSafe` `ShellKept` `SetupConverges` | 487 000 |

The bounds are the smallest at which each race exists: one edit is enough to be
missed by a pass, two creates give a policy a second uid, one crash falls between
any two requests, two failures hit a request and its retry. More of the same
event repeats a situation that the invariants already quantify over: they speak
of every quiet state, and a quiet state forgets how it was reached but for the
cluster's contents. `rival` uses the symmetry of the policy names: no definition
compares two names but for equality, and the run has no liveness property. In
`host` one edit leads from the newer release to the older one, or the other way
round, which is what it takes to meet a package newer than the one asked for; one
event of each kind is enough to fall into every step of a pod and between two pods.
The constraint `TornBound` cuts off torn hosts on which a second kind of event
happens. This hides nothing from the safety properties but `TypeOK`: a pod on a
torn host is not `clean`, and `Sighted` is false, now and for good. `SetupConverges`
is fulfilled by a behaviour as soon as its host is torn. The theorems have no bound.

The meaning of the properties: `Quiet` is "no call, no request, no timer, no
event on its way", the states in which the operator will do nothing until someone
else acts. In such a state the DaemonSets the main policy asks for exist, belong
to it (uid included), carry its content and have no unavailable pod
(`QuietDeployed`); of what it disables there is no DaemonSet and no RuntimeClass of
the name that it has now (`QuietCleanedUp`; a class of a former name stays, as the
operator only ever deletes the present one); its RuntimeClass is its own (`QuietRuntimeClass`); it is reported ready and no policy
was overlooked (`QuietReported`). `OutageReported` speaks also of states in which
a retry timer runs: a policy that is called ready there has no DaemonSet missing
or with unavailable pods. `NoTakeover` is an action property about two policies.
`Convergence` is `<>[]Settled`.

`QuietRuntimeClass` excepts the case that a user has deleted a RuntimeClass: the
operator does not watch them, and repairs one only in a pass started by something
else. `QuietCleanedUp` is checked where deletes do not fail and `QuietReported`
where status writes are not lost; the findings say what happens when they do.

`RenderCorrect`: what a pass sends depends on the manifest file, the policy and
the nodes, and not on what earlier passes rendered from the same loaded manifest.
`RenderStable` adds that they decide it completely: every field, and the order of
the variables (those of the manifest in their places, then those that the policy
adds, in its order). `getDaemonsetHash` covers all of that, so a pass that sent
the same variables in another order would have `isDaemonsetSpecChanged` update
the DaemonSet and replace its pods on every node, at every pass.
`ControlsComplete`: a single control function deals with all DaemonSets of a
state, wherever they stand among the files.

`SetupComplete`: when the pod is `Running`, which `docs/src/components.rst` calls
the end of the setup, XRT, XRM and `xrmd` are those of the entry and every
supported card has its shell or gets it at the next reboot. "Of the entry" is what
`conf/spec.txt` lists for the U200; XRT may also be a newer version that the pod
found and could not remove (`XrtReady`), and XRM a newer one. A pod of whose own
commands one failed is exempt, `xbmgmt program` included: it is `Running` with
whatever it has, and nothing tries again before the pod is replaced. So is a host
on which an installation was broken off: `dpkg -s` takes the package for installed
and no later pod repairs it. What earlier pods lost in any other way, the pod that
runs must have made good.

`ColdBootSafe` asks more, that the flash memory is right: the script looks only at
the shell that runs. It holds as long as no examination fails (`Sighted`). If one
does, the card is flashed although it runs the right shell; when that is
interrupted, the next pod sees the right shell running and leaves an unfinished
flash memory.

`ShellKept` is an action property, for the owner of a card that works: a card that
runs its shell and has it in its flash memory is not written, and goes on running a
layer of it through every pod, kill, failed command, edit and reboot; a card that
the entry does not have flashed is never written. It does not say that a card is
flashed only once: a pod that is killed before the reboot is followed by one that
flashes the same card again, because only the running shell is looked at.

`SetupConverges` says that pods and required reboots come to an end with each
supported card running its shell, the U250 both layers, again unless a command of
the last pod failed or the host is torn, which nothing repeats or repairs.

### Fairness

`Convergence` assumes weak fairness of the reconcile worker, of watch events and
timers (controller-runtime), of the garbage collector and of the DaemonSet
controller, and that pods that are being started come up. Without the last a
policy is retried every ten seconds for ever, which is what the code intends.
Nothing is assumed of users, nodes, failures, restarts and the ten-hour resync.

`SetupConverges` assumes that the containers run to their end (the kubelet
restarts them) and that the user performs the cold reboot that
`docs/src/components.rst` requires after cards were flashed; without it the
second layer of a U250 can never be loaded.

### Findings

| Run | What the code does |
|---|---|
| `v_delete` | a failed delete in a disabled state is masked by the next result (`state_manger.go:205`), the policy becomes ready and the DaemonSet stays |
| `v_status` | the error of the final status write is dropped (`clusterpolicy_controller.go:148`) and not retried |
| `v_observed` | a DaemonSet that its controller has not yet seen counts as ready (`object_controls.go:142`) |
| `v_ignored` | the state `ignored` of a duplicate is never stored (`clusterpolicy_controller.go:98`) |
| `v_runtime` | the default runtime of an edited policy has no effect until the operator restarts (`state_manger.go:150`) |

Also seen while reading, and without a run:

- the chart omits an `enabled` flag whose value is false, and a missing flag means
  enabled: no component can be switched off through the chart, although
  `docs/src/customization.rst:67` tells the user to do so;
- XRT is looked up under `alveo-u200` whatever the cards are
  (`host_setup.sh:651`): for a release that has no such entry, such as 2021.2 with
  a U50, which the script's own table lists, the XRT of the host is removed and
  none is installed. Releases before 2022.1 are reached only this way. The runs
  use releases that `alveo-u200` has. For 2022.1 a U280 has another XRT in
  `conf/spec.txt`, and gets that of the U200;
- for a node of whose cards none is supported, `docs/src/customization.rst:89` says
  that "nothing will be performed". That is so for the cards; XRT and XRM are
  installed all the same, as the script does not look at the cards before. `host`
  has such a node;
- no exit status is looked at (`host_setup.sh:405`, `435`, `508`): a pod whose
  programming or download failed is `Running`, and nothing tries again;
- a policy that goes back to an older release keeps the newer XRT on CentOS, and on
  Ubuntu where something depends on it (`host_setup.sh:335`);
- `cardTypeArr` leaves unknown devices out and `cardLocArr` does not
  (`host_setup.sh:163`): behind an unknown card, each card is treated under the
  location of its predecessor. The lists of `host` have an unknown card only at
  their end (`UnknownLast`); with one in front TLC refutes `SetupComplete`;
- the `cards` list of an entry ("empty to perform setup for all cards",
  `clusterpolicy_types.go:150`) is assembled into arguments that are never used
  (`object_controls.go:566`): all cards are set up;
- `ImagePath` joins all parts as soon as repository or tag is set, so a tag alone
  gives `/image:tag`;
- the comment at `clusterpolicy_controller.go:139` says five seconds,
  `requeueDealy` is ten.

## Proofs

All theorems hold for every set of names, policies, manifests, nodes and cards,
every bound on the outside events and any number of steps. The three controller
modules that follow the first, and the refinement, build on its lemmas.

### The controller

`ClusterPolicyController_proofs`:

- `TypeCorrect`: `Spec => []TypeOK`. `TypeOK` is inductive as it stands because it
  contains `InRange`: without "a pass in progress has an instance, and its
  manifest index is within the state it is at", `Manifest`, `Content` and `Class`
  would have no type.
- `ServesOnePolicy`: `Spec => []PassServesMain`, from `TypeOK` and the fact that
  only `ReconcileBegin`, `ReconcileInitFails` and `Restart` touch the claim, the
  first two only while no pass runs.
- `DuplicatesNeverTakeOver`: `Spec => NoTakeover`. A step that writes a DaemonSet
  writes the owner of the pass (`PassWritesOwn`), which is the main policy by
  `PassServesMain`; every other step keeps owners or deletes.

### When the operator sleeps

The `Quiet*` properties speak only of states in which nothing is pending, and are
far from inductive: most of the work is to say what holds in the middle of a pass.
`ClusterPolicyInvariants` does. `Due` is "a pass will start by itself" (the policy
is queued, the cache has not seen its last version, or a timer runs), `EventDue`
the same for an object that is on its way through a watch. The argument is one
sentence: unless a pass is due, everything that the present pass has already dealt
with is as the policy wants it, or a watch event is on its way. It takes

- `Passed(k, j)` and `Failed(k)`, which compare the position of the pass with a
  manifest, and a failure with the result, step or overall state that remembers it
  (`DeployedInv`, via `Fulfilled`);
- `InstanceCurrent`: a pass works from the latest version of its policy unless
  another one is due, otherwise an edit in the middle would leave half the
  manifests behind;
- `ReadinessMeant` and `PlaceMeant`: between the write of a DaemonSet and its
  readiness check the object may be changed, but not without an event;
- and for the lag of the cache, lemmas on histories: what is appended is seen
  later, what is seen drops the oldest version.

With that, in a quiet state nothing is due, no pass is in progress, hence every
manifest has been passed.

| Theorem | Property | Hypotheses |
|---|---|---|
| `SleepsDeployed` | `QuietDeployed` | none: any request may fail |
| `ReadyMeansDeployed` | `OutageReported` | `get`, `list` and `status` do not fail |
| `SleepsReported` | `QuietReported` | `get` and `status` do not fail |
| `SleepsCleanedUp` | `QuietCleanedUp` | `delete` does not fail; `OneRuntimeClass` |
| `SleepsWithRuntimeClass` | `QuietRuntimeClass` | `OneRuntimeClass` |

The hypotheses are those of the code. A failed delete is masked (`v_delete`), a
failed status write is lost (`v_status`), and an initialisation that fails in a
`get` or `list` returns with the former status in place. `OneRuntimeClass` (at most
one state has a RuntimeClass manifest, as in `assets/`) is needed because all
states share one name: an enabled and a disabled one would undo each other in
every pass. `OutageReported` has an invariant of its own, `OutageInv`, as it also
speaks of states in which a timer runs.

### The refinement

`ImplementsPolicyRollout`: `Spec => ImplementsRollout`, without a hypothesis on
failures. The initial states map to initial states, and there is one lemma per
action: the actions that only move the pass, the queue or the cache are stutters;
a write maps to the abstract write of the object with the policy version that the
pass works from; `UpdateCRState` maps to the report. The invariant is `TypeOK`,
`PlaceMeant` and `RuntimeDecided` (manifests and runtime are found together, so the
first successful `init` is one abstract decision). `MappingAssumption` keeps the
value `Absent` apart from the records that the mapping builds.

### Node loops

`NodeScan_proofs` proves `LoopsAgree` and `ScanIsCorrect` for node lists of any
length and order. `LoopInv` is the inductive invariant: each result is the one
that `NodeDiscovery` defines for the nodes passed. The part about `break` needs a
strengthening of its own: the runtime is containerd only if the loop is at its
end, otherwise a docker node behind a containerd node could undo it.

### Manifests and rendering

`Rendering_proofs` proves the three invariants of `Rendering`, for files,
configurations and node lists of any number and length, and for any number of
passes. `RenderInv` has three parts:

- `Inv` of the node loops. No other step touches what they work on
  (`ScansOnly`), so that `RenderSpec` implements the specification of `NodeScan`
  (`RenderImplementsScan`) and inherits its theorems;
- `LoadInv`: `ControlsComplete` for the files before the next one. The order is
  stated by counting: the j-th DaemonSet file is the one that j - 1 others come
  before (`Nth`). That the count grows with the position (`BelowIncreases`) makes
  it unique, so each step adds the right entry and no earlier entry moves;
- `PassInv`: `RenderCorrect` and `RenderStable` for the variables of the policy
  before the next one. The object is always a `Copy` of its manifest that differs
  in image, secrets and environment, and at the end the `Finished` one.
  `Overridden` says of its environment which variables it has, where they stand
  and what their values are, and has a lemma for each way it grows: the copy of
  the manifest, a value set in place, a variable appended. The variables that the
  policy adds stand in the order in which it first mentions them, which is counted
  with `Below` and `Nth` as the files are.
  `Distinct` is what makes it inductive: `setContainerEnv` changes only the first
  entry of a name, and only without doubles is this the one that counts. The
  manifest on the right-hand side is that of the files, so the proof also shows
  that a pass never writes to what was loaded: `obj` is a copy.

| Theorem | Property | Hypotheses |
|---|---|---|
| `ControlsAreComplete` | `ControlsComplete` | none |
| `RenderIsCorrect` | `RenderCorrect` | `ManifestsAssumption` |
| `RenderIsStable` | `RenderStable` | `ManifestsAssumption` |
| `RenderImplementsScan` | `LoopInv`, `ScanCorrect` | none |

`ManifestsAssumption` says that no container of a manifest has a variable twice,
as in `assets/`; of such a pair the code would override one and send both. The
policy may name a variable any number of times.

### Host setup

`HostSetup_proofs` proves the three invariants and the action property of
`HostSetup`. `Types` is inductive without a hypothesis and gives `HostTypeCorrect`:
besides the shapes it says that an installed package is one of `conf/spec.txt`, and
that while the script works on a card, its platform is supported, `spec` is the
entry of that platform, and programming has a package. The others need

- `Enabled`: the flag `SKIP_SHELL_FLASH` is gone when the next card is looked at;
- `Images`: a card holds images of its own platform, and only a U250 a second layer;
- `Judged`: what the examination found out still holds when writing begins, the
  base layer runs while the second is loaded, and a card that is being written is
  `Partial`;
- `Software`: which of XRT, XRM and `xrmd` is right at which position, unless a
  command of this pod failed; between removal and installation XRT is either gone
  or the version found;
- `Progress`: every card before the index is done, and the package for the present
  one is there, again unless a command failed;
- `FlashBehind`: without a failed examination, a card that runs a shell has one in
  its flash memory. The script never reads the flash memory; this is why it need not.

| Theorem | Property | Hypotheses |
|---|---|---|
| `HostTypeCorrect` | `TypeOK` | none |
| `SettledLeftAlone` | `ShellKept` | `UnknownLast`, `StableShells` |
| `RunningMeansSetUp` | `SetupComplete` | these and `ReleasesOfU200` |
| `SurvivesPowerCycle` | `ColdBootSafe` | these and `ReleasesOfU200` |

That commands succeed is no hypothesis: the properties themselves exempt the pod of
whose own commands one failed (`clean`), whatever the bounds. `SpecTxt`, cards and
entries are arbitrary. The hypotheses are what the script takes for granted.
`UnknownLast`: a card that
`card_setup` does not know comes after the others (`host_setup.sh:163`).
`ReleasesOfU200`: a release that an entry names has packages for the U200, under
which XRT and XRM are looked up (`host_setup.sh:651`); in `conf/spec.txt` this is so
for 2022.1 and later. `StableShells`: the releases of a
platform have the same shell, as a newer package is never replaced by an older
one; this is so in `conf/spec.txt` for all releases since 2022.1. `MCHostSetup`
assumes them of its instance, so TLC evaluates them in run `host`.

### Assumptions

`AssetsAssumption` (three states, each with a sequence of manifest names and a
flag), `SpecsAssumption` (the enumerations that the CRD validates),
`ControllerAssumption` (the bounds are numbers, the sets nested),
`AbsentAssumption` and `MappingAssumption` (the value for "no object" is no
object), `NodeListsAssumption` (a list has a length), `RenderingAssumption` (a
DaemonSet manifest has the fields that the transformations touch, and environment
entries are pairs of strings), `ManifestsAssumption`, `HostSetupAssumption` (card
lists are sequences; `conf/spec.txt` has only platforms that `card_setup` knows;
versions are positive numbers). TLC evaluates them in the runs.

### Only model-checked

`Convergence` and `SetupConverges`: liveness under fairness is out of the
prover's reach. Every invariant and every other temporal property that a passing
run checks is a theorem.

## Not modelled

- The error paths of `SetControllerReference` and of a missing node selector in
  `TransformHostSetup`: no manifest in `assets/` and no policy reaches them. The
  order "DaemonSets, then RuntimeClass" within a state is that of the files in
  `assets/`.
- What the transformations copy is one opaque value per component in the
  controller model; `Rendering` has the fields, but not the text of arguments
  and paths beyond what distinguishes them.
- Users editing a live DaemonSet or RuntimeClass; a second live operator process
  (leader election is off by default, one replica); panics while loading
  manifests; metrics, logging, probes; generated code; CRD and RBAC manifests;
  the node-feature-discovery subchart, whose labels are inputs.
- The Helm templates: text without state, and the model starts at the policy
  object they produce.
- Of the host setup script: the interactive wizard, `-p`, a local XRT package and
  the docker installation, which the operator never asks for; the exit on an OS
  that no manifest selects; the flashing tools of releases before 2022.1; the
  installation of the script's own helper packages before XRT; an administrator who
  repairs a torn host; which half of an installation is there on a torn host (the
  package counts as listed, and every command may fail); a second layer that is
  loaded half way, which the card loses at the next reboot.

## Plan

What can be modelled of the behaviour of this repository is modelled, and all
safety properties that hold of it are proved. Worth doing when the code changes:

1. a manifest of `assets/` that has a variable twice, a second RuntimeClass, or a
   release in `conf/spec.txt` without the U200 makes a hypothesis of a theorem
   false; the assumption has to be looked at before the
   property;
2. `v_delete` and `v_status` turn into passing runs, and the hypotheses of
   `SleepsCleanedUp` and `SleepsReported` go away, once the errors that they are
   about are returned.
