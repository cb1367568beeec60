------------------------------ MODULE HostSetup ------------------------------
(***************************************************************************)
(* The host-setup pod of one node: the two init containers whose commands  *)
(* TransformHostSetup renders, host_setup.sh and xrm_setup.sh that they    *)
(* run, and what outlives them on the node, the packages and the cards.    *)
(*                                                                         *)
(* The scripts run with -y, never look at the exit status of a download,   *)
(* of an installation or of xbmgmt program, and exit with 0.  Any of these *)
(* commands may fail, the pod is killed or replaced at any moment, also in *)
(* the middle of an installation or of writing a card, and the host is     *)
(* rebooted.  A host that a broken installation has left torn needs an     *)
(* administrator, who is not modelled.                                     *)
(*                                                                         *)
(* A release, an XRT or an XRM version is a number, greater for a later    *)
(* one; 0 means that none is installed or named.                           *)
(* A definition whose name begins with Mut is a plausible mistake in the   *)
(* definition that follows it; no specification uses one.                  *)
(***************************************************************************)
EXTENDS Integers, Sequences, FiniteSets

CONSTANTS
    CardLists,  \* the cards that the node may have, in the order of lspci
    SpecTxt,    \* conf/spec.txt for the OS of the node: the packages of each
                \* supported <<platform, release>>
    Entries,    \* the entries for this OS that the policy may hold
    OldXrt,     \* the XRT versions that may be on the host beforehand
    Bound       \* how often each kind of outside event may happen

U200 == "alveo-u200"
U250 == "alveo-u250"

(* The platforms that card_setup knows; it drops every other device id.    *)
Platforms == {U200, U250, "alveo-u280", "alveo-u50", "alveo-u55c", "alveo-u30"}

Golden  == "golden"     \* the factory image of a card
Partial == "partial"    \* a flash memory that is being written

(* "command" is the failure of a command whose exit status is ignored.     *)
Events == {"edit", "kill", "reboot", "command", "examine"}

ASSUME HostSetupAssumption ==
    /\ CardLists \subseteq Seq(STRING)
    /\ \A e \in Entries : e.version \in Nat \ {0}
    /\ DOMAIN SpecTxt \subseteq Platforms \X (Nat \ {0})
    /\ \A s \in DOMAIN SpecTxt :
          /\ SpecTxt[s].xrt \in Nat \ {0} /\ SpecTxt[s].xrm \in Nat \ {0}
          /\ {SpecTxt[s].shell, SpecTxt[s].trp} \cap {Golden, Partial} = {}
    /\ OldXrt \subseteq Nat
    /\ Bound \in [Events -> Nat]

VARIABLES
    cards,      \* what each card has in its flash memory and what it runs
    host,       \* XRT, XRM, the xrmd service and the shell packages, and
                \* whether an installation has stopped half way
    entry,      \* the entry of the policy
    pod,        \* the pod: the position and the variables of the script
    used        \* how often each kind of outside event has happened

vars == <<cards, host, entry, pod, used>>

Spend(event) ==
    /\ used[event] < Bound[event]
    /\ used' = [used EXCEPT ![event] = @ + 1]

(* On a host that is torn every command may fail.                          *)
Fails(event) == Spend(event) \/ (host.torn /\ UNCHANGED used)
-----------------------------------------------------------------------------
(* The variables that get_packages sets; unset before its first success.   *)
NoPackages == [xrt |-> 0, xrm |-> 0, shell |-> "", trp |-> ""]

NewPod(e, h) == [pc |-> "start", entry |-> e, cur |-> 0, spec |-> NoPackages,
              skip |-> FALSE, idx |-> 1, clean |-> ~h.torn, flashed |-> FALSE,
              busy |-> FALSE]

(* cardTypeArr leaves out what card_setup does not know, cardLocArr holds  *)
(* every card: the card at index k is the k-th of them all.                *)
Devices == [k \in 1..Len(cards) |-> cards[k].type]

KnownCards == {k \in DOMAIN Devices : Devices[k] \in Platforms}

Ranked(j) == CHOOSE k \in KnownCards : Cardinality({i \in KnownCards : i <= k}) = j

cardTypeArr == [j \in 1..Cardinality(KnownCards) |-> Devices[Ranked(j)]]

PLATFORM == cardTypeArr[pod.idx]
VERSION  == pod.entry.version
Card     == cards[pod.idx]

Supported(platform, release) == <<platform, release>> \in DOMAIN SpecTxt

(* get_packages: an unsupported combination keeps the former packages.     *)
GetPackages(p, platform) ==
    IF Supported(platform, VERSION)
      THEN [p EXCEPT !.spec = SpecTxt[<<platform, VERSION>>]]
      ELSE [p EXCEPT !.skip = TRUE]

InstallXRM == pod.entry.xrmInstallation # "false"
FlashCards == pod.entry.shellFlashEnabled # "false"

(* A newer package is never replaced by an older one.                      *)
Newest(installed, offered) == IF offered > installed THEN offered ELSE installed

At(pc) == pod.pc = pc /\ ~pod.busy /\ UNCHANGED entry

(* A package is fetched and given to the package manager, which lists it   *)
(* from when it unpacks it and is busy until it is done.  A lost download  *)
(* or a refusal leaves the host as it was; nobody looks at the exit        *)
(* status.  clean tells whether all such commands of this pod succeeded.   *)
Installs(p, h) ==
    \/ pod' = [p EXCEPT !.busy = TRUE] /\ host' = h /\ UNCHANGED used
    \/ pod' = [p EXCEPT !.clean = FALSE] /\ UNCHANGED host /\ Fails("command")

InstallEnds ==
    /\ pod.busy
    /\ pod' = [pod EXCEPT !.busy = FALSE]
    /\ UNCHANGED <<cards, host, entry, used>>

(* A script of the package fails: it stays listed, half installed.         *)
InstallBreaks ==
    /\ pod.busy
    /\ pod' = [pod EXCEPT !.busy = FALSE, !.clean = FALSE]
    /\ host' = [host EXCEPT !.torn = TRUE]
    /\ Fails("command")
    /\ UNCHANGED <<cards, entry>>

(* What a pod leaves on the host when it dies.                             *)
Abandoned == [host EXCEPT !.torn = @ \/ pod.busy]
-----------------------------------------------------------------------------
(* The first init container: XRT, then XRM and its service.                *)

(* init, setup and detect_xrt; default looks the XRT package up under the  *)
(* platform that init sets, whatever the cards of the node are.            *)
DetectXrt ==
    /\ At("start")
    /\ pod' = GetPackages([pod EXCEPT !.pc = "xrt", !.cur = host.xrt], U200)
    /\ UNCHANGED <<cards, host, used>>

XrtPresent ==
    /\ At("xrt")
    /\ pod.cur # 0 /\ pod.cur = pod.spec.xrt
    /\ pod' = [pod EXCEPT !.pc = "xrm"]
    /\ UNCHANGED <<cards, host, used>>

(* Another version is removed first.  dpkg refuses while a dependant of    *)
(* XRT is installed, and on CentOS yum remove, which has no -y, aborts     *)
(* for want of an answer on every occasion.                                *)
XrtRemove ==
    /\ At("xrt")
    /\ pod.cur # 0 /\ pod.cur # pod.spec.xrt
    /\ \/ /\ pod' = [pod EXCEPT !.pc = "install", !.busy = TRUE]
          /\ host' = [host EXCEPT !.xrt = 0]
       \/ pod' = [pod EXCEPT !.pc = "install"] /\ UNCHANGED host
    /\ UNCHANGED <<cards, used>>

(* The package manager does not downgrade what was not removed.            *)
XrtInstall ==
    /\ \/ At("install")
       \/ At("xrt") /\ pod.cur = 0
    /\ Installs([pod EXCEPT !.pc = "xrm"], [host EXCEPT !.xrt = Newest(@, pod.spec.xrt)])
    /\ UNCHANGED cards

XrmInstall ==
    /\ At("xrm")
    /\ InstallXRM
    /\ Installs([pod EXCEPT !.pc = "xrmd"],
                [host EXCEPT !.xrm = Newest(@, pod.spec.xrm)])
    /\ UNCHANGED cards

XrmSkip ==
    /\ At("xrm")
    /\ ~InstallXRM
    /\ pod' = [pod EXCEPT !.pc = "flash"]
    /\ UNCHANGED <<cards, host, used>>

(* xrm_setup.sh: the service is enabled, so it also survives a reboot.     *)
XrmService ==
    /\ At("xrmd")
    /\ \/ /\ host' = [host EXCEPT !.xrmd = @ \/ host.xrm # 0]
          /\ pod' = [pod EXCEPT !.pc = "flash"]
          /\ UNCHANGED used
       \/ /\ pod' = [pod EXCEPT !.pc = "flash", !.clean = FALSE]
          /\ Fails("command")
          /\ UNCHANGED host
    /\ UNCHANGED cards
-----------------------------------------------------------------------------
(* The second init container: every card in turn.                          *)

MutNextCardTwice(p) == [p EXCEPT !.pc = "card", !.idx = @ + 2]

NextCard(p) == [p EXCEPT !.pc = "card", !.idx = @ + 1]

(* A fresh shell runs the script again, with its variables unset.          *)
BeginFlash ==
    /\ At("flash")
    /\ pod' = IF FlashCards
                THEN [pod EXCEPT !.pc = "card", !.idx = 1, !.skip = FALSE,
                                 !.spec = NoPackages]
                ELSE [pod EXCEPT !.pc = "running"]
    /\ UNCHANGED <<cards, host, used>>

FinishFlash ==
    /\ At("card")
    /\ pod.idx > Len(cardTypeArr)
    /\ pod' = [pod EXCEPT !.pc = "running"]
    /\ UNCHANGED <<cards, host, used>>

AtCard == At("card") /\ pod.idx <= Len(cardTypeArr) /\ UNCHANGED <<cards, host, used>>

MutSkipCardForever ==
    /\ AtCard
    /\ GetPackages(pod, PLATFORM).skip
    /\ pod' = NextCard(GetPackages(pod, PLATFORM))

(* check_current_shell_version clears the flag that get_packages set.      *)
SkipCard ==
    /\ AtCard
    /\ GetPackages(pod, PLATFORM).skip
    /\ pod' = [NextCard(GetPackages(pod, PLATFORM)) EXCEPT !.skip = FALSE]

CheckCard ==
    /\ AtCard
    /\ ~GetPackages(pod, PLATFORM).skip
    /\ pod' = [GetPackages(pod, PLATFORM) EXCEPT !.pc = "examine"]

(* The card cannot be examined: it is flashed whatever it runs.            *)
ExamineFails ==
    /\ At("examine")
    /\ \/ host.xrt = 0 /\ UNCHANGED used
       \/ host.xrt # 0 /\ Fails("examine")
    /\ pod' = [pod EXCEPT !.pc = "package"]
    /\ UNCHANGED <<cards, host>>

MutVerdictNo2RP(running) ==
    IF running = pod.spec.shell
      THEN IF PLATFORM = U250 THEN "shell" ELSE "skip"
      ELSE "package"

MutVerdictNoSecondFlash(running) ==
    IF running \in {pod.spec.shell, pod.spec.trp} THEN "skip" ELSE "package"

MutVerdictShellFirst(running) ==
    IF running \in {pod.spec.shell, pod.spec.trp} THEN "skip"
    ELSE IF PLATFORM = U250 THEN "shell" ELSE "package"

(* What the running shell calls for: the U250 gets its second layer on the *)
(* base layer and is left alone with both; any other card is flashed       *)
(* unless it runs the shell of the release.                                *)
Verdict(running) ==
    IF running = pod.spec.shell
      THEN IF PLATFORM = U250 THEN "shell" ELSE "skip"
      ELSE IF PLATFORM = U250 /\ running = pod.spec.trp THEN "skip" ELSE "package"

Examine ==
    /\ At("examine")
    /\ host.xrt # 0
    /\ pod' = IF Verdict(Card.running) = "skip" THEN NextCard(pod)
              ELSE [pod EXCEPT !.pc = Verdict(Card.running)]
    /\ UNCHANGED <<cards, host, used>>

(* flash_cards: the package of the release unless the package manager      *)
(* lists it under the name that conf/spec.txt gives it, ...                *)
PackagePresent ==
    /\ At("package")
    /\ host.packages[PLATFORM] = VERSION
    /\ pod' = [pod EXCEPT !.pc = "program"]
    /\ UNCHANGED <<cards, host, used>>

PackageInstall ==
    /\ At("package")
    /\ Installs([pod EXCEPT !.pc = "program"],
                [host EXCEPT !.packages[PLATFORM] = Newest(@, VERSION)])
    /\ UNCHANGED cards

(* ... then the base layer that the installed package holds.  The script   *)
(* goes on to the next card whatever xbmgmt says.                          *)
ProgramFails ==
    /\ At("program")
    /\ \/ /\ host.xrt = 0 \/ host.packages[PLATFORM] = 0
          /\ pod' = NextCard(pod)
          /\ UNCHANGED used
       \/ pod' = NextCard([pod EXCEPT !.clean = FALSE]) /\ Fails("command")
    /\ UNCHANGED <<cards, host>>

ProgramBegins ==
    /\ At("program")
    /\ host.xrt # 0 /\ host.packages[PLATFORM] # 0
    /\ cards' = [cards EXCEPT ![pod.idx].flash = Partial]
    /\ pod' = [pod EXCEPT !.pc = "programming"]
    /\ UNCHANGED <<host, used>>

ProgramEnds ==
    /\ At("programming")
    /\ cards' = [cards EXCEPT ![pod.idx].flash =
                    SpecTxt[<<PLATFORM, host.packages[PLATFORM]>>].shell]
    /\ pod' = [NextCard(pod) EXCEPT !.flashed = TRUE]
    /\ UNCHANGED <<host, used>>

(* Writing ends with an error and leaves the flash memory unfinished.      *)
ProgramBreaks ==
    /\ At("programming")
    /\ pod' = NextCard([pod EXCEPT !.clean = FALSE])
    /\ Fails("command")
    /\ UNCHANGED <<cards, host>>

(* The second layer of the U250, fetched if its file is missing, is loaded *)
(* onto the base layer that the card runs.                                 *)
FetchShell ==
    /\ At("shell")
    /\ host.packages[U250] = 0
    /\ Installs([pod EXCEPT !.pc = "load"], [host EXCEPT !.packages[U250] = VERSION])
    /\ UNCHANGED cards

ShellPresent ==
    /\ At("shell")
    /\ host.packages[U250] # 0
    /\ pod' = [pod EXCEPT !.pc = "load"]
    /\ UNCHANGED <<cards, host, used>>

LoadShell ==
    /\ At("load")
    /\ cards' = IF host.packages[U250] = 0 THEN cards
                ELSE [cards EXCEPT ![pod.idx].running = pod.spec.trp]
    /\ pod' = NextCard(pod)
    /\ UNCHANGED <<host, used>>

LoadFails ==
    /\ At("load")
    /\ pod' = NextCard([pod EXCEPT !.clean = FALSE])
    /\ Fails("command")
    /\ UNCHANGED <<cards, host>>

Script ==
    \/ InstallEnds \/ InstallBreaks
    \/ DetectXrt \/ XrtPresent \/ XrtRemove \/ XrtInstall
    \/ XrmInstall \/ XrmSkip \/ XrmService
    \/ BeginFlash \/ FinishFlash \/ SkipCard \/ CheckCard
    \/ ExamineFails \/ Examine
    \/ PackagePresent \/ PackageInstall
    \/ ProgramFails \/ ProgramBegins \/ ProgramEnds \/ ProgramBreaks
    \/ FetchShell \/ ShellPresent \/ LoadShell \/ LoadFails
-----------------------------------------------------------------------------
(* The pod is killed and started again, or replaced after an edit.         *)

Kill ==
    /\ Spend("kill")
    /\ pod' = NewPod(entry, Abandoned) /\ host' = Abandoned
    /\ UNCHANGED <<cards, entry>>

Edit ==
    /\ Spend("edit")
    /\ entry' \in Entries \ {entry}
    /\ pod' = NewPod(entry', Abandoned) /\ host' = Abandoned
    /\ UNCHANGED cards

(* A cold reboot: each card boots from its flash memory, from the factory  *)
(* image if that is unfinished; a second layer may or may not be kept.     *)
Booted(c) == [c EXCEPT !.running = IF c.flash = Partial THEN Golden ELSE c.flash]

SecondLayers == {SpecTxt[s].trp : s \in {s \in DOMAIN SpecTxt : s[1] = U250}}

ColdReboot ==
    /\ \E kept \in SUBSET {k \in 1..Len(cards) : cards[k].running \in SecondLayers} :
          cards' = [k \in 1..Len(cards) |-> IF k \in kept THEN cards[k] ELSE Booted(cards[k])]
    /\ pod' = NewPod(entry, Abandoned) /\ host' = Abandoned
    /\ UNCHANGED entry

Reboot == Spend("reboot") /\ ColdReboot

(* The reboot that the documentation asks for after cards were flashed.    *)
RequiredReboot ==
    /\ pod.pc = "running" /\ pod.flashed
    /\ ColdReboot
    /\ UNCHANGED used
-----------------------------------------------------------------------------
(* A card comes with the factory image or with the shell of a release.     *)
Shells == {Golden} \cup UNION {{SpecTxt[s].shell, SpecTxt[s].trp} : s \in DOMAIN SpecTxt}

Factory(type) ==
    {Golden} \cup {SpecTxt[s].shell : s \in {s \in DOMAIN SpecTxt : s[1] = type}}

Init ==
    /\ \E l \in CardLists : \E image \in [1..Len(l) -> Shells] :
          /\ \A k \in 1..Len(l) : image[k] \in Factory(l[k])
          /\ cards = [k \in 1..Len(l) |->
                        [type |-> l[k], flash |-> image[k], running |-> image[k]]]
    /\ \E xrt \in OldXrt \cup {0} :
          host = [xrt |-> xrt, xrm |-> 0, xrmd |-> FALSE, packages |-> [p \in Platforms |-> 0],
                  torn |-> FALSE]
    /\ entry \in Entries
    /\ pod = NewPod(entry, host)
    /\ used = [e \in Events |-> 0]

Next == Script \/ Kill \/ Edit \/ Reboot \/ RequiredReboot

Spec == Init /\ [][Next]_vars

(* The containers run to their end, and the user reboots when told to.     *)
FairSpec == Spec /\ WF_vars(Script) /\ WF_vars(RequiredReboot)
-----------------------------------------------------------------------------
PCs == {"start", "xrt", "install", "xrm", "xrmd", "flash", "card", "examine",
        "package", "program", "programming", "shell", "load", "running"}

(* Every variable has its type, the card that the script works on exists,  *)
(* and no card ever runs an unfinished shell.                              *)
TypeOK ==
    /\ \A k \in 1..Len(cards) :
          cards[k].flash \in Shells \cup {Partial} /\ cards[k].running \in Shells
    /\ host.xrt \in Nat /\ host.xrm \in Nat /\ host.xrmd \in BOOLEAN /\ host.torn \in BOOLEAN
    /\ host.packages \in [Platforms -> {0} \cup {s[2] : s \in DOMAIN SpecTxt}]
    /\ entry \in Entries /\ pod.entry = entry
    /\ pod.pc \in PCs /\ pod.cur \in Nat
    /\ pod.skip \in BOOLEAN /\ pod.clean \in BOOLEAN /\ pod.flashed \in BOOLEAN
    /\ pod.busy \in BOOLEAN
    /\ pod.idx \in 1..(Len(cardTypeArr) + 1)
    /\ pod.pc \in {"examine", "package", "program", "programming", "shell", "load"}
          => pod.idx <= Len(cardTypeArr)
    /\ used \in [Events -> Nat]
-----------------------------------------------------------------------------
(* What the script takes for granted of the node and of conf/spec.txt.     *)

(* A card that card_setup does not know comes after the others, so that    *)
(* the two arrays have the same card at the same index.                    *)
UnknownLast ==
    \A l \in CardLists : \E m \in 0..Len(l) :
        \A k \in 1..Len(l) : l[k] \in Platforms <=> k <= m

(* The releases have packages for the U200, under which XRT and XRM are    *)
(* looked up whatever the cards of the node are.                           *)
ReleasesOfU200 == \A e \in Entries : Supported(U200, e.version)

(* The releases of a platform have one shell, whichever of their packages  *)
(* is installed, and its second layer has a name of its own.               *)
StableShells ==
    \A s, t \in DOMAIN SpecTxt : s[1] = t[1] =>
        /\ SpecTxt[s].shell = SpecTxt[t].shell /\ SpecTxt[s].trp = SpecTxt[t].trp
        /\ SpecTxt[s].trp # SpecTxt[t].shell
-----------------------------------------------------------------------------
(* What the release of the entry holds for the host and for a card.        *)
Release   == SpecTxt[<<U200, entry.version>>]
Wanted(k) == SpecTxt[<<cards[k].type, entry.version>>]

ToFlash == {k \in 1..Len(cards) : Supported(cards[k].type, entry.version)
                                    /\ entry.shellFlashEnabled # "false"}

RunsWanted(k) == cards[k].running \in {Wanted(k).shell, Wanted(k).trp}

Settled(k) == cards[k].flash = Wanted(k).shell /\ RunsWanted(k)

(* Every examination so far has told what the card runs.                   *)
Sighted == used["examine"] = 0 /\ ~host.torn

(* The XRT of the release, or a newer one that was on the host and could   *)
(* not be removed.                                                         *)
XrtReady ==
    \/ host.xrt = Release.xrt
    \/ host.xrt = pod.cur /\ pod.cur > Release.xrt

XrmReady ==
    entry.xrmInstallation # "false" => host.xrmd /\ host.xrm >= Release.xrm

(* "the pod status will become Running once it is done": when the pod runs *)
(* and none of its own commands failed, XRT and XRM are those of the       *)
(* release and every supported card has its shell or gets it at the next   *)
(* reboot, wherever earlier pods were interrupted and whatever of theirs   *)
(* failed, unless an installation was broken off on this host.             *)
SetupComplete ==
    pod.pc = "running" /\ pod.clean =>
        /\ XrtReady
        /\ XrmReady
        /\ \A k \in ToFlash : RunsWanted(k) \/ cards[k].flash = Wanted(k).shell

(* A host that has been set up also comes back from a power cycle: the     *)
(* flash memory holds the shell of the release, although the script only   *)
(* looks at the shell that runs.  After an examination that failed, a card *)
(* is flashed blindly, and an interruption then goes unnoticed.            *)
ColdBootSafe ==
    pod.pc = "running" /\ pod.clean /\ Sighted =>
        \A k \in ToFlash : cards[k].flash = Wanted(k).shell

(* A card that has nothing to get is left alone, by the script and by      *)
(* every kill, failed command and power cycle: its flash memory is not     *)
(* written, and it goes on running a layer of its shell.  Cards that could *)
(* not be examined are excepted.                                           *)
LeftAlone(k) ==
    /\ cards'[k].flash = cards[k].flash
    /\ k \in ToFlash => cards'[k].running \in {Wanted(k).shell, Wanted(k).trp}

ShellKept ==
    [][Sighted' => \A k \in 1..Len(cards) :
         (k \in ToFlash => Settled(k)) => LeftAlone(k)]_vars

(* The card runs all that the release has for it.                          *)
Operational(k) ==
    cards[k].running = IF cards[k].type = U250 THEN Wanted(k).trp ELSE Wanted(k).shell

(* The pods and the required reboots come to an end with every supported   *)
(* card running its shell, the U250 both layers.  Two things excuse them,  *)
(* for nothing repeats or repairs either: a command of the last pod        *)
(* failed, or an installation was broken off.                              *)
SetupConverges ==
    <>[](\/ host.torn
         \/ pod.pc = "running" /\ (pod.clean => \A k \in ToFlash : Operational(k)))
==============================================================================
