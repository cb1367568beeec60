--------------------------- MODULE HostSetup_proofs ---------------------------
(***************************************************************************)
(* What the host-setup pod achieves, for every list of cards, every        *)
(* conf/spec.txt and any number of edits, kills, reboots, failed commands, *)
(* broken installations and failed examinations.  Types is inductive       *)
(* whatever the constants are; the others hold under hypotheses that       *)
(* HostSetup names.                                                        *)
(***************************************************************************)
EXTENDS HostSetup, FiniteSetTheorems, TLAPS

(* The positions at which the script works on one card.                    *)
Working == {"examine", "package", "program", "programming", "shell", "load"}

PackageSets == {NoPackages} \cup {SpecTxt[s] : s \in DOMAIN SpecTxt}

(* The cards of the node stay in their places; only images change.         *)
Shape(l) ==
    /\ cards \in [1..Len(l) -> [type : STRING, flash : Shells \cup {Partial}, running : Shells]]
    /\ \A k \in 1..Len(l) : cards[k].type = l[k]

CardShape == \E l \in CardLists : Shape(l)

Hosts == [xrt : Nat, xrm : Nat, xrmd : BOOLEAN, packages : [Platforms -> Nat],
          torn : BOOLEAN]

HostShape == host \in Hosts

Pods(e) == [pc : PCs, entry : {e}, cur : Nat, spec : PackageSets, skip : BOOLEAN,
            idx : Nat \ {0}, clean : BOOLEAN, flashed : BOOLEAN,
            busy : BOOLEAN]

PodShape == entry \in Entries /\ pod \in Pods(entry)

UsedShape == used \in [Events -> Nat]

(* An installed package is one of conf/spec.txt.                           *)
PackagesKnown ==
    \A p \in Platforms : host.packages[p] # 0 => Supported(p, host.packages[p])

(* The script works on a card of the array, with the packages of its       *)
(* platform, and programs what is installed.                               *)
AtWork ==
    /\ pod.idx <= Len(cardTypeArr) + 1
    /\ pod.pc \in Working =>
          /\ pod.idx <= Len(cardTypeArr)
          /\ Supported(PLATFORM, VERSION) /\ pod.spec = SpecTxt[<<PLATFORM, VERSION>>]
    /\ pod.pc = "programming" => host.packages[PLATFORM] # 0
    /\ pod.pc \in {"shell", "load"} => PLATFORM = U250

Types == CardShape /\ HostShape /\ PodShape /\ UsedShape /\ PackagesKnown /\ AtWork

XrmHigh == host.xrm >= Release.xrm

(* How far the first container has come.                                   *)
Software ==
    /\ pod.pc = "xrt" => pod.cur = host.xrt
    /\ pod.pc = "install" => host.xrt \in {0, pod.cur}
    /\ pod.pc \in {"xrt", "install", "xrm"} => pod.spec = Release
    /\ pod.pc \notin {"start", "xrt", "install"} /\ pod.clean => XrtReady
    /\ pod.pc = "xrmd" /\ pod.clean => XrmHigh
    /\ pod.pc \notin {"start", "xrt", "install", "xrm", "xrmd"} /\ pod.clean => XrmReady

Done(k) == RunsWanted(k) \/ cards[k].flash = Wanted(k).shell

(* The second container flashes only if the entry wants it, and the flag   *)
(* of an unsupported card is gone when the next card is looked at.         *)
Enabled == pod.pc \in Working \cup {"card"} => pod.skip = FALSE /\ FlashCards

(* What the examination has found out about the card at the index, which   *)
(* is unfinished while it is written.                                      *)
Judged ==
    /\ pod.pc \in {"shell", "load"} => Card.running = pod.spec.shell
    /\ pod.pc \in {"package", "program"} /\ Sighted /\ host.xrt # 0
          => ~RunsWanted(pod.idx)
    /\ pod.pc = "programming" => Card.flash = Partial

(* How far the second container has come: the cards before the index are   *)
(* done, and the package for the card at the index is there in time.       *)
Progress ==
    /\ pod.pc = "program" /\ pod.clean => host.packages[PLATFORM] # 0
    /\ pod.pc = "load" /\ pod.clean => host.packages[U250] # 0
    /\ pod.pc \in Working \cup {"card"} /\ pod.clean
          => \A k \in ToFlash : k < pod.idx => Done(k)
    /\ pod.pc = "running" /\ pod.clean => \A k \in ToFlash : Done(k)

(* A card holds images of its own type, and as long as every examination   *)
(* succeeded, a card that runs a shell also has one in its flash memory.   *)
Images ==
    \A k \in 1..Len(cards) :
        /\ cards[k].flash \in Factory(cards[k].type) \cup {Partial}
        /\ \/ cards[k].running \in Factory(cards[k].type)
           \/ cards[k].type = U250 /\ cards[k].running \in SecondLayers

FlashBehind ==
    Sighted =>
        \A k \in 1..Len(cards) :
            cards[k].running # Golden => cards[k].flash \notin {Golden, Partial}

(* What tells apart the cards to flash, and all that the pod achieves.     *)
Chosen == Types /\ Enabled /\ Images /\ Judged

Setup == Chosen /\ Software /\ Progress /\ FlashBehind
-----------------------------------------------------------------------------
(* The cards and their types.                                              *)

(* The cards form a sequence of cards.                                     *)
LEMMA CardSeq ==
    ASSUME NEW l \in CardLists, Shape(l)
    PROVE  /\ Len(l) \in Nat /\ Len(cards) = Len(l)
           /\ DOMAIN cards = 1..Len(cards)
           /\ \A k \in 1..Len(cards) :
                 cards[k] \in [type : STRING, flash : Shells \cup {Partial}, running : Shells]
<1>1. l \in Seq(STRING) BY HostSetupAssumption
<1>2. Len(l) \in Nat BY <1>1
<1>3. \A S : \A f \in [1..Len(l) -> S] : Len(f) = Len(l) BY <1>2
<1>4. DOMAIN cards = 1..Len(l) BY DEF Shape
<1>5. Len(cards) = Len(l) BY <1>3 DEF Shape
<1> QED BY <1>2, <1>4, <1>5 DEF Shape

(* The array is as long as there are known cards, and no longer than the   *)
(* list of all cards.                                                      *)
LEMMA ArrayLength ==
    ASSUME CardShape
    PROVE  /\ Len(cards) \in Nat /\ Len(cardTypeArr) \in Nat
           /\ Len(cardTypeArr) = Cardinality(KnownCards)
           /\ Len(cardTypeArr) <= Len(cards)
           /\ DOMAIN cardTypeArr = 1..Len(cardTypeArr)
<1>1. Len(cards) \in Nat BY CardSeq DEF CardShape
<1>2. /\ IsFiniteSet(1..Len(cards))
      /\ Cardinality(1..Len(cards)) = IF 1 > Len(cards) THEN 0 ELSE Len(cards) - 1 + 1
  BY <1>1, FS_Interval
<1>3. Cardinality(1..Len(cards)) = Len(cards) BY <1>1, <1>2
<1>4. KnownCards \in SUBSET (1..Len(cards)) BY DEF KnownCards, Devices
<1>5. IsFiniteSet(KnownCards) /\ Cardinality(KnownCards) <= Cardinality(1..Len(cards))
  BY <1>2, <1>4, FS_Subset
<1>6. Cardinality(KnownCards) \in Nat BY <1>5, FS_CardinalityType
<1>7. DOMAIN cardTypeArr = 1..Cardinality(KnownCards) BY DEF cardTypeArr
<1>8. Len(cardTypeArr) = Cardinality(KnownCards) BY <1>6 DEF cardTypeArr
<1> QED BY <1>1, <1>3, <1>5, <1>6, <1>7, <1>8

(* Behind known cards there are only unknown ones: both arrays have the    *)
(* same card at the same index.                                            *)
LEMMA Aligned ==
    ASSUME CardShape, UnknownLast
    PROVE  /\ \A j \in 1..Len(cardTypeArr) : cardTypeArr[j] = cards[j].type
           /\ \A k \in 1..Len(cards) : cards[k].type \in Platforms => k <= Len(cardTypeArr)
<1>1. PICK l \in CardLists : Shape(l) BY DEF CardShape
<1>2. PICK m \in 0..Len(l) : \A k \in 1..Len(l) : l[k] \in Platforms <=> k <= m
  BY DEF UnknownLast
<1>3. Len(l) \in Nat /\ Len(cards) = Len(l) BY <1>1, CardSeq
<1>4. m \in Nat /\ m <= Len(cards) BY <1>2, <1>3
<1>5. \A k \in 1..Len(cards) : cards[k].type \in Platforms <=> k <= m
  BY <1>1, <1>2, <1>3 DEF Shape
<1>6. KnownCards = 1..m BY <1>3, <1>4, <1>5 DEF KnownCards, Devices
<1>7. \A k \in 0..m : Cardinality(1..k) = k
  <2> TAKE k \in 0..m
  <2>1. k \in Int BY <1>4
  <2>2. Cardinality(1..k) = IF 1 > k THEN 0 ELSE k - 1 + 1 BY <2>1, FS_Interval
  <2> QED BY <2>1, <2>2, <1>4
<1>8. Len(cardTypeArr) = m BY <1>4, <1>6, <1>7, ArrayLength
<1>9. ASSUME NEW j \in 1..m PROVE cardTypeArr[j] = cards[j].type
  <2>1. \A k \in 1..m : {i \in 1..m : i <= k} = 1..k BY <1>4
  <2>2. \A k \in 1..m : Cardinality({i \in KnownCards : i <= k}) = k
    <3> TAKE k \in 1..m
    <3>1. {i \in KnownCards : i <= k} = 1..k BY <1>6, <2>1, Zenon
    <3>2. k \in 0..m BY <1>4
    <3> QED BY <1>7, <3>1, <3>2, Zenon
  <2>3. j \in KnownCards /\ Cardinality({i \in KnownCards : i <= j}) = j BY <1>6, <2>2
  <2>4. Ranked(j) \in KnownCards /\ Cardinality({i \in KnownCards : i <= Ranked(j)}) = j
    BY <2>3, Zenon DEF Ranked
  <2>5. Ranked(j) = j BY <1>6, <2>2, <2>4
  <2>6. j \in 1..Cardinality(KnownCards) /\ j \in 1..Len(cards) BY <1>4, <1>6, <1>7
  <2> QED BY <2>5, <2>6 DEF cardTypeArr, Devices
<1> QED BY <1>5, <1>8, <1>9

(* An image that changes leaves the types of the cards alone, and with     *)
(* them the array.                                                         *)
SameTypes ==
    /\ Len(cards') = Len(cards)
    /\ \A k \in 1..Len(cards) : cards'[k].type = cards[k].type

(* The array depends on the types alone.                                   *)
LEMMA SameArray == ASSUME SameTypes PROVE cardTypeArr' = cardTypeArr
<1>1. Devices' = Devices BY DEF Devices, SameTypes
<1>2. KnownCards' = KnownCards BY <1>1 DEF KnownCards
<1>3. \A j : Ranked(j)' = Ranked(j) BY <1>2 DEF Ranked
<1> QED BY <1>1, <1>2, <1>3 DEF cardTypeArr
-----------------------------------------------------------------------------
(* Types is inductive.                                                     *)

(* An outside event is counted.                                            *)
LEMMA SpendShape ==
    ASSUME UsedShape, NEW e \in Events, Spend(e)
    PROVE  UsedShape' /\ used'[e] # 0 /\ \A f \in Events \ {e} : used'[f] = used[f]
BY DEF UsedShape, Spend

(* A failure is counted unless the host is torn.                           *)
LEMMA FailsShape ==
    ASSUME UsedShape, NEW e \in Events, Fails(e)
    PROVE  /\ UsedShape' /\ \A f \in Events \ {e} : used'[f] = used[f]
           /\ ~host.torn => used'[e] # 0
<1>1. CASE Spend(e) BY <1>1, SpendShape
<1>2. CASE host.torn /\ UNCHANGED used BY <1>2 DEF UsedShape
<1> QED BY <1>1, <1>2 DEF Fails

(* What a step without a card changes of it.                               *)
LEMMA CardsKept ==
    ASSUME cards' = cards
    PROVE  cardTypeArr' = cardTypeArr /\ (CardShape => CardShape')
<1>1. SameTypes BY DEF SameTypes
<1> QED BY <1>1, SameArray DEF CardShape, Shape

(* One card gets an image.                                                 *)
LEMMA CardChanged ==
    ASSUME CardShape, NEW k \in 1..Len(cards), NEW f \in Shells \cup {Partial}, NEW r \in Shells,
           cards' = [cards EXCEPT ![k] = [type |-> cards[k].type, flash |-> f, running |-> r]]
    PROVE  CardShape' /\ SameTypes /\ cardTypeArr' = cardTypeArr
<1>1. PICK l \in CardLists : Shape(l) BY DEF CardShape
<1>2. /\ Len(l) \in Nat /\ Len(cards) = Len(l)
      /\ cards \in [1..Len(l) -> [type : STRING, flash : Shells \cup {Partial}, running : Shells]]
      /\ \A i \in 1..Len(l) : cards[i].type = l[i]
  BY <1>1, CardSeq DEF Shape
<1>3. [type |-> cards[k].type, flash |-> f, running |-> r]
         \in [type : STRING, flash : Shells \cup {Partial}, running : Shells]
  BY <1>2
<1>4. cards' \in [1..Len(l) -> [type : STRING, flash : Shells \cup {Partial}, running : Shells]]
  BY <1>2, <1>3
<1>5. \A i \in 1..Len(l) : cards'[i].type = cards[i].type BY <1>2
<1>6. Shape(l)' BY <1>2, <1>4, <1>5 DEF Shape
<1>7. CardShape' BY <1>6 DEF CardShape
<1>8. \A S : \A g \in [1..Len(l) -> S] : Len(g) = Len(l) BY <1>2
<1>9. Len(cards') = Len(l) BY <1>4, <1>8
<1>10. SameTypes BY <1>2, <1>5, <1>9 DEF SameTypes
<1> QED BY <1>7, <1>10, SameArray

(* A card is a record of three fields.                                     *)
LEMMA CardFields ==
    ASSUME CardShape, NEW k \in 1..Len(cards)
    PROVE  /\ cards[k].flash \in Shells \cup {Partial} /\ cards[k].running \in Shells
           /\ cards[k] = [type |-> cards[k].type, flash |-> cards[k].flash,
                          running |-> cards[k].running]
<1>1. cards[k] \in [type : STRING, flash : Shells \cup {Partial}, running : Shells]
  BY CardSeq DEF CardShape
<1> QED BY <1>1

(* The images of conf/spec.txt.                                            *)
LEMMA SpecImages ==
    ASSUME NEW s \in DOMAIN SpecTxt
    PROVE  /\ SpecTxt[s].shell \in Shells /\ SpecTxt[s].trp \in Shells
           /\ SpecTxt[s] \in PackageSets
BY DEF Shells, PackageSets

(* A new pod has no card and no packages yet.                              *)
LEMMA FreshPod ==
    ASSUME CardShape, entry' \in Entries, NEW h \in Hosts, pod' = NewPod(entry', h),
           cardTypeArr' = cardTypeArr
    PROVE  PodShape' /\ AtWork' /\ pod'.pc = "start"
<1>1. PICK b \in BOOLEAN :
        pod' = [pc |-> "start", entry |-> entry', cur |-> 0, spec |-> NoPackages,
                skip |-> FALSE, idx |-> 1, clean |-> b, flashed |-> FALSE, busy |-> FALSE]
  BY Zenon DEF NewPod
<1>2. PodShape' BY <1>1 DEF PodShape, Pods, PCs, PackageSets
<1>3. Len(cardTypeArr') \in Nat BY ArrayLength
<1>4. AtWork' BY <1>1, <1>3 DEF AtWork, Working
<1> QED BY <1>1, <1>2, <1>4

(* get_packages sets packages of conf/spec.txt or the flag.                *)
LEMMA GotPackages ==
    ASSUME NEW p \in Pods(entry), NEW platform
    PROVE  /\ GetPackages(p, platform) \in Pods(entry)
           /\ GetPackages(p, platform).pc = p.pc /\ GetPackages(p, platform).idx = p.idx
           /\ GetPackages(p, platform).clean = p.clean /\ GetPackages(p, platform).cur = p.cur
           /\ Supported(platform, VERSION)
                => /\ GetPackages(p, platform).spec = SpecTxt[<<platform, VERSION>>]
                   /\ GetPackages(p, platform).skip = p.skip
           /\ ~Supported(platform, VERSION) => GetPackages(p, platform).skip = TRUE
<1>1. CASE Supported(platform, VERSION)
  <2>1. SpecTxt[<<platform, VERSION>>] \in PackageSets BY <1>1, SpecImages DEF Supported
  <2>2. GetPackages(p, platform) = [p EXCEPT !.spec = SpecTxt[<<platform, VERSION>>]]
    BY <1>1 DEF GetPackages
  <2> QED BY <1>1, <2>1, <2>2 DEF Pods
<1>2. CASE ~Supported(platform, VERSION)
  <2>1. GetPackages(p, platform) = [p EXCEPT !.skip = TRUE]
    BY <1>2 DEF GetPackages
  <2> QED BY <1>2, <2>1 DEF Pods
<1> QED BY <1>1, <1>2

(* A step that works on no card and installs no shell package.             *)
LEMMA TypesOffWork ==
    ASSUME Types, cards' = cards, entry' = entry, HostShape', UsedShape',
           host'.packages = host.packages, pod' \in Pods(entry), pod'.pc \notin Working,
           pod'.idx <= Len(cardTypeArr) + 1
    PROVE  Types'
<1>1. cardTypeArr' = cardTypeArr /\ CardShape' BY CardsKept DEF Types
<1>2. PodShape' BY DEF Types, PodShape
<1>3. PackagesKnown' BY DEF Types, PackagesKnown, Supported
<1>4. AtWork' BY <1>1 DEF AtWork, Working
<1> QED BY <1>1, <1>2, <1>3, <1>4 DEF Types

(* An installation sets host and pod, or pod alone.                        *)
LEMMA InstallShape ==
    ASSUME Types, NEW p \in Pods(entry), NEW h \in Hosts, Installs(p, h)
    PROVE  /\ HostShape' /\ UsedShape' /\ used'["examine"] = used["examine"]
           /\ pod' \in Pods(entry)
           /\ pod'.pc = p.pc /\ pod'.idx = p.idx /\ pod'.spec = p.spec
           /\ pod'.skip = p.skip /\ pod'.cur = p.cur
           /\ host' = h \/ host' = host
           /\ pod'.clean => host' = h /\ p.clean
<1>1. UsedShape /\ HostShape BY DEF Types
<1>2. CASE pod' = [p EXCEPT !.busy = TRUE] /\ host' = h /\ UNCHANGED used
  BY <1>1, <1>2 DEF HostShape, UsedShape, Pods
<1>3. CASE pod' = [p EXCEPT !.clean = FALSE] /\ UNCHANGED host /\ Fails("command")
  <2>1. UsedShape' /\ used'["examine"] = used["examine"]
    BY <1>1, <1>3, FailsShape DEF Events
  <2> QED BY <1>1, <1>3, <2>1 DEF HostShape, Pods
<1> QED BY <1>2, <1>3 DEF Installs

(* While the package manager works the script stays where it is; a broken  *)
(* installation shows on the pod and on the host.                          *)
LEMMA BusyShape ==
    ASSUME Types, InstallEnds \/ InstallBreaks
    PROVE  /\ UNCHANGED <<cards, entry>> /\ UsedShape' /\ HostShape'
           /\ pod' \in Pods(entry)
           /\ pod'.pc = pod.pc /\ pod'.idx = pod.idx /\ pod'.spec = pod.spec
           /\ pod'.skip = pod.skip /\ pod'.cur = pod.cur
           /\ pod'.clean => pod.clean
           /\ host'.xrt = host.xrt /\ host'.xrm = host.xrm /\ host'.xrmd = host.xrmd
           /\ host'.packages = host.packages
<1>1. pod \in Pods(entry) /\ HostShape /\ UsedShape BY DEF Types, PodShape
<1>2. CASE InstallEnds BY <1>1, <1>2 DEF InstallEnds, Pods, HostShape, UsedShape
<1>3. CASE InstallBreaks
  <2>1. UsedShape' BY <1>1, <1>3, FailsShape DEF InstallBreaks, Events
  <2>2. host' = [host EXCEPT !.torn = TRUE] BY <1>3 DEF InstallBreaks
  <2>3. pod' = [pod EXCEPT !.busy = FALSE, !.clean = FALSE] BY <1>3 DEF InstallBreaks
  <2> QED BY <1>1, <1>3, <2>1, <2>2, <2>3 DEF InstallBreaks, Pods, HostShape, Hosts
<1> QED BY <1>2, <1>3

(* The script goes on where it was.                                        *)
LEMMA TypesBusy ==
    ASSUME Types, InstallEnds \/ InstallBreaks
    PROVE  Types'
<1>1. cardTypeArr' = cardTypeArr /\ CardShape' BY BusyShape, CardsKept DEF Types
<1>2. PodShape' BY BusyShape DEF Types, PodShape
<1>3. PackagesKnown' BY BusyShape DEF Types, PackagesKnown, Supported
<1>4. PLATFORM' = PLATFORM BY <1>1, BusyShape DEF PLATFORM
<1>5. VERSION' = VERSION BY <1>2, BusyShape DEF Types, PodShape, Pods, VERSION
<1>6. AtWork' BY <1>1, <1>4, <1>5, BusyShape DEF Types, AtWork, Supported
<1> QED BY <1>1, <1>2, <1>3, <1>6, BusyShape DEF Types

(* The versions that the script compares are numbers.                      *)
LEMMA SpecNumbers == ASSUME NEW q \in PackageSets PROVE q.xrt \in Nat /\ q.xrm \in Nat
<1>1. CASE q = NoPackages BY <1>1 DEF NoPackages
<1>2. CASE \E s \in DOMAIN SpecTxt : q = SpecTxt[s]
  <2>1. PICK s \in DOMAIN SpecTxt : q = SpecTxt[s] BY <1>2
  <2>2. SpecTxt[s].xrt \in Nat \ {0} /\ SpecTxt[s].xrm \in Nat \ {0} BY HostSetupAssumption
  <2> QED BY <2>1, <2>2
<1> QED BY <1>1, <1>2 DEF PackageSets

(* The first container.                                                    *)
LEMMA TypesSoftware ==
    ASSUME Types,
           \/ DetectXrt \/ XrtPresent \/ XrtRemove \/ XrtInstall
           \/ XrmInstall \/ XrmSkip \/ XrmService
    PROVE  Types'
<1>0. /\ CardShape /\ HostShape /\ PodShape /\ UsedShape /\ AtWork
      /\ pod \in Pods(entry) /\ pod.idx <= Len(cardTypeArr) + 1
  BY DEF Types, PodShape, AtWork
<1>1. CASE DetectXrt
  <2> DEFINE p == [pod EXCEPT !.pc = "xrt", !.cur = host.xrt]
  <2>1. p \in Pods(entry) /\ p.pc = "xrt" /\ p.idx = pod.idx
    BY <1>0 DEF Pods, PCs, HostShape, Hosts
  <2>2. pod' = GetPackages(p, U200) /\ UNCHANGED <<cards, host, entry, used>>
    BY <1>1 DEF DetectXrt, At
  <2> HIDE DEF p
  <2>3. pod' \in Pods(entry) /\ pod'.pc = "xrt" /\ pod'.idx = pod.idx
    BY <2>1, <2>2, GotPackages
  <2> QED BY <1>0, <2>2, <2>3, TypesOffWork DEF HostShape, Hosts, UsedShape, Working
<1>2. CASE XrtPresent \/ XrtRemove \/ XrmSkip \/ XrmService
  <2>1. UNCHANGED <<cards, entry>> BY <1>2 DEF XrtPresent, XrtRemove, XrmSkip, XrmService, At
  <2>2. /\ pod' \in Pods(entry) /\ pod'.pc \in {"install", "xrm", "flash"} /\ pod'.idx = pod.idx
    BY <1>0, <1>2 DEF XrtPresent, XrtRemove, XrmSkip, XrmService, At, Pods, PCs
  <2>4. UsedShape'
    BY <1>0, <1>2, FailsShape
       DEF XrtPresent, XrtRemove, XrmSkip, XrmService, UsedShape, Events
  <2>3. HostShape' /\ host'.packages = host.packages
    <3>1. CASE XrmService
      <4>1. host' = host \/ \E b \in BOOLEAN : host' = [host EXCEPT !.xrmd = b]
        BY <3>1, Zenon DEF XrmService
      <4> QED BY <1>0, <4>1 DEF HostShape, Hosts
    <3> QED BY <1>0, <1>2, <3>1 DEF XrtPresent, XrtRemove, XrmSkip, HostShape, Hosts
  <2> QED BY <1>0, <2>1, <2>2, <2>3, <2>4, TypesOffWork DEF Working
<1>3. CASE XrtInstall
  <2> DEFINE p == [pod EXCEPT !.pc = "xrm"]
             h == [host EXCEPT !.xrt = Newest(@, pod.spec.xrt)]
  <2>1. p \in Pods(entry) /\ p.pc = "xrm" /\ p.idx = pod.idx BY <1>0 DEF Pods, PCs
  <2>2. pod.spec.xrt \in Nat BY <1>0, SpecNumbers DEF Pods
  <2>3. /\ h \in Hosts
        /\ h.packages = host.packages
    BY <1>0, <2>2 DEF HostShape, Hosts, Newest
  <2>4. Installs(p, h) /\ UNCHANGED <<cards, entry>> BY <1>3 DEF XrtInstall, At
  <2> HIDE DEF p, h
  <2>5. /\ HostShape' /\ UsedShape' /\ pod' \in Pods(entry)
        /\ pod'.pc = "xrm" /\ pod'.idx = pod.idx /\ (host' = h \/ host' = host)
    BY <2>1, <2>3, <2>4, InstallShape
  <2> QED BY <1>0, <2>3, <2>4, <2>5, TypesOffWork DEF Working
<1>4. CASE XrmInstall
  <2> DEFINE p == [pod EXCEPT !.pc = "xrmd"]
             h == [host EXCEPT !.xrm = Newest(@, pod.spec.xrm)]
  <2>1. p \in Pods(entry) /\ p.pc = "xrmd" /\ p.idx = pod.idx BY <1>0 DEF Pods, PCs
  <2>2. pod.spec.xrm \in Nat BY <1>0, SpecNumbers DEF Pods
  <2>3. /\ h \in Hosts
        /\ h.packages = host.packages
    BY <1>0, <2>2 DEF HostShape, Hosts, Newest
  <2>4. Installs(p, h) /\ UNCHANGED <<cards, entry>> BY <1>4 DEF XrmInstall, At
  <2> HIDE DEF p, h
  <2>5. /\ HostShape' /\ UsedShape' /\ pod' \in Pods(entry)
        /\ pod'.pc = "xrmd" /\ pod'.idx = pod.idx /\ (host' = h \/ host' = host)
    BY <2>1, <2>3, <2>4, InstallShape
  <2> QED BY <1>0, <2>3, <2>4, <2>5, TypesOffWork DEF Working
<1> QED BY <1>1, <1>2, <1>3, <1>4

(* A step on one card, which stays the card at the index.                  *)
LEMMA TypesSameCard ==
    ASSUME Types, pod.pc \in Working, cardTypeArr' = cardTypeArr, CardShape', entry' = entry,
           HostShape', UsedShape', PackagesKnown', pod' \in Pods(entry), pod'.pc \in Working,
           pod'.idx = pod.idx, pod'.spec = pod.spec,
           pod'.pc = "programming" => host'.packages[PLATFORM] # 0,
           pod'.pc \in {"shell", "load"} => PLATFORM = U250
    PROVE  Types' /\ PLATFORM' = PLATFORM /\ VERSION' = VERSION
<1>1. PodShape' BY DEF Types, PodShape
<1>2. PLATFORM' = PLATFORM BY DEF PLATFORM
<1>3. VERSION' = VERSION BY DEF Types, PodShape, Pods, VERSION
<1>4. AtWork' BY <1>2, <1>3 DEF Types, AtWork, Supported
<1> QED BY <1>1, <1>2, <1>3, <1>4 DEF Types

(* A step to the next card.                                                *)
LEMMA TypesNextCard ==
    ASSUME Types, pod.pc \in Working, cardTypeArr' = cardTypeArr, CardShape', entry' = entry,
           host' = host, UsedShape', pod' \in Pods(entry), pod'.pc = "card",
           pod'.idx = pod.idx + 1
    PROVE  Types'
<1>1. PodShape' BY DEF Types, PodShape
<1>2. Len(cardTypeArr) \in Nat /\ pod.idx \in Nat BY ArrayLength DEF Types, PodShape, Pods
<1>3. AtWork' BY <1>2 DEF Types, AtWork, Working
<1> QED BY <1>1, <1>3 DEF Types, HostShape, PackagesKnown, Supported

(* The index moves on and stays positive.                                  *)
LEMMA NextCardPod ==
    ASSUME NEW p \in Pods(entry)
    PROVE  /\ NextCard(p) \in Pods(entry) /\ NextCard(p).pc = "card"
           /\ NextCard(p).idx = p.idx + 1 /\ NextCard(p).clean = p.clean
           /\ NextCard(p).skip = p.skip /\ NextCard(p).spec = p.spec
           /\ NextCard(p).cur = p.cur
<1>1. NextCard(p) = [p EXCEPT !.pc = "card", !.idx = p.idx + 1] BY Zenon DEF NextCard
<1>2. p.idx + 1 \in Nat \ {0} BY DEF Pods
<1> QED BY <1>1, <1>2 DEF Pods, PCs

(* The script at a card that it does not know the packages of yet.         *)
LEMMA TypesCard ==
    ASSUME Types, BeginFlash \/ FinishFlash \/ SkipCard \/ CheckCard
    PROVE  Types'
<1>0. /\ CardShape /\ HostShape /\ PodShape /\ UsedShape /\ AtWork
      /\ pod \in Pods(entry) /\ pod.idx <= Len(cardTypeArr) + 1
      /\ Len(cardTypeArr) \in Nat
  BY ArrayLength DEF Types, PodShape, AtWork
<1>1. UNCHANGED <<cards, host, entry, used>>
  BY DEF BeginFlash, FinishFlash, SkipCard, CheckCard, AtCard, At
<1>2. HostShape' /\ UsedShape' BY <1>0, <1>1 DEF HostShape, Hosts, UsedShape
<1>3. CASE BeginFlash \/ FinishFlash
  <2>1. pod' \in Pods(entry) /\ pod'.pc \in {"card", "running"} /\ pod'.idx \in {1, pod.idx}
    <3>1. NoPackages \in PackageSets BY DEF PackageSets
    <3>2. CASE BeginFlash /\ FlashCards
      <4>1. pod' = [pod EXCEPT !.pc = "card", !.idx = 1, !.skip = FALSE, !.spec = NoPackages]
        BY <3>2 DEF BeginFlash
      <4>2. pod' = [pc |-> "card", entry |-> pod.entry, cur |-> pod.cur, spec |-> NoPackages,
                    skip |-> FALSE, idx |-> 1, clean |-> pod.clean, flashed |-> pod.flashed,
                    busy |-> pod.busy]
        BY <1>0, <4>1 DEF Pods
      <4>3. /\ pod.entry = entry /\ pod.cur \in Nat /\ pod.clean \in BOOLEAN
            /\ pod.flashed \in BOOLEAN /\ pod.busy \in BOOLEAN
        BY <1>0 DEF Pods
      <4> QED BY <3>1, <4>2, <4>3 DEF Pods, PCs
    <3>3. CASE (BeginFlash /\ ~FlashCards) \/ FinishFlash
      BY <1>0, <3>3 DEF BeginFlash, FinishFlash, Pods, PCs
    <3> QED BY <1>3, <3>2, <3>3
  <2> QED BY <1>0, <1>1, <1>2, <2>1, TypesOffWork DEF Working
<1> DEFINE p == GetPackages(pod, PLATFORM)
<1>4. /\ p \in Pods(entry) /\ p.idx = pod.idx
      /\ Supported(PLATFORM, VERSION) => p.spec = SpecTxt[<<PLATFORM, VERSION>>]
      /\ ~Supported(PLATFORM, VERSION) => p.skip = TRUE
  BY <1>0, GotPackages
<1>5. CASE SkipCard
  <2>1. pod' = [NextCard(p) EXCEPT !.skip = FALSE] /\ pod.idx <= Len(cardTypeArr)
    BY <1>5 DEF SkipCard, AtCard
  <2> HIDE DEF p
  <2>2. pod' \in Pods(entry) /\ pod'.pc = "card" /\ pod'.idx = pod.idx + 1
    <3>1. NextCard(p) \in Pods(entry) /\ NextCard(p).pc = "card" /\ NextCard(p).idx = pod.idx + 1
      BY <1>4, NextCardPod
    <3> QED BY <2>1, <3>1 DEF Pods
  <2>3. pod'.idx <= Len(cardTypeArr) + 1 BY <1>0, <2>1, <2>2 DEF Pods
  <2> QED BY <1>0, <1>1, <1>2, <2>2, <2>3, TypesOffWork DEF Working
<1>6. CASE CheckCard
  <2>1. pod' = [p EXCEPT !.pc = "examine"] /\ ~p.skip /\ pod.idx <= Len(cardTypeArr)
    BY <1>6 DEF CheckCard, AtCard
  <2> HIDE DEF p
  <2>2. /\ pod' \in Pods(entry) /\ pod'.pc = "examine" /\ pod'.idx = pod.idx
        /\ pod'.spec = p.spec
    BY <1>4, <2>1 DEF Pods, PCs
  <2>3. cardTypeArr' = cardTypeArr /\ CardShape' BY <1>0, <1>1, CardsKept
  <2>4. PLATFORM' = PLATFORM BY <2>2, <2>3 DEF PLATFORM
  <2>5. VERSION' = VERSION BY <1>0, <2>2 DEF Pods, VERSION
  <2>6. AtWork' BY <1>0, <1>4, <2>1, <2>2, <2>3, <2>4, <2>5 DEF AtWork, Supported
  <2>7. PodShape' BY <1>0, <1>1, <2>2 DEF PodShape
  <2> QED BY <1>1, <1>2, <2>3, <2>6, <2>7 DEF Types, PackagesKnown, Supported
<1> QED BY <1>3, <1>5, <1>6

(* The examination sends the script to one of the next positions.          *)
LEMMA VerdictRange ==
    /\ Verdict(Card.running) \in {"skip", "shell", "package"}
    /\ Verdict(Card.running) = "shell" => PLATFORM = U250 /\ Card.running = pod.spec.shell
    /\ Verdict(Card.running) = "skip" => Card.running \in {pod.spec.shell, pod.spec.trp}
    /\ Verdict(Card.running) = "package" =>
          /\ Card.running # pod.spec.shell
          /\ PLATFORM = U250 => Card.running # pod.spec.trp
BY DEF Verdict

(* An examined card.                                                       *)
LEMMA TypesExamine ==
    ASSUME Types, ExamineFails \/ Examine
    PROVE  Types'
<1>0. /\ CardShape /\ HostShape /\ UsedShape /\ pod \in Pods(entry) /\ pod.pc \in Working
      /\ UNCHANGED <<cards, host, entry>>
  BY DEF Types, PodShape, ExamineFails, Examine, At, Working
<1>1. cardTypeArr' = cardTypeArr /\ CardShape' BY <1>0, CardsKept
<1>2. HostShape' /\ PackagesKnown' BY <1>0 DEF Types, HostShape, Hosts, PackagesKnown, Supported
<1>3. UsedShape'
  BY <1>0, FailsShape DEF ExamineFails, Examine, UsedShape, Events
<1>4. CASE ExamineFails
  <2>1. /\ pod' \in Pods(entry) /\ pod'.pc = "package"
        /\ pod'.idx = pod.idx /\ pod'.spec = pod.spec
    BY <1>0, <1>4 DEF ExamineFails, Pods, PCs
  <2> QED BY <1>0, <1>1, <1>2, <1>3, <2>1, TypesSameCard DEF Working
<1>5. CASE Examine /\ Verdict(Card.running) = "skip"
  <2>1. pod' \in Pods(entry) /\ pod'.pc = "card" /\ pod'.idx = pod.idx + 1
    BY <1>0, <1>5, NextCardPod DEF Examine
  <2> QED BY <1>0, <1>1, <1>3, <2>1, TypesNextCard
<1>6. CASE Examine /\ Verdict(Card.running) # "skip"
  <2>1. /\ pod' \in Pods(entry) /\ pod'.pc = Verdict(Card.running)
        /\ pod'.idx = pod.idx /\ pod'.spec = pod.spec
    <3>1. pod' = [pod EXCEPT !.pc = Verdict(Card.running)] BY <1>6 DEF Examine
    <3>2. Verdict(Card.running) \in PCs BY <1>6, VerdictRange DEF PCs
    <3> HIDE DEF Verdict
    <3> QED BY <1>0, <3>1, <3>2 DEF Pods
  <2> QED BY <1>0, <1>1, <1>2, <1>3, <1>6, <2>1, TypesSameCard, VerdictRange DEF Working
<1> QED BY <1>4, <1>5, <1>6

(* A supported platform is one that card_setup knows.                      *)
LEMMA SupportedPlatform ==
    ASSUME NEW platform, NEW release, Supported(platform, release)
    PROVE  platform \in Platforms /\ release \in Nat \ {0} /\ <<platform, release>>[1] = platform
           /\ <<platform, release>>[2] = release
<1>1. <<platform, release>> \in Platforms \X (Nat \ {0})
  BY HostSetupAssumption DEF Supported
<1> QED BY <1>1

(* A shell package of conf/spec.txt is installed.                          *)
LEMMA Installed ==
    ASSUME HostShape, NEW platform \in Platforms, NEW release \in Nat, NEW h,
           h = [host EXCEPT !.packages[platform] = release]
    PROVE  /\ h \in Hosts
           /\ h.torn = host.torn /\ h.packages[platform] = release
           /\ \A p \in Platforms \ {platform} : h.packages[p] = host.packages[p]
           /\ h.xrt = host.xrt /\ h.xrm = host.xrm /\ h.xrmd = host.xrmd
<1>1. host.packages \in [Platforms -> Nat] BY DEF HostShape, Hosts
<1>2. h = [host EXCEPT !.packages = [host.packages EXCEPT ![platform] = release]] OBVIOUS
<1>3. [host.packages EXCEPT ![platform] = release] \in [Platforms -> Nat] BY <1>1
<1>4. h.packages = [host.packages EXCEPT ![platform] = release] BY <1>2 DEF HostShape, Hosts
<1>5. h \in Hosts
  BY <1>2, <1>3 DEF HostShape, Hosts
<1>6. h.packages[platform] = release BY <1>1, <1>4
<1>7. \A p \in Platforms \ {platform} : h.packages[p] = host.packages[p] BY <1>1, <1>4
<1>8. h.xrt = host.xrt /\ h.xrm = host.xrm /\ h.xrmd = host.xrmd /\ h.torn = host.torn
  BY <1>2 DEF HostShape, Hosts
<1> QED BY <1>5, <1>6, <1>7, <1>8

(* What the script knows while it works on a card.                         *)
LEMMA WorkFacts ==
    ASSUME Types, pod.pc \in Working
    PROVE  /\ CardShape /\ HostShape /\ UsedShape /\ PackagesKnown /\ pod \in Pods(entry)
           /\ pod.idx \in 1..Len(cardTypeArr) /\ pod.idx \in 1..Len(cards)
           /\ PLATFORM \in Platforms /\ VERSION \in Nat \ {0} /\ VERSION = entry.version
           /\ Supported(PLATFORM, VERSION) /\ pod.spec = SpecTxt[<<PLATFORM, VERSION>>]
           /\ host.packages[PLATFORM] \in Nat
<1>1. /\ CardShape /\ HostShape /\ UsedShape /\ PackagesKnown /\ pod \in Pods(entry) /\ AtWork
  BY DEF Types, PodShape
<1>2. /\ pod.idx <= Len(cardTypeArr) /\ Supported(PLATFORM, VERSION)
      /\ pod.spec = SpecTxt[<<PLATFORM, VERSION>>]
  BY <1>1 DEF AtWork
<1>3. PLATFORM \in Platforms /\ VERSION \in Nat \ {0} BY <1>2, SupportedPlatform
<1>4. VERSION = entry.version BY <1>1 DEF VERSION, Pods
<1>5. pod.idx \in 1..Len(cardTypeArr) /\ pod.idx \in 1..Len(cards)
  BY <1>1, <1>2, ArrayLength DEF Pods
<1>6. host.packages[PLATFORM] \in Nat BY <1>1, <1>3 DEF HostShape, Hosts
<1> QED BY <1>1, <1>2, <1>3, <1>4, <1>5, <1>6

(* The package of the shell.                                               *)
LEMMA TypesPackage ==
    ASSUME Types, PackagePresent \/ PackageInstall \/ FetchShell \/ ShellPresent
    PROVE  Types'
<1>0. pod.pc \in Working /\ UNCHANGED <<cards, entry>>
  BY DEF PackagePresent, PackageInstall, FetchShell, ShellPresent, At, Working
<1>1. /\ CardShape /\ HostShape /\ UsedShape /\ PackagesKnown /\ pod \in Pods(entry)
      /\ PLATFORM \in Platforms /\ VERSION \in Nat \ {0} /\ Supported(PLATFORM, VERSION)
      /\ host.packages[PLATFORM] \in Nat
  BY <1>0, WorkFacts
<1>2. cardTypeArr' = cardTypeArr /\ CardShape' BY <1>0, <1>1, CardsKept
<1>3. CASE PackagePresent \/ ShellPresent
  <2>1. UNCHANGED <<host, used>> BY <1>3 DEF PackagePresent, ShellPresent
  <2>2. HostShape' /\ UsedShape' /\ PackagesKnown'
    BY <1>1, <2>1 DEF HostShape, Hosts, UsedShape, PackagesKnown, Supported
  <2>3. /\ pod' \in Pods(entry) /\ pod'.pc \in {"program", "load"}
        /\ pod'.idx = pod.idx /\ pod'.spec = pod.spec
        /\ pod'.pc = "load" => pod.pc = "shell"
    BY <1>1, <1>3 DEF PackagePresent, ShellPresent, At, Pods, PCs
  <2>4. pod'.pc = "load" => PLATFORM = U250 BY <2>3 DEF Types, AtWork
  <2> QED BY <1>0, <1>2, <2>2, <2>3, <2>4, TypesSameCard DEF Working
<1>4. ASSUME NEW release \in Nat, Supported(PLATFORM, release), NEW pc \in {"program", "load"},
             pc = "load" => PLATFORM = U250,
             Installs([pod EXCEPT !.pc = pc], [host EXCEPT !.packages[PLATFORM] = release])
      PROVE  Types'
  <2> DEFINE p == [pod EXCEPT !.pc = pc]
             h == [host EXCEPT !.packages[PLATFORM] = release]
  <2>1. p \in Pods(entry) /\ p.pc = pc /\ p.idx = pod.idx /\ p.spec = pod.spec
    BY <1>1, <1>4 DEF Pods, PCs
  <2>2. /\ h \in Hosts
        /\ h.packages[PLATFORM] = release
        /\ \A q \in Platforms \ {PLATFORM} : h.packages[q] = host.packages[q]
    BY <1>1, <1>4, Installed
  <2>3. Installs(p, h) BY <1>4
  <2> HIDE DEF p, h
  <2>4. /\ HostShape' /\ UsedShape' /\ pod' \in Pods(entry)
        /\ pod'.pc = pc /\ pod'.idx = pod.idx /\ pod'.spec = pod.spec
        /\ host' = h \/ host' = host
    BY <2>1, <2>2, <2>3, InstallShape
  <2>6. PackagesKnown' BY <1>1, <1>4, <2>2, <2>4 DEF PackagesKnown, Supported
  <2> QED BY <1>0, <1>2, <1>4, <2>4, <2>6, TypesSameCard DEF Working
<1>5. CASE PackageInstall
  <2> DEFINE r == Newest(host.packages[PLATFORM], VERSION)
  <2>1. r \in Nat /\ Supported(PLATFORM, r) BY <1>1 DEF Newest, PackagesKnown
  <2>2. [host EXCEPT !.packages[PLATFORM] = Newest(@, VERSION)]
          = [host EXCEPT !.packages[PLATFORM] = r] OBVIOUS
  <2>3. Installs([pod EXCEPT !.pc = "program"], [host EXCEPT !.packages[PLATFORM] = r])
    BY <1>5, <2>2 DEF PackageInstall
  <2> HIDE DEF r
  <2> QED BY <1>4, <2>1, <2>3
<1>6. CASE FetchShell
  <2>1. PLATFORM = U250 BY <1>6 DEF FetchShell, At, Types, AtWork
  <2>2. Installs([pod EXCEPT !.pc = "load"], [host EXCEPT !.packages[PLATFORM] = VERSION])
    BY <1>6, <2>1 DEF FetchShell
  <2> QED BY <1>1, <1>4, <2>1, <2>2
<1> QED BY <1>3, <1>5, <1>6

(* A change of one image of a card.                                        *)
LEMMA RecordExcept ==
    ASSUME NEW c, NEW t, NEW f, NEW r, NEW x, c = [type |-> t, flash |-> f, running |-> r]
    PROVE  /\ [c EXCEPT !.flash = x] = [type |-> t, flash |-> x, running |-> r]
           /\ [c EXCEPT !.running = x] = [type |-> t, flash |-> f, running |-> x]
OBVIOUS

(* What a programming step makes of the card at the index.                 *)
LEMMA Programmed ==
    ASSUME Types, ProgramBegins \/ ProgramEnds \/ LoadShell
    PROVE  /\ pod.pc \in Working /\ UNCHANGED <<entry, host, used>>
           /\ CardShape' /\ SameTypes /\ cardTypeArr' = cardTypeArr
           /\ DOMAIN cards' = DOMAIN cards
           /\ \A k \in 1..Len(cards) : k # pod.idx => cards'[k] = cards[k]
           /\ ProgramBegins => /\ cards'[pod.idx].flash = Partial
                               /\ cards'[pod.idx].running = Card.running
           /\ ProgramEnds => /\ Supported(PLATFORM, host.packages[PLATFORM])
                             /\ cards'[pod.idx].flash = SpecTxt[<<PLATFORM, host.packages[PLATFORM]>>].shell
                             /\ cards'[pod.idx].running = Card.running
           /\ LoadShell => /\ cards'[pod.idx].flash = Card.flash
                           /\ IF host.packages[U250] = 0 THEN cards' = cards
                              ELSE cards'[pod.idx].running = pod.spec.trp
<1>1. pod.pc \in Working /\ UNCHANGED <<entry, host, used>>
  BY DEF ProgramBegins, ProgramEnds, LoadShell, At, Working
<1>2. /\ CardShape /\ HostShape /\ PackagesKnown /\ pod.idx \in 1..Len(cards)
      /\ PLATFORM \in Platforms /\ Supported(PLATFORM, VERSION)
      /\ pod.spec = SpecTxt[<<PLATFORM, VERSION>>]
  BY <1>1, WorkFacts
<1> DEFINE i == pod.idx
<1>3. /\ DOMAIN cards = 1..Len(cards) /\ cards[i].flash \in Shells \cup {Partial}
      /\ cards[i].running \in Shells
      /\ cards[i] = [type |-> cards[i].type, flash |-> cards[i].flash, running |-> cards[i].running]
  BY <1>2, CardFields, CardSeq DEF CardShape
<1>4. ASSUME NEW f \in Shells \cup {Partial}, NEW r \in Shells,
             cards' = [cards EXCEPT ![i] = [type |-> cards[i].type, flash |-> f, running |-> r]]
      PROVE  /\ CardShape' /\ SameTypes /\ cardTypeArr' = cardTypeArr
             /\ DOMAIN cards' = DOMAIN cards
             /\ \A k \in 1..Len(cards) : k # i => cards'[k] = cards[k]
             /\ cards'[i].flash = f /\ cards'[i].running = r
  <2>1. CardShape' /\ SameTypes /\ cardTypeArr' = cardTypeArr BY <1>2, <1>4, CardChanged
  <2>2. /\ DOMAIN cards' = DOMAIN cards
        /\ \A k \in 1..Len(cards) : k # i => cards'[k] = cards[k]
        /\ cards'[i].flash = f /\ cards'[i].running = r
    BY <1>2, <1>3, <1>4
  <2> QED BY <2>1, <2>2
<1>5. CASE ProgramBegins
  <2>1. cards' = [cards EXCEPT ![i].flash = Partial] BY <1>5 DEF ProgramBegins
  <2>2. cards' = [cards EXCEPT ![i] = [type |-> cards[i].type, flash |-> Partial,
                                       running |-> cards[i].running]]
    <3>1. cards' = [cards EXCEPT ![i] = [cards[i] EXCEPT !.flash = Partial]] BY <2>1
    <3>2. [cards[i] EXCEPT !.flash = Partial] = [type |-> cards[i].type, flash |-> Partial, running |-> cards[i].running]
      BY RecordExcept, <1>3
    <3> QED BY <3>1, <3>2, Zenon
  <2>3. pod.pc = "program" /\ Partial \in Shells \cup {Partial} BY <1>5 DEF ProgramBegins, At
  <2> QED BY <1>1, <1>3, <1>4, <1>5, <2>2, <2>3 DEF ProgramEnds, LoadShell, At, Card
<1>6. CASE ProgramEnds
  <2> DEFINE f == SpecTxt[<<PLATFORM, host.packages[PLATFORM]>>].shell
  <2>1. pod.pc = "programming" BY <1>6 DEF ProgramEnds, At
  <2>2. host.packages[PLATFORM] # 0 BY <2>1 DEF Types, AtWork
  <2>3. Supported(PLATFORM, host.packages[PLATFORM]) BY <1>2, <2>2 DEF PackagesKnown
  <2>4. f \in Shells BY <2>3, SpecImages DEF Supported
  <2>5. cards' = [cards EXCEPT ![i].flash = f] BY <1>6 DEF ProgramEnds
  <2> HIDE DEF f
  <2>6. cards' = [cards EXCEPT ![i] = [type |-> cards[i].type, flash |-> f,
                                       running |-> cards[i].running]]
    <3>1. cards' = [cards EXCEPT ![i] = [cards[i] EXCEPT !.flash = f]] BY <2>5
    <3>2. [cards[i] EXCEPT !.flash = f] = [type |-> cards[i].type, flash |-> f, running |-> cards[i].running]
      BY RecordExcept, <1>3
    <3> QED BY <3>1, <3>2, Zenon
  <2>7. /\ CardShape' /\ SameTypes /\ cardTypeArr' = cardTypeArr
        /\ DOMAIN cards' = DOMAIN cards
        /\ \A k \in 1..Len(cards) : k # i => cards'[k] = cards[k]
        /\ cards'[i].flash = f /\ cards'[i].running = cards[i].running
    BY <1>3, <1>4, <2>4, <2>6
  <2> QED BY <1>1, <2>1, <2>3, <2>7 DEF ProgramBegins, LoadShell, At, Card, f
<1>7. CASE LoadShell /\ host.packages[U250] = 0
  <2>1. cards' = cards /\ pod.pc = "load" BY <1>7 DEF LoadShell, At
  <2>2. SameTypes BY <2>1 DEF SameTypes
  <2> QED BY <1>1, <1>2, <1>7, <2>1, <2>2, CardsKept DEF ProgramBegins, ProgramEnds, At, Card
<1>8. CASE LoadShell /\ host.packages[U250] # 0
  <2> DEFINE r == pod.spec.trp
  <2>1. r \in Shells BY <1>2, SpecImages DEF Supported
  <2>2. pod.pc = "load" /\ cards' = [cards EXCEPT ![i].running = r]
    BY <1>8 DEF LoadShell, At
  <2> HIDE DEF r
  <2>3. cards' = [cards EXCEPT ![i] = [type |-> cards[i].type, flash |-> cards[i].flash,
                                       running |-> r]]
    <3>1. cards' = [cards EXCEPT ![i] = [cards[i] EXCEPT !.running = r]] BY <2>2
    <3>2. [cards[i] EXCEPT !.running = r] = [type |-> cards[i].type, flash |-> cards[i].flash, running |-> r]
      BY RecordExcept, <1>3
    <3> QED BY <3>1, <3>2, Zenon
  <2>4. /\ CardShape' /\ SameTypes /\ cardTypeArr' = cardTypeArr
        /\ DOMAIN cards' = DOMAIN cards
        /\ \A k \in 1..Len(cards) : k # i => cards'[k] = cards[k]
        /\ cards'[i].flash = cards[i].flash /\ cards'[i].running = r
    BY <1>3, <1>4, <2>1, <2>3
  <2> QED BY <1>1, <1>8, <2>2, <2>4 DEF ProgramBegins, ProgramEnds, At, Card, r
<1> QED BY <1>5, <1>6, <1>7, <1>8

(* A card is given up: the script goes on to the next one.                 *)
LEMMA GivenUp ==
    ASSUME Types, ProgramFails \/ ProgramBreaks \/ LoadFails
    PROVE  /\ pod.pc \in Working /\ UNCHANGED <<cards, entry, host>> /\ UsedShape'
           /\ used'["examine"] = used["examine"]
           /\ pod' \in Pods(entry) /\ pod'.pc = "card" /\ pod'.idx = pod.idx + 1
           /\ pod'.skip = pod.skip /\ pod'.spec = pod.spec /\ pod'.cur = pod.cur
           /\ pod'.clean => /\ pod.clean /\ ProgramFails
                            /\ host.xrt = 0 \/ host.packages[PLATFORM] = 0
<1>1. pod.pc \in Working /\ UNCHANGED <<cards, entry, host>>
  BY DEF ProgramFails, ProgramBreaks, LoadFails, At, Working
<1>2. pod \in Pods(entry) /\ UsedShape BY <1>1, WorkFacts
<1> DEFINE failed == [pod EXCEPT !.clean = FALSE]
<1>3. /\ failed \in Pods(entry) /\ failed.idx = pod.idx /\ failed.skip = pod.skip
      /\ failed.spec = pod.spec /\ failed.cur = pod.cur /\ failed.clean = FALSE
  BY <1>2 DEF Pods
<1>4. \/ /\ ProgramFails /\ pod' = NextCard(pod) /\ used' = used
         /\ host.xrt = 0 \/ host.packages[PLATFORM] = 0
      \/ pod' = NextCard(failed) /\ Fails("command")
  BY DEF ProgramFails, ProgramBreaks, LoadFails
<1> HIDE DEF failed
<1>5. CASE pod' = NextCard(failed) /\ Fails("command")
  <2>1. UsedShape' /\ used'["examine"] = used["examine"]
    BY <1>2, <1>5, FailsShape DEF Events
  <2> QED BY <1>1, <1>3, <1>5, <2>1, NextCardPod
<1>6. CASE /\ ProgramFails /\ pod' = NextCard(pod) /\ used' = used
           /\ host.xrt = 0 \/ host.packages[PLATFORM] = 0
  BY <1>1, <1>2, <1>6, NextCardPod DEF UsedShape
<1> QED BY <1>4, <1>5, <1>6

(* The card is programmed, or not.                                         *)
LEMMA TypesProgram ==
    ASSUME Types,
           \/ ProgramFails \/ ProgramBegins \/ ProgramEnds \/ ProgramBreaks
           \/ LoadShell \/ LoadFails
    PROVE  Types'
<1>1. CASE ProgramFails \/ ProgramBreaks \/ LoadFails
  <2>1. cardTypeArr' = cardTypeArr /\ CardShape' BY <1>1, GivenUp, CardsKept DEF Types
  <2> QED BY <1>1, <2>1, GivenUp, TypesNextCard
<1>2. ASSUME ProgramBegins \/ ProgramEnds \/ LoadShell PROVE Types'
  <2>0. /\ pod.pc \in Working /\ UNCHANGED <<entry, host, used>>
        /\ cardTypeArr' = cardTypeArr /\ CardShape'
    BY <1>2, Programmed
  <2>1. HostShape /\ UsedShape /\ PackagesKnown /\ pod \in Pods(entry)
    BY <2>0, WorkFacts
  <2>2. HostShape' /\ UsedShape' /\ PackagesKnown'
    BY <2>0, <2>1 DEF HostShape, UsedShape, PackagesKnown, Supported
  <2>3. CASE ProgramBegins
    <3>1. /\ pod' \in Pods(entry) /\ pod'.pc = "programming"
          /\ pod'.idx = pod.idx /\ pod'.spec = pod.spec
      BY <2>1, <2>3 DEF ProgramBegins, Pods, PCs
    <3>2. host'.packages[PLATFORM] # 0 BY <2>0, <2>3 DEF ProgramBegins
    <3> QED BY <2>0, <2>2, <3>1, <3>2, TypesSameCard DEF Working
  <2>4. CASE ProgramEnds \/ LoadShell
    <3>1. /\ NextCard(pod) \in Pods(entry) /\ NextCard(pod).pc = "card"
          /\ NextCard(pod).idx = pod.idx + 1
      BY <2>1, NextCardPod
    <3>2. pod' = NextCard(pod) \/ pod' = [NextCard(pod) EXCEPT !.flashed = TRUE]
      BY <2>4 DEF ProgramEnds, LoadShell
    <3>3. pod' \in Pods(entry) /\ pod'.pc = "card" /\ pod'.idx = pod.idx + 1
      BY <3>1, <3>2 DEF Pods
    <3> QED BY <2>0, <2>2, <3>3, TypesNextCard
  <2> QED BY <1>2, <2>3, <2>4
<1> QED BY <1>1, <1>2

(* A cold reboot leaves the flash memories alone and starts from them.     *)
LEMMA Rebooted ==
    ASSUME CardShape, ColdReboot
    PROVE  /\ CardShape' /\ SameTypes /\ cardTypeArr' = cardTypeArr
           /\ \A k \in 1..Len(cards) :
                 /\ cards'[k].flash = cards[k].flash
                 /\ \/ cards'[k] = cards[k]
                    \/ cards'[k].running = IF cards[k].flash = Partial THEN Golden
                                           ELSE cards[k].flash
<1>1. PICK kept \in SUBSET {k \in 1..Len(cards) : cards[k].running \in SecondLayers} :
        cards' = [k \in 1..Len(cards) |-> IF k \in kept THEN cards[k] ELSE Booted(cards[k])]
  BY DEF ColdReboot
<1>2. PICK l \in CardLists : Shape(l) BY DEF CardShape
<1>3. Len(l) \in Nat /\ Len(cards) = Len(l) /\ Golden \in Shells BY <1>2, CardSeq DEF Shells
<1>4. ASSUME NEW k \in 1..Len(cards)
      PROVE  /\ cards'[k] \in [type : STRING, flash : Shells \cup {Partial}, running : Shells]
             /\ cards'[k].type = cards[k].type /\ cards'[k].flash = cards[k].flash
             /\ \/ cards'[k] = cards[k]
                \/ cards'[k].running = IF cards[k].flash = Partial THEN Golden
                                       ELSE cards[k].flash
  <2>1. cards[k] \in [type : STRING, flash : Shells \cup {Partial}, running : Shells]
    BY <1>2, CardSeq
  <2> DEFINE r == IF cards[k].flash = Partial THEN Golden ELSE cards[k].flash
  <2>2. r \in Shells BY <1>3, <2>1
  <2>3. cards'[k] = cards[k] \/ cards'[k] = [cards[k] EXCEPT !.running = r]
    BY <1>1 DEF Booted
  <2> HIDE DEF r
  <2>4. CASE cards'[k] = cards[k] BY <2>1, <2>4
  <2>5. CASE cards'[k] = [cards[k] EXCEPT !.running = r]
    <3>1. /\ cards'[k] \in [type : STRING, flash : Shells \cup {Partial}, running : Shells]
          /\ cards'[k].type = cards[k].type /\ cards'[k].flash = cards[k].flash
          /\ cards'[k].running = r
      BY <2>1, <2>2, <2>5
    <3> QED BY <3>1 DEF r
  <2> QED BY <2>3, <2>4, <2>5
<1>5. cards' \in [1..Len(l) -> [type : STRING, flash : Shells \cup {Partial}, running : Shells]]
  BY <1>1, <1>3, <1>4
<1>6. Shape(l)' BY <1>2, <1>3, <1>4, <1>5 DEF Shape
<1>7. \A S : \A g \in [1..Len(l) -> S] : Len(g) = Len(l) BY <1>3
<1>8. Len(cards') = Len(cards) BY <1>3, <1>5, <1>7
<1>9. SameTypes BY <1>4, <1>8 DEF SameTypes
<1> QED BY <1>4, <1>6, <1>9, SameArray DEF CardShape

(* A pod that dies in the middle of an installation tears the host.        *)
LEMMA AbandonedHost ==
    ASSUME HostShape
    PROVE  /\ Abandoned \in Hosts /\ (host.torn => Abandoned.torn)
           /\ Abandoned.packages = host.packages
<1>1. PICK b \in BOOLEAN : Abandoned = [host EXCEPT !.torn = b] /\ (host.torn => b)
  BY Zenon DEF Abandoned
<1> QED BY <1>1 DEF HostShape, Hosts

(* A new pod, and perhaps a new entry or a reboot before it.               *)
LEMMA TypesOutside ==
    ASSUME Types, Kill \/ Edit \/ Reboot \/ RequiredReboot
    PROVE  Types' /\ host' = Abandoned /\ pod'.pc = "start"
<1>0. CardShape /\ HostShape /\ UsedShape /\ PackagesKnown /\ entry \in Entries
  BY DEF Types, PodShape
<1>1. pod' = NewPod(entry', Abandoned) /\ entry' \in Entries /\ host' = Abandoned
  BY <1>0 DEF Kill, Edit, Reboot, RequiredReboot, ColdReboot
<1>2. UsedShape'
  BY <1>0, SpendShape DEF Kill, Edit, Reboot, RequiredReboot, Events, UsedShape
<1>3. CardShape' /\ cardTypeArr' = cardTypeArr
  BY <1>0, CardsKept, Rebooted DEF Kill, Edit, Reboot, RequiredReboot
<1>4. Abandoned \in Hosts /\ Abandoned.packages = host.packages BY <1>0, AbandonedHost
<1>5. PodShape' /\ AtWork' /\ pod'.pc = "start" BY <1>0, <1>1, <1>3, <1>4, FreshPod
<1>6. HostShape' /\ PackagesKnown' BY <1>0, <1>1, <1>4 DEF HostShape, PackagesKnown, Supported
<1> QED BY <1>1, <1>2, <1>3, <1>5, <1>6 DEF Types

(* Cards as they come, a host without the shell packages, a new pod.       *)
LEMMA InitialCards ==
    ASSUME Init
    PROVE  /\ CardShape
           /\ \A k \in 1..Len(cards) :
                 /\ cards[k].flash \in Factory(cards[k].type)
                 /\ cards[k].running = cards[k].flash
<1>1. PICK l \in CardLists : \E image \in [1..Len(l) -> Shells] :
        /\ \A k \in 1..Len(l) : image[k] \in Factory(l[k])
        /\ cards = [k \in 1..Len(l) |->
                      [type |-> l[k], flash |-> image[k], running |-> image[k]]]
  BY DEF Init
<1>2. PICK image \in [1..Len(l) -> Shells] :
        /\ \A k \in 1..Len(l) : image[k] \in Factory(l[k])
        /\ cards = [k \in 1..Len(l) |->
                      [type |-> l[k], flash |-> image[k], running |-> image[k]]]
  BY <1>1
<1>3. l \in Seq(STRING) BY HostSetupAssumption
<1>4. \A k \in 1..Len(l) : l[k] \in STRING /\ image[k] \in Shells BY <1>2, <1>3
<1>5. Shape(l) BY <1>2, <1>4 DEF Shape
<1>6. Len(cards) = Len(l) BY <1>5, CardSeq
<1> QED BY <1>2, <1>5, <1>6 DEF CardShape

(* A new pod on a host as delivered.                                       *)
LEMMA TypesInit == ASSUME Init PROVE Types
<1>1. CardShape BY InitialCards
<1>2. PICK xrt \in OldXrt \cup {0} :
        host = [xrt |-> xrt, xrm |-> 0, xrmd |-> FALSE, packages |-> [p \in Platforms |-> 0],
                torn |-> FALSE]
  BY DEF Init
<1>3. xrt \in Nat
  <2>1. OldXrt \subseteq Nat BY HostSetupAssumption
  <2> QED BY <1>2, <2>1
<1>4. HostShape BY <1>2, <1>3 DEF HostShape, Hosts
<1>5. PackagesKnown BY <1>2 DEF PackagesKnown
<1>6. entry \in Entries /\ pod = NewPod(entry, host) /\ UsedShape BY DEF Init, UsedShape
<1>7. PICK b \in BOOLEAN :
        pod = [pc |-> "start", entry |-> entry, cur |-> 0, spec |-> NoPackages,
               skip |-> FALSE, idx |-> 1, clean |-> b, flashed |-> FALSE, busy |-> FALSE]
  BY <1>6, Zenon DEF NewPod
<1>8. PodShape BY <1>6, <1>7 DEF PodShape, Pods, PCs, PackageSets
<1>9. Len(cardTypeArr) \in Nat BY <1>1, ArrayLength
<1>10. AtWork BY <1>7, <1>9 DEF AtWork, Working
<1> QED BY <1>1, <1>4, <1>5, <1>6, <1>8, <1>10 DEF Types

(* Nothing happens.                                                        *)
LEMMA TypesStutter == ASSUME Types, UNCHANGED vars PROVE Types'
<1>1. cardTypeArr' = cardTypeArr /\ CardShape' BY CardsKept DEF Types, vars
<1>2. PLATFORM' = PLATFORM /\ VERSION' = VERSION BY <1>1 DEF PLATFORM, VERSION, vars
<1>3. HostShape' /\ PodShape' /\ UsedShape' /\ PackagesKnown'
  BY DEF Types, vars, HostShape, Hosts, PodShape, UsedShape, PackagesKnown, Supported
<1>4. AtWork' BY <1>1, <1>2 DEF Types, vars, AtWork, Supported
<1> QED BY <1>1, <1>3, <1>4 DEF Types

(* Every step of pod, kubelet, user or host keeps the types.               *)
LEMMA TypesNext == ASSUME Types, [Next]_vars PROVE Types'
<1>1. CASE Script
  BY <1>1, TypesBusy, TypesSoftware, TypesCard, TypesExamine, TypesPackage, TypesProgram
     DEF Script
<1>2. CASE Kill \/ Edit \/ Reboot \/ RequiredReboot BY <1>2, TypesOutside
<1>3. CASE UNCHANGED vars BY <1>3, TypesStutter
<1> QED BY <1>1, <1>2, <1>3 DEF Next

(* Types says more than TypeOK.                                            *)
LEMMA TypesTypeOK == ASSUME Types PROVE TypeOK
<1>1. /\ CardShape /\ HostShape /\ entry \in Entries /\ pod \in Pods(entry) /\ UsedShape
      /\ PackagesKnown /\ AtWork
  BY DEF Types, PodShape
<1>2. Len(cardTypeArr) \in Nat BY <1>1, ArrayLength
<1>3. \A k \in 1..Len(cards) :
         cards[k].flash \in Shells \cup {Partial} /\ cards[k].running \in Shells
  BY <1>1, CardFields
<1>4. host.packages \in [Platforms -> {0} \cup {s[2] : s \in DOMAIN SpecTxt}]
  <2>1. host.packages \in [Platforms -> Nat] BY <1>1 DEF HostShape, Hosts
  <2>2. ASSUME NEW p \in Platforms
        PROVE  host.packages[p] \in {0} \cup {s[2] : s \in DOMAIN SpecTxt}
    <3>1. CASE host.packages[p] # 0
      <4>1. <<p, host.packages[p]>> \in DOMAIN SpecTxt
        BY <1>1, <3>1 DEF PackagesKnown, Supported
      <4>2. <<p, host.packages[p]>>[2] = host.packages[p] OBVIOUS
      <4> QED BY <4>1, <4>2, Zenon
    <3> QED BY <3>1
  <2> QED BY <2>1, <2>2
<1>5. /\ pod.entry = entry /\ pod.pc \in PCs /\ pod.cur \in Nat
      /\ pod.skip \in BOOLEAN /\ pod.clean \in BOOLEAN /\ pod.flashed \in BOOLEAN
      /\ pod.busy \in BOOLEAN /\ pod.idx \in Nat \ {0}
  BY <1>1 DEF Pods
<1>6. pod.idx \in 1..(Len(cardTypeArr) + 1) BY <1>1, <1>2, <1>5 DEF AtWork
<1>7. host.xrt \in Nat /\ host.xrm \in Nat /\ host.xrmd \in BOOLEAN /\ host.torn \in BOOLEAN
  BY <1>1 DEF HostShape, Hosts
<1> QED BY <1>1, <1>3, <1>4, <1>5, <1>6, <1>7 DEF TypeOK, UsedShape, AtWork, Working

(* Whatever cards the node has, in whatever order, and whatever happens to *)
(* the pod: host_setup.sh only ever works on a card that exists, no card   *)
(* runs an unfinished image, and every installed shell package is one of   *)
(* conf/spec.txt.                                                          *)
THEOREM HostTypeCorrect == Spec => []TypeOK
<1>1. Init => Types BY TypesInit
<1>2. Types /\ [Next]_vars => Types' BY TypesNext
<1>3. Types => TypeOK BY TypesTypeOK
<1> QED BY <1>1, <1>2, <1>3, PTL DEF Spec
-----------------------------------------------------------------------------
(* The images of the cards.                                                *)

(* Only programming and a reboot change the cards.                         *)
LEMMA CardSteps ==
    ASSUME [Next]_vars
    PROVE  \/ cards' = cards \/ ProgramBegins \/ ProgramEnds \/ LoadShell
           \/ ColdReboot /\ (Reboot \/ RequiredReboot)
BY DEF Next, vars, Script, DetectXrt, XrtPresent, XrtRemove, XrtInstall, XrmInstall, XrmSkip,
       XrmService, BeginFlash, FinishFlash, SkipCard, CheckCard, AtCard, ExamineFails, Examine,
       PackagePresent, PackageInstall, ProgramFails, ProgramBreaks, FetchShell, ShellPresent,
       LoadFails, InstallEnds, InstallBreaks, Kill, Edit, Reboot, RequiredReboot

(* A torn host stays torn: only an installation that breaks or is given up *)
(* changes this.                                                           *)
LEMMA TornKept ==
    ASSUME Types, [Next]_vars, ~host'.torn
    PROVE  ~host.torn
<1>0. HostShape /\ pod \in Pods(entry) BY DEF Types, PodShape
<1>1. CASE Kill \/ Edit \/ Reboot \/ RequiredReboot
  BY <1>0, <1>1, TypesOutside, AbandonedHost
<1>2. CASE XrtInstall \/ XrmInstall \/ PackageInstall \/ FetchShell
  <2>1. PICK p, h : /\ Installs(p, h)
                    /\ \/ \E x : h = [host EXCEPT !.xrt = x]
                       \/ \E x : h = [host EXCEPT !.xrm = x]
                       \/ \E x : h = [host EXCEPT !.packages = x]
    <3>1. CASE XrtInstall BY <3>1 DEF XrtInstall
    <3>2. CASE XrmInstall BY <3>2 DEF XrmInstall
    <3>3. CASE PackageInstall
      <4> DEFINE h == [host EXCEPT !.packages[PLATFORM] = Newest(@, VERSION)]
      <4>1. \E x : h = [host EXCEPT !.packages = x] OBVIOUS
      <4> HIDE DEF h
      <4> QED BY <3>3, <4>1, Zenon DEF PackageInstall, h
    <3>4. CASE FetchShell
      <4> DEFINE h == [host EXCEPT !.packages[U250] = VERSION]
      <4>1. \E x : h = [host EXCEPT !.packages = x] OBVIOUS
      <4> HIDE DEF h
      <4> QED BY <3>4, <4>1, Zenon DEF FetchShell, h
    <3> QED BY <1>2, <3>1, <3>2, <3>3, <3>4
  <2>2. h.torn = host.torn BY <1>0, <2>1 DEF HostShape, Hosts
  <2>3. host' = h \/ host' = host BY <2>1 DEF Installs
  <2> QED BY <2>2, <2>3
<1>3. CASE XrtRemove \/ XrmService \/ InstallBreaks
  <2>1. CASE XrtRemove BY <1>0, <2>1 DEF XrtRemove, HostShape, Hosts
  <2>2. CASE XrmService
    <3>1. host' = host \/ \E b \in BOOLEAN : host' = [host EXCEPT !.xrmd = b]
      BY <2>2, Zenon DEF XrmService
    <3> QED BY <1>0, <3>1 DEF HostShape, Hosts
  <2>3. CASE InstallBreaks BY <1>0, <2>3 DEF InstallBreaks, HostShape, Hosts
  <2> QED BY <1>3, <2>1, <2>2, <2>3
<1>4. CASE host' = host BY <1>4
<1> QED BY <1>1, <1>2, <1>3, <1>4
        DEF Next, vars, Script, InstallEnds, DetectXrt, XrtPresent, XrmSkip, BeginFlash,
            FinishFlash, SkipCard, CheckCard, AtCard, ExamineFails, Examine, PackagePresent,
            ProgramFails, ProgramBegins, ProgramEnds, ProgramBreaks, ShellPresent, LoadShell,
            LoadFails

(* What could be examined until now could be examined before.              *)
LEMMA SightedBefore ==
    ASSUME Types, [Next]_vars, Sighted'
    PROVE  Sighted
<1>0. UsedShape /\ used'["examine"] = 0 /\ ~host'.torn BY DEF Types, Sighted
<1>1. ~host.torn BY <1>0, TornKept
<1>2. used' = used \/ \E e \in Events : Spend(e)
  BY DEF Next, vars, Script, InstallEnds, InstallBreaks, DetectXrt, XrtPresent, XrtRemove,
         XrtInstall, XrmInstall, XrmSkip, XrmService, BeginFlash, FinishFlash, SkipCard,
         CheckCard, AtCard, ExamineFails, Examine, PackagePresent, PackageInstall,
         ProgramFails, ProgramBegins, ProgramEnds, ProgramBreaks, LoadShell, LoadFails,
         FetchShell, ShellPresent, Kill, Edit, Reboot, RequiredReboot, Installs, Fails, Events
<1>3. CASE \E e \in Events : Spend(e)
  <2>1. PICK e \in Events : Spend(e) BY <1>3
  <2> QED BY <1>0, <1>1, <2>1, SpendShape DEF Events, Sighted
<1> QED BY <1>0, <1>1, <1>2, <1>3 DEF Sighted

(* The card at the index has the platform at the index.                    *)
LEMMA RightCard ==
    ASSUME Types, UnknownLast, pod.pc \in Working
    PROVE  /\ pod.idx \in 1..Len(cards) /\ Card.type = PLATFORM
           /\ Supported(Card.type, entry.version)
           /\ pod.spec = Wanted(pod.idx)
<1>1. /\ CardShape /\ pod.idx \in 1..Len(cardTypeArr) /\ pod.idx \in 1..Len(cards)
      /\ VERSION = entry.version /\ Supported(PLATFORM, VERSION)
      /\ pod.spec = SpecTxt[<<PLATFORM, VERSION>>]
  BY WorkFacts
<1>2. Card.type = PLATFORM BY <1>1, Aligned DEF PLATFORM, Card
<1> QED BY <1>1, <1>2 DEF Wanted, Card

(* The shells of conf/spec.txt for a platform are images of its cards.     *)
LEMMA OwnShell ==
    ASSUME NEW platform, NEW release, Supported(platform, release)
    PROVE  /\ SpecTxt[<<platform, release>>].shell \in Factory(platform)
           /\ platform = U250 => SpecTxt[<<platform, release>>].trp \in SecondLayers
<1>1. /\ <<platform, release>> \in DOMAIN SpecTxt /\ <<platform, release>>[1] = platform
  BY SupportedPlatform DEF Supported
<1>2. <<platform, release>> \in {s \in DOMAIN SpecTxt : s[1] = platform} BY <1>1
<1>3. SpecTxt[<<platform, release>>].shell
        \in {SpecTxt[s].shell : s \in {s \in DOMAIN SpecTxt : s[1] = platform}} BY <1>2, Zenon
<1>4. SpecTxt[<<platform, release>>].trp
        \in {SpecTxt[s].trp : s \in {s \in DOMAIN SpecTxt : s[1] = platform}} BY <1>2, Zenon
<1> QED BY <1>3, <1>4 DEF Factory, SecondLayers

OwnImages(c) ==
    /\ c.flash \in Factory(c.type) \cup {Partial}
    /\ c.running \in Factory(c.type) \/ (c.type = U250 /\ c.running \in SecondLayers)

(* A card only ever gets images of its own platform.                       *)
LEMMA ImagesNext ==
    ASSUME Types, UnknownLast, Images, [Next]_vars
    PROVE  Images'
<1>0. \A k \in 1..Len(cards) : OwnImages(cards[k]) BY DEF Images, OwnImages
<1> SUFFICES \A k \in 1..Len(cards') : OwnImages(cards'[k])
  BY DEF Images, OwnImages, Factory, SecondLayers
<1>1. CASE cards' = cards BY <1>0, <1>1
<1>2. CASE ProgramBegins \/ ProgramEnds \/ LoadShell
  <2>1. /\ pod.pc \in Working /\ SameTypes
        /\ \A k \in 1..Len(cards) : k # pod.idx => cards'[k] = cards[k]
    BY <1>2, Programmed
  <2>2. pod.idx \in 1..Len(cards) /\ Card.type = PLATFORM /\ cards'[pod.idx].type = PLATFORM
    BY <2>1, RightCard DEF SameTypes, Card
  <2>3. OwnImages(cards'[pod.idx])
    <3>1. /\ Card.running \in Factory(PLATFORM)
             \/ (PLATFORM = U250 /\ Card.running \in SecondLayers)
          /\ Card.flash \in Factory(PLATFORM) \cup {Partial}
      BY <1>0, <2>2 DEF OwnImages, Card
    <3>2. CASE ProgramBegins BY <2>2, <3>1, <3>2, Programmed DEF OwnImages
    <3>3. CASE ProgramEnds BY <2>2, <3>1, <3>3, Programmed, OwnShell DEF OwnImages
    <3>4. CASE LoadShell
      <4>1. PLATFORM = U250 BY <3>4 DEF LoadShell, At, Types, AtWork
      <4>2. pod.spec.trp \in SecondLayers
        BY <2>1, <4>1, WorkFacts, OwnShell
      <4>3. cards'[pod.idx].flash = Card.flash BY <3>4, Programmed
      <4>4. cards'[pod.idx].running \in {Card.running, pod.spec.trp}
        BY <3>4, Programmed DEF Card
      <4> QED BY <2>2, <3>1, <4>1, <4>2, <4>3, <4>4 DEF OwnImages
    <3> QED BY <1>2, <3>2, <3>3, <3>4
  <2> QED BY <1>0, <2>1, <2>3 DEF SameTypes
<1>3. CASE ColdReboot
  <2>1. /\ SameTypes
        /\ \A k \in 1..Len(cards) :
              /\ cards'[k].flash = cards[k].flash
              /\ \/ cards'[k] = cards[k]
                 \/ cards'[k].running = IF cards[k].flash = Partial THEN Golden
                                        ELSE cards[k].flash
    BY <1>3, Rebooted DEF Types
  <2>2. \A type : Golden \in Factory(type) BY DEF Factory
  <2> QED BY <1>0, <2>1, <2>2 DEF SameTypes, OwnImages
<1> QED BY <1>1, <1>2, <1>3, CardSteps
-----------------------------------------------------------------------------
(* The steps on one card.                                                  *)

(* The package of a card: if none of this fails it is there afterwards.    *)
LEMMA PackageStep ==
    ASSUME Types, PackageInstall \/ FetchShell
    PROVE  /\ pod.pc \in Working /\ UNCHANGED <<cards, entry>>
           /\ used'["examine"] = used["examine"]
           /\ host'.xrt = host.xrt /\ host'.xrm = host.xrm /\ host'.xrmd = host.xrmd
           /\ pod' \in Pods(entry) /\ pod'.idx = pod.idx /\ pod'.spec = pod.spec
           /\ pod'.skip = pod.skip /\ pod'.cur = pod.cur
           /\ pod'.clean => pod.clean /\ host'.packages[PLATFORM] # 0
           /\ PackageInstall => pod.pc = "package" /\ pod'.pc = "program"
           /\ FetchShell => pod.pc = "shell" /\ pod'.pc = "load"
<1>0. pod.pc \in Working /\ UNCHANGED <<cards, entry>>
  BY DEF PackageInstall, FetchShell, At, Working
<1>1. /\ HostShape /\ pod \in Pods(entry) /\ PLATFORM \in Platforms /\ VERSION \in Nat \ {0}
      /\ host.packages[PLATFORM] \in Nat
  BY <1>0, WorkFacts
<1>2. ASSUME NEW release \in Nat \ {0}, NEW pc \in {"program", "load"},
             Installs([pod EXCEPT !.pc = pc], [host EXCEPT !.packages[PLATFORM] = release])
      PROVE  /\ used'["examine"] = used["examine"]
             /\ host'.xrt = host.xrt /\ host'.xrm = host.xrm /\ host'.xrmd = host.xrmd
             /\ pod' \in Pods(entry) /\ pod'.idx = pod.idx /\ pod'.spec = pod.spec
             /\ pod'.skip = pod.skip /\ pod'.cur = pod.cur /\ pod'.pc = pc
             /\ pod'.clean => pod.clean /\ host'.packages[PLATFORM] # 0
  <2> DEFINE p == [pod EXCEPT !.pc = pc]
             h == [host EXCEPT !.packages[PLATFORM] = release]
  <2>1. /\ p \in Pods(entry) /\ p.pc = pc /\ p.idx = pod.idx /\ p.spec = pod.spec
        /\ p.skip = pod.skip /\ p.cur = pod.cur /\ p.clean = pod.clean
    BY <1>1, <1>2 DEF Pods, PCs
  <2>2. /\ h \in Hosts
        /\ h.packages[PLATFORM] = release
        /\ h.xrt = host.xrt /\ h.xrm = host.xrm /\ h.xrmd = host.xrmd
    BY <1>1, <1>2, Installed
  <2>3. Installs(p, h) BY <1>2
  <2> HIDE DEF p, h
  <2>4. /\ used'["examine"] = used["examine"] /\ pod' \in Pods(entry)
        /\ pod'.pc = pc /\ pod'.idx = pod.idx /\ pod'.spec = pod.spec
        /\ pod'.skip = pod.skip /\ pod'.cur = pod.cur
        /\ host' = h \/ host' = host
        /\ pod'.clean => host' = h /\ p.clean
    BY <2>1, <2>2, <2>3, InstallShape
  <2> QED BY <1>2, <2>1, <2>2, <2>4
<1>3. CASE PackageInstall
  <2> DEFINE r == Newest(host.packages[PLATFORM], VERSION)
  <2>1. r \in Nat \ {0} BY <1>1 DEF Newest
  <2>2. [host EXCEPT !.packages[PLATFORM] = Newest(@, VERSION)]
          = [host EXCEPT !.packages[PLATFORM] = r] OBVIOUS
  <2>3. Installs([pod EXCEPT !.pc = "program"], [host EXCEPT !.packages[PLATFORM] = r])
    BY <1>3, <2>2 DEF PackageInstall
  <2>4. pod.pc = "package" BY <1>3 DEF PackageInstall, At
  <2> HIDE DEF r
  <2> QED BY <1>0, <1>2, <2>1, <2>3, <2>4 DEF FetchShell, At
<1>4. CASE FetchShell
  <2>1. PLATFORM = U250 /\ pod.pc = "shell" BY <1>4 DEF FetchShell, At, Types, AtWork
  <2>2. Installs([pod EXCEPT !.pc = "load"], [host EXCEPT !.packages[PLATFORM] = VERSION])
    BY <1>4, <2>1 DEF FetchShell
  <2> QED BY <1>0, <1>1, <1>2, <2>1, <2>2 DEF PackageInstall, At
<1> QED BY <1>3, <1>4

(* At a card only the steps on a card are possible.                        *)
LEMMA WorkActions ==
    ASSUME Script, pod.pc \in Working
    PROVE  \/ InstallEnds \/ InstallBreaks
           \/ ExamineFails \/ Examine \/ PackagePresent \/ PackageInstall
           \/ ProgramFails \/ ProgramBegins \/ ProgramEnds \/ ProgramBreaks
           \/ FetchShell \/ ShellPresent \/ LoadShell \/ LoadFails
BY DEF Script, Working, DetectXrt, XrtPresent, XrtRemove, XrtInstall, XrmInstall, XrmSkip,
       XrmService, BeginFlash, FinishFlash, SkipCard, CheckCard, AtCard, At

(* What none of the steps on a card changes.                               *)
LEMMA WorkStep ==
    ASSUME Types, Script, pod.pc \in Working
    PROVE  /\ entry' = entry /\ pod' \in Pods(entry) /\ pod'.skip = pod.skip
           /\ pod'.spec = pod.spec /\ pod'.cur = pod.cur
           /\ pod'.clean => pod.clean
           /\ host'.xrt = host.xrt /\ host'.xrm = host.xrm /\ host'.xrmd = host.xrmd
           /\ \/ pod'.pc = "card" /\ pod'.idx = pod.idx + 1
              \/ pod'.pc \in Working /\ pod'.idx = pod.idx
<1>0. pod \in Pods(entry) BY WorkFacts
<1>1. CASE PackageInstall \/ FetchShell BY <1>1, PackageStep DEF Working
<1>2. CASE ExamineFails \/ PackagePresent \/ ProgramBegins \/ ShellPresent
  <2>1. UNCHANGED <<host, entry>>
    BY <1>2 DEF ExamineFails, PackagePresent, ProgramBegins, ShellPresent, At
  <2>2. \E pc \in {"package", "program", "programming", "load"} : pod' = [pod EXCEPT !.pc = pc]
    BY <1>2 DEF ExamineFails, PackagePresent, ProgramBegins, ShellPresent
  <2> QED BY <1>0, <2>1, <2>2 DEF Pods, PCs, Working
<1>3. CASE Examine /\ Verdict(Card.running) # "skip"
  <2>1. UNCHANGED <<host, entry>> BY <1>3 DEF Examine, At
  <2>2. \E pc \in {"package", "shell"} : pod' = [pod EXCEPT !.pc = pc]
    BY <1>3, VerdictRange DEF Examine
  <2> QED BY <1>0, <2>1, <2>2 DEF Pods, PCs, Working
<1>4. CASE (Examine /\ Verdict(Card.running) = "skip") \/ ProgramEnds \/ LoadShell
  <2>1. UNCHANGED <<host, entry>> BY <1>4 DEF Examine, ProgramEnds, LoadShell, At
  <2>2. pod' = NextCard(pod) \/ pod' = [NextCard(pod) EXCEPT !.flashed = TRUE]
    BY <1>4 DEF Examine, ProgramEnds, LoadShell
  <2>3. /\ NextCard(pod) \in Pods(entry) /\ NextCard(pod).pc = "card"
        /\ NextCard(pod).idx = pod.idx + 1 /\ NextCard(pod).clean = pod.clean
        /\ NextCard(pod).skip = pod.skip /\ NextCard(pod).spec = pod.spec
        /\ NextCard(pod).cur = pod.cur
    BY <1>0, NextCardPod
  <2> HIDE DEF NextCard
  <2> QED BY <2>1, <2>2, <2>3 DEF Pods
<1>5. CASE ProgramFails \/ ProgramBreaks \/ LoadFails BY <1>5, GivenUp
<1>6. CASE InstallEnds \/ InstallBreaks BY <1>6, BusyShape
<1> QED BY <1>1, <1>2, <1>3, <1>4, <1>5, <1>6, WorkActions

(* The steps of the first container, and the end of the second.            *)
LEMMA FirstContainer ==
    ASSUME Types,
           \/ DetectXrt \/ XrtPresent \/ XrtRemove \/ XrtInstall
           \/ XrmInstall \/ XrmSkip \/ XrmService \/ FinishFlash
    PROVE  /\ UNCHANGED <<cards, entry>> /\ used'["examine"] = used["examine"]
           /\ pod'.pc \in {"xrt", "install", "xrm", "xrmd", "flash", "running"}
           /\ pod'.pc = "running" => FinishFlash
<1>0. pod \in Pods(entry) /\ HostShape /\ UsedShape BY DEF Types, PodShape
<1>1. CASE DetectXrt
  <2>1. [pod EXCEPT !.pc = "xrt", !.cur = host.xrt] \in Pods(entry)
    BY <1>0 DEF Pods, PCs, HostShape, Hosts
  <2>2. [pod EXCEPT !.pc = "xrt", !.cur = host.xrt].pc = "xrt" BY <1>0 DEF Pods
  <2>3. pod'.pc = "xrt" BY <1>1, <2>1, <2>2, GotPackages DEF DetectXrt
  <2> QED BY <1>1, <2>3 DEF DetectXrt, At
<1>2. CASE XrtPresent \/ XrtRemove \/ XrmSkip \/ XrmService
  <2>1. pod'.pc \in {"install", "xrm", "flash"}
    BY <1>0, <1>2 DEF XrtPresent, XrtRemove, XrmSkip, XrmService, At, Pods
  <2>2. used'["examine"] = used["examine"]
    BY <1>0, <1>2, FailsShape DEF XrtPresent, XrtRemove, XrmSkip, XrmService, Events
  <2> QED BY <1>2, <2>1, <2>2 DEF XrtPresent, XrtRemove, XrmSkip, XrmService, At
<1>3. CASE XrtInstall \/ XrmInstall
  <2>1. UNCHANGED <<cards, entry>> BY <1>3 DEF XrtInstall, XrmInstall, At
  <2>2. pod'.pc \in {"xrm", "xrmd"}
    BY <1>0, <1>3 DEF XrtInstall, XrmInstall, Installs, Pods
  <2>3. used'["examine"] = used["examine"]
    BY <1>0, <1>3, FailsShape DEF XrtInstall, XrmInstall, Installs, Events
  <2> QED BY <2>1, <2>2, <2>3
<1>4. CASE FinishFlash
  BY <1>0, <1>4 DEF FinishFlash, At, Pods
<1> QED BY <1>1, <1>2, <1>3, <1>4

(* A step of the pod is one of the package manager, of the first container *)
(* or the loop, or on a card.                                              *)
LEMMA ScriptSteps ==
    ASSUME Script
    PROVE  \/ InstallEnds \/ InstallBreaks
           \/ DetectXrt \/ XrtPresent \/ XrtRemove \/ XrtInstall
           \/ XrmInstall \/ XrmSkip \/ XrmService
           \/ BeginFlash \/ FinishFlash \/ SkipCard \/ CheckCard
           \/ pod.pc \in Working
BY DEF Script, ExamineFails, Examine, PackagePresent, PackageInstall, ProgramFails,
       ProgramBegins, ProgramEnds, ProgramBreaks, FetchShell, ShellPresent, LoadShell,
       LoadFails, At, Working

(* The flag of an unsupported card is cleared, the wish to flash is kept.  *)
LEMMA EnabledNext ==
    ASSUME Types, Enabled, [Next]_vars
    PROVE  Enabled'
<1>0. PodShape /\ PodShape' BY TypesNext DEF Types
<1>1. pod.entry = entry /\ pod'.entry = entry' BY <1>0 DEF PodShape, Pods
<1>2. CASE Script /\ pod.pc \in Working
  <2>1. entry' = entry /\ pod'.skip = pod.skip BY <1>2, WorkStep
  <2> QED BY <1>1, <1>2, <2>1 DEF Enabled, FlashCards
<1>3. CASE SkipCard \/ CheckCard
  <2>1. entry' = entry /\ pod.pc = "card" /\ pod \in Pods(entry)
    BY <1>0, <1>3 DEF SkipCard, CheckCard, AtCard, At, PodShape
  <2>2. /\ GetPackages(pod, PLATFORM) \in Pods(entry)
        /\ NextCard(GetPackages(pod, PLATFORM)) \in Pods(entry)
    BY <2>1, GotPackages, NextCardPod
  <2>3. CASE SkipCard
    <3>1. pod' = [NextCard(GetPackages(pod, PLATFORM)) EXCEPT !.skip = FALSE]
      BY <2>3 DEF SkipCard
    <3>2. pod'.skip = FALSE BY <2>2, <3>1 DEF Pods
    <3> QED BY <1>1, <2>1, <3>2 DEF Enabled, FlashCards
  <2>4. CASE CheckCard
    <3>1. /\ pod' = [GetPackages(pod, PLATFORM) EXCEPT !.pc = "examine"]
          /\ ~GetPackages(pod, PLATFORM).skip
      BY <2>4 DEF CheckCard
    <3>2. pod'.skip = FALSE BY <2>2, <3>1 DEF Pods
    <3> QED BY <1>1, <2>1, <3>2 DEF Enabled, FlashCards
  <2> QED BY <1>3, <2>3, <2>4
<1>4. CASE BeginFlash
  <2>1. CASE FlashCards
    <3>1. pod' = [pod EXCEPT !.pc = "card", !.idx = 1, !.skip = FALSE, !.spec = NoPackages]
      BY <1>4, <2>1 DEF BeginFlash
    <3>2. pod'.skip = FALSE BY <1>0, <3>1 DEF PodShape, Pods
    <3> QED BY <1>1, <1>4, <2>1, <3>2 DEF Enabled, FlashCards, BeginFlash, At
  <2>2. CASE ~FlashCards
    <3>1. pod'.pc = "running" BY <1>0, <1>4, <2>2 DEF BeginFlash, PodShape, Pods
    <3> QED BY <3>1 DEF Enabled, Working
  <2> QED BY <2>1, <2>2
<1>5. CASE \/ DetectXrt \/ XrtPresent \/ XrtRemove \/ XrtInstall
           \/ XrmInstall \/ XrmSkip \/ XrmService \/ FinishFlash
  <2>1. pod'.pc \notin Working \cup {"card"} BY <1>0, <1>5, FirstContainer DEF Working
  <2> QED BY <2>1 DEF Enabled
<1>6. CASE Kill \/ Edit \/ Reboot \/ RequiredReboot
  <2>1. pod'.pc = "start" BY <1>6, TypesOutside
  <2> QED BY <2>1 DEF Enabled, Working
<1>7. CASE UNCHANGED vars BY <1>7 DEF vars, Enabled, FlashCards
<1>8. CASE InstallEnds \/ InstallBreaks BY <1>1, <1>8, BusyShape DEF Enabled, FlashCards
<1> QED BY <1>2, <1>3, <1>4, <1>5, <1>6, <1>7, <1>8, ScriptSteps DEF Next
-----------------------------------------------------------------------------
(* Which cards are flashed.                                                *)

(* A card has the factory image or the one shell of its platform.          *)
LEMMA OneShell ==
    ASSUME StableShells, Images, NEW k \in 1..Len(cards),
           Supported(cards[k].type, entry.version)
    PROVE  /\ cards[k].flash \in {Golden, Partial, Wanted(k).shell}
           /\ cards[k].type # U250 => cards[k].running # Wanted(k).trp
           /\ RunsWanted(k) <=> cards[k].running # Golden
<1> DEFINE t == cards[k].type
           w == <<t, entry.version>>
<1>1. w \in DOMAIN SpecTxt /\ w[1] = t /\ Wanted(k) = SpecTxt[w]
  BY SupportedPlatform DEF Supported, Wanted
<1>2. Wanted(k).shell \notin {Golden, Partial} /\ Wanted(k).trp \notin {Golden, Partial}
  <2>1. {SpecTxt[w].shell, SpecTxt[w].trp} \cap {Golden, Partial} = {}
    BY <1>1, HostSetupAssumption
  <2> QED BY <1>1, <2>1
<1>3. \A x \in Factory(t) : x = Golden \/ x = Wanted(k).shell
  <2>1. \A s \in DOMAIN SpecTxt : s[1] = t => SpecTxt[s].shell = SpecTxt[w].shell
    BY <1>1 DEF StableShells
  <2> HIDE DEF w, t
  <2> QED BY <1>1, <2>1 DEF Factory
<1>4. t = U250 => \A x \in SecondLayers : x = Wanted(k).trp
  <2>1. \A s \in DOMAIN SpecTxt : s[1] = t => SpecTxt[s].trp = SpecTxt[w].trp
    BY <1>1 DEF StableShells
  <2> HIDE DEF w, t
  <2> QED BY <1>1, <2>1 DEF SecondLayers
<1>5. Wanted(k).trp # Wanted(k).shell BY <1>1 DEF StableShells
<1>6. /\ cards[k].flash \in Factory(t) \cup {Partial}
      /\ cards[k].running \in Factory(t) \/ (t = U250 /\ cards[k].running \in SecondLayers)
  BY DEF Images
<1>7. cards[k].flash \in {Golden, Partial, Wanted(k).shell} BY <1>3, <1>6
<1>8. t # U250 => cards[k].running \in {Golden, Wanted(k).shell} BY <1>3, <1>6
<1>9. t = U250 => cards[k].running \in {Golden, Wanted(k).shell, Wanted(k).trp}
  BY <1>3, <1>4, <1>6
<1> QED BY <1>2, <1>5, <1>7, <1>8, <1>9 DEF RunsWanted

(* What the examination found holds until the card is written or left.     *)
LEMMA JudgedNext ==
    ASSUME Types, UnknownLast, StableShells, Images, Judged, [Next]_vars
    PROVE  Judged'
<1>0. Sighted' => Sighted BY SightedBefore
<1>1. ASSUME pod'.pc \notin {"shell", "load", "package", "program", "programming"}
      PROVE  Judged'
  BY <1>1 DEF Judged
<1>2. CASE Script /\ pod.pc \in Working /\ ~(InstallEnds \/ InstallBreaks)
  <2>0. pod \in Pods(entry) BY <1>2, WorkFacts
  <2>1. /\ entry' = entry /\ pod'.spec = pod.spec /\ host'.xrt = host.xrt
        /\ pod'.pc # "card" => pod'.idx = pod.idx
    BY <1>2, WorkStep
  <2>2. /\ pod.idx \in 1..Len(cards) /\ Card.type = PLATFORM
        /\ Supported(Card.type, entry.version) /\ pod.spec = Wanted(pod.idx)
    BY <1>2, RightCard
  <2>3. CASE Examine /\ pod'.pc = "package"
    <3>1. cards' = cards /\ Verdict(Card.running) = "package"
      BY <2>0, <2>3, VerdictRange DEF Examine, NextCard, Pods
    <3>2. Card.running # pod.spec.shell /\ (PLATFORM = U250 => Card.running # pod.spec.trp)
      BY <3>1, VerdictRange
    <3>3. ~RunsWanted(pod.idx) BY <2>2, <3>2, OneShell DEF RunsWanted, Card
    <3>4. ~RunsWanted(pod.idx)' BY <2>1, <2>3, <3>1, <3>3 DEF RunsWanted, Wanted
    <3> QED BY <2>3, <3>4 DEF Judged
  <2>4. CASE Examine /\ pod'.pc = "shell"
    <3>1. cards' = cards /\ Verdict(Card.running) = "shell"
      BY <2>0, <2>4, VerdictRange DEF Examine, NextCard, Pods
    <3>2. Card'.running = pod'.spec.shell BY <2>1, <2>4, <3>1, VerdictRange DEF Card
    <3> QED BY <2>4, <3>2 DEF Judged
  <2>5. CASE Examine /\ pod'.pc \notin {"shell", "package"}
    <3>1. pod'.pc \notin {"load", "program", "programming"} BY <2>0, <2>5, VerdictRange DEF Examine, NextCard, Pods
    <3> QED BY <1>1, <2>5, <3>1
  <2>6. CASE ExamineFails
    <3>1. pod'.pc = "package" BY <2>0, <2>6 DEF ExamineFails, Pods
    <3>2. host' = host /\ (host.xrt = 0 \/ Fails("examine")) BY <2>6 DEF ExamineFails
    <3>3. host'.xrt = 0 \/ ~Sighted'
      BY <1>2, <3>2, WorkFacts, FailsShape DEF Events, Sighted
    <3> QED BY <3>1, <3>3 DEF Judged
  <2>7. CASE PackagePresent \/ PackageInstall
    <3>1. cards' = cards /\ pod.pc = "package" /\ pod'.pc = "program"
      BY <2>0, <2>7, PackageStep DEF PackagePresent, At, Pods
    <3>2. RunsWanted(pod.idx)' <=> RunsWanted(pod.idx)
      BY <2>1, <3>1 DEF RunsWanted, Wanted
    <3> QED BY <1>0, <2>1, <3>1, <3>2 DEF Judged
  <2>8. CASE FetchShell \/ ShellPresent
    <3>1. cards' = cards /\ pod.pc = "shell" /\ pod'.pc = "load"
      BY <2>0, <2>8, PackageStep DEF ShellPresent, At, Pods
    <3>2. Card' = Card BY <2>1, <3>1 DEF Card
    <3> QED BY <2>1, <3>1, <3>2 DEF Judged
  <2>9. CASE ProgramBegins
    <3>1. pod'.pc = "programming" BY <2>0, <2>9 DEF ProgramBegins, Pods
    <3>2. Card'.flash = Partial BY <2>1, <2>9, <3>1, Programmed DEF Card
    <3> QED BY <3>1, <3>2 DEF Judged
  <2>10. CASE ProgramEnds \/ LoadShell
    <3>1. NextCard(pod) \in Pods(entry) /\ NextCard(pod).pc = "card"
      BY <2>0, NextCardPod
    <3>2. pod'.pc = "card" BY <2>0, <2>10, <3>1 DEF ProgramEnds, LoadShell, Pods
    <3> QED BY <1>1, <3>2
  <2>11. CASE ProgramFails \/ ProgramBreaks \/ LoadFails
    <3>1. pod'.pc = "card" BY <2>11, GivenUp
    <3> QED BY <1>1, <3>1
  <2> QED BY <1>2, <2>3, <2>4, <2>5, <2>6, <2>7, <2>8, <2>9, <2>10, <2>11, WorkActions
<1>3. CASE SkipCard \/ CheckCard \/ BeginFlash
  <2>0. pod \in Pods(entry) BY DEF Types, PodShape
  <2>1. /\ GetPackages(pod, PLATFORM) \in Pods(entry)
        /\ NextCard(GetPackages(pod, PLATFORM)) \in Pods(entry)
        /\ NextCard(GetPackages(pod, PLATFORM)).pc = "card"
    BY <2>0, GotPackages, NextCardPod
  <2>2. pod'.pc \in {"card", "examine", "running"}
    <3>1. CASE SkipCard \/ CheckCard
      <4> HIDE DEF NextCard, GetPackages
      <4> QED BY <2>1, <3>1 DEF SkipCard, CheckCard, Pods
    <3>2. CASE BeginFlash BY <2>0, <3>2 DEF BeginFlash, Pods
    <3> QED BY <1>3, <3>1, <3>2
  <2> QED BY <1>1, <2>2
<1>4. CASE \/ DetectXrt \/ XrtPresent \/ XrtRemove \/ XrtInstall
           \/ XrmInstall \/ XrmSkip \/ XrmService \/ FinishFlash
  BY <1>1, <1>4, FirstContainer
<1>5. CASE Kill \/ Edit \/ Reboot \/ RequiredReboot
  <2>1. pod'.pc = "start" BY <1>5, TypesOutside
  <2> QED BY <1>1, <2>1
<1>6. CASE UNCHANGED vars BY <1>6 DEF vars, Judged, Card, RunsWanted, Wanted, Sighted
<1>7. CASE InstallEnds \/ InstallBreaks
  BY <1>0, <1>7, BusyShape DEF Judged, Card, RunsWanted, Wanted
<1> QED BY <1>2, <1>3, <1>4, <1>5, <1>6, <1>7, ScriptSteps DEF Next

(* No card is chosen before the script has begun.                          *)
LEMMA ChosenInit == ASSUME Init PROVE Chosen
<1>1. Types BY TypesInit
<1>2. pod.pc = "start" BY DEF Init, NewPod
<1>3. Images BY InitialCards DEF Images
<1> QED BY <1>1, <1>2, <1>3 DEF Chosen, Enabled, Judged, Working

(* The choice of the cards to flash is kept up by every step.              *)
LEMMA ChosenNext ==
    ASSUME UnknownLast, StableShells, Chosen, [Next]_vars
    PROVE  Chosen'
BY TypesNext, EnabledNext, ImagesNext, JudgedNext DEF Chosen

(* A step that changes cards writes the one at the index, which is to be   *)
(* flashed and has nothing settled when it is written, or loads its second *)
(* layer, or boots from the flash memories.                                *)
LEMMA SettledKept ==
    ASSUME UnknownLast, StableShells, Chosen, [Next]_vars, Sighted',
           NEW k \in 1..Len(cards), k \in ToFlash => Settled(k)
    PROVE  LeftAlone(k)
<1>0. Types /\ CardShape /\ Enabled /\ Judged /\ Sighted
  BY SightedBefore DEF Chosen, Types
<1>1. k \in ToFlash => /\ cards[k].flash = Wanted(k).shell /\ RunsWanted(k)
                       /\ Wanted(k).shell # Partial
  <2> SUFFICES ASSUME k \in ToFlash PROVE Settled(k) /\ Wanted(k).shell # Partial
    BY DEF Settled
  <2> DEFINE w == <<cards[k].type, entry.version>>
  <2>1. w \in DOMAIN SpecTxt BY DEF ToFlash, Supported
  <2>2. {SpecTxt[w].shell, SpecTxt[w].trp} \cap {Golden, Partial} = {}
    BY <2>1, HostSetupAssumption
  <2> QED BY <2>2 DEF Wanted
<1>2. CASE cards'[k] = cards[k] BY <1>1, <1>2 DEF LeftAlone, RunsWanted
<1>3. CASE (ProgramBegins \/ ProgramEnds \/ LoadShell) /\ k = pod.idx
  <2>1. pod.pc \in Working /\ pod.entry = entry
    BY <1>0, <1>3, Programmed DEF Types, PodShape, Pods
  <2>2. k \in ToFlash /\ pod.spec = Wanted(k)
    BY <1>0, <1>3, <2>1, RightCard DEF Card, Enabled, FlashCards, ToFlash
  <2>3. ~ProgramBegins BY <1>0, <1>1, <1>3, <2>2 DEF ProgramBegins, At, Judged
  <2>4. ~ProgramEnds BY <1>0, <1>1, <1>3, <2>2 DEF ProgramEnds, At, Judged, Card
  <2>5. CASE host.packages[U250] = 0
    BY <1>0, <1>2, <1>3, <2>3, <2>4, <2>5, Programmed
  <2>6. CASE host.packages[U250] # 0
    <3>1. cards'[k].flash = cards[k].flash /\ cards'[k].running = Wanted(k).trp
      BY <1>0, <1>3, <2>2, <2>3, <2>4, <2>6, Programmed DEF Card
    <3> QED BY <3>1 DEF LeftAlone
  <2> QED BY <2>5, <2>6
<1>4. CASE ProgramBegins \/ ProgramEnds \/ LoadShell
  BY <1>0, <1>2, <1>3, <1>4, Programmed
<1>5. CASE ColdReboot
  <2>1. /\ cards'[k].flash = cards[k].flash
        /\ \/ cards'[k] = cards[k]
           \/ cards'[k].running = IF cards[k].flash = Partial THEN Golden ELSE cards[k].flash
    BY <1>0, <1>5, Rebooted
  <2> QED BY <1>1, <1>2, <2>1 DEF LeftAlone
<1>6. CASE cards' = cards BY <1>2, <1>6
<1> QED BY <1>4, <1>5, <1>6, CardSteps

(* If the cards that card_setup knows come first and the releases of a     *)
(* platform share one shell: a card of the release that runs its shell and *)
(* has it in its flash memory is neither written nor made to run anything  *)
(* else, and a card that the entry does not have flashed is never written, *)
(* by no pod, kill, failed command, edit or reboot, as long as every       *)
(* examination told what the card runs.                                    *)
THEOREM SettledLeftAlone ==
    ASSUME UnknownLast, StableShells
    PROVE  Spec => ShellKept
<1>1. Init => Chosen BY ChosenInit
<1>2. Chosen /\ [Next]_vars => Chosen' BY ChosenNext
<1>3. Chosen /\ [Next]_vars =>
        [Sighted' => \A k \in 1..Len(cards) :
           (k \in ToFlash => Settled(k)) => LeftAlone(k)]_vars
  BY SettledKept
<1> QED BY <1>1, <1>2, <1>3, PTL DEF Spec, ShellKept
-----------------------------------------------------------------------------
(* A power cycle.                                                          *)

(* The flash memory of a card is only ever left unfinished or factory-new  *)
(* while the card runs the factory image.                                  *)
LEMMA FlashBehindNext ==
    ASSUME UnknownLast, StableShells, Chosen, FlashBehind, [Next]_vars
    PROVE  FlashBehind'
<1> SUFFICES ASSUME Sighted', NEW k \in 1..Len(cards'), cards'[k].running # Golden
             PROVE  cards'[k].flash \notin {Golden, Partial}
  BY DEF FlashBehind
<1>0. Types /\ CardShape /\ Enabled /\ Judged /\ Images BY DEF Chosen, Types
<1>1. Sighted BY <1>0, SightedBefore
<1>2. \A i \in 1..Len(cards) : cards[i].running # Golden => cards[i].flash \notin {Golden, Partial}
  BY <1>1 DEF FlashBehind
<1>3. CASE cards' = cards BY <1>2, <1>3
<1>4. CASE ProgramBegins \/ ProgramEnds \/ LoadShell
  <2>1. /\ pod.pc \in Working /\ k \in 1..Len(cards)
        /\ k # pod.idx => cards'[k] = cards[k]
    BY <1>0, <1>4, Programmed DEF SameTypes
  <2>2. /\ pod.idx \in 1..Len(cards) /\ Supported(cards[pod.idx].type, entry.version)
        /\ pod.spec = Wanted(pod.idx)
    BY <1>0, <2>1, RightCard DEF Card
  <2>3. CASE k # pod.idx BY <1>2, <2>1, <2>3
  <2>4. CASE k = pod.idx /\ ProgramBegins
    <3>1. pod.pc = "program" /\ host.xrt # 0 BY <2>4 DEF ProgramBegins, At
    <3>2. ~RunsWanted(k) BY <1>0, <1>1, <2>4, <3>1 DEF Judged
    <3>3. cards[k].running = Golden BY <1>0, <2>2, <2>4, <3>2, OneShell
    <3>4. cards'[k].running = cards[k].running BY <1>0, <2>4, Programmed DEF Card
    <3> QED BY <3>3, <3>4
  <2>5. CASE k = pod.idx /\ ProgramEnds
    <3> DEFINE s == <<PLATFORM, host.packages[PLATFORM]>>
    <3>1. s \in DOMAIN SpecTxt /\ cards'[k].flash = SpecTxt[s].shell
      BY <1>0, <2>5, Programmed DEF Supported
    <3>2. {SpecTxt[s].shell, SpecTxt[s].trp} \cap {Golden, Partial} = {}
      BY <3>1, HostSetupAssumption
    <3> QED BY <3>1, <3>2
  <2>6. CASE k = pod.idx /\ LoadShell
    <3>1. pod.pc = "load" BY <2>6 DEF LoadShell, At
    <3>2. cards[k].running = Wanted(k).shell BY <1>0, <2>2, <2>6, <3>1 DEF Judged, Card
    <3>3. RunsWanted(k) BY <3>2 DEF RunsWanted
    <3>4. cards[k].running # Golden BY <1>0, <2>2, <2>6, <3>3, OneShell
    <3>5. cards'[k].flash = cards[k].flash BY <1>0, <2>6, Programmed DEF Card
    <3> QED BY <1>2, <2>1, <3>4, <3>5
  <2> QED BY <1>4, <2>3, <2>4, <2>5, <2>6
<1>5. CASE ColdReboot
  <2>1. /\ k \in 1..Len(cards) /\ cards'[k].flash = cards[k].flash
        /\ \/ cards'[k] = cards[k]
           \/ cards'[k].running = IF cards[k].flash = Partial THEN Golden ELSE cards[k].flash
    BY <1>0, <1>5, Rebooted DEF SameTypes
  <2> QED BY <1>2, <2>1
<1> QED BY <1>3, <1>4, <1>5, CardSteps
-----------------------------------------------------------------------------
(* XRT and XRM.                                                            *)

(* The packages of the U200 tell what the release has for the host.        *)
LEMMA ReleaseOfU200 ==
    ASSUME Types, ReleasesOfU200
    PROVE  /\ Supported(U200, VERSION) /\ Release = SpecTxt[<<U200, VERSION>>]
           /\ Release.xrt \in Nat \ {0} /\ Release.xrm \in Nat \ {0}
<1>1. entry \in Entries /\ VERSION = entry.version BY DEF Types, PodShape, Pods, VERSION
<1>2. Supported(U200, VERSION) BY <1>1 DEF ReleasesOfU200
<1>3. /\ SpecTxt[<<U200, VERSION>>].xrt \in Nat \ {0}
      /\ SpecTxt[<<U200, VERSION>>].xrm \in Nat \ {0}
  BY <1>2, HostSetupAssumption DEF Supported
<1> QED BY <1>1, <1>2, <1>3 DEF Release

(* What the steps of a pod leave of the software when they are past it.    *)
LEMMA SoftwareKept ==
    ASSUME Software, entry' = entry, host'.xrt = host.xrt, host'.xrm = host.xrm,
           host'.xrmd = host.xrmd, pod'.cur = pod.cur, pod'.clean => pod.clean,
           pod.pc \notin {"start", "xrt", "install", "xrm", "xrmd"},
           pod'.pc \notin {"start", "xrt", "install", "xrm", "xrmd"}
    PROVE  Software'
BY DEF Software, XrtReady, XrmReady, Release

(* XRT and XRM are right from the step that deals with them on.            *)
LEMMA SoftwareNext ==
    ASSUME ReleasesOfU200, Types, Software, [Next]_vars
    PROVE  Software'
<1>0. pod \in Pods(entry) /\ HostShape /\ entry \in Entries BY DEF Types, PodShape
<1>1. /\ Supported(U200, VERSION) /\ Release = SpecTxt[<<U200, VERSION>>]
      /\ Release.xrt \in Nat \ {0} /\ Release.xrm \in Nat \ {0}
  BY ReleaseOfU200
<1>2. entry' = entry => Release' = Release BY DEF Release
<1>3. CASE DetectXrt
  <2> DEFINE p == [pod EXCEPT !.pc = "xrt", !.cur = host.xrt]
  <2>1. /\ p \in Pods(entry) /\ p.pc = "xrt" /\ p.cur = host.xrt
    BY <1>0 DEF Pods, PCs, HostShape, Hosts
  <2>2. pod' = GetPackages(p, U200) /\ UNCHANGED <<host, entry>> BY <1>3 DEF DetectXrt, At
  <2> HIDE DEF p
  <2>3. pod'.pc = "xrt" /\ pod'.cur = host.xrt /\ pod'.spec = Release
    BY <1>1, <2>1, <2>2, GotPackages
  <2> QED BY <1>2, <2>2, <2>3 DEF Software
<1>4. CASE XrtPresent
  <2>1. /\ UNCHANGED <<host, entry>> /\ pod.cur = pod.spec.xrt /\ pod.pc = "xrt"
        /\ pod' = [pod EXCEPT !.pc = "xrm"]
    BY <1>4 DEF XrtPresent, At
  <2>2. pod'.pc = "xrm" /\ pod'.spec = pod.spec BY <1>0, <2>1 DEF Pods
  <2>3. pod.spec = Release /\ host.xrt = Release.xrt BY <2>1 DEF Software
  <2>4. XrtReady' BY <1>2, <2>1, <2>3 DEF XrtReady
  <2> QED BY <1>2, <2>1, <2>2, <2>3, <2>4 DEF Software
<1>5. CASE XrtRemove
  <2>1. /\ entry' = entry /\ pod.pc = "xrt"
        /\ host' = [host EXCEPT !.xrt = 0] \/ host' = host
        /\ \/ pod' = [pod EXCEPT !.pc = "install", !.busy = TRUE]
           \/ pod' = [pod EXCEPT !.pc = "install"]
    BY <1>5 DEF XrtRemove, At
  <2>2. /\ pod'.pc = "install" /\ pod'.spec = pod.spec /\ pod'.cur = pod.cur
        /\ host'.xrt \in {0, host.xrt}
    BY <1>0, <2>1 DEF Pods, HostShape, Hosts
  <2> QED BY <1>2, <2>1, <2>2 DEF Software
<1>6. CASE XrtInstall
  <2> DEFINE p == [pod EXCEPT !.pc = "xrm"]
             h == [host EXCEPT !.xrt = Newest(@, pod.spec.xrt)]
  <2>1. /\ entry' = entry /\ Installs(p, h)
        /\ pod.pc = "install" \/ (pod.pc = "xrt" /\ pod.cur = 0)
    BY <1>6 DEF XrtInstall, At
  <2>2. pod.spec = Release /\ host.xrt \in {0, pod.cur} BY <2>1 DEF Software
  <2>3. p \in Pods(entry) /\ p.pc = "xrm" /\ p.spec = Release /\ p.cur = pod.cur
    BY <1>0, <2>2 DEF Pods, PCs
  <2>4. h \in Hosts /\ h.xrt = Newest(host.xrt, Release.xrt)
    BY <1>0, <1>1, <2>2 DEF HostShape, Hosts, Newest
  <2> HIDE DEF p, h
  <2>5. /\ pod'.pc = "xrm" /\ pod'.spec = Release /\ pod'.cur = pod.cur
        /\ pod'.clean => host' = h
    BY <2>1, <2>3, <2>4, InstallShape
  <2>6. ASSUME pod'.clean PROVE XrtReady'
    <3>1. host'.xrt = Newest(host.xrt, Release.xrt) BY <2>4, <2>5, <2>6
    <3>2. pod.cur \in Nat /\ host.xrt \in Nat BY <1>0 DEF Pods, HostShape, Hosts
    <3>3. host'.xrt = Release.xrt \/ (host'.xrt = pod.cur /\ pod.cur > Release.xrt)
      BY <1>1, <2>2, <3>1, <3>2 DEF Newest
    <3> QED BY <1>2, <2>1, <2>5, <3>3 DEF XrtReady
  <2> QED BY <1>2, <2>1, <2>5, <2>6 DEF Software
<1>7. CASE XrmInstall
  <2> DEFINE p == [pod EXCEPT !.pc = "xrmd"]
             h == [host EXCEPT !.xrm = Newest(@, pod.spec.xrm)]
  <2>1. pod.pc = "xrm" /\ entry' = entry /\ Installs(p, h) BY <1>7 DEF XrmInstall, At
  <2>2. pod.spec = Release BY <2>1 DEF Software
  <2>3. /\ p \in Pods(entry) /\ p.pc = "xrmd" /\ p.clean = pod.clean /\ p.cur = pod.cur
    BY <1>0 DEF Pods, PCs
  <2>4. Newest(host.xrm, Release.xrm) \in Nat /\ Newest(host.xrm, Release.xrm) >= Release.xrm
    BY <1>0, <1>1 DEF Newest, HostShape, Hosts
  <2>5. h \in Hosts /\ h.xrm = Newest(host.xrm, Release.xrm) /\ h.xrt = host.xrt
    BY <1>0, <2>2, <2>4 DEF HostShape, Hosts
  <2> HIDE DEF p, h
  <2>6. /\ pod'.pc = "xrmd" /\ pod'.cur = pod.cur
        /\ pod'.clean => host' = h /\ p.clean
    BY <2>1, <2>3, <2>5, InstallShape
  <2>7. ASSUME pod'.clean PROVE XrtReady' /\ XrmHigh'
    <3>1. XrtReady BY <2>1, <2>3, <2>6, <2>7 DEF Software
    <3>2. host'.xrt = host.xrt /\ host'.xrm >= Release.xrm BY <2>4, <2>5, <2>6, <2>7
    <3> QED BY <1>2, <2>1, <2>6, <3>1, <3>2 DEF XrtReady, XrmHigh
  <2> QED BY <2>6, <2>7 DEF Software
<1>8. CASE XrmSkip
  <2>1. /\ pod.pc = "xrm" /\ UNCHANGED <<host, entry>> /\ ~InstallXRM
        /\ pod' = [pod EXCEPT !.pc = "flash"]
    BY <1>8 DEF XrmSkip, At
  <2>2. /\ pod'.pc = "flash" /\ pod'.clean = pod.clean /\ pod'.cur = pod.cur
        /\ pod.entry = entry
    BY <1>0, <2>1 DEF Pods
  <2>3. XrmReady' BY <2>1, <2>2 DEF XrmReady, InstallXRM
  <2>4. XrtReady => XrtReady' BY <1>2, <2>1, <2>2 DEF XrtReady
  <2> QED BY <2>1, <2>2, <2>3, <2>4 DEF Software
<1>9. CASE XrmService
  <2>1. /\ pod.pc = "xrmd" /\ entry' = entry
        /\ \/ /\ pod' = [pod EXCEPT !.pc = "flash"]
              /\ host' = [host EXCEPT !.xrmd = host.xrmd \/ host.xrm # 0]
           \/ pod' = [pod EXCEPT !.pc = "flash", !.clean = FALSE]
    BY <1>9, Zenon DEF XrmService, At
  <2>2. pod'.pc = "flash" /\ pod'.cur = pod.cur BY <1>0, <2>1 DEF Pods
  <2>3. ASSUME pod'.clean PROVE XrtReady' /\ XrmReady'
    <3>1. ~(pod' = [pod EXCEPT !.pc = "flash", !.clean = FALSE]) BY <1>0, <2>3 DEF Pods
    <3>2. /\ pod' = [pod EXCEPT !.pc = "flash"]
          /\ host' = [host EXCEPT !.xrmd = host.xrmd \/ host.xrm # 0]
      BY <2>1, <3>1, Zenon
    <3>3. pod.clean BY <1>0, <2>3, <3>2 DEF Pods
    <3>4. XrtReady /\ XrmHigh BY <2>1, <3>3 DEF Software
    <3>5. host'.xrt = host.xrt /\ host'.xrm = host.xrm BY <1>0, <3>2 DEF HostShape, Hosts
    <3>6. host'.xrmd = (host.xrmd \/ host.xrm # 0)
      BY <1>0, <3>2, Zenon DEF HostShape, Hosts
    <3>7. host.xrm # 0 BY <1>0, <1>1, <3>4 DEF HostShape, Hosts, XrmHigh
    <3>8. host'.xrmd BY <3>6, <3>7, Zenon
    <3>9. XrtReady' BY <1>2, <2>1, <2>2, <3>4, <3>5 DEF XrtReady
    <3>10. host'.xrm >= Release'.xrm BY <1>2, <2>1, <3>4, <3>5 DEF XrmHigh
    <3> QED BY <3>8, <3>9, <3>10 DEF XrmReady
  <2> QED BY <2>2, <2>3 DEF Software
<1>10. CASE Script /\ pod.pc \in Working
  <2>1. /\ entry' = entry /\ (pod'.clean => pod.clean) /\ host'.xrt = host.xrt
        /\ host'.xrm = host.xrm /\ host'.xrmd = host.xrmd /\ pod'.cur = pod.cur
        /\ pod'.pc = "card" \/ pod'.pc \in Working
    BY <1>10, WorkStep
  <2> QED BY <1>10, <2>1, SoftwareKept DEF Working
<1>11. CASE BeginFlash \/ FinishFlash
  <2>1. pod.pc \in {"flash", "card"} /\ UNCHANGED <<host, entry>>
    BY <1>11 DEF BeginFlash, FinishFlash, At
  <2>2. pod'.pc \in {"card", "running"} /\ pod'.clean = pod.clean /\ pod'.cur = pod.cur
    BY <1>0, <1>11 DEF BeginFlash, FinishFlash, Pods
  <2> QED BY <2>1, <2>2, SoftwareKept
<1>12. CASE SkipCard \/ CheckCard
  <2> DEFINE p == GetPackages(pod, PLATFORM)
  <2>1. pod.pc = "card" /\ UNCHANGED <<host, entry>> BY <1>12 DEF SkipCard, CheckCard, AtCard, At
  <2>2. /\ p \in Pods(entry) /\ p.clean = pod.clean /\ p.cur = pod.cur
        /\ NextCard(p) \in Pods(entry) /\ NextCard(p).clean = p.clean
        /\ NextCard(p).pc = "card" /\ NextCard(p).cur = p.cur
    BY <1>0, GotPackages, NextCardPod
  <2>3. pod' = [NextCard(p) EXCEPT !.skip = FALSE] \/ pod' = [p EXCEPT !.pc = "examine"]
    BY <1>12 DEF SkipCard, CheckCard
  <2> HIDE DEF p, NextCard
  <2>4. /\ pod'.pc \in {"card", "examine"} /\ pod'.clean = pod.clean
        /\ pod'.cur = pod.cur
    BY <2>2, <2>3 DEF Pods
  <2> QED BY <2>1, <2>4, SoftwareKept
<1>13. CASE Kill \/ Edit \/ Reboot \/ RequiredReboot
  <2>1. pod'.pc = "start" BY <1>13, TypesOutside
  <2> QED BY <2>1 DEF Software
<1>14. CASE UNCHANGED vars
  BY <1>14 DEF vars, Software, XrtReady, XrmReady, XrmHigh, Release
<1>15. CASE InstallEnds \/ InstallBreaks
  <2>1. /\ entry' = entry /\ pod'.pc = pod.pc /\ pod'.spec = pod.spec /\ pod'.cur = pod.cur
        /\ pod'.clean => pod.clean
        /\ host'.xrt = host.xrt /\ host'.xrm = host.xrm /\ host'.xrmd = host.xrmd
    BY <1>15, BusyShape
  <2>2. /\ XrtReady' <=> XrtReady
        /\ XrmReady' <=> XrmReady
        /\ XrmHigh' <=> XrmHigh
    BY <1>2, <2>1 DEF XrtReady, XrmReady, XrmHigh, Release
  <2> QED BY <1>2, <2>1, <2>2 DEF Software
<1> QED BY <1>3, <1>4, <1>5, <1>6, <1>7, <1>8, <1>9, <1>10, <1>11, <1>12, <1>13, <1>14, <1>15,
      ScriptSteps DEF Next
-----------------------------------------------------------------------------
(* The cards one after the other.                                          *)

(* A card that a step leaves alone stays done.                             *)
LEMMA DoneKept ==
    ASSUME entry' = entry, NEW k, cards'[k] = cards[k]
    PROVE  Done(k)' <=> Done(k)
BY DEF Done, RunsWanted, Wanted

(* The cards to flash depend on the entry and the types alone.             *)
LEMMA SameToFlash == ASSUME entry' = entry, SameTypes PROVE ToFlash' = ToFlash
BY DEF ToFlash, SameTypes, Supported

(* A card is left behind only when it is done, unless a command failed.    *)
LEMMA LeftDone ==
    ASSUME UnknownLast, ReleasesOfU200, StableShells, Chosen, Software, Progress,
           pod.clean, pod'.clean,
           \/ Examine /\ Verdict(Card.running) = "skip"
           \/ ProgramFails \/ ProgramEnds \/ ProgramBreaks \/ LoadShell \/ LoadFails,
           NEW i, i = pod.idx
    PROVE  Done(i)'
<1>0. Types /\ Judged BY DEF Chosen
<1>1. pod.pc \in Working /\ entry' = entry
  BY DEF Examine, ProgramFails, ProgramEnds, ProgramBreaks, LoadShell, LoadFails, At, Working
<1>2. /\ i \in 1..Len(cards) /\ cards[i].type = PLATFORM /\ Card = cards[i]
      /\ Supported(PLATFORM, entry.version) /\ pod.spec = Wanted(i)
  BY <1>0, <1>1, RightCard DEF Card
<1>3. CASE Examine /\ Verdict(Card.running) = "skip"
  <2>1. cards' = cards BY <1>3 DEF Examine
  <2>2. RunsWanted(i) BY <1>2, <1>3, VerdictRange DEF RunsWanted
  <2> QED BY <1>1, <2>1, <2>2, DoneKept DEF Done
<1>4. CASE ProgramFails \/ ProgramBreaks \/ LoadFails
  <2>1. ProgramFails /\ (host.xrt = 0 \/ host.packages[PLATFORM] = 0)
    BY <1>0, <1>4, GivenUp
  <2>2. pod.pc = "program" BY <2>1 DEF ProgramFails, At
  <2>3. host.packages[PLATFORM] # 0 /\ XrtReady BY <2>2 DEF Progress, Software
  <2>4. Release.xrt \in Nat \ {0} BY <1>0, ReleaseOfU200
  <2>5. pod.cur \in Nat BY <1>0 DEF Types, PodShape, Pods
  <2>6. host.xrt # 0 BY <2>3, <2>4, <2>5 DEF XrtReady
  <2> QED BY <2>1, <2>3, <2>6
<1>5. CASE ProgramEnds
  <2> DEFINE s == <<PLATFORM, host.packages[PLATFORM]>>
             w == <<PLATFORM, entry.version>>
  <2>1. s \in DOMAIN SpecTxt /\ cards'[i].flash = SpecTxt[s].shell /\ SameTypes
    BY <1>0, <1>5, Programmed DEF Supported
  <2>2. w \in DOMAIN SpecTxt /\ s[1] = w[1] BY <1>2 DEF Supported
  <2>3. SpecTxt[s].shell = SpecTxt[w].shell BY <2>1, <2>2 DEF StableShells
  <2>4. Wanted(i)' = SpecTxt[w] BY <1>1, <1>2, <2>1 DEF Wanted, SameTypes
  <2> QED BY <2>1, <2>3, <2>4 DEF Done
<1>6. CASE LoadShell
  <2>1. pod.pc = "load" BY <1>6 DEF LoadShell, At
  <2>2. host.packages[U250] # 0 BY <2>1 DEF Progress
  <2>3. cards'[i].running = pod.spec.trp /\ SameTypes BY <1>0, <1>6, <2>2, Programmed
  <2>4. Wanted(i)' = Wanted(i) BY <1>1, <1>2, <2>3 DEF Wanted, SameTypes
  <2> QED BY <1>2, <2>3, <2>4 DEF Done, RunsWanted
<1> QED BY <1>3, <1>4, <1>5, <1>6

(* A step on one card keeps the cards before it done.                      *)
LEMMA ProgressWork ==
    ASSUME UnknownLast, ReleasesOfU200, StableShells, Chosen, Software, Progress,
           Script, pod.pc \in Working
    PROVE  Progress'
<1>0. Types /\ Types' BY TypesNext DEF Chosen, Next
<1>1. /\ CardShape /\ pod \in Pods(entry) /\ pod.idx \in 1..Len(cards)
      /\ VERSION \in Nat \ {0} /\ host.packages[PLATFORM] \in Nat
  BY <1>0, WorkFacts
<1>2. /\ entry' = entry /\ pod' \in Pods(entry) /\ (pod'.clean => pod.clean)
      /\ \/ pod'.pc = "card" /\ pod'.idx = pod.idx + 1
         \/ pod'.pc \in Working /\ pod'.idx = pod.idx
  BY <1>0, WorkStep
<1>3. /\ SameTypes /\ cardTypeArr' = cardTypeArr
      /\ \A k \in 1..Len(cards) : k # pod.idx => cards'[k] = cards[k]
  <2>1. CASE ProgramBegins \/ ProgramEnds \/ LoadShell BY <1>0, <2>1, Programmed
  <2>2. CASE ~(ProgramBegins \/ ProgramEnds \/ LoadShell)
    <3>1. cards' = cards
      BY <2>2, WorkActions, PackageStep, GivenUp, BusyShape, <1>0
         DEF ExamineFails, Examine, PackagePresent, ShellPresent
    <3>2. SameTypes BY <3>1 DEF SameTypes
    <3> QED BY <3>1, <3>2, SameArray
  <2> QED BY <2>1, <2>2
<1>4. ToFlash' = ToFlash /\ ToFlash \subseteq 1..Len(cards)
  BY <1>2, <1>3, SameToFlash DEF ToFlash
<1>5. pod.clean => \A k \in ToFlash : k < pod.idx => Done(k) BY DEF Progress
<1>6. pod.clean => \A k \in ToFlash : k < pod.idx => Done(k)'
  <2> SUFFICES ASSUME pod.clean, NEW k \in ToFlash, k < pod.idx PROVE Done(k)' OBVIOUS
  <2>1. k \in 1..Len(cards) /\ k # pod.idx BY <1>1, <1>4 DEF Pods
  <2> QED BY <1>2, <1>3, <1>5, <2>1, DoneKept
<1>7. pod'.pc \in Working \cup {"card"} /\ pod'.clean
         => \A k \in ToFlash' : k < pod'.idx => Done(k)'
  <2> SUFFICES ASSUME pod'.clean, NEW k \in ToFlash, k < pod'.idx PROVE Done(k)'
    BY <1>4
  <2>1. CASE k < pod.idx BY <1>2, <1>6, <2>1
  <2>2. CASE ~(k < pod.idx)
    <3>1. pod'.pc = "card" /\ k = pod.idx BY <1>1, <1>2, <1>4, <2>2 DEF Pods, Working
    <3>2. \/ Examine /\ Verdict(Card.running) = "skip"
          \/ ProgramFails \/ ProgramEnds \/ ProgramBreaks \/ LoadShell \/ LoadFails
      <4>1. CASE ExamineFails \/ PackagePresent \/ ProgramBegins \/ ShellPresent
        <5>1. pod'.pc # "card"
          BY <1>1, <4>1 DEF ExamineFails, PackagePresent, ProgramBegins, ShellPresent, Pods
        <5> QED BY <3>1, <5>1
      <4>2. CASE PackageInstall \/ FetchShell BY <1>0, <3>1, <4>2, PackageStep
      <4>3. CASE Examine /\ Verdict(Card.running) # "skip"
        <5>1. pod'.pc # "card" BY <1>1, <4>3, VerdictRange DEF Examine, Pods
        <5> QED BY <3>1, <5>1
      <4>4. CASE InstallEnds \/ InstallBreaks
        BY <1>0, <3>1, <4>4, BusyShape DEF Working
      <4> QED BY <4>1, <4>2, <4>3, <4>4, WorkActions
    <3> QED BY <1>2, <3>1, <3>2, LeftDone
  <2> QED BY <2>1, <2>2
<1>8. PLATFORM' = PLATFORM \/ pod'.pc = "card" BY <1>2, <1>3 DEF PLATFORM
<1>9. pod'.pc = "program" /\ pod'.clean => host'.packages[PLATFORM'] # 0
  <2> SUFFICES ASSUME pod'.pc = "program", pod'.clean PROVE host'.packages[PLATFORM] # 0
    BY <1>8
  <2>1. CASE PackagePresent BY <1>1, <2>1 DEF PackagePresent
  <2>2. CASE PackageInstall BY <1>0, <2>2, PackageStep
  <2>3. CASE ~(PackagePresent \/ PackageInstall)
    <3>1. NextCard(pod) \in Pods(entry) /\ NextCard(pod).pc = "card" BY <1>1, NextCardPod
    <3>2. CASE FetchShell BY <1>0, <3>2, PackageStep
    <3>5. CASE InstallEnds \/ InstallBreaks BY <1>0, <3>5, BusyShape DEF Progress
    <3>6. CASE ProgramFails \/ ProgramBreaks \/ LoadFails BY <1>0, <3>6, GivenUp
    <3>3. CASE Examine
      <4> HIDE DEF Verdict, NextCard
      <4>1. pod'.pc \in {"card", "shell", "package"}
        BY <1>1, <3>1, <3>3, VerdictRange DEF Examine, Pods
      <4> QED BY <4>1
    <3>4. CASE ExamineFails \/ ProgramBegins \/ ProgramEnds \/ ShellPresent \/ LoadShell
      <4> HIDE DEF NextCard
      <4>1. pod'.pc # "program"
        BY <1>1, <3>1, <3>4 DEF ExamineFails, ProgramBegins, ProgramEnds, ShellPresent,
           LoadShell, Pods
      <4> QED BY <4>1
    <3> QED BY <2>3, <3>2, <3>3, <3>4, <3>5, <3>6, WorkActions
  <2> QED BY <2>1, <2>2, <2>3
<1>10. pod'.pc = "load" /\ pod'.clean => host'.packages[U250] # 0
  <2> SUFFICES ASSUME pod'.pc = "load", pod'.clean PROVE host'.packages[U250] # 0 OBVIOUS
  <2>1. CASE ShellPresent BY <2>1 DEF ShellPresent
  <2>2. CASE FetchShell
    <3>1. PLATFORM = U250 BY <1>0, <2>2 DEF FetchShell, At, Types, AtWork
    <3> QED BY <1>0, <2>2, <3>1, PackageStep
  <2>3. CASE ~(ShellPresent \/ FetchShell)
    <3>1. NextCard(pod) \in Pods(entry) /\ NextCard(pod).pc = "card" BY <1>1, NextCardPod
    <3>2. CASE PackageInstall BY <1>0, <3>2, PackageStep
    <3>5. CASE InstallEnds \/ InstallBreaks BY <1>0, <3>5, BusyShape DEF Progress
    <3>6. CASE ProgramFails \/ ProgramBreaks \/ LoadFails BY <1>0, <3>6, GivenUp
    <3>3. CASE Examine
      <4> HIDE DEF Verdict, NextCard
      <4>1. pod'.pc \in {"card", "shell", "package"}
        BY <1>1, <3>1, <3>3, VerdictRange DEF Examine, Pods
      <4> QED BY <4>1
    <3>4. CASE ExamineFails \/ ProgramBegins \/ ProgramEnds \/ PackagePresent \/ LoadShell
      <4> HIDE DEF NextCard
      <4>1. pod'.pc # "load"
        BY <1>1, <3>1, <3>4 DEF ExamineFails, ProgramBegins, ProgramEnds, PackagePresent,
           LoadShell, Pods
      <4> QED BY <4>1
    <3> QED BY <2>3, <3>2, <3>3, <3>4, <3>5, <3>6, WorkActions
  <2> QED BY <2>1, <2>2, <2>3
<1>11. pod'.pc # "running" BY <1>2 DEF Working
<1> QED BY <1>7, <1>9, <1>10, <1>11 DEF Progress, Working

(* The cards passed are done, from the first to the end of the loop.       *)
LEMMA ProgressNext ==
    ASSUME UnknownLast, ReleasesOfU200, StableShells, Chosen, Software, Progress, [Next]_vars
    PROVE  Progress'
<1>0. Types /\ CardShape /\ pod \in Pods(entry) /\ Enabled BY DEF Chosen, Types, PodShape
<1>1. Len(cardTypeArr) \in Nat /\ Len(cards) \in Nat /\ pod.idx \in Nat
  BY <1>0, ArrayLength DEF Pods
<1>2. ToFlash \subseteq 1..Len(cards) BY DEF ToFlash
<1>3. CASE Script /\ pod.pc \in Working BY <1>3, ProgressWork
<1>4. CASE SkipCard \/ CheckCard
  <2> DEFINE p == GetPackages(pod, PLATFORM)
  <2>1. /\ pod.pc = "card" /\ pod.idx <= Len(cardTypeArr) /\ UNCHANGED <<cards, entry>>
    BY <1>4 DEF SkipCard, CheckCard, AtCard, At
  <2>2. /\ p \in Pods(entry) /\ p.clean = pod.clean /\ p.idx = pod.idx
        /\ Supported(PLATFORM, VERSION) => p.skip = pod.skip
        /\ NextCard(p) \in Pods(entry) /\ NextCard(p).clean = p.clean
        /\ NextCard(p).pc = "card" /\ NextCard(p).idx = p.idx + 1
    BY <1>0, GotPackages, NextCardPod
  <2>3. ToFlash' = ToFlash /\ \A k : Done(k)' <=> Done(k)
    BY <2>1, DoneKept, SameToFlash DEF SameTypes
  <2>4. pod.clean => \A k \in ToFlash : k < pod.idx => Done(k) BY <2>1 DEF Progress
  <2>5. CASE SkipCard
    <3>1. p.skip /\ pod' = [NextCard(p) EXCEPT !.skip = FALSE] BY <2>5 DEF SkipCard
    <3>2. pod.skip = FALSE BY <1>0, <2>1 DEF Enabled
    <3>3. ~Supported(PLATFORM, VERSION) BY <2>2, <3>1, <3>2
    <3>4. VERSION = entry.version BY <1>0 DEF Pods, VERSION
    <3>5. cards[pod.idx].type = PLATFORM
      BY <1>0, <1>1, <2>1, Aligned DEF PLATFORM, Pods
    <3>6. pod.idx \notin ToFlash BY <3>3, <3>4, <3>5 DEF ToFlash
    <3> HIDE DEF p, NextCard
    <3>7. pod'.pc = "card" /\ pod'.idx = pod.idx + 1 /\ pod'.clean = pod.clean
      BY <2>2, <3>1 DEF Pods
    <3>8. \A k \in ToFlash : k < pod.idx + 1 => k < pod.idx BY <1>1, <1>2, <3>6
    <3> QED BY <2>3, <2>4, <3>7, <3>8 DEF Progress
  <2>6. CASE CheckCard
    <3>1. pod' = [p EXCEPT !.pc = "examine"] BY <2>6 DEF CheckCard
    <3> HIDE DEF p
    <3>2. pod'.pc = "examine" /\ pod'.idx = pod.idx /\ pod'.clean = pod.clean
      BY <2>2, <3>1 DEF Pods
    <3> QED BY <2>3, <2>4, <3>2 DEF Progress
  <2> QED BY <1>4, <2>5, <2>6
<1>5. CASE BeginFlash
  <2>1. UNCHANGED <<cards, entry>> BY <1>5 DEF BeginFlash, At
  <2>2. ToFlash' = ToFlash BY <2>1, SameToFlash DEF SameTypes
  <2>3. CASE FlashCards
    <3>1. pod'.pc = "card" /\ pod'.idx = 1 BY <1>0, <1>5, <2>3 DEF BeginFlash, Pods
    <3>2. \A k \in ToFlash' : ~(k < 1) BY <1>1, <1>2, <2>2
    <3> QED BY <3>1, <3>2 DEF Progress
  <2>4. CASE ~FlashCards
    <3>1. pod'.pc = "running" BY <1>0, <1>5, <2>4 DEF BeginFlash, Pods
    <3>2. pod.entry = entry BY <1>0 DEF Pods
    <3>3. ToFlash = {} BY <2>4, <3>2 DEF ToFlash, FlashCards
    <3> QED BY <2>2, <3>1, <3>3 DEF Progress, Working
  <2> QED BY <2>3, <2>4
<1>6. CASE FinishFlash
  <2>1. /\ pod.pc = "card" /\ pod.idx > Len(cardTypeArr) /\ UNCHANGED <<cards, entry>>
    BY <1>6 DEF FinishFlash, At
  <2>2. pod'.pc = "running" /\ pod'.clean = pod.clean BY <1>0, <1>6 DEF FinishFlash, Pods
  <2>3. ToFlash' = ToFlash /\ \A k : Done(k)' <=> Done(k)
    BY <2>1, DoneKept, SameToFlash DEF SameTypes
  <2>4. ASSUME NEW k \in ToFlash PROVE k < pod.idx
    <3>1. cards[k].type \in Platforms BY SupportedPlatform DEF ToFlash
    <3>2. k <= Len(cardTypeArr) BY <1>0, <1>2, <3>1, Aligned
    <3> QED BY <1>1, <1>2, <2>1, <3>2
  <2>5. pod.clean => \A k \in ToFlash : k < pod.idx => Done(k) BY <2>1 DEF Progress
  <2> QED BY <2>2, <2>3, <2>4, <2>5 DEF Progress, Working
<1>7. CASE \/ DetectXrt \/ XrtPresent \/ XrtRemove \/ XrtInstall
           \/ XrmInstall \/ XrmSkip \/ XrmService
  <2>1. ~FinishFlash
    BY <1>7 DEF FinishFlash, DetectXrt, XrtPresent, XrtRemove, XrtInstall, XrmInstall, XrmSkip,
       XrmService, At
  <2>2. pod'.pc \in {"xrt", "install", "xrm", "xrmd", "flash"} BY <1>0, <1>7, <2>1, FirstContainer
  <2> QED BY <2>2 DEF Progress, Working
<1>8. CASE Kill \/ Edit \/ Reboot \/ RequiredReboot
  <2>1. pod'.pc = "start" BY <1>0, <1>8, TypesOutside
  <2> QED BY <2>1 DEF Progress, Working
<1>9. CASE UNCHANGED vars
  <2>1. cardTypeArr' = cardTypeArr BY <1>9, CardsKept DEF vars
  <2>2. PLATFORM' = PLATFORM BY <1>9, <2>1 DEF PLATFORM, vars
  <2>3. ToFlash' = ToFlash /\ \A k : Done(k)' <=> Done(k)
    BY <1>9, DoneKept, SameToFlash DEF SameTypes, vars
  <2> QED BY <1>9, <2>2, <2>3 DEF vars, Progress
<1>10. CASE InstallEnds \/ InstallBreaks
  <2>1. /\ UNCHANGED <<cards, entry>> /\ pod'.pc = pod.pc /\ pod'.idx = pod.idx
        /\ pod'.clean => pod.clean
        /\ host'.packages = host.packages
    BY <1>0, <1>10, BusyShape
  <2>2. cardTypeArr' = cardTypeArr BY <2>1, CardsKept
  <2>3. PLATFORM' = PLATFORM BY <2>1, <2>2 DEF PLATFORM
  <2>4. ToFlash' = ToFlash /\ \A k : Done(k)' <=> Done(k)
    BY <2>1, DoneKept, SameToFlash DEF SameTypes
  <2> QED BY <2>1, <2>3, <2>4 DEF Progress
<1> QED BY <1>3, <1>4, <1>5, <1>6, <1>7, <1>8, <1>9, <1>10, ScriptSteps DEF Next

(* Nothing has been achieved and nothing is claimed.                       *)
LEMMA SetupInit == ASSUME Init PROVE Setup
<1>1. Chosen BY ChosenInit
<1>2. pod.pc = "start" BY DEF Init, NewPod
<1>3. FlashBehind
  <2>1. \A k \in 1..Len(cards) : cards[k].flash \in Factory(cards[k].type)
                                   /\ cards[k].running = cards[k].flash
    BY InitialCards
  <2>2. \A s \in DOMAIN SpecTxt : SpecTxt[s].shell # Partial BY HostSetupAssumption
  <2>3. \A t : Partial \notin Factory(t) BY <2>2 DEF Factory, Golden, Partial
  <2> QED BY <2>1, <2>3 DEF FlashBehind
<1> QED BY <1>1, <1>2, <1>3 DEF Setup, Software, Progress, Working

(* All parts together are inductive.                                       *)
LEMMA SetupNext ==
    ASSUME UnknownLast, ReleasesOfU200, StableShells, Setup, [Next]_vars
    PROVE  Setup'
<1>1. Chosen /\ Types /\ Software /\ Progress /\ FlashBehind BY DEF Setup, Chosen
<1> QED BY <1>1, ChosenNext, SoftwareNext, ProgressNext, FlashBehindNext DEF Setup

(* If besides the releases have packages for the U200, under which the     *)
(* script looks XRT and XRM up: where a host-setup pod runs, none of whose *)
(* own commands failed and under which no installation of an earlier pod   *)
(* was broken off, the host has the XRT of the release or a newer one that *)
(* could not be removed, the XRM of the release or a newer one with its    *)
(* service, and every supported card its shell or the shell due to boot,   *)
(* however many pods were killed, replaced or had failing commands before. *)
THEOREM RunningMeansSetUp ==
    ASSUME UnknownLast, ReleasesOfU200, StableShells
    PROVE  Spec => []SetupComplete
<1>1. Init => Setup BY SetupInit
<1>2. Setup /\ [Next]_vars => Setup' BY SetupNext
<1>3. Setup => SetupComplete BY DEF Setup, Software, Progress, Done, SetupComplete
<1> QED BY <1>1, <1>2, <1>3, PTL DEF Spec

(* Under the same hypotheses such a host also comes back from a power      *)
(* cycle, as long as every card could be examined whenever XRT was there:  *)
(* if none of the commands of the pod that runs failed, xbmgmt program     *)
(* among them, the flash memory, which host_setup.sh never reads, has the  *)
(* shell that the release wants.                                           *)
THEOREM SurvivesPowerCycle ==
    ASSUME UnknownLast, ReleasesOfU200, StableShells
    PROVE  Spec => []ColdBootSafe
<1>1. Init => Setup BY SetupInit
<1>2. Setup /\ [Next]_vars => Setup' BY SetupNext
<1>3. Setup => ColdBootSafe
  <2> SUFFICES ASSUME Setup, pod.pc = "running", pod.clean, Sighted,
                      NEW k \in ToFlash
               PROVE  cards[k].flash = Wanted(k).shell
    BY DEF ColdBootSafe
  <2>1. k \in 1..Len(cards) /\ Supported(cards[k].type, entry.version) BY DEF ToFlash
  <2>2. Images BY DEF Setup, Chosen
  <2>3. CASE cards[k].flash = Wanted(k).shell BY <2>3
  <2>4. CASE RunsWanted(k)
    <3>1. /\ cards[k].flash \in {Golden, Partial, Wanted(k).shell}
          /\ cards[k].running # Golden
      BY <2>1, <2>2, <2>4, OneShell
    <3>2. cards[k].flash \notin {Golden, Partial} BY <2>1, <3>1 DEF Setup, FlashBehind
    <3> QED BY <3>1, <3>2
  <2> QED BY <2>3, <2>4 DEF Setup, Progress, Done
<1> QED BY <1>1, <1>2, <1>3, PTL DEF Spec
==============================================================================
