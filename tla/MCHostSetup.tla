----------------------------- MODULE MCHostSetup -----------------------------
(***************************************************************************)
(* Nodes with two or three cards and the releases that conf/spec.txt holds *)
(* for Ubuntu 18.04 and the platform alveo-u200.                           *)
(***************************************************************************)
EXTENDS HostSetup

U50 == "alveo-u50"
U30 == "alveo-u30"      \* known to card_setup, without packages

Packages(xrt, xrm, shell, trp) == [xrt |-> xrt, xrm |-> xrm, shell |-> shell, trp |-> trp]

MCSpecTxt ==
    [ s \in {U200, U250, U50} \X {20222, 20231} |->
        LET xrt == IF s[2] = 20222 THEN 214354 ELSE 215225
            xrm == IF s[2] = 20222 THEN 15 ELSE 16
        IN  CASE s[1] = U200 -> Packages(xrt, xrm, "u200_base_2", "")
              [] s[1] = U250 -> Packages(xrt, xrm, "u250_base_4", "u250_shell_4_1")
              [] s[1] = U50  -> Packages(xrt, xrm, "u50_base_5", "") ]

(* A card that card_setup does not know comes after the others.            *)
MCCardLists == {<<U250, U50>>, <<U30, U200, "unknown">>, <<U30>>}

Entry(version, xrm, flash) ==
    [version |-> version, xrmInstallation |-> xrm, shellFlashEnabled |-> flash]

MCEntries == {Entry(20222, "nil", "nil"), Entry(20231, "true", "true"),
              Entry(20231, "false", "false")}

MCOldXrt == {213466}

MCBound ==
    [ e \in Events |-> CASE e = "edit"     -> 1
                         [] e = "kill"     -> 1
                         [] e = "reboot"   -> 1
                         [] e = "command"  -> 1
                         [] e = "examine"  -> 1 ]

(* Of a host that is torn only TypeOK and the end of the script are of     *)
(* interest, so that its states are visited while at most one kind of      *)
(* outside event has happened.                                             *)
TornBound == host.torn => Cardinality({e \in Events : used[e] > 0}) <= 1

(* The instance is one that the theorems of HostSetup_proofs speak of.     *)
ASSUME InstanceAssumption == UnknownLast /\ ReleasesOfU200 /\ StableShells
==============================================================================
