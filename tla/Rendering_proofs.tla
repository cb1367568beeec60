-------------------------- MODULE Rendering_proofs --------------------------
(***************************************************************************)
(* The operator loads every manifest of its states once and in order, and  *)
(* what it sends is the manifest with the policy's changes: for files,     *)
(* policies and node lists of any number and length.                       *)
(***************************************************************************)
EXTENDS Rendering, NodeScan_proofs, FiniteSetTheorems

(* The manifests of one kind among the files before k.                     *)
FilesBefore(k, kind) == Below(FilesOf(kind), k)

(* Up to the file that comes next, all DaemonSets are loaded in the order  *)
(* of the files, one control function deals with them, and each            *)
(* RuntimeClass has got one.                                               *)
LoadInv ==
    /\ phase \in {"load", "idle", "env", "rendered"}
    /\ file \in 1..(Len(Files) + 1)
    /\ phase # "load" => file = Len(Files) + 1
    /\ daemonsets \in Seq({Files[f] : f \in FilesOf("DaemonSet")})
    /\ Len(daemonsets) = Cardinality(FilesBefore(file, "DaemonSet"))
    /\ \A j \in 1..Len(daemonsets) : daemonsets[j] = Files[Nth(FilesOf("DaemonSet"), j)]
    /\ controls \in Seq({"DaemonSet", "RuntimeClass"})
    /\ Cardinality(Positions(controls, "DaemonSet")) = IF daemonsets = <<>> THEN 0 ELSE 1
    /\ Cardinality(Positions(controls, "RuntimeClass"))
         = Cardinality(FilesBefore(file, "RuntimeClass"))

(* What ValueOf says, for the variables of the policy before the nth.      *)
ValueBefore(name, manifest, c, n) ==
    LET set == {m \in Named(c.env, name) : m < n}
    IN  IF set # {} THEN c.env[Greatest(set)].value
        ELSE manifest.env[First(Named(manifest.env, name))].value

(* env is the environment of the manifest after the variables of the       *)
(* policy before the nth: which there are, in which order, and their       *)
(* values.                                                                 *)
Overridden(env, manifest, c, n) ==
    /\ env \in Seq(EnvVars) /\ Distinct(env)
    /\ VariablesOf(env) = VariablesOf(manifest.env) \cup {c.env[m].name : m \in 1..(n - 1)}
    /\ Len(env) = Len(manifest.env) + Cardinality(Below(Added(manifest, c), n))
    /\ \A m \in 1..Len(env) :
          /\ env[m].name = NameAt(manifest, c, m)
          /\ env[m].value = ValueBefore(env[m].name, manifest, c, n)

(* A copy of the manifest with image, secrets and environment.             *)
Copy(manifest, c, env) ==
    [manifest EXCEPT !.image = ImagePath(c),
                     !.imagePullPolicy = ImagePullPolicy(c),
                     !.secrets = @ \o c.secrets,
                     !.env = env]

(* A DaemonSet is being rendered: from one of the manifests, after init    *)
(* has found the runtime, and e - 1 variables of the policy are set.       *)
PassInv ==
    phase \in {"env", "rendered"} =>
        /\ loop = "done"
        /\ from \in 1..Len(daemonsets) /\ config \in Configs
        /\ e \in 1..(Len(config.env) + 1)
        /\ Overridden(obj.env, daemonsets[from], config, e)
        /\ LET copy == Copy(daemonsets[from], config, obj.env)
           IN  /\ phase = "env" => obj = copy
               /\ phase = "rendered" =>
                     /\ e = Len(config.env) + 1
                     /\ obj = Finished(copy, config, GetRuntime(Listed, spec))

RenderInv == Inv /\ LoadInv /\ PassInv
-----------------------------------------------------------------------------
(* Finitely many positions come before each.                               *)
LEMMA BelowFinite ==
    ASSUME NEW S, S \subseteq Nat, NEW k \in Nat
    PROVE  IsFiniteSet(Below(S, k)) /\ Cardinality(Below(S, k)) \in Nat
<1>1. IsFiniteSet(0..k) BY FS_Interval
<1>2. Below(S, k) \subseteq 0..k
  <2> SUFFICES ASSUME NEW m \in Below(S, k) PROVE m \in 0..k OBVIOUS
  <2>1. m \in S /\ m < k BY DEF Below
  <2>2. m \in Nat BY <2>1
  <2> QED BY <2>1, <2>2
<1>3. IsFiniteSet(Below(S, k)) BY <1>1, <1>2, FS_Subset
<1> QED BY <1>3, FS_CardinalityType

(* One more position, one more member.                                     *)
LEMMA BelowStep ==
    ASSUME NEW S, S \subseteq Nat, NEW k \in Nat
    PROVE  Cardinality(Below(S, k + 1)) =
             IF k \in S THEN Cardinality(Below(S, k)) + 1 ELSE Cardinality(Below(S, k))
<1>1. IsFiniteSet(Below(S, k)) BY BelowFinite
<1>2. \A m \in S : m < k + 1 <=> m < k \/ m = k
  <2>1. \A m \in S : m \in Nat OBVIOUS
  <2> QED BY <2>1
<1>3. CASE k \in S
  <2>1. Below(S, k + 1) = Below(S, k) \cup {k} BY <1>2, <1>3 DEF Below
  <2>2. k \notin Below(S, k) BY DEF Below
  <2> QED BY <1>1, <1>3, <2>1, <2>2, FS_AddElement
<1>4. CASE k \notin S
  <2>1. Below(S, k + 1) = Below(S, k) BY <1>2, <1>4 DEF Below
  <2> QED BY <1>4, <2>1
<1> QED BY <1>3, <1>4

(* More members come before a later one.                                   *)
LEMMA BelowIncreases ==
    ASSUME NEW S, S \subseteq Nat, NEW f \in S, NEW g \in S, f < g
    PROVE  Cardinality(Below(S, f)) < Cardinality(Below(S, g))
<1>1. f \in Nat /\ g \in Nat /\ f + 1 \in Nat OBVIOUS
<1>2. Below(S, f + 1) \subseteq Below(S, g)
  <2> SUFFICES ASSUME NEW m \in Below(S, f + 1) PROVE m \in Below(S, g) OBVIOUS
  <2>1. m \in S /\ m < f + 1 BY DEF Below
  <2>2. m \in Nat BY <2>1
  <2>3. m < g BY <1>1, <2>1, <2>2
  <2> QED BY <2>1, <2>3 DEF Below
<1>3. Cardinality(Below(S, f + 1)) <= Cardinality(Below(S, g))
  BY <1>1, <1>2, BelowFinite, FS_Subset
<1>4. Cardinality(Below(S, f + 1)) = Cardinality(Below(S, f)) + 1 BY <1>1, BelowStep
<1>5. Cardinality(Below(S, f)) \in Nat /\ Cardinality(Below(S, g)) \in Nat
  BY <1>1, BelowFinite
<1> QED BY <1>3, <1>4, <1>5

(* A member is found at the place that its predecessors leave it.          *)
LEMMA NthIs ==
    ASSUME NEW S, S \subseteq Nat, NEW f \in S
    PROVE  Nth(S, Cardinality(Below(S, f)) + 1) = f
<1> DEFINE n == Cardinality(Below(S, f))
           g == Nth(S, n + 1)
<1>1. f \in Nat /\ n \in Nat BY BelowFinite
<1>2. (n + 1) - 1 = n BY <1>1
<1>3. \E x \in S : Cardinality(Below(S, x)) = (n + 1) - 1 BY <1>2
<1>4. g \in S /\ Cardinality(Below(S, g)) = (n + 1) - 1 BY <1>3, Zenon DEF Nth
<1> HIDE DEF g
<1>5. ~(f < g)
  <2> SUFFICES ASSUME f < g PROVE FALSE OBVIOUS
  <2>1. n < Cardinality(Below(S, g)) BY <1>4, BelowIncreases
  <2> QED BY <1>1, <1>2, <1>4, <2>1
<1>6. ~(g < f)
  <2> SUFFICES ASSUME g < f PROVE FALSE OBVIOUS
  <2>1. Cardinality(Below(S, g)) < n BY <1>4, BelowIncreases
  <2> QED BY <1>1, <1>2, <1>4, <2>1
<1>7. g \in Nat BY <1>4
<1> QED BY <1>1, <1>5, <1>6, <1>7 DEF g

(* One more file, one more of its kind.                                    *)
LEMMA OneMoreFile ==
    ASSUME NEW k \in 1..Len(Files), NEW kind
    PROVE  Cardinality(FilesBefore(k + 1, kind)) =
             IF Files[k].kind = kind THEN Cardinality(FilesBefore(k, kind)) + 1
             ELSE Cardinality(FilesBefore(k, kind))
<1>1. FilesOf(kind) \subseteq Nat /\ k \in Nat BY DEF FilesOf
<1>2. k \in FilesOf(kind) <=> Files[k].kind = kind BY DEF FilesOf
<1> QED BY <1>1, <1>2, BelowStep DEF FilesBefore

(* Behind the last file all of a kind have been passed.                    *)
LEMMA AllFiles ==
    ASSUME NEW kind
    PROVE  FilesBefore(Len(Files) + 1, kind) = FilesOf(kind)
BY RenderingAssumption DEF FilesBefore, Below, FilesOf

(* One more element, one more position of it.                              *)
LEMMA PositionsAppend ==
    ASSUME NEW S, NEW s \in Seq(S), NEW y \in S, NEW x,
           IsFiniteSet(Positions(s, x))
    PROVE  Cardinality(Positions(Append(s, y), x)) =
             IF y = x THEN Cardinality(Positions(s, x)) + 1 ELSE Cardinality(Positions(s, x))
<1>1. /\ Len(s) \in Nat /\ Len(Append(s, y)) = Len(s) + 1
      /\ \A m \in 1..Len(s) : Append(s, y)[m] = s[m]
      /\ Append(s, y)[Len(s) + 1] = y
  OBVIOUS
<1>2. 1..(Len(s) + 1) = (1..Len(s)) \cup {Len(s) + 1} /\ Len(s) + 1 \notin 1..Len(s)
  BY <1>1
<1>3. CASE y = x
  <2>1. Positions(Append(s, y), x) = Positions(s, x) \cup {Len(s) + 1}
    BY <1>1, <1>2, <1>3 DEF Positions
  <2>2. Len(s) + 1 \notin Positions(s, x) BY <1>2 DEF Positions
  <2> QED BY <1>3, <2>1, <2>2, FS_AddElement
<1>4. CASE y # x
  <2>1. Positions(Append(s, y), x) = Positions(s, x)
    BY <1>1, <1>2, <1>4 DEF Positions
  <2> QED BY <1>4, <2>1
<1> QED BY <1>3, <1>4

(* An element has finitely many positions.                                 *)
LEMMA PositionsFinite ==
    ASSUME NEW S, NEW s \in Seq(S), NEW x
    PROVE  IsFiniteSet(Positions(s, x)) /\ Cardinality(Positions(s, x)) \in Nat
<1>1. IsFiniteSet(1..Len(s)) BY FS_Interval
<1>2. Positions(s, x) \subseteq 1..Len(s) BY DEF Positions
<1>3. IsFiniteSet(Positions(s, x)) BY <1>1, <1>2, FS_Subset
<1> QED BY <1>3, FS_CardinalityType
-----------------------------------------------------------------------------
(* The parts of LoadInv, with the types that the proofs need.              *)
LEMMA LoadParts ==
    ASSUME LoadInv
    PROVE  /\ Len(Files) \in Nat /\ file \in Nat
           /\ Len(daemonsets) \in Nat
           /\ daemonsets = <<>> <=> Len(daemonsets) = 0
           /\ \A kind : /\ IsFiniteSet(Positions(controls, kind))
                        /\ Cardinality(Positions(controls, kind)) \in Nat
<1>1. controls \in Seq({"DaemonSet", "RuntimeClass"}) BY DEF LoadInv
<1>2. \A kind : IsFiniteSet(Positions(controls, kind))
                  /\ Cardinality(Positions(controls, kind)) \in Nat
  BY <1>1, PositionsFinite
<1>3. Len(Files) \in Nat /\ file \in Nat BY RenderingAssumption DEF LoadInv
<1>4. Len(daemonsets) \in Nat /\ (daemonsets = <<>> <=> Len(daemonsets) = 0)
  BY DEF LoadInv
<1> QED BY <1>2, <1>3, <1>4

(* Nothing is loaded before the first file.                                *)
LEMMA LoadInvInit == RenderInit => LoadInv
<1> SUFFICES ASSUME RenderInit PROVE LoadInv OBVIOUS
<1>1. phase = "load" /\ file = 1 /\ daemonsets = <<>> /\ controls = <<>>
  BY DEF RenderInit
<1>2. \A kind : FilesBefore(1, kind) = {} /\ Positions(<<>>, kind) = {}
  BY DEF FilesBefore, FilesOf, Below, Positions
<1>3. Cardinality({}) = 0 BY FS_EmptySet
<1>4. file \in 1..(Len(Files) + 1) BY <1>1, RenderingAssumption
<1>5. Len(daemonsets) = 0
        /\ \A j \in 1..Len(daemonsets) : daemonsets[j] = Files[Nth(FilesOf("DaemonSet"), j)]
  BY <1>1
<1>6. daemonsets \in Seq({Files[f] : f \in FilesOf("DaemonSet")}) BY <1>1
<1>7. controls \in Seq({"DaemonSet", "RuntimeClass"}) BY <1>1
<1> QED BY <1>1, <1>2, <1>3, <1>4, <1>5, <1>6, <1>7 DEF LoadInv

(* A file is loaded.                                                       *)
LEMMA LoadStep ==
    ASSUME LoadInv, NEW kind, Load(kind)
    PROVE  /\ phase = "load" /\ phase' = "load" /\ loop = "count"
           /\ file \in 1..Len(Files) /\ Files[file].kind = kind
           /\ file' = file + 1 /\ file' \in 1..(Len(Files) + 1)
           /\ \A k : Cardinality(FilesBefore(file', k)) =
                IF kind = k THEN Cardinality(FilesBefore(file, k)) + 1
                ELSE Cardinality(FilesBefore(file, k))
           /\ UNCHANGED <<vars, rendering>>
<1>1. /\ phase = "load" /\ phase' = "load" /\ loop = "count"
      /\ Files[file].kind = kind /\ file' = file + 1
      /\ UNCHANGED <<vars, rendering>>
  BY DEF Load
<1>2. file \in 1..Len(Files) /\ file + 1 \in 1..(Len(Files) + 1)
  BY LoadParts DEF Load, LoadInv
<1>3. \A k : Cardinality(FilesBefore(file + 1, k)) =
                IF kind = k THEN Cardinality(FilesBefore(file, k)) + 1
                ELSE Cardinality(FilesBefore(file, k))
  BY <1>1, <1>2, OneMoreFile
<1> QED BY <1>1, <1>2, <1>3

(* Loading a DaemonSet.                                                    *)
LEMMA LoadDaemonSetKeeps == ASSUME LoadInv, LoadDaemonSet PROVE LoadInv'
<1> DEFINE Manifests == {Files[f] : f \in FilesOf("DaemonSet")}
           n == Len(daemonsets)
<1>1. Load("DaemonSet") BY DEF LoadDaemonSet
<1>2. /\ phase' = "load"
      /\ file \in 1..Len(Files) /\ Files[file].kind = "DaemonSet"
      /\ file' \in 1..(Len(Files) + 1)
      /\ Cardinality(FilesBefore(file', "DaemonSet"))
           = Cardinality(FilesBefore(file, "DaemonSet")) + 1
      /\ Cardinality(FilesBefore(file', "RuntimeClass"))
           = Cardinality(FilesBefore(file, "RuntimeClass"))
  BY <1>1, LoadStep
<1>3. file \in FilesOf("DaemonSet") BY <1>2 DEF FilesOf
<1>4. daemonsets \in Seq(Manifests) /\ Files[file] \in Manifests
  BY <1>3 DEF LoadInv
<1>5. daemonsets' = Append(daemonsets, Files[file]) BY DEF LoadDaemonSet
<1> HIDE DEF Manifests
<1>6. /\ n \in Nat /\ Len(daemonsets') = n + 1 /\ daemonsets' \in Seq(Manifests)
      /\ \A j \in 1..n : daemonsets'[j] = daemonsets[j]
      /\ daemonsets'[n + 1] = Files[file]
  BY <1>4, <1>5
<1>7. n = Cardinality(FilesBefore(file, "DaemonSet")) BY DEF LoadInv
<1>8. \A j \in 1..Len(daemonsets') : daemonsets'[j] = Files[Nth(FilesOf("DaemonSet"), j)]
  <2>1. Nth(FilesOf("DaemonSet"), n + 1) = file
    <3>1. FilesOf("DaemonSet") \subseteq Nat BY DEF FilesOf
    <3> QED BY <1>3, <1>7, <3>1, NthIs DEF FilesBefore
  <2>2. \A j \in 1..n : daemonsets[j] = Files[Nth(FilesOf("DaemonSet"), j)] BY DEF LoadInv
  <2>3. \A j \in 1..(n + 1) : j \in 1..n \/ j = n + 1 BY <1>6
  <2> HIDE DEF n
  <2> QED BY <1>6, <2>1, <2>2, <2>3
<1>9. /\ controls' \in Seq({"DaemonSet", "RuntimeClass"})
      /\ Cardinality(Positions(controls', "DaemonSet")) = 1
      /\ Cardinality(Positions(controls', "RuntimeClass"))
           = Cardinality(Positions(controls, "RuntimeClass"))
  <2>1. controls \in Seq({"DaemonSet", "RuntimeClass"}) BY DEF LoadInv
  <2>2. CASE daemonsets = <<>>
    <3>1. controls' = Append(controls, "DaemonSet") BY <2>2 DEF LoadDaemonSet
    <3>2. Cardinality(Positions(controls, "DaemonSet")) = 0 BY <2>2 DEF LoadInv
    <3>3. Cardinality(Positions(controls', "DaemonSet")) = 0 + 1
      BY <2>1, <3>1, <3>2, LoadParts, PositionsAppend
    <3>4. Cardinality(Positions(controls', "RuntimeClass"))
            = Cardinality(Positions(controls, "RuntimeClass"))
      BY <2>1, <3>1, LoadParts, PositionsAppend
    <3> QED BY <2>1, <3>1, <3>3, <3>4
  <2>3. CASE daemonsets # <<>>
    BY <2>1, <2>3 DEF LoadDaemonSet, LoadInv
  <2> QED BY <2>2, <2>3
<1>10. daemonsets' # <<>> BY <1>6
<1>11. Cardinality(Positions(controls, "RuntimeClass"))
           = Cardinality(FilesBefore(file, "RuntimeClass"))
  BY DEF LoadInv
<1> HIDE DEF n
<1> QED BY <1>2, <1>6, <1>7, <1>8, <1>9, <1>10, <1>11 DEF LoadInv, Manifests

(* Loading a RuntimeClass.                                                 *)
LEMMA LoadRuntimeClassKeeps == ASSUME LoadInv, LoadRuntimeClass PROVE LoadInv'
<1>1. Load("RuntimeClass") /\ daemonsets' = daemonsets
        /\ controls' = Append(controls, "RuntimeClass")
  BY DEF LoadRuntimeClass
<1>2. /\ phase' = "load" /\ file' \in 1..(Len(Files) + 1)
      /\ Cardinality(FilesBefore(file', "DaemonSet"))
           = Cardinality(FilesBefore(file, "DaemonSet"))
      /\ Cardinality(FilesBefore(file', "RuntimeClass"))
           = Cardinality(FilesBefore(file, "RuntimeClass")) + 1
  BY <1>1, LoadStep
<1>3. controls \in Seq({"DaemonSet", "RuntimeClass"}) BY DEF LoadInv
<1>4. /\ controls' \in Seq({"DaemonSet", "RuntimeClass"})
      /\ Cardinality(Positions(controls', "DaemonSet"))
           = Cardinality(Positions(controls, "DaemonSet"))
      /\ Cardinality(Positions(controls', "RuntimeClass"))
           = Cardinality(Positions(controls, "RuntimeClass")) + 1
  BY <1>1, <1>3, LoadParts, PositionsAppend
<1> QED BY <1>1, <1>2, <1>4 DEF LoadInv

(* Passing a manifest of another kind over.                                *)
LEMMA LoadOtherKeeps == ASSUME LoadInv, LoadOther PROVE LoadInv'
<1>1. PICK kind \in {Files[f].kind : f \in 1..Len(Files)} \ {"DaemonSet", "RuntimeClass"} :
        Load(kind)
  BY DEF LoadOther
<1>2. daemonsets' = daemonsets /\ controls' = controls BY DEF LoadOther
<1>3. /\ phase' = "load" /\ file' \in 1..(Len(Files) + 1)
      /\ Cardinality(FilesBefore(file', "DaemonSet"))
           = Cardinality(FilesBefore(file, "DaemonSet"))
      /\ Cardinality(FilesBefore(file', "RuntimeClass"))
           = Cardinality(FilesBefore(file, "RuntimeClass"))
  BY <1>1, LoadStep
<1> QED BY <1>2, <1>3 DEF LoadInv

(* All other steps leave what is loaded alone.                             *)
LEMMA LoadInvNext == LoadInv /\ [RenderNext]_renderVars => LoadInv'
<1> SUFFICES ASSUME LoadInv, [RenderNext]_renderVars PROVE LoadInv' OBVIOUS
<1>1. ASSUME UNCHANGED loading, phase' = phase PROVE LoadInv'
  BY <1>1 DEF loading, LoadInv
<1>2. CASE Scan BY <1>1, <1>2 DEF Scan
<1>3. CASE LoadDaemonSet BY <1>3, LoadDaemonSetKeeps
<1>4. CASE LoadRuntimeClass BY <1>4, LoadRuntimeClassKeeps
<1>5. CASE LoadOther BY <1>5, LoadOtherKeeps
<1>6. ASSUME UNCHANGED loading, file = Len(Files) + 1,
             phase' \in {"load", "idle", "env", "rendered"}
      PROVE  LoadInv'
  BY <1>6 DEF loading, LoadInv
<1>7. CASE LoadEnds
  <2>1. file = Len(Files) + 1 BY <1>7, LoadParts DEF LoadEnds, LoadInv
  <2> QED BY <1>6, <1>7, <2>1 DEF LoadEnds
<1>8. CASE \E k \in 1..Len(daemonsets), c \in Configs : Begin(k, c)
  <2>1. PICK k \in 1..Len(daemonsets), c \in Configs : Begin(k, c) BY <1>8
  <2>2. phase = "idle" /\ phase' = "env" /\ UNCHANGED loading BY <2>1 DEF Begin
  <2>3. file = Len(Files) + 1 BY <2>2 DEF LoadInv
  <2> QED BY <1>6, <2>2, <2>3
<1>9. CASE SetContainerEnv BY <1>1, <1>9 DEF SetContainerEnv, AtEnv, loading
<1>10. CASE AppendContainerEnv BY <1>1, <1>10 DEF AppendContainerEnv, AtEnv, loading
<1>11. CASE Finish
  <2>1. phase = "env" /\ phase' = "rendered" /\ UNCHANGED loading BY <1>11 DEF Finish
  <2>2. file = Len(Files) + 1 BY <2>1 DEF LoadInv
  <2> QED BY <1>6, <2>1, <2>2
<1>12. CASE Submit
  <2>1. phase = "rendered" /\ phase' = "idle" /\ UNCHANGED loading BY <1>12 DEF Submit
  <2>2. file = Len(Files) + 1 BY <2>1 DEF LoadInv
  <2> QED BY <1>6, <2>1, <2>2
<1>13. CASE UNCHANGED renderVars BY <1>1, <1>13 DEF renderVars
<1> QED BY <1>2, <1>3, <1>4, <1>5, <1>7, <1>8, <1>9, <1>10, <1>11, <1>12, <1>13 DEF RenderNext

(* What is loaded at the end is what there is to load.                     *)
LEMMA AllLoaded ==
    ASSUME LoadInv, phase # "load"
    PROVE  /\ daemonsets = DaemonSetFiles
           /\ DaemonSetFiles = <<>> <=> daemonsets = <<>>
<1>1. file = Len(Files) + 1 BY DEF LoadInv
<1>2. Len(daemonsets) = Cardinality(FilesOf("DaemonSet")) BY <1>1, AllFiles DEF LoadInv
<1>3. daemonsets = [j \in 1..Len(daemonsets) |-> daemonsets[j]] BY DEF LoadInv
<1>4. daemonsets = [j \in 1..Len(daemonsets) |-> Files[Nth(FilesOf("DaemonSet"), j)]]
  BY <1>3 DEF LoadInv
<1> QED BY <1>2, <1>4 DEF DaemonSetFiles

(* Whatever lies below the directory of a state, all of its DaemonSets are *)
(* loaded, in the order of the files and behind one control function, and  *)
(* every RuntimeClass has one of its own.                                  *)
THEOREM ControlsAreComplete == RenderSpec => []ControlsComplete
<1>1. LoadInv => ControlsComplete
  <2> SUFFICES ASSUME LoadInv, phase # "load" PROVE ControlsComplete BY DEF ControlsComplete
  <2>1. file = Len(Files) + 1 BY DEF LoadInv
  <2>2. daemonsets = DaemonSetFiles /\ (DaemonSetFiles = <<>> <=> daemonsets = <<>>)
    BY AllLoaded
  <2> QED BY <2>1, <2>2, AllFiles DEF LoadInv, ControlsComplete
<1> QED BY <1>1, LoadInvInit, LoadInvNext, PTL DEF RenderSpec
-----------------------------------------------------------------------------
(* In an environment without doubles a variable is found where it is.      *)
LEMMA FirstIs ==
    ASSUME NEW env, env \in Seq(EnvVars), Distinct(env), NEW m \in 1..Len(env)
    PROVE  Named(env, env[m].name) = {m} /\ First(Named(env, env[m].name)) = m
<1>1. Named(env, env[m].name) = {m} BY DEF Named, Distinct
<1>2. m \in Nat OBVIOUS
<1>3. First({m}) = m BY <1>2 DEF First
<1> QED BY <1>1, <1>3

(* A value that the policy does not give yet stays that of the manifest,   *)
(* and one that it gives is the last one.                                  *)
LEMMA ValueStep ==
    ASSUME NEW manifest, NEW c, c.env \in Seq(EnvVars), NEW n \in 1..Len(c.env), NEW name
    PROVE  ValueBefore(name, manifest, c, n + 1) =
             IF c.env[n].name = name THEN c.env[n].value
             ELSE ValueBefore(name, manifest, c, n)
<1> DEFINE set(k) == {m \in Named(c.env, name) : m < k}
<1>1. Len(c.env) \in Nat /\ n \in Nat /\ \A m \in 1..Len(c.env) : m \in Nat
  OBVIOUS
<1>2. \A m \in 1..Len(c.env) : m < n + 1 <=> m < n \/ m = n BY <1>1
<1>3. CASE c.env[n].name = name
  <2>1. n \in set(n + 1) /\ \A m \in set(n + 1) : m \in Nat /\ n >= m
    BY <1>1, <1>2, <1>3 DEF Named
  <2>2. \A m \in set(n + 1) : (\A k \in set(n + 1) : m >= k) => m = n
    BY <1>1, <2>1
  <2> HIDE DEF set
  <2>3. Greatest(set(n + 1)) = n BY <2>1, <2>2 DEF Greatest
  <2>4. set(n + 1) # {} BY <2>1
  <2>5. ValueBefore(name, manifest, c, n + 1) = c.env[n].value
    BY <2>3, <2>4 DEF ValueBefore, set
  <2> QED BY <1>3, <2>5
<1>4. CASE c.env[n].name # name
  <2>1. set(n + 1) = set(n) BY <1>2, <1>4 DEF Named
  <2> HIDE DEF set
  <2>2. ValueBefore(name, manifest, c, n + 1) = ValueBefore(name, manifest, c, n)
    BY <2>1 DEF ValueBefore, set
  <2> QED BY <1>4, <2>2
<1> QED BY <1>3, <1>4

(* The names given by the policy, one variable further.                    *)
LEMMA NamesStep ==
    ASSUME NEW c, NEW n \in Nat \ {0}
    PROVE  {c.env[m].name : m \in 1..((n + 1) - 1)}
             = {c.env[m].name : m \in 1..(n - 1)} \cup {c.env[n].name}
<1>1. 1..((n + 1) - 1) = (1..(n - 1)) \cup {n} OBVIOUS
<1> QED BY <1>1

(* Positions of the policy's variables are numbers, with an order.         *)
LEMMA AddedPositions ==
    ASSUME NEW manifest, NEW c, c.env \in Seq(EnvVars)
    PROVE  /\ Added(manifest, c) \subseteq Nat
           /\ Below(Added(manifest, c), 1) = {}
           /\ Below(Added(manifest, c), Len(c.env) + 1) = Added(manifest, c)
<1>1. Len(c.env) \in Nat OBVIOUS
<1> QED BY <1>1 DEF Added, Below

(* A variable that is nowhere yet is one that the policy adds.             *)
LEMMA AddedIs ==
    ASSUME NEW manifest, NEW c, c.env \in Seq(EnvVars), NEW n \in 1..Len(c.env),
           NEW env, env \in Seq(EnvVars),
           VariablesOf(env) = VariablesOf(manifest.env) \cup {c.env[m].name : m \in 1..(n - 1)}
    PROVE  n \in Added(manifest, c) <=> Named(env, c.env[n].name) = {}
<1>1. Named(env, c.env[n].name) = {} <=> c.env[n].name \notin VariablesOf(env)
  BY DEF Named, VariablesOf
<1>2. Named(manifest.env, c.env[n].name) = {} <=> c.env[n].name \notin VariablesOf(manifest.env)
  BY DEF Named, VariablesOf
<1>3. (\A k \in 1..(n - 1) : c.env[k].name # c.env[n].name)
        <=> c.env[n].name \notin {c.env[m].name : m \in 1..(n - 1)}
  OBVIOUS
<1> QED BY <1>1, <1>2, <1>3 DEF Added

(* A copy of the manifest is where it starts.                              *)
LEMMA OverriddenFirst ==
    ASSUME NEW manifest, manifest.env \in Seq(EnvVars), Distinct(manifest.env),
           NEW c, c.env \in Seq(EnvVars)
    PROVE  Overridden(manifest.env, manifest, c, 1)
<1>1. {c.env[m].name : m \in 1..(1 - 1)} = {} OBVIOUS
<1>2. Len(manifest.env) = Len(manifest.env) + Cardinality(Below(Added(manifest, c), 1))
  <2>1. Below(Added(manifest, c), 1) = {} BY AddedPositions
  <2>2. Cardinality(Below(Added(manifest, c), 1)) = 0 BY <2>1, FS_EmptySet
  <2>3. Len(manifest.env) \in Nat OBVIOUS
  <2>4. \A n \in Nat : n = n + 0 OBVIOUS
  <2> QED BY <2>2, <2>3, <2>4
<1>3. ASSUME NEW m \in 1..Len(manifest.env)
      PROVE  /\ manifest.env[m].name = NameAt(manifest, c, m)
             /\ manifest.env[m].value = ValueBefore(manifest.env[m].name, manifest, c, 1)
  <2>1. First(Named(manifest.env, manifest.env[m].name)) = m BY FirstIs
  <2>2. {k \in Named(c.env, manifest.env[m].name) : k < 1} = {} BY DEF Named
  <2>3. manifest.env[m].value = ValueBefore(manifest.env[m].name, manifest, c, 1)
    BY <2>1, <2>2 DEF ValueBefore
  <2>4. m <= Len(manifest.env) OBVIOUS
  <2> QED BY <2>3, <2>4 DEF NameAt
<1> QED BY <1>1, <1>2, <1>3 DEF Overridden

(* A variable that is there gets the value of the policy.                  *)
LEMMA OverriddenInPlace ==
    ASSUME NEW manifest, NEW c, c.env \in Seq(EnvVars), NEW n \in 1..Len(c.env),
           NEW env, Overridden(env, manifest, c, n),
           NEW h \in 1..Len(env), env[h].name = c.env[n].name
    PROVE  Overridden([env EXCEPT ![h].value = c.env[n].value], manifest, c, n + 1)
<1> DEFINE new == [env EXCEPT ![h].value = c.env[n].value]
<1>1. env \in Seq(EnvVars) /\ Distinct(env) BY DEF Overridden
<1>2. c.env[n].value \in STRING
  <2>1. c.env[n] \in EnvVars OBVIOUS
  <2> QED BY <2>1 DEF EnvVars
<1>3. \A m \in 1..Len(env) : env[m] \in EnvVars BY <1>1
<1>4. [env[h] EXCEPT !.value = c.env[n].value]
        = [name |-> env[h].name, value |-> c.env[n].value]
  BY <1>3 DEF EnvVars
<1>5. new = [env EXCEPT ![h] = [name |-> env[h].name, value |-> c.env[n].value]]
  BY <1>4, Zenon
<1>6. [name |-> env[h].name, value |-> c.env[n].value] \in EnvVars
  BY <1>2, <1>3 DEF EnvVars
<1>7. /\ new \in Seq(EnvVars) /\ Len(new) = Len(env)
      /\ \A m \in 1..Len(env) : m # h => new[m] = env[m]
      /\ new[h] = [name |-> env[h].name, value |-> c.env[n].value]
  BY <1>1, <1>5, <1>6
<1> HIDE DEF new
<1>8. \A m \in 1..Len(env) : new[m].name = env[m].name BY <1>7
<1>9. Distinct(new) BY <1>1, <1>7, <1>8 DEF Distinct
<1>10. VariablesOf(new) = VariablesOf(env) BY <1>7, <1>8 DEF VariablesOf
<1>11. c.env[n].name \in VariablesOf(env)
  <2>1. env[h].name \in VariablesOf(env) BY DEF VariablesOf
  <2> QED BY <2>1
<1>12. n \in Nat \ {0} OBVIOUS
<1>13. VariablesOf(new) = VariablesOf(manifest.env)
                            \cup {c.env[m].name : m \in 1..((n + 1) - 1)}
  <2> DEFINE given(k) == {c.env[m].name : m \in 1..(k - 1)}
  <2>1. given(n + 1) = given(n) \cup {c.env[n].name} BY <1>12, NamesStep
  <2>2. VariablesOf(env) = VariablesOf(manifest.env) \cup given(n) BY DEF Overridden
  <2> HIDE DEF given
  <2>3. VariablesOf(new) = VariablesOf(manifest.env) \cup given(n + 1)
    BY <1>10, <1>11, <2>1, <2>2
  <2> QED BY <2>3 DEF given
<1>14. Len(new) = Len(manifest.env) + Cardinality(Below(Added(manifest, c), n + 1))
  <2>1. Named(env, c.env[n].name) # {} BY DEF Named
  <2>2. n \notin Added(manifest, c) BY <1>1, <2>1, AddedIs DEF Overridden
  <2>3. Cardinality(Below(Added(manifest, c), n + 1))
          = Cardinality(Below(Added(manifest, c), n))
    BY <1>12, <2>2, AddedPositions, BelowStep
  <2> QED BY <1>7, <2>3 DEF Overridden
<1>15. ASSUME NEW m \in 1..Len(new)
       PROVE  /\ new[m].name = NameAt(manifest, c, m)
              /\ new[m].value = ValueBefore(new[m].name, manifest, c, n + 1)
  <2>1. CASE m = h
    <3>1. new[m].value = ValueBefore(new[m].name, manifest, c, n + 1)
      BY <1>7, <1>8, <2>1, ValueStep
    <3> QED BY <1>7, <1>8, <3>1 DEF Overridden
  <2>2. CASE m # h
    <3>1. env[m].name # c.env[n].name BY <1>1, <1>7, <2>2 DEF Distinct
    <3>2. /\ env[m].name = NameAt(manifest, c, m)
          /\ env[m].value = ValueBefore(env[m].name, manifest, c, n)
      BY <1>7 DEF Overridden
    <3> QED BY <1>7, <1>8, <2>2, <3>1, <3>2, ValueStep
  <2> QED BY <2>1, <2>2
<1> QED BY <1>7, <1>9, <1>13, <1>14, <1>15 DEF Overridden, new

(* A new one is appended with the value of the policy.                     *)
LEMMA OverriddenAppended ==
    ASSUME NEW manifest, Len(manifest.env) \in Nat,
           NEW c, c.env \in Seq(EnvVars), NEW n \in 1..Len(c.env),
           NEW env, Overridden(env, manifest, c, n),
           Named(env, c.env[n].name) = {}
    PROVE  Overridden(Append(env, c.env[n]), manifest, c, n + 1)
<1> DEFINE new   == Append(env, c.env[n])
           added == Added(manifest, c)
           kept  == Len(manifest.env)
<1>1. env \in Seq(EnvVars) /\ Distinct(env) /\ c.env[n] \in EnvVars
  BY DEF Overridden
<1>2. /\ Len(env) \in Nat
      /\ new \in Seq(EnvVars) /\ Len(new) = Len(env) + 1
      /\ \A m \in 1..Len(env) : new[m] = env[m]
      /\ new[Len(env) + 1] = c.env[n]
  BY <1>1
<1> HIDE DEF new
<1>3. 1..Len(new) = (1..Len(env)) \cup {Len(env) + 1} BY <1>2
<1>4. \A m \in 1..Len(env) : env[m].name # c.env[n].name BY DEF Named
<1>5. Distinct(new) BY <1>1, <1>2, <1>3, <1>4 DEF Distinct
<1>6. VariablesOf(new) = VariablesOf(env) \cup {c.env[n].name}
  BY <1>2, <1>3 DEF VariablesOf
<1>7. n \in Nat \ {0} OBVIOUS
<1>8. VariablesOf(new) = VariablesOf(manifest.env)
                           \cup {c.env[m].name : m \in 1..((n + 1) - 1)}
  <2> DEFINE given(k) == {c.env[m].name : m \in 1..(k - 1)}
  <2>1. given(n + 1) = given(n) \cup {c.env[n].name} BY <1>7, NamesStep
  <2>2. VariablesOf(env) = VariablesOf(manifest.env) \cup given(n) BY DEF Overridden
  <2> HIDE DEF given
  <2>3. VariablesOf(new) = VariablesOf(manifest.env) \cup given(n + 1)
    BY <1>6, <2>1, <2>2
  <2> QED BY <2>3 DEF given
<1>9. n \in added BY <1>1, AddedIs DEF Overridden
<1>10. Len(env) = kept + Cardinality(Below(added, n)) BY DEF Overridden
<1>11. Cardinality(Below(added, n)) \in Nat BY <1>7, AddedPositions, BelowFinite
<1>12. Len(new) = kept + Cardinality(Below(added, n + 1))
  <2>1. Cardinality(Below(added, n + 1)) = Cardinality(Below(added, n)) + 1
    BY <1>7, <1>9, AddedPositions, BelowStep
  <2> HIDE DEF added
  <2> QED BY <1>2, <1>10, <1>11, <2>1
<1>13. c.env[n].name = NameAt(manifest, c, Len(env) + 1)
  <2>1. Nth(added, Cardinality(Below(added, n)) + 1) = n
    BY <1>9, AddedPositions, NthIs
  <2> HIDE DEF added
  <2>2. ~(Len(env) + 1 <= kept) /\ (Len(env) + 1) - kept = Cardinality(Below(added, n)) + 1
    BY <1>10, <1>11
  <2> QED BY <2>1, <2>2 DEF NameAt, added
<1>14. ASSUME NEW m \in 1..Len(new)
       PROVE  /\ new[m].name = NameAt(manifest, c, m)
              /\ new[m].value = ValueBefore(new[m].name, manifest, c, n + 1)
  <2>1. CASE m = Len(env) + 1 BY <1>2, <1>13, <2>1, ValueStep
  <2>2. CASE m \in 1..Len(env)
    <3>1. /\ env[m].name = NameAt(manifest, c, m)
          /\ env[m].value = ValueBefore(env[m].name, manifest, c, n)
      BY <2>2 DEF Overridden
    <3> QED BY <1>2, <1>4, <2>2, <3>1, ValueStep
  <2> QED BY <1>3, <2>1, <2>2
<1> QED BY <1>2, <1>5, <1>8, <1>12, <1>14 DEF Overridden, new

(* An environment without doubles has as many variables as entries.        *)
LEMMA VariablesCounted ==
    ASSUME NEW env, env \in Seq(EnvVars), Distinct(env)
    PROVE  Cardinality(VariablesOf(env)) = Len(env)
<1> DEFINE f == [m \in 1..Len(env) |-> env[m].name]
<1>1. Len(env) \in Nat OBVIOUS
<1>2. IsFiniteSet(1..Len(env)) /\ Cardinality(1..Len(env)) = Len(env)
  BY <1>1, FS_Interval
<1>3. f \in Bijection(1..Len(env), VariablesOf(env))
  BY DEF Bijection, Injection, Surjection, IsInjective, VariablesOf, Distinct
<1>4. ExistsBijection(1..Len(env), VariablesOf(env)) BY <1>3 DEF ExistsBijection
<1> QED BY <1>2, <1>4, FS_Bijection
-----------------------------------------------------------------------------
(* A manifest that is loaded has the fields of a DaemonSet.                *)
LEMMA LoadedManifest ==
    ASSUME LoadInv, NEW k \in 1..Len(daemonsets)
    PROVE  /\ Fields \subseteq DOMAIN daemonsets[k]
           /\ daemonsets[k].env \in Seq(EnvVars) /\ Distinct(daemonsets[k].env)
           /\ daemonsets[k].volumes \o <<>> = daemonsets[k].volumes
<1>1. daemonsets[k] \in {Files[f] : f \in FilesOf("DaemonSet")} BY DEF LoadInv
<1>2. PICK f \in FilesOf("DaemonSet") : daemonsets[k] = Files[f] BY <1>1
<1>3. f \in 1..Len(Files) /\ Files[f].kind = "DaemonSet" BY DEF FilesOf
<1>4. Files[f].volumes \in Seq([name : STRING, path : STRING])
  BY <1>3, RenderingAssumption
<1>5. Files[f].volumes \o <<>> = Files[f].volumes BY <1>4
<1> QED BY <1>2, <1>3, <1>5, RenderingAssumption, ManifestsAssumption

(* What the properties say of a copy with the environment env.             *)
Copied(o, manifest, c, env) ==
    /\ Fields \subseteq DOMAIN o
    /\ o.name = manifest.name /\ o.env = env
    /\ o.secrets = manifest.secrets \o c.secrets
    /\ o.volumes = manifest.volumes /\ o.selector = manifest.selector

(* A copy of a manifest has the environment that it is given; the other    *)
(* fields do not depend on it.                                             *)
LEMMA CopyFields ==
    ASSUME NEW manifest, Fields \subseteq DOMAIN manifest, NEW c, NEW env
    PROVE  Copied(Copy(manifest, c, env), manifest, c, env)
<1> DEFINE image == ImagePath(c)
           policy == ImagePullPolicy(c)
           secrets == manifest.secrets \o c.secrets
           copy == [manifest EXCEPT !.image = image, !.imagePullPolicy = policy,
                                    !.secrets = secrets, !.env = env]
<1>1. Copy(manifest, c, env) = copy BY Zenon DEF Copy
<1> HIDE DEF image, policy, secrets
<1>2. /\ Fields \subseteq DOMAIN copy
      /\ copy.name = manifest.name /\ copy.env = env /\ copy.secrets = secrets
      /\ copy.volumes = manifest.volumes /\ copy.selector = manifest.selector
  BY DEF Fields
<1> HIDE DEF copy
<1>3. Copied(copy, manifest, c, env) BY <1>2, Zenon DEF Copied, secrets
<1> QED BY <1>1, <1>3

(* Another environment makes it the copy with that environment, ...        *)
LEMMA CopyWith ==
    ASSUME NEW manifest, Fields \subseteq DOMAIN manifest, NEW c, NEW env, NEW new,
           NEW o, o = Copy(manifest, c, env)
    PROVE  [o EXCEPT !.env = new] = Copy(manifest, c, new)
<1> DEFINE image == ImagePath(c)
           policy == ImagePullPolicy(c)
           secrets == manifest.secrets \o c.secrets
           with(x) == [manifest EXCEPT !.image = image, !.imagePullPolicy = policy,
                                       !.secrets = secrets, !.env = x]
<1>1. Copy(manifest, c, env) = with(env) /\ Copy(manifest, c, new) = with(new)
  BY Zenon DEF Copy
<1> HIDE DEF image, policy, secrets
<1>2. [with(env) EXCEPT !.env = new] = with(new) BY DEF Fields
<1> HIDE DEF with
<1> QED BY <1>1, <1>2, Zenon

(* ... and its own environment is the one that it begins with.             *)
LEMMA CopyOwn ==
    ASSUME NEW manifest, Fields \subseteq DOMAIN manifest, NEW c
    PROVE  [manifest EXCEPT !.image = ImagePath(c),
                            !.imagePullPolicy = ImagePullPolicy(c),
                            !.secrets = @ \o c.secrets] = Copy(manifest, c, manifest.env)
<1> DEFINE image == ImagePath(c)
           policy == ImagePullPolicy(c)
           secrets == manifest.secrets \o c.secrets
           three == [manifest EXCEPT !.image = image, !.imagePullPolicy = policy,
                                     !.secrets = secrets]
           four  == [manifest EXCEPT !.image = image, !.imagePullPolicy = policy,
                                     !.secrets = secrets,
                                     !.env = manifest.env]
<1>1. Copy(manifest, c, manifest.env) = four BY Zenon DEF Copy
<1>2. [manifest EXCEPT !.image = ImagePath(c),
                       !.imagePullPolicy = ImagePullPolicy(c),
                       !.secrets = @ \o c.secrets] = three
  BY Zenon
<1> HIDE DEF image, policy, secrets
<1>3. three = four BY DEF Fields
<1> HIDE DEF three, four
<1> QED BY <1>1, <1>2, <1>3, Zenon

(* A pass starts.                                                          *)
LEMMA BeginKeeps ==
    ASSUME LoadInv, NEW k \in 1..Len(daemonsets), NEW c \in Configs, Begin(k, c)
    PROVE  PassInv'
<1> DEFINE manifest == daemonsets[k]
           copy == Copy(manifest, c, manifest.env)
<1>1. Fields \subseteq DOMAIN manifest
        /\ manifest.env \in Seq(EnvVars) /\ Distinct(manifest.env)
  BY LoadedManifest
<1>2. /\ phase' = "env" /\ loop' = "done" /\ from' = k /\ config' = c /\ e' = 1
      /\ daemonsets' = daemonsets
      /\ obj' = [manifest EXCEPT !.image = ImagePath(c),
                                 !.imagePullPolicy = ImagePullPolicy(c),
                                 !.secrets = @ \o c.secrets]
  BY DEF Begin, vars, loading
<1>3. obj' = copy /\ copy.env = manifest.env
  <2>1. [manifest EXCEPT !.image = ImagePath(c),
                         !.imagePullPolicy = ImagePullPolicy(c),
                         !.secrets = @ \o c.secrets] = copy
    BY <1>1, CopyOwn, Zenon
  <2>2. Copied(copy, manifest, c, manifest.env) BY <1>1, CopyFields
  <2>3. copy.env = manifest.env BY <2>2, Zenon DEF Copied
  <2> QED BY <1>2, <2>1, <2>3, Zenon
<1>4. c.env \in Seq(EnvVars) BY RenderingAssumption
<1>5. Overridden(manifest.env, manifest, c, 1) BY <1>1, <1>4, OverriddenFirst
<1>6. 1 \in 1..(Len(c.env) + 1)
  <2>1. Len(c.env) \in Nat BY <1>4
  <2> QED BY <2>1
<1>7. daemonsets'[from'] = manifest BY <1>2
<1> HIDE DEF manifest
<1>8. obj'.env = manifest.env BY <1>3
<1>9. obj' = Copy(daemonsets'[from'], config', obj'.env) BY <1>2, <1>3, <1>7, <1>8
<1>10. Overridden(obj'.env, daemonsets'[from'], config', e')
  BY <1>2, <1>5, <1>7, <1>8
<1> QED BY <1>2, <1>6, <1>9, <1>10 DEF PassInv

(* What holds while the environment is set.                                *)
LEMMA EnvParts ==
    ASSUME LoadInv, PassInv, phase = "env"
    PROVE  /\ loop = "done" /\ from \in 1..Len(daemonsets) /\ config \in Configs
           /\ config.env \in Seq(EnvVars) /\ Len(config.env) \in Nat
           /\ Fields \subseteq DOMAIN daemonsets[from]
           /\ Len(daemonsets[from].env) \in Nat
           /\ e \in 1..(Len(config.env) + 1)
           /\ obj = Copy(daemonsets[from], config, obj.env)
           /\ Overridden(obj.env, daemonsets[from], config, e)
<1>1. /\ loop = "done" /\ from \in 1..Len(daemonsets) /\ config \in Configs
      /\ e \in 1..(Len(config.env) + 1)
      /\ obj = Copy(daemonsets[from], config, obj.env)
      /\ Overridden(obj.env, daemonsets[from], config, e)
  BY DEF PassInv
<1>2. config.env \in Seq(EnvVars) BY <1>1, RenderingAssumption
<1>3. Len(config.env) \in Nat BY <1>2
<1>4. Fields \subseteq DOMAIN daemonsets[from] /\ daemonsets[from].env \in Seq(EnvVars)
  BY <1>1, LoadedManifest
<1>5. Len(daemonsets[from].env) \in Nat BY <1>4
<1> QED BY <1>1, <1>2, <1>3, <1>4, <1>5

(* A variable is set: the rest of the DaemonSet and the manifests remain.  *)
LEMMA EnvStep ==
    ASSUME LoadInv, PassInv, AtEnv, UNCHANGED daemonsets, e' = e + 1,
           NEW env, obj' = [obj EXCEPT !.env = env],
           Overridden(env, daemonsets[from], config, e + 1)
    PROVE  PassInv'
<1> DEFINE manifest == daemonsets[from]
<1>1. /\ phase = "env" /\ phase' = "env" /\ e <= Len(config.env)
      /\ loop' = loop /\ from' = from /\ config' = config /\ daemonsets' = daemonsets
  BY DEF AtEnv, vars
<1>2. obj = Copy(manifest, config, obj.env) /\ Fields \subseteq DOMAIN manifest
  BY <1>1, EnvParts
<1>3. obj' = Copy(manifest, config, env) /\ obj'.env = env
  <2>1. [obj EXCEPT !.env = env] = Copy(manifest, config, env) BY <1>2, CopyWith
  <2>2. Copied(Copy(manifest, config, env), manifest, config, env) BY <1>2, CopyFields
  <2>3. Copy(manifest, config, env).env = env BY <2>2, Zenon DEF Copied
  <2> QED BY <2>1, <2>3, Zenon
<1>4. e' \in 1..(Len(config.env) + 1) BY <1>1, EnvParts
<1>5. obj' = Copy(daemonsets'[from'], config', obj'.env) BY <1>1, <1>3
<1>6. Overridden(obj'.env, daemonsets'[from'], config', e') BY <1>1, <1>3
<1>7. loop = "done" /\ from \in 1..Len(daemonsets) /\ config \in Configs
  BY <1>1, EnvParts
<1> QED BY <1>1, <1>4, <1>5, <1>6, <1>7 DEF PassInv

(* A variable that the manifest has, or that was appended before.          *)
LEMMA SetContainerEnvKeeps == ASSUME LoadInv, PassInv, SetContainerEnv PROVE PassInv'
<1> DEFINE h == First(Hits)
           env == [obj.env EXCEPT ![h].value = config.env[e].value]
<1>1. AtEnv /\ UNCHANGED daemonsets /\ e' = e + 1 /\ Hits # {}
        /\ obj' = [obj EXCEPT !.env[h].value = config.env[e].value]
  BY DEF SetContainerEnv
<1>2. phase = "env" /\ e <= Len(config.env) BY <1>1 DEF AtEnv
<1>3. e \in 1..Len(config.env) BY <1>2, EnvParts
<1>4. Overridden(obj.env, daemonsets[from], config, e) BY <1>2, EnvParts
<1>5. obj.env \in Seq(EnvVars) /\ Distinct(obj.env) BY <1>4 DEF Overridden
<1>6. PICK m \in 1..Len(obj.env) : obj.env[m].name = config.env[e].name
  BY <1>1 DEF Hits, Named
<1>7. h = m BY <1>5, <1>6, FirstIs DEF Hits
<1>8. h \in 1..Len(obj.env) /\ obj.env[h].name = config.env[e].name BY <1>6, <1>7
<1> HIDE DEF h
<1>9. Overridden(env, daemonsets[from], config, e + 1)
  BY <1>2, <1>3, <1>4, <1>8, EnvParts, OverriddenInPlace
<1>10. obj' = [obj EXCEPT !.env = env] BY <1>1, Zenon
<1> HIDE DEF env
<1> QED BY <1>1, <1>9, <1>10, EnvStep

(* A variable that nothing has set.                                        *)
LEMMA AppendContainerEnvKeeps == ASSUME LoadInv, PassInv, AppendContainerEnv PROVE PassInv'
<1> DEFINE env == Append(obj.env, config.env[e])
<1>1. AtEnv /\ UNCHANGED daemonsets /\ e' = e + 1 /\ Hits = {}
        /\ obj' = [obj EXCEPT !.env = env]
  BY DEF AppendContainerEnv
<1>2. phase = "env" /\ e <= Len(config.env) BY <1>1 DEF AtEnv
<1>3. e \in 1..Len(config.env) BY <1>2, EnvParts
<1>4. Overridden(env, daemonsets[from], config, e + 1)
  BY <1>1, <1>2, <1>3, EnvParts, OverriddenAppended DEF Hits
<1> HIDE DEF env
<1> QED BY <1>1, <1>4, EnvStep

(* What the properties say of a finished DaemonSet.                        *)
Completed(new, o, c, r) ==
    /\ new.env = o.env /\ new.secrets = o.secrets
    /\ new.selector = WithFPGALabels(o.selector)
    /\ o.name = ContainerRuntimeDS =>
         /\ new.volumes = o.volumes \o RuntimeVolumes(c, r)
         /\ new.args = ToolkitArgs(c, r)
    /\ o.name # ContainerRuntimeDS => new.volumes = o.volumes

(* What the last step of a pass makes of the copy.                         *)
LEMMA FinishedIs ==
    ASSUME NEW o, Fields \subseteq DOMAIN o, NEW c, NEW r
    PROVE  Completed(Finished(o, c, r), o, c, r)
<1>1. CASE o.name = ContainerRuntimeDS
  <2> DEFINE v == o.volumes \o RuntimeVolumes(c, r)
             a == ToolkitArgs(c, r)
             s == WithFPGALabels(o.selector)
             new == [o EXCEPT !.volumes = v, !.args = a, !.selector = s]
  <2>1. Finished(o, c, r) = new BY <1>1, Zenon DEF Finished
  <2> HIDE DEF v, a, s
  <2>2. /\ new.env = o.env /\ new.secrets = o.secrets
        /\ new.selector = s /\ new.volumes = v /\ new.args = a
    BY DEF Fields
  <2> HIDE DEF new
  <2>3. Completed(new, o, c, r) BY <1>1, <2>2, Zenon DEF Completed, v, a, s
  <2> QED BY <2>1, <2>3
<1>2. CASE o.name # ContainerRuntimeDS
  <2> DEFINE s == WithFPGALabels(o.selector)
             new == [o EXCEPT !.selector = s]
  <2>1. Finished(o, c, r) = new BY <1>2, Zenon DEF Finished
  <2> HIDE DEF s
  <2>2. /\ new.env = o.env /\ new.secrets = o.secrets
        /\ new.selector = s /\ new.volumes = o.volumes
    BY DEF Fields
  <2> HIDE DEF new
  <2>3. Completed(new, o, c, r) BY <1>2, <2>2, Zenon DEF Completed, s
  <2> QED BY <2>1, <2>3
<1> QED BY <1>1, <1>2

(* Mounts, arguments and node selector, once all variables are set.        *)
LEMMA FinishKeeps == ASSUME Inv, LoadInv, PassInv, Finish PROVE PassInv'
<1> DEFINE r == GetRuntime(Listed, spec)
           copy == Copy(daemonsets[from], config, obj.env)
<1>1. /\ phase = "env" /\ phase' = "rendered" /\ e > Len(config.env)
      /\ obj' = Finished(obj, config, runtime)
      /\ list' = list /\ spec' = spec /\ loop' = loop
      /\ UNCHANGED <<daemonsets, config, from, e>>
  BY DEF Finish, loading, vars
<1>2. runtime = r BY <1>1, EnvParts, Position DEF RuntimeInv
<1>3. e = Len(config.env) + 1 BY <1>1, EnvParts
<1>4. obj = copy /\ Fields \subseteq DOMAIN daemonsets[from] BY <1>1, EnvParts
<1>5. obj'.env = obj.env
  <2>1. Fields \subseteq DOMAIN copy
    <3>1. Fields \subseteq DOMAIN Copy(daemonsets[from], config, obj.env)
      BY <1>4, CopyFields DEF Copied
    <3> QED BY <3>1
  <2>2. Fields \subseteq DOMAIN obj BY <1>4, <2>1
  <2>3. Completed(Finished(obj, config, runtime), obj, config, runtime)
    BY <2>2, FinishedIs
  <2>4. Finished(obj, config, runtime).env = obj.env BY <2>3, Zenon DEF Completed
  <2> QED BY <1>1, <2>4
<1>6. copy' = copy
  <2>1. copy' = Copy(daemonsets'[from'], config', obj'.env) OBVIOUS
  <2> QED BY <1>1, <1>5, <2>1
<1>7. r' = r BY <1>1 DEF GetRuntime, Listed, Before, RunsOn
<1> HIDE DEF copy, r
<1>8. Finished(copy, config, r)' = Finished(copy, config, r)
  BY <1>1, <1>6, <1>7 DEF Finished, ToolkitArgs
<1>9. obj' = Finished(copy, config, r)' BY <1>1, <1>2, <1>4, <1>8
<1>10. Overridden(obj.env, daemonsets[from], config, e)'
  <2>1. Overridden(obj.env, daemonsets[from], config, e) BY <1>1, EnvParts
  <2> QED BY <1>1, <1>5, <2>1
<1>11. loop = "done" /\ from \in 1..Len(daemonsets) /\ config \in Configs
         /\ e \in 1..(Len(config.env) + 1)
  BY <1>1, EnvParts
<1> QED BY <1>1, <1>3, <1>9, <1>10, <1>11 DEF PassInv, copy, r

(* Between passes, and before the first, there is nothing to keep.         *)
LEMMA PassInvNext ==
    Inv /\ LoadInv /\ PassInv /\ [RenderNext]_renderVars => PassInv'
<1> SUFFICES ASSUME Inv, LoadInv, PassInv, [RenderNext]_renderVars PROVE PassInv'
  OBVIOUS
<1>1. ASSUME phase' \notin {"env", "rendered"} PROVE PassInv' BY <1>1 DEF PassInv
<1>2. CASE Scan
  <2>1. Next /\ phase' = phase BY <1>2 DEF Scan
  <2>2. loop # "done"
    BY <2>1 DEF Next, RuntimeNode, UnknownRuntimeNode, RuntimeFound, CountNode, Counted,
                DistNode, Surveyed, At, Ends
  <2>3. phase \notin {"env", "rendered"} BY <2>2 DEF PassInv
  <2> QED BY <1>1, <2>1, <2>3
<1>3. ASSUME NEW kind, Load(kind) PROVE PassInv'
  <2>1. phase' = "load" BY <1>3 DEF Load
  <2> QED BY <1>1, <2>1
<1>4. CASE LoadDaemonSet BY <1>3, <1>4 DEF LoadDaemonSet
<1>5. CASE LoadRuntimeClass BY <1>3, <1>5 DEF LoadRuntimeClass
<1>6. CASE LoadOther BY <1>3, <1>6 DEF LoadOther
<1>7. CASE LoadEnds BY <1>1, <1>7 DEF LoadEnds
<1>8. CASE \E k \in 1..Len(daemonsets), c \in Configs : Begin(k, c)
  BY <1>8, BeginKeeps
<1>9. CASE SetContainerEnv BY <1>9, SetContainerEnvKeeps
<1>10. CASE AppendContainerEnv BY <1>10, AppendContainerEnvKeeps
<1>11. CASE Finish BY <1>11, FinishKeeps
<1>12. CASE Submit BY <1>1, <1>12 DEF Submit
<1>13. CASE UNCHANGED renderVars
  <2>1. UNCHANGED <<vars, phase, loading, rendering>> BY <1>13 DEF renderVars
  <2> QED BY <2>1 DEF vars, loading, rendering, PassInv, Finished, ToolkitArgs,
                      Listed, Before, GetRuntime, RunsOn
<1> QED BY <1>2, <1>4, <1>5, <1>6, <1>7, <1>8, <1>9, <1>10, <1>11, <1>12, <1>13
        DEF RenderNext

(* Loading and rendering do not touch what the node loops work on.         *)
LEMMA ScansOnly == [RenderNext]_renderVars => [Next]_vars
<1> SUFFICES ASSUME [RenderNext]_renderVars, ~UNCHANGED vars PROVE Next OBVIOUS
<1>1. CASE RenderNext
  BY <1>1 DEF RenderNext, Scan, LoadDaemonSet, LoadRuntimeClass, LoadOther, Load, LoadEnds,
              Begin, SetContainerEnv, AppendContainerEnv, AtEnv, Finish, Submit
<1>2. CASE UNCHANGED renderVars BY <1>2 DEF renderVars
<1> QED BY <1>1, <1>2

(* init with its manifests and passes goes through the node list as the    *)
(* loops alone do: it implements NodeScan, and has its invariants.         *)
THEOREM RenderImplementsScan == RenderSpec => Spec /\ []LoopInv /\ []ScanCorrect
<1>1. RenderInit => Init BY DEF RenderInit
<1>2. RenderSpec => Spec BY <1>1, ScansOnly, PTL DEF RenderSpec, Spec
<1> QED BY <1>2, LoopsAgree, ScanIsCorrect, PTL

(* The invariant holds in the beginning and after every step.              *)
LEMMA RenderInvariant == RenderSpec => []RenderInv
<1>1. RenderInit => RenderInv
  <2>1. RenderInit => Init /\ phase = "load" BY DEF RenderInit
  <2>2. phase = "load" => PassInv BY DEF PassInv
  <2> QED BY <2>1, <2>2, InvInit, LoadInvInit DEF RenderInv
<1>2. RenderInv /\ [RenderNext]_renderVars => RenderInv'
  BY ScansOnly, InvNext, LoadInvNext, PassInvNext DEF RenderInv
<1> QED BY <1>1, <1>2, PTL DEF RenderSpec

(* After its last variable the policy has said all it says.                *)
LEMMA ValueAtEnd ==
    ASSUME NEW c, c.env \in Seq(EnvVars), NEW name, NEW manifest
    PROVE  ValueBefore(name, manifest, c, Len(c.env) + 1) = ValueOf(name, manifest, c)
<1> DEFINE set == {m \in Named(c.env, name) : m < Len(c.env) + 1}
<1>1. Len(c.env) \in Nat OBVIOUS
<1>2. set = Named(c.env, name) BY <1>1 DEF Named
<1> HIDE DEF set
<1>3. ValueBefore(name, manifest, c, Len(c.env) + 1) =
        IF set # {} THEN c.env[Greatest(set)].value
        ELSE manifest.env[First(Named(manifest.env, name))].value
  BY Zenon DEF ValueBefore, set
<1> QED BY <1>2, <1>3, Zenon DEF ValueOf

(* Once all variables are set the environment is the one that manifest and *)
(* policy decide.                                                          *)
LEMMA OverriddenLast ==
    ASSUME NEW manifest, NEW c, c.env \in Seq(EnvVars),
           NEW env, Overridden(env, manifest, c, Len(c.env) + 1)
    PROVE  env = RenderedEnv(manifest, c)
<1> DEFINE name(p) == NameAt(manifest, c, p)
           rendered(p) == [name |-> name(p), value |-> ValueOf(name(p), manifest, c)]
           n == Len(manifest.env) + Cardinality(Added(manifest, c))
<1>1. RenderedEnv(manifest, c) = [p \in 1..n |-> rendered(p)] BY Zenon DEF RenderedEnv
<1>2. env \in Seq(EnvVars) /\ Len(env) = n
  <2>1. Below(Added(manifest, c), Len(c.env) + 1) = Added(manifest, c) BY AddedPositions
  <2>2. env \in Seq(EnvVars)
          /\ Len(env) = Len(manifest.env) + Cardinality(Below(Added(manifest, c), Len(c.env) + 1))
    BY DEF Overridden
  <2> QED BY <2>1, <2>2
<1> HIDE DEF n
<1>3. ASSUME NEW m \in 1..Len(env) PROVE env[m] = rendered(m)
  <2>1. env[m] \in EnvVars BY <1>2
  <2>2. env[m] = [name |-> env[m].name, value |-> env[m].value] BY <2>1 DEF EnvVars
  <2>3. /\ env[m].name = name(m)
        /\ env[m].value = ValueBefore(env[m].name, manifest, c, Len(c.env) + 1)
    BY DEF Overridden
  <2>4. env[m].value = ValueOf(name(m), manifest, c) BY <2>3, ValueAtEnd
  <2> HIDE DEF name
  <2> QED BY <2>2, <2>3, <2>4
<1> HIDE DEF rendered
<1>4. env = [m \in 1..Len(env) |-> env[m]] BY <1>2
<1> QED BY <1>1, <1>2, <1>3, <1>4

(* What is sent is the finished copy of a manifest file.                   *)
LEMMA Sent ==
    ASSUME RenderInv, phase = "rendered"
    PROVE  /\ config \in Configs /\ config.env \in Seq(EnvVars)
           /\ Fields \subseteq DOMAIN DaemonSetFiles[from]
           /\ DaemonSetFiles[from].volumes \o <<>> = DaemonSetFiles[from].volumes
           /\ Overridden(obj.env, DaemonSetFiles[from], config, Len(config.env) + 1)
           /\ obj = Finished(Copy(DaemonSetFiles[from], config, obj.env), config,
                             GetRuntime(Listed, spec))
<1>1. daemonsets = DaemonSetFiles BY AllLoaded DEF RenderInv
<1>2. /\ config \in Configs /\ e = Len(config.env) + 1 /\ from \in 1..Len(daemonsets)
      /\ Overridden(obj.env, daemonsets[from], config, e)
      /\ obj = Finished(Copy(daemonsets[from], config, obj.env), config,
                        GetRuntime(Listed, spec))
  BY DEF RenderInv, PassInv
<1>3. config.env \in Seq(EnvVars) BY <1>2, RenderingAssumption
<1>4. /\ Fields \subseteq DOMAIN daemonsets[from]
      /\ daemonsets[from].volumes \o <<>> = daemonsets[from].volumes
  BY <1>2, LoadedManifest DEF RenderInv
<1> QED BY <1>1, <1>2, <1>3, <1>4

(* Every DaemonSet that is sent has each variable of its manifest and of   *)
(* the policy once, with the last value of the policy or else that of the  *)
(* file, the secrets of both and the mounts for the runtime of the nodes,  *)
(* however many passes came before and whatever they rendered.             *)
THEOREM RenderIsCorrect == RenderSpec => []RenderCorrect
<1>1. RenderInv => RenderCorrect
  <2> SUFFICES ASSUME RenderInv, phase = "rendered" PROVE RenderCorrect
    BY DEF RenderCorrect
  <2> DEFINE manifest == DaemonSetFiles[from]
             r == GetRuntime(Listed, spec)
             copy == Copy(manifest, config, obj.env)
  <2>1. /\ config.env \in Seq(EnvVars)
        /\ Overridden(obj.env, manifest, config, Len(config.env) + 1)
        /\ obj = Finished(copy, config, r)
        /\ manifest.volumes \o <<>> = manifest.volumes
    BY Sent
  <2>2. Copied(copy, manifest, config, obj.env)
    <3>1. Fields \subseteq DOMAIN manifest BY Sent
    <3> QED BY <3>1, CopyFields
  <2>3. Len(config.env) \in Nat /\ (Len(config.env) + 1) - 1 = Len(config.env) BY <2>1
  <2> HIDE DEF manifest, r, copy
  <2>4. VariablesOf(obj.env) = VariablesOf(manifest.env) \cup VariablesOf(config.env)
    <3>1. VariablesOf(obj.env) = VariablesOf(manifest.env)
                  \cup {config.env[m].name : m \in 1..((Len(config.env) + 1) - 1)}
      BY <2>1 DEF Overridden
    <3> QED BY <2>3, <3>1 DEF VariablesOf
  <2>5. Cardinality(VariablesOf(obj.env)) = Len(obj.env)
    BY <2>1, VariablesCounted DEF Overridden
  <2>6. \A m \in 1..Len(obj.env) :
           obj.env[m].value = ValueOf(obj.env[m].name, manifest, config)
    BY <2>1, ValueAtEnd DEF Overridden
  <2>7. /\ Fields \subseteq DOMAIN copy /\ copy.name = manifest.name
        /\ copy.secrets = manifest.secrets \o config.secrets
        /\ copy.volumes = manifest.volumes /\ copy.selector = manifest.selector
    BY <2>2, Zenon DEF Copied
  <2>8. Completed(obj, copy, config, r) BY <2>1, <2>7, FinishedIs
  <2>9. /\ obj.secrets = manifest.secrets \o config.secrets
        /\ obj.selector = WithFPGALabels(manifest.selector)
        /\ manifest.name = ContainerRuntimeDS => obj.args = ToolkitArgs(config, r)
    BY <2>7, <2>8, Zenon DEF Completed
  <2>10. obj.volumes = manifest.volumes \o
            IF manifest.name = ContainerRuntimeDS THEN RuntimeVolumes(config, r) ELSE <<>>
    <3>1. CASE manifest.name = ContainerRuntimeDS
      BY <2>7, <2>8, <3>1, Zenon DEF Completed
    <3>2. CASE manifest.name # ContainerRuntimeDS
      BY <2>1, <2>7, <2>8, <3>2, Zenon DEF Completed
    <3> QED BY <3>1, <3>2
  <2> QED BY <2>4, <2>5, <2>6, <2>9, <2>10, Zenon DEF RenderCorrect, manifest, r
<1> QED BY <1>1, RenderInvariant, PTL

(* Manifest, policy and node list decide what is sent in every field and   *)
(* in the order of the variables: two passes over the same never differ,   *)
(* and the hash that isDaemonsetSpecChanged compares stays the same.       *)
THEOREM RenderIsStable == RenderSpec => []RenderStable
<1>1. RenderInv => RenderStable
  <2> SUFFICES ASSUME RenderInv, phase = "rendered" PROVE RenderStable
    BY DEF RenderStable
  <2> DEFINE manifest == DaemonSetFiles[from]
  <2>1. /\ config.env \in Seq(EnvVars)
        /\ Overridden(obj.env, manifest, config, Len(config.env) + 1)
        /\ obj = Finished(Copy(manifest, config, obj.env), config, GetRuntime(Listed, spec))
    BY Sent
  <2>2. obj.env = RenderedEnv(manifest, config) BY <2>1, OverriddenLast
  <2>3. obj = Finished(Copy(manifest, config, RenderedEnv(manifest, config)), config,
                       GetRuntime(Listed, spec))
    BY <2>1, <2>2
  <2> QED BY <2>3, Zenon DEF RenderStable, Copy
<1> QED BY <1>1, RenderInvariant, PTL
==============================================================================
