----------------------------- MODULE ReleaseProofs -----------------------------
(***************************************************************************)
(* Proofs about Release, for any folders, pushes and numbers of runs.      *)
(***************************************************************************)
EXTENDS Release, SemVerProofs

USE DEF Bump, BumpNone, BumpPatch, BumpMinor, BumpMajor

-----------------------------------------------------------------------------
(***************************************************************************)
(* The operators keep to their types.                                      *)
(***************************************************************************)

\* A set of bumps has a greatest one.
LEMMA MaxOfBumps ==
    ASSUME NEW S \in SUBSET Bump, S # {}
    PROVE  Max(S) \in S /\ \A b \in S : b <= Max(S)
<1>1. \E x \in S : \A y \in S : x >= y
  <2>1. S \subseteq {0, 1, 2, 3}
    OBVIOUS
  <2>2. CASE 3 \in S
    BY <2>1, <2>2
  <2>3. CASE 3 \notin S /\ 2 \in S
    BY <2>1, <2>3
  <2>4. CASE 3 \notin S /\ 2 \notin S /\ 1 \in S
    BY <2>1, <2>4
  <2>5. CASE 3 \notin S /\ 2 \notin S /\ 1 \notin S
    <3>1. S = {0}
      BY <2>1, <2>5
    <3> QED
      BY <3>1
  <2> QED
    BY <2>2, <2>3, <2>4, <2>5
<1>2. Max(S) \in S /\ \A y \in S : Max(S) >= y
  BY <1>1 DEF Max
<1> QED
  BY <1>2

\* Every bump of a version is a version again.
LEMMA ApplyBumpType ==
    ASSUME NEW v \in Version \cup {Absent}, NEW b \in Bump
    PROVE  ApplyBump(v, b) \in Version
<1>1. CASE b = 0
  BY <1>1, ParseType DEF ApplyBump
<1>2. CASE b # 0
  BY <1>2, ApplyBumpNumbers
<1> QED
  BY <1>1, <1>2

\* calcBumpType returns one of its four constants, and none for equal texts only.
LEMMA CalcBumpType ==
    ASSUME NEW v, NEW w
    PROVE  CalcBump(v, w) \in Bump /\ (CalcBump(v, w) = 0 => v = w)
BY DEF CalcBump

\* What the developers push is a tree.
LEMMA TreeAfterType ==
    ASSUME NEW e \in Pushes, NEW t \in Tree
    PROVE  /\ TreeAfter(e, t) \in Tree
           /\ TreeAfter(e, t).reg = t.reg
           /\ \A f \in Folder :
                 /\ TreeAfter(e, t).manifest[f] = ManifestAfter(e[f], t.manifest[f])
                 /\ TreeAfter(e, t).code[f] =
                       IF ChangesCode(e[f]) THEN t.code[f] + 1 ELSE t.code[f]
<1>1. \A f \in Folder : e[f] \in Edit /\ t.manifest[f] \in Version \cup {Absent}
                        /\ t.code[f] \in Nat
  BY FoldersAssumption DEF Tree, Manifests
<1>2. \A f \in Folder : ManifestAfter(e[f], t.manifest[f]) \in Version \cup {Absent}
  <2> TAKE f \in Folder
  <2>1. e[f].manifest \in {"kept", "new", "gone", "patch", "minor", "major"}
    BY <1>1 DEF Edit
  <2>2. \A b \in 1 .. 3 : ApplyBump(t.manifest[f], b) \in Version
    BY <1>1, ApplyBumpNumbers
  <2> QED
    BY <1>1, <2>1, <2>2, FoldersAssumption DEF ManifestAfter
<1> DEFINE M == [f \in Folder |-> ManifestAfter(e[f], t.manifest[f])]
           C == [f \in Folder |-> IF ChangesCode(e[f]) THEN t.code[f] + 1 ELSE t.code[f]]
<1>3. M \in Manifests /\ C \in [Folder -> Nat]
  BY <1>1, <1>2 DEF Manifests
<1>4. TreeAfter(e, t) = [t EXCEPT !.manifest = M, !.code = C]
  BY DEF TreeAfter
<1> HIDE DEF M, C
<1>5. TreeAfter(e, t) \in Tree /\ TreeAfter(e, t).reg = t.reg
      /\ TreeAfter(e, t).manifest = M /\ TreeAfter(e, t).code = C
  BY <1>3, <1>4 DEF Tree
<1> QED
  BY <1>5 DEF M, C

-----------------------------------------------------------------------------
(***************************************************************************)
(* A run record, field by field.                                           *)
(***************************************************************************)

\* The types of the fields.
LEMMA RunFields ==
    ASSUME NEW r \in RunState
    PROVE  /\ r.step \in Steps /\ r.edit \in [Folder -> Edit] /\ r.edit \in Pushes
           /\ r.before \in Tree /\ r.tree \in Tree /\ r.work \in Tree
           /\ r.bumps \in ChipBumps /\ r.deleted \in BOOLEAN
           /\ r.version \in Version /\ r.at \in Nat
BY FoldersAssumption DEF RunState

\* What semver_calc finds for one folder.
LEMMA OwnType ==
    ASSUME NEW r \in RunState, NEW f \in Folder
    PROVE  /\ OwnBump(r, f) \in Bump
           /\ OwnVersion(r, f) \in Version \cup {Absent}
           /\ r.tree.manifest[f] # Absent =>
                 /\ OwnVersion(r, f) \in Version
                 /\ ~Earlier(OwnVersion(r, f), r.tree.manifest[f])
<1>1. /\ r.before.manifest[f] \in Version \cup {Absent}
      /\ r.tree.manifest[f] \in Version \cup {Absent}
  BY RunFields DEF Tree, Manifests
<1>2. AutoBump(r.edit[f].files) \in 1 .. 3
  BY DEF AutoBump
<1>3. Declared(r, f) \in Bump
  BY CalcBumpType DEF Declared
<1>4. CASE Forgotten(r, f)
  <2>1. r.before.manifest[f] = r.tree.manifest[f]
    BY <1>4, CalcBumpType DEF Forgotten, Declared
  <2>2. OwnVersion(r, f) = ApplyBump(r.tree.manifest[f], AutoBump(r.edit[f].files))
    BY <1>4, <2>1 DEF OwnVersion
  <2>3. OwnVersion(r, f) \in Version /\ ~Earlier(OwnVersion(r, f), r.tree.manifest[f])
    BY <1>1, <1>2, <2>2, ApplyBumpNumbers, BumpIsLater
  <2>4. OwnBump(r, f) \in Bump
    BY <1>2, <1>4 DEF OwnBump
  <2> QED
    BY <2>3, <2>4
<1>5. CASE ~Forgotten(r, f)
  BY <1>1, <1>3, <1>5, NotEarlierItself DEF OwnVersion, OwnBump
<1> QED
  BY <1>4, <1>5

\* The bump of a chip is the highest of those it takes into account.
LEMMA ChipBumpType ==
    ASSUME NEW r \in RunState, NEW c \in Chip
    PROVE  /\ ChipBump(r, c) \in Bump
           /\ r.tree.manifest[c] # Absent =>
                 /\ ChipBump(r, c) \in {OwnBump(r, c)} \cup InheritedBumps(r, c)
                 /\ \A b \in {OwnBump(r, c)} \cup InheritedBumps(r, c) : b <= ChipBump(r, c)
<1>1. c \in Folder /\ Inherits[c] \subseteq Folder
  BY FoldersAssumption DEF Folder, Versioned
<1>2. {OwnBump(r, c)} \cup InheritedBumps(r, c) \in SUBSET Bump
  <2>1. BomBump(r, c) \in Bump
    BY DEF BomBump
  <2>2. \A b \in Inherits[c] : OwnBump(r, b) \in Bump
    BY <1>1, OwnType
  <2>3. OwnBump(r, c) \in Bump
    BY <1>1, OwnType
  <2> QED
    BY <2>1, <2>2, <2>3 DEF InheritedBumps
<1> QED
  BY <1>2, MaxOfBumps DEF ChipBump

\* What semver_calc leaves in the manifest of one folder: never an earlier
\* version than the push did, and no manifest comes or goes.
LEMMA CalculatedType ==
    ASSUME NEW r \in RunState, NEW f \in Folder
    PROVE  /\ CalculatedManifest(r, f) \in Version \cup {Absent}
           /\ CalculatedManifest(r, f) = Absent <=> r.tree.manifest[f] = Absent
           /\ ~Lowered(r.tree.manifest[f], CalculatedManifest(r, f))
<1>1. r.tree.manifest[f] \in Version \cup {Absent} /\ Absent \notin Version
  BY RunFields, VersionAssumption DEF Tree, Manifests
<1>2. CASE r.tree.manifest[f] = Absent
  BY <1>2 DEF CalculatedManifest, Lowered
<1>3. CASE r.tree.manifest[f] # Absent
  <2>1. /\ OwnVersion(r, f) \in Version
        /\ ~Earlier(OwnVersion(r, f), r.tree.manifest[f])
    BY <1>3, OwnType
  <2>2. CASE f \in Chip
    <3>1. CalculatedManifest(r, f) = ChipVersion(r, f)
      BY <1>3, <2>2 DEF CalculatedManifest
    <3>2. CASE ChipBump(r, f) > OwnBump(r, f)
      <4>1. ChipBump(r, f) \in 1 .. 3
        BY <3>2, <2>2, ChipBumpType, OwnType
      <4>2. ChipVersion(r, f) = ApplyBump(OwnVersion(r, f), ChipBump(r, f))
        BY <3>2 DEF ChipVersion
      <4>3. /\ ChipVersion(r, f) \in Version
            /\ ~Earlier(ChipVersion(r, f), OwnVersion(r, f))
        BY <4>1, <4>2, <2>1, ApplyBumpNumbers, BumpIsLater
      <4>4. ~Earlier(ChipVersion(r, f), r.tree.manifest[f])
        BY <1>1, <2>1, <4>3, EarlierTransitive
      <4> QED
        BY <1>1, <1>3, <3>1, <4>3, <4>4 DEF Lowered
    <3>3. CASE ~(ChipBump(r, f) > OwnBump(r, f))
      <4>1. CalculatedManifest(r, f) = OwnVersion(r, f)
        BY <3>1, <3>3 DEF ChipVersion
      <4> QED
        BY <1>1, <1>3, <2>1, <4>1 DEF Lowered
    <3> QED
      BY <3>2, <3>3
  <2>3. CASE f \notin Chip
    BY <1>1, <1>3, <2>1, <2>3, NotEarlierItself DEF CalculatedManifest, Lowered
  <2> QED
    BY <2>2, <2>3
<1> QED
  BY <1>2, <1>3

\* build_registry raises the version of the registry by a real bump, so it
\* never takes it back.
LEMMA BuiltType ==
    ASSUME NEW r \in RunState, NEW ecosystem \in SyncedEcosystems
    PROVE  LET reg == BuiltRegistry(r.work, RegistryBump(r), ecosystem)
           IN  /\ reg \in Registry
               /\ reg.entry = r.work.manifest
               /\ ~Lowered(r.work.reg.version, reg.version)
<1>1. r.work.reg \in Registry /\ r.work.manifest \in Manifests /\ r.work.reg.version \in Version
  BY RunFields DEF Tree, Registry
<1>2. ecosystem \in SUBSET Source
  BY DEF SyncedEcosystems
<1>3. RegistryBump(r) \in 1 .. 3
  <2>1. {BumpPatch} \cup {r.bumps[c] : c \in Chip} \in SUBSET Bump
    BY RunFields DEF ChipBumps
  <2> QED
    BY <2>1, MaxOfBumps DEF RegistryBump
<1>4. BumpVersion(r.work.reg.version, RegistryBump(r))
        = ApplyBump(r.work.reg.version, RegistryBump(r))
  BY <1>3 DEF BumpVersion
<1>5. /\ ApplyBump(r.work.reg.version, RegistryBump(r)) \in Version
      /\ ~Earlier(ApplyBump(r.work.reg.version, RegistryBump(r)), r.work.reg.version)
  BY <1>1, <1>3, ApplyBumpNumbers, BumpIsLater
<1>6. ~Earlier(r.work.reg.version, r.work.reg.version)
  BY <1>1, NotEarlierItself
<1> QED
  BY <1>1, <1>2, <1>4, <1>5, <1>6 DEF BuiltRegistry, Registry, Lowered

\* What a rebase leaves is one side or the other, line by line.
LEMMA MergeType ==
    ASSUME NEW base \in Tree, NEW ours \in Tree, NEW theirs \in Tree
    PROVE  LET t == MergeTree(base, ours, theirs)
           IN  /\ t \in Tree
               /\ t.code = ours.code
               /\ t.reg.version =
                     Merge(base.reg.version, ours.reg.version, theirs.reg.version)
               /\ \A f \in Folder :
                     /\ t.manifest[f] = Merge(base.manifest[f], ours.manifest[f],
                                              theirs.manifest[f])
                     /\ t.reg.entry[f] = Merge(base.reg.entry[f], ours.reg.entry[f],
                                               theirs.reg.entry[f])
<1> DEFINE M == [f \in Folder |->
                   Merge(base.manifest[f], ours.manifest[f], theirs.manifest[f])]
           E == [f \in Folder |->
                   Merge(base.reg.entry[f], ours.reg.entry[f], theirs.reg.entry[f])]
           V == Merge(base.reg.version, ours.reg.version, theirs.reg.version)
           S == Merge(base.reg.ecosystem, ours.reg.ecosystem, theirs.reg.ecosystem)
<1>1. \A t \in {ours, theirs} :
         /\ t.manifest \in Manifests /\ t.reg.entry \in Manifests
         /\ t.reg.version \in Version /\ t.reg.ecosystem \in SUBSET Source
         /\ t.code \in [Folder -> Nat]
  BY DEF Tree, Registry
<1>2. M \in Manifests /\ E \in Manifests
  BY <1>1 DEF Manifests, Merge
<1>3. V \in Version /\ S \in SUBSET Source
  BY <1>1 DEF Merge
<1>4. MergeTree(base, ours, theirs) =
         [manifest |-> M, code |-> ours.code,
          reg |-> [version |-> V, entry |-> E, ecosystem |-> S]]
  BY DEF MergeTree
<1> HIDE DEF M, E, V, S
<1>5. LET t == MergeTree(base, ours, theirs)
      IN  t \in Tree /\ t.code = ours.code /\ t.reg.version = V
          /\ t.manifest = M /\ t.reg.entry = E
  BY <1>1, <1>2, <1>3, <1>4 DEF Tree, Registry
<1> QED
  BY <1>5 DEF M, E, V

-----------------------------------------------------------------------------
(***************************************************************************)
(* Each step of a run replaces the record of that run alone.               *)
(***************************************************************************)

\* The run of push i becomes r.
Becomes(i, r) == r \in RunState /\ runs' = [runs EXCEPT ![i] = r]

\* What no step of a run changes: the commits it compares.
SameCommits(r, q) == q.edit = r.edit /\ q.before = r.before /\ q.tree = r.tree

SameTree(r, q) == SameCommits(r, q) /\ q.at = r.at

\* semver_calc works on the manifests and hands over the bumps of the chips.
LEMMA CalculateEffect ==
    ASSUME TypeOK, NEW i \in Run, Calculate(i)
    PROVE  \E q : /\ Becomes(i, q) /\ SameTree(runs[i], q)
                  /\ q.step = "calculated"
                  /\ q.work.reg = runs[i].work.reg
                  /\ q.bumps = [c \in Chip |-> ChipBump(runs[i], c)]
                  /\ q.deleted = ChipVanished(runs[i])
                  /\ \A f \in Folder :
                        q.work.manifest[f] = CalculatedManifest(runs[i], f)
<1> DEFINE r == runs[i]
           M == [f \in Folder |-> CalculatedManifest(r, f)]
           B == [c \in Chip |-> ChipBump(r, c)]
           D == ChipVanished(r)
           q == [r EXCEPT !.step = "calculated", !.work = [@ EXCEPT !.manifest = M],
                          !.bumps = B, !.deleted = D]
<1>1. r \in RunState
  BY DEF TypeOK, Calculate, At, Active
<1>2. M \in Manifests /\ B \in ChipBumps /\ D \in BOOLEAN
  BY <1>1, CalculatedType, ChipBumpType DEF Manifests, ChipBumps, ChipVanished
<1>3. runs' = [runs EXCEPT ![i] = q]
  BY DEF Calculate, TypeOK
<1> HIDE DEF M, B, D
<1>4. /\ q \in RunState /\ SameTree(r, q) /\ q.step = "calculated"
      /\ q.work.reg = r.work.reg /\ q.work.manifest = M /\ q.bumps = B /\ q.deleted = D
  BY <1>1, <1>2 DEF RunState, Steps, Tree, SameTree, SameCommits
<1>5. /\ \A f \in Folder : q.work.manifest[f] = CalculatedManifest(r, f)
      /\ q.bumps = [c \in Chip |-> ChipBump(r, c)] /\ q.deleted = ChipVanished(r)
  BY <1>4 DEF M, B, D
<1> HIDE DEF q
<1> QED
  BY <1>3, <1>4, <1>5 DEF Becomes

\* build_registry works on registry.json alone.
LEMMA BuildEffect ==
    ASSUME TypeOK, NEW i \in Run, Build(i)
    PROVE  \E q : /\ Becomes(i, q) /\ SameTree(runs[i], q)
                  /\ q.step = "built"
                  /\ q.work.manifest = runs[i].work.manifest
                  /\ q.work.reg.entry = runs[i].work.manifest
                  /\ ~Lowered(runs[i].work.reg.version, q.work.reg.version)
                  /\ \E ecosystem \in SyncedEcosystems :
                        q.work.reg = BuiltRegistry(runs[i].work, RegistryBump(runs[i]),
                                                   ecosystem)
<1> DEFINE r == runs[i]
<1>1. r \in RunState
  BY DEF TypeOK, Build, At, Active
<1>2. PICK ecosystem \in SyncedEcosystems :
        runs' = [runs EXCEPT ![i].step = "built",
                   ![i].work.reg = BuiltRegistry(r.work, RegistryBump(r), ecosystem)]
  BY DEF Build
<1> DEFINE G == BuiltRegistry(r.work, RegistryBump(r), ecosystem)
           q == [r EXCEPT !.step = "built", !.work = [@ EXCEPT !.reg = G]]
<1>3. /\ G \in Registry /\ G.entry = r.work.manifest
      /\ ~Lowered(r.work.reg.version, G.version)
  BY <1>1, BuiltType
<1>4. runs' = [runs EXCEPT ![i] = q]
  BY <1>2 DEF TypeOK
<1> HIDE DEF G
<1>5. /\ q \in RunState /\ SameTree(r, q) /\ q.step = "built"
      /\ q.work.manifest = r.work.manifest /\ q.work.reg = G
  BY <1>1, <1>3 DEF RunState, Steps, Tree, SameTree, SameCommits
<1>6. \E e \in SyncedEcosystems : q.work.reg = BuiltRegistry(r.work, RegistryBump(r), e)
  BY <1>5 DEF G
<1> HIDE DEF q
<1> QED
  BY <1>3, <1>4, <1>5, <1>6 DEF Becomes

\* What is committed differs only where the workflow versions nothing.
LEMMA CommitEffect ==
    ASSUME TypeOK, NEW i \in Run, Commit(i)
    PROVE  \E q : /\ Becomes(i, q) /\ SameTree(runs[i], q)
                  /\ q.step = "committed"
                  /\ q.work.reg = runs[i].work.reg /\ q.version = runs[i].work.reg.version
                  /\ \A f \in Folder :
                        q.work.manifest[f] = IF f \in Integration THEN runs[i].tree.manifest[f]
                                             ELSE runs[i].work.manifest[f]
                  /\ \A f \in Versioned :
                        q.work.manifest[f] = runs[i].work.manifest[f]
<1> DEFINE r == runs[i]
           M == [f \in Folder |-> IF f \in Integration THEN r.tree.manifest[f]
                                  ELSE r.work.manifest[f]]
           V == r.work.reg.version
           q == [r EXCEPT !.step = "committed", !.version = V,
                          !.work = [@ EXCEPT !.manifest = M]]
<1>1. r \in RunState
  BY DEF TypeOK, Commit, At, Active
<1>2. M \in Manifests /\ V \in Version
  BY <1>1, RunFields DEF Tree, Manifests, Registry
<1>3. runs' = [runs EXCEPT ![i] = q]
  BY <1>1 DEF Commit, TypeOK, RunState, Tree
<1>4. \A f \in Versioned : M[f] = r.work.manifest[f]
  BY FoldersAssumption DEF Folder
<1> HIDE DEF M, V
<1>5. /\ q \in RunState /\ SameTree(r, q) /\ q.step = "committed"
      /\ q.work.reg = r.work.reg /\ q.work.manifest = M /\ q.version = V
  BY <1>1, <1>2 DEF RunState, Steps, Tree, SameTree, SameCommits
<1>6. /\ \A f \in Folder : q.work.manifest[f] = IF f \in Integration THEN r.tree.manifest[f]
                                                ELSE r.work.manifest[f]
      /\ q.version = r.work.reg.version
  BY <1>5 DEF M, V
<1> HIDE DEF q
<1> QED
  BY <1>3, <1>4, <1>5, <1>6 DEF Becomes

\* A rebased run holds the merged tree.
LEMMA RebaseEffect ==
    ASSUME TypeOK, NEW i \in Run, Rebase(i)
    PROVE  \E q : /\ Becomes(i, q) /\ SameCommits(runs[i], q) /\ q.at = seq
                  /\ q.step = "rebased" /\ q.version = runs[i].version
                  /\ q.work = MergeTree(runs[i].tree, main, runs[i].work)
<1> DEFINE r == runs[i]
           W == MergeTree(r.tree, main, r.work)
           q == [r EXCEPT !.step = "rebased", !.at = seq, !.work = W]
<1>1. r \in RunState
  BY DEF TypeOK, Rebase, At, Active
<1>2. W \in Tree /\ seq \in Nat
  BY <1>1, RunFields, MergeType DEF TypeOK
<1>3. runs' = [runs EXCEPT ![i] = q]
  BY DEF Rebase, TypeOK
<1> HIDE DEF W
<1>4. /\ q \in RunState /\ SameCommits(r, q) /\ q.at = seq /\ q.step = "rebased"
      /\ q.work = W /\ q.version = r.version
  BY <1>1, <1>2 DEF RunState, Steps, Tree, SameCommits
<1> QED
  BY <1>3, <1>4 DEF Becomes, W

\* A run that has pushed keeps everything but its step.
LEMMA PushMainEffect ==
    ASSUME TypeOK, NEW i \in Run, PushMain(i)
    PROVE  \E q : /\ Becomes(i, q) /\ SameTree(runs[i], q)
                  /\ q.step = "pushed" /\ q.work = runs[i].work
                  /\ q.version = runs[i].version
<1> DEFINE q == [runs[i] EXCEPT !.step = "pushed"]
<1>1. runs[i] \in RunState
  BY DEF TypeOK, PushMain, At, Active
<1>2. runs' = [runs EXCEPT ![i] = q]
  BY DEF TypeOK, PushMain
<1>3. /\ q \in RunState /\ SameTree(runs[i], q) /\ q.step = "pushed"
      /\ q.work = runs[i].work /\ q.version = runs[i].version
  BY <1>1 DEF RunState, Steps, SameTree, SameCommits
<1> HIDE DEF q
<1> QED
  BY <1>2, <1>3 DEF Becomes

\* The variables a step of one run may change, other than runs, keep their types.
LEMMA OneRunType ==
    ASSUME TypeOK, NEW i \in Run, runs[i] \notin Idle, NEW q, Becomes(i, q),
           main' \in Tree, seq' \in Nat, pushes' = pushes, touched' = touched,
           tags' \subseteq [name : Version, reg : Registry],
           faults' \in Nat, lost' \subseteq Folder
    PROVE  TypeOK'
BY DEF TypeOK, Becomes, Idle

\* The same when the run ends.
LEMMA EndType ==
    ASSUME TypeOK, NEW i \in Run, runs[i] \notin Idle, NEW e \in {Done, Failed},
           runs' = [runs EXCEPT ![i] = e],
           main' = main, seq' = seq, pushes' = pushes, touched' = touched,
           tags' \subseteq [name : Version, reg : Registry],
           faults' \in Nat, lost' \subseteq Folder
    PROVE  TypeOK'
<1>1. runs' \in [Run -> RunState \cup Idle]
  BY DEF TypeOK, Idle
<1>2. \A j \in Run : j > pushes' => runs'[j] = NoRun
  BY DEF TypeOK, Idle
<1> QED
  BY <1>1, <1>2 DEF TypeOK

\* A push leaves every variable in its type.
LEMMA PushType ==
    ASSUME TypeOK, NEW e \in Pushes, Push(e)
    PROVE  TypeOK'
<1> DEFINE T == TreeAfter(e, main)
           q == [step |-> "checkedOut", edit |-> e, before |-> main, tree |-> T,
                 work |-> T, bumps |-> [c \in Chip |-> BumpNone], deleted |-> FALSE,
                 version |-> main.reg.version, at |-> seq + 1]
<1>1. T \in Tree
  BY TreeAfterType DEF TypeOK
<1>2. main.reg.version \in Version
  BY DEF TypeOK, Tree, Registry
<1>3. runs' = IF Triggers(e) THEN [runs EXCEPT ![pushes + 1] = q] ELSE runs
  BY DEF Push
<1>4. main' = T /\ seq' = seq + 1 /\ pushes' = pushes + 1 /\ pushes < MaxPushes
  BY DEF Push
<1> HIDE DEF T
<1>5. q \in RunState
  BY <1>1, <1>2 DEF RunState, Steps, ChipBumps, TypeOK
<1>6. touched' \in [Folder -> Version \cup {Absent, Never}]
  BY DEF Push, TypeOK, Tree, Manifests
<1> HIDE DEF q
<1>7. runs' \in [Run -> RunState \cup Idle]
      /\ \A i \in Run : i > pushes' => runs'[i] = NoRun
  BY <1>3, <1>4, <1>5, FoldersAssumption DEF TypeOK, Run
<1> QED
  BY <1>1, <1>4, <1>6, <1>7, FoldersAssumption DEF Push, TypeOK

\* So does every step of a run.
LEMMA ProceedType ==
    ASSUME TypeOK, NEW i \in Run, Proceed(i) \/ Die(i)
    PROVE  TypeOK'
<1>1. /\ main \in Tree /\ seq \in Nat /\ faults \in Nat /\ lost \subseteq Folder
      /\ tags \subseteq [name : Version, reg : Registry]
  BY DEF TypeOK
<1>2. CASE Calculate(i)
  BY <1>1, <1>2, CalculateEffect, OneRunType DEF Calculate, At, Active
<1>3. CASE Build(i)
  BY <1>1, <1>3, BuildEffect, OneRunType DEF Build, At, Active
<1>4. CASE BuildFails(i)
  BY <1>1, <1>4, EndType DEF BuildFails, Fails, At, Active
<1>5. CASE Commit(i)
  BY <1>1, <1>5, CommitEffect, OneRunType DEF Commit, At, Active
<1>6. CASE NothingToCommit(i)
  BY <1>1, <1>6, EndType DEF NothingToCommit, At, Active
<1>7. CASE Rebase(i)
  BY <1>1, <1>7, RebaseEffect, OneRunType DEF Rebase, At, Active
<1>8. CASE RebaseFails(i)
  BY <1>1, <1>8, EndType DEF RebaseFails, Fails, At, Active
<1>9. CASE PushMain(i)
  <2>1. runs[i].work \in Tree /\ runs[i] \notin Idle
    BY <1>9, RunFields DEF PushMain, At, Active, TypeOK
  <2>2. \E q : Becomes(i, q)
    BY <1>9, PushMainEffect
  <2>3. main' \in Tree /\ seq' \in Nat
    BY <1>1, <1>9, <2>1 DEF PushMain
  <2> QED
    BY <1>1, <1>9, <2>1, <2>2, <2>3, OneRunType DEF PushMain
<1>10. CASE PushRejected(i)
  BY <1>1, <1>10, EndType DEF PushRejected, Fails, At, Active
<1>11. CASE Tag(i)
  <2>1. /\ runs[i] \notin Idle /\ runs[i].version \in Version
        /\ runs[i].work.reg \in Registry
    BY <1>11, RunFields DEF Tag, At, Active, TypeOK, Tree
  <2>2. tags' \subseteq [name : Version, reg : Registry]
    BY <1>1, <1>11, <2>1 DEF Tag
  <2> QED
    BY <1>1, <1>11, <2>1, <2>2, EndType DEF Tag
<1>12. CASE Die(i)
  <2>1. runs[i] \notin Idle /\ faults' \in Nat
    BY <1>1, <1>12 DEF Die, Active
  <2>2. CASE runs[i].step = "pushed"
    BY <1>1, <1>12, <2>1, <2>2, EndType DEF Die
  <2>3. CASE runs[i].step # "pushed"
    BY <1>1, <1>12, <2>1, <2>3, EndType DEF Die, Fails
  <2> QED
    BY <2>2, <2>3
<1> QED
  BY <1>2, <1>3, <1>4, <1>5, <1>6, <1>7, <1>8, <1>9, <1>10, <1>11, <1>12 DEF Proceed

\* Every variable of the release keeps its type; a version is always three
\* natural numbers and a suffix, whatever bumps are applied to it.
THEOREM TypeCorrect == Spec => []TypeOK
<1>1. Init => TypeOK
  BY FoldersAssumption DEF Init, TypeOK, Tree, Registry, Manifests, Idle
<1>2. TypeOK /\ [Next]_vars => TypeOK'
  <2>1. TypeOK /\ Next => TypeOK'
    BY PushType, ProceedType DEF Next, ReleaseStep, Elsewhere, TypeOK
  <2>2. TypeOK /\ UNCHANGED vars => TypeOK'
    BY DEF TypeOK, vars
  <2> QED
    BY <2>1, <2>2
<1> QED
  BY <1>1, <1>2, PTL DEF Spec

-----------------------------------------------------------------------------
(***************************************************************************)
(* Nothing regresses.  Each commit a run may push is at least as new as    *)
(* main: by the time it is pushed no line of it, the ones that the rebase  *)
(* took from main and the ones it kept, is older than the line it stands   *)
(* for.  The argument needs that an entry of registry.json is never newer  *)
(* than the manifest it was made from, so that an entry rebuilt from a     *)
(* manifest is not older either.                                           *)
(***************************************************************************)

\* In one tree: no manifest is older than its entry, and a folder that never
\* existed has none.
InOrder(t) ==
    \A f \in Versioned :
        /\ ~Lowered(t.reg.entry[f], t.manifest[f])
        /\ t.manifest[f] = Absent /\ t.code[f] = 0 => t.reg.entry[f] = Absent

\* Tree u may become main after t: versions are kept or raised, and the name
\* of a removed folder stays unused.
Follows(t, u) ==
    /\ ~Lowered(t.reg.version, u.reg.version)
    /\ \A f \in Versioned :
          /\ ~Lowered(t.manifest[f], u.manifest[f])
          /\ ~Lowered(t.reg.entry[f], u.reg.entry[f])
          /\ t.code[f] <= u.code[f]
          /\ t.manifest[f] # Absent => u.manifest[f] # Absent \/ u.code[f] > 0
          /\ t.manifest[f] = Absent /\ t.code[f] > 0 => u.manifest[f] = Absent

\* The commit a run checked out is in the past of main.
Outlived(t, m) ==
    \A f \in Versioned :
        /\ ~Lowered(t.manifest[f], m.manifest[f])
        /\ t.manifest[f] # Absent => m.manifest[f] # Absent \/ m.code[f] > 0

\* What semver_calc did to the manifests.
Raised(t, w) ==
    \A f \in Versioned :
        /\ ~Lowered(t.manifest[f], w.manifest[f])
        /\ w.manifest[f] = Absent <=> t.manifest[f] = Absent

\* What build_registry did to the index.
Indexed(t, w) ==
    /\ ~Lowered(t.reg.version, w.reg.version)
    /\ \A f \in Versioned : w.reg.entry[f] = w.manifest[f]

RunInv(r, m, s) ==
    /\ InOrder(r.tree) /\ Outlived(r.tree, m) /\ r.at <= s
    /\ r.step \in {"checkedOut", "calculated", "built", "committed"} =>
          Raised(r.tree, r.work)
    /\ r.step \in {"checkedOut", "calculated"} => r.work.reg = r.tree.reg
    /\ r.step \in {"built", "committed"} => Indexed(r.tree, r.work)
    /\ r.step = "rebased" /\ r.at = s => InOrder(r.work) /\ Follows(m, r.work)

ReleaseInv ==
    /\ TypeOK
    /\ InOrder(main)
    /\ \A i \in Run : runs[i] \notin Idle => RunInv(runs[i], main, seq)

\* Versions that are not lowered, one after the other.
LEMMA LoweredChain ==
    ASSUME NEW a \in Version \cup {Absent}, NEW b \in Version \cup {Absent},
           NEW c \in Version \cup {Absent},
           ~Lowered(a, b), ~Lowered(b, c), b = Absent => a = Absent \/ c = Absent
    PROVE  ~Lowered(a, c)
BY EarlierTransitive DEF Lowered

\* A version is not lowered by staying.
LEMMA NotLoweredItself ==
    ASSUME NEW v \in Version \cup {Absent}
    PROVE  ~Lowered(v, v)
BY NotEarlierItself DEF Lowered

\* What a tree holds of one folder.
LEMMA TreeFields ==
    ASSUME NEW t \in Tree
    PROVE  /\ t.reg.version \in Version
           /\ \A f \in Versioned : /\ f \in Folder
                                   /\ t.manifest[f] \in Version \cup {Absent}
                                   /\ t.reg.entry[f] \in Version \cup {Absent}
                                   /\ t.code[f] \in Nat
BY DEF Tree, Registry, Manifests, Folder

\* A developer's push keeps a tree in order and follows the one before.
LEMMA PushFollows ==
    ASSUME NEW t \in Tree, InOrder(t), NEW e \in Pushes, Applies(e, t)
    PROVE  InOrder(TreeAfter(e, t)) /\ Follows(t, TreeAfter(e, t))
<1> DEFINE u == TreeAfter(e, t)
<1>1. u \in Tree /\ u.reg = t.reg
  BY TreeAfterType
<1>2. ~Lowered(t.reg.version, u.reg.version)
  BY <1>1, TreeFields, NotLoweredItself
<1>3. ASSUME NEW f \in Versioned
      PROVE  /\ ~Lowered(u.reg.entry[f], u.manifest[f])
             /\ u.manifest[f] = Absent /\ u.code[f] = 0 => u.reg.entry[f] = Absent
             /\ ~Lowered(t.manifest[f], u.manifest[f])
             /\ ~Lowered(t.reg.entry[f], u.reg.entry[f])
             /\ t.code[f] <= u.code[f]
             /\ t.manifest[f] # Absent => u.manifest[f] # Absent \/ u.code[f] > 0
             /\ t.manifest[f] = Absent /\ t.code[f] > 0 => u.manifest[f] = Absent
  <2> DEFINE v == t.manifest[f]
             w == u.manifest[f]
             k == t.code[f]
             l == u.code[f]
  <2>1. /\ v \in Version \cup {Absent} /\ w \in Version \cup {Absent} /\ k \in Nat
        /\ t.reg.entry[f] \in Version \cup {Absent} /\ Absent \notin Version
        /\ NewVersion \in Version /\ f \in Folder
    BY <1>1, TreeFields, VersionAssumption, FoldersAssumption
  <2>2. w = ManifestAfter(e[f], v) /\ l = IF ChangesCode(e[f]) THEN k + 1 ELSE k
    BY <2>1, TreeAfterType
  <2>3. e[f].manifest \in {"kept", "new", "gone", "patch", "minor", "major"}
    BY <2>1, FoldersAssumption DEF Edit
  <2>4. /\ e[f].manifest = "new" => v = Absent /\ k = 0
        /\ e[f].manifest \in {"gone", "patch", "minor", "major"} => v # Absent
    BY <2>1 DEF Applies
  <2>5. /\ ~Lowered(t.reg.entry[f], v)
        /\ v = Absent /\ k = 0 => t.reg.entry[f] = Absent
    BY DEF InOrder
  <2>6. u.reg.entry[f] = t.reg.entry[f]
    BY <1>1
  <2>7. ~Lowered(t.reg.entry[f], t.reg.entry[f])
    BY <2>1, NotLoweredItself
  <2> HIDE DEF v, w, k, l
  <2>8. CASE e[f].manifest = "kept"
    <3>1. w = v
      BY <2>2, <2>8 DEF ManifestAfter
    <3>2. ~Lowered(v, v)
      BY <2>1, NotLoweredItself
    <3> QED
      BY <2>1, <2>2, <2>5, <2>6, <2>7, <3>1, <3>2 DEF v, w, k, l
  <2>9. CASE e[f].manifest = "new"
    <3>1. w = NewVersion /\ l = k + 1
      BY <2>2, <2>9 DEF ManifestAfter, ChangesCode
    <3> QED
      BY <2>1, <2>4, <2>5, <2>6, <2>7, <2>9, <3>1 DEF v, w, k, l, Lowered
  <2>10. CASE e[f].manifest = "gone"
    <3>1. w = Absent /\ l = k + 1
      BY <2>2, <2>10 DEF ManifestAfter, ChangesCode
    <3> QED
      BY <2>1, <2>4, <2>6, <2>7, <2>10, <3>1 DEF v, w, k, l, Lowered
  <2>11. CASE e[f].manifest \in {"patch", "minor", "major"}
    <3>1. \E b \in 1 .. 3 : w = ApplyBump(v, b)
      BY <2>2, <2>11 DEF ManifestAfter
    <3>2. w \in Version /\ ~Earlier(w, v)
      BY <2>1, <3>1, ApplyBumpNumbers, BumpIsLater
    <3>3. ~Lowered(v, w) /\ w # Absent /\ v # Absent
      BY <2>1, <2>4, <2>11, <3>2 DEF Lowered
    <3>4. ~Lowered(t.reg.entry[f], w)
      BY <2>1, <2>5, <3>3, LoweredChain
    <3> QED
      BY <2>1, <2>2, <2>6, <2>7, <3>3, <3>4 DEF v, w, k, l
  <2> QED
    BY <2>3, <2>8, <2>9, <2>10, <2>11
<1> QED
  BY <1>2, <1>3 DEF InOrder, Follows

\* The past of main stays its past.
LEMMA OutlivedStays ==
    ASSUME NEW t \in Tree, NEW m \in Tree, NEW n \in Tree,
           Outlived(t, m), Follows(m, n)
    PROVE  Outlived(t, n)
<1> SUFFICES ASSUME NEW f \in Versioned
             PROVE  /\ ~Lowered(t.manifest[f], n.manifest[f])
                    /\ t.manifest[f] # Absent => n.manifest[f] # Absent \/ n.code[f] > 0
  BY DEF Outlived
<1>1. /\ t.manifest[f] \in Version \cup {Absent} /\ m.manifest[f] \in Version \cup {Absent}
      /\ n.manifest[f] \in Version \cup {Absent} /\ m.code[f] \in Nat /\ n.code[f] \in Nat
  BY TreeFields
<1>2. /\ ~Lowered(t.manifest[f], m.manifest[f])
      /\ t.manifest[f] # Absent => m.manifest[f] # Absent \/ m.code[f] > 0
  BY DEF Outlived
<1>3. /\ ~Lowered(m.manifest[f], n.manifest[f]) /\ m.code[f] <= n.code[f]
      /\ m.manifest[f] # Absent => n.manifest[f] # Absent \/ n.code[f] > 0
      /\ m.manifest[f] = Absent /\ m.code[f] > 0 => n.manifest[f] = Absent
  BY DEF Follows
<1>4. m.manifest[f] = Absent => t.manifest[f] = Absent \/ n.manifest[f] = Absent
  BY <1>2, <1>3
<1> QED
  BY <1>1, <1>2, <1>3, <1>4, LoweredChain

\* A run's record stays good while others move main.
LEMMA RunInvStays ==
    ASSUME NEW r \in RunState, NEW m \in Tree, NEW n \in Tree, NEW s \in Nat,
           NEW s2 \in Nat, RunInv(r, m, s), Follows(m, n),
           s2 > s \/ (s2 = s /\ n = m)
    PROVE  RunInv(r, n, s2)
BY RunFields, OutlivedStays DEF RunInv

\* A line that two sides changed alike or that only one side changed.
LEMMA MergeOfOne ==
    ASSUME NEW b, NEW o, NEW t, ~Conflict(b, o, t)
    PROVE  \/ Merge(b, o, t) = o /\ (t = b \/ t = o)
           \/ Merge(b, o, t) = t /\ o = b
BY DEF Merge, Conflict

\* A commit that was rebased without a conflict is in order and may follow
\* the main it was rebased onto.
LEMMA RebasedFollows ==
    ASSUME NEW t \in Tree, NEW m \in Tree, NEW w \in Tree,
           InOrder(t), InOrder(m), Outlived(t, m), Raised(t, w), Indexed(t, w),
           ~MustConflict(t, m, w)
    PROVE  InOrder(MergeTree(t, m, w)) /\ Follows(m, MergeTree(t, m, w))
<1> DEFINE u == MergeTree(t, m, w)
<1>1. u \in Tree /\ u.code = m.code
      /\ u.reg.version = Merge(t.reg.version, m.reg.version, w.reg.version)
  BY MergeType
<1>2. ~Lowered(m.reg.version, u.reg.version)
  <2>1. ~Conflict(t.reg.version, m.reg.version, w.reg.version)
    BY DEF MustConflict
  <2>2. ~Lowered(m.reg.version, m.reg.version)
    BY TreeFields, NotLoweredItself
  <2> QED
    BY <1>1, <2>1, <2>2, MergeOfOne DEF Indexed
<1>3. ASSUME NEW f \in Versioned
      PROVE  /\ ~Lowered(u.reg.entry[f], u.manifest[f])
             /\ u.manifest[f] = Absent /\ u.code[f] = 0 => u.reg.entry[f] = Absent
             /\ ~Lowered(m.manifest[f], u.manifest[f])
             /\ ~Lowered(m.reg.entry[f], u.reg.entry[f])
             /\ m.code[f] <= u.code[f]
             /\ m.manifest[f] # Absent => u.manifest[f] # Absent \/ u.code[f] > 0
             /\ m.manifest[f] = Absent /\ m.code[f] > 0 => u.manifest[f] = Absent
  <2> DEFINE tv == t.manifest[f]
             mv == m.manifest[f]
             wv == w.manifest[f]
             uv == u.manifest[f]
             te == t.reg.entry[f]
             me == m.reg.entry[f]
             we == w.reg.entry[f]
             ue == u.reg.entry[f]
             k  == m.code[f]
  <2>1. /\ tv \in Version \cup {Absent} /\ mv \in Version \cup {Absent}
        /\ wv \in Version \cup {Absent} /\ uv \in Version \cup {Absent}
        /\ te \in Version \cup {Absent} /\ me \in Version \cup {Absent}
        /\ we \in Version \cup {Absent} /\ ue \in Version \cup {Absent}
        /\ k \in Nat /\ u.code[f] = k /\ f \in Folder
    BY <1>1, TreeFields
  <2>2. ~Conflict(tv, mv, wv) /\ ~Conflict(te, me, we)
    BY <2>1 DEF MustConflict
  <2>3. uv = Merge(tv, mv, wv) /\ ue = Merge(te, me, we)
    BY <2>1, MergeType
  <2>4. ~Lowered(te, tv) /\ ~Lowered(me, mv) /\ (mv = Absent /\ k = 0 => me = Absent)
    BY DEF InOrder
  <2>5. ~Lowered(tv, mv) /\ (tv # Absent => mv # Absent \/ k > 0)
    BY DEF Outlived
  <2>6. ~Lowered(tv, wv) /\ (wv = Absent <=> tv = Absent) /\ we = wv
    BY DEF Raised, Indexed
  <2> HIDE DEF tv, mv, wv, uv, te, me, we, ue, k
  <2>7. (uv = mv /\ (wv = tv \/ wv = mv)) \/ (uv = wv /\ mv = tv)
    BY <2>2, <2>3, MergeOfOne
  <2>8. (ue = me /\ (we = te \/ we = me)) \/ (ue = we /\ me = te)
    BY <2>2, <2>3, MergeOfOne
  <2>9. /\ ~Lowered(mv, mv) /\ ~Lowered(me, me) /\ ~Lowered(wv, wv)
    BY <2>1, NotLoweredItself
  <2>10. /\ ~Lowered(mv, uv)
         /\ mv # Absent => uv # Absent \/ k > 0
         /\ mv = Absent /\ k > 0 => uv = Absent
    BY <2>6, <2>7, <2>9
  <2>11. ~Lowered(te, wv)
    BY <2>1, <2>4, <2>6, LoweredChain
  <2>12. ~Lowered(me, ue)
    BY <2>6, <2>8, <2>9, <2>11
  <2>13. ~Lowered(ue, uv)
    <3>1. CASE ue = me /\ uv = mv
      BY <3>1, <2>4
    <3>2. CASE ue = me /\ uv = wv /\ mv = tv
      <4>1. ~Lowered(me, tv)
        BY <3>2, <2>4
      <4> QED
        BY <3>2, <4>1, <2>1, <2>6, LoweredChain
    <3>3. CASE ue = wv /\ uv = wv
      BY <3>3, <2>9
    <3>4. CASE ue = wv /\ uv = mv /\ (wv = tv \/ wv = mv)
      BY <3>4, <2>5, <2>9
    <3> QED
      BY <2>6, <2>7, <2>8, <3>1, <3>2, <3>3, <3>4
  <2>14. uv = Absent /\ k = 0 => ue = Absent
    BY <2>4, <2>5, <2>6, <2>7, <2>8
  <2> QED
    BY <2>1, <2>10, <2>12, <2>13, <2>14 DEF mv, uv, me, ue, k
<1> QED
  BY <1>2, <1>3 DEF InOrder, Follows

\* A tree follows itself.
LEMMA FollowsItself ==
    ASSUME NEW t \in Tree
    PROVE  Follows(t, t)
BY TreeFields, NotLoweredItself DEF Follows

\* A step that replaces the record of run i and leaves main alone.
LEMMA OwnStep ==
    ASSUME ReleaseInv, TypeOK', NEW i \in Run, NEW q, Becomes(i, q),
           main' = main, seq' = seq, RunInv(q, main, seq)
    PROVE  ReleaseInv' /\ Follows(main, main')
<1>1. main \in Tree
  BY DEF ReleaseInv, TypeOK
<1>2. \A j \in Run : runs'[j] \notin Idle => RunInv(runs'[j], main, seq)
  BY DEF ReleaseInv, TypeOK, Becomes
<1> QED
  BY <1>1, <1>2, FollowsItself DEF ReleaseInv

\* A push keeps the invariant, for its own run and for those that are under way.
LEMMA PushKeeps ==
    ASSUME ReleaseInv, TypeOK', NEW e \in Pushes, Push(e)
    PROVE  ReleaseInv' /\ Follows(main, main')
<1> DEFINE T == TreeAfter(e, main)
           q == [step |-> "checkedOut", edit |-> e, before |-> main, tree |-> T,
                 work |-> T, bumps |-> [c \in Chip |-> BumpNone], deleted |-> FALSE,
                 version |-> main.reg.version, at |-> seq + 1]
<1>1. main \in Tree /\ T \in Tree /\ seq \in Nat /\ InOrder(main)
  BY TreeAfterType DEF ReleaseInv, TypeOK
<1>2. InOrder(T) /\ Follows(main, T)
  BY <1>1, PushFollows DEF Push
<1>3. main' = T /\ seq' = seq + 1
  BY DEF Push
<1>4. runs' = IF Triggers(e) THEN [runs EXCEPT ![pushes + 1] = q] ELSE runs
  BY DEF Push
<1> HIDE DEF T
<1>5. RunInv(q, T, seq + 1)
  <2>1. \A f \in Versioned : ~Lowered(T.manifest[f], T.manifest[f])
    BY <1>1, TreeFields, NotLoweredItself
  <2>2. Outlived(T, T) /\ Raised(T, T)
    BY <2>1 DEF Outlived, Raised
  <2> QED
    BY <1>1, <1>2, <2>2 DEF RunInv
<1> HIDE DEF q
<1>6. \A j \in Run : runs[j] \notin Idle => RunInv(runs[j], T, seq + 1)
  BY <1>1, <1>2, RunInvStays DEF ReleaseInv, TypeOK
<1>7. \A j \in Run : runs'[j] \notin Idle => RunInv(runs'[j], main', seq')
  BY <1>3, <1>4, <1>5, <1>6 DEF ReleaseInv, TypeOK
<1> QED
  BY <1>2, <1>3, <1>7 DEF ReleaseInv

\* The push of a run makes its commit the head of main.
LEMMA PushMainKeeps ==
    ASSUME ReleaseInv, TypeOK', NEW i \in Run, PushMain(i)
    PROVE  ReleaseInv' /\ Follows(main, main')
<1> DEFINE r == runs[i]
<1>1. /\ r \in RunState /\ r \notin Idle /\ r.step = "rebased" /\ r.at = seq
      /\ main \in Tree /\ seq \in Nat /\ r.work \in Tree
  BY RunFields DEF ReleaseInv, TypeOK, PushMain, At, Active
<1>2. RunInv(r, main, seq)
  BY <1>1 DEF ReleaseInv
<1>3. InOrder(r.work) /\ Follows(main, r.work)
  BY <1>1, <1>2 DEF RunInv
<1>4. /\ main' = r.work
      /\ seq' = IF r.work = main THEN seq ELSE seq + 1
  BY DEF PushMain
<1>5. main' \in Tree /\ seq' \in Nat /\ (seq' > seq \/ (seq' = seq /\ main' = main))
  BY <1>1, <1>4
<1>6. PICK q : /\ Becomes(i, q) /\ SameTree(r, q) /\ q.step = "pushed"
               /\ q.work = r.work /\ q.version = r.version
  BY PushMainEffect DEF ReleaseInv
<1>7. ASSUME NEW j \in Run, runs[j] \notin Idle
      PROVE  RunInv(runs[j], main', seq')
  BY <1>1, <1>3, <1>4, <1>5, <1>7, RunInvStays DEF ReleaseInv, TypeOK
<1>8. RunInv(q, main', seq')
  <2>1. RunInv(r, main', seq')
    BY <1>1, <1>7
  <2> QED
    BY <2>1, <1>6 DEF RunInv, SameTree, SameCommits
<1>9. \A j \in Run : runs'[j] \notin Idle => RunInv(runs'[j], main', seq')
  BY <1>6, <1>7, <1>8 DEF Becomes, ReleaseInv, TypeOK
<1> QED
  BY <1>3, <1>4, <1>9 DEF ReleaseInv

\* The end of a run.
LEMMA EndKeeps ==
    ASSUME ReleaseInv, TypeOK', NEW i \in Run, NEW e \in {Done, Failed},
           runs' = [runs EXCEPT ![i] = e], main' = main, seq' = seq
    PROVE  ReleaseInv' /\ Follows(main, main')
BY FollowsItself DEF ReleaseInv, TypeOK, Idle

\* Every step of a run keeps the invariant.
LEMMA ProceedKeeps ==
    ASSUME ReleaseInv, TypeOK', NEW i \in Run, Proceed(i) \/ Die(i)
    PROVE  ReleaseInv' /\ Follows(main, main')
<1> DEFINE r == runs[i]
<1>1. /\ TypeOK /\ main \in Tree /\ seq \in Nat
      /\ r \notin Idle => r \in RunState /\ RunInv(r, main, seq)
  BY DEF ReleaseInv, TypeOK
<1>4. CASE Calculate(i)
  <2>1. r \notin Idle /\ r.step = "checkedOut" /\ main' = main /\ seq' = seq
    BY <1>4 DEF Calculate, At, Active
  <2>2. PICK q : /\ Becomes(i, q) /\ SameTree(r, q) /\ q.step = "calculated"
                 /\ q.work.reg = r.work.reg
                 /\ \A f \in Folder : q.work.manifest[f] = CalculatedManifest(r, f)
    BY <1>1, <1>4, CalculateEffect
  <2>3. r \in RunState /\ \A f \in Versioned : f \in Folder
    BY <1>1, <2>1 DEF Folder
  <2>4. Raised(q.tree, q.work)
    BY <2>2, <2>3, CalculatedType DEF Raised, SameTree, SameCommits
  <2>5. RunInv(q, main, seq)
    BY <1>1, <2>1, <2>2, <2>4 DEF RunInv, SameTree, SameCommits
  <2> QED
    BY <2>1, <2>2, <2>5, OwnStep
<1>5. CASE Build(i)
  <2>1. r \notin Idle /\ r.step = "calculated" /\ main' = main /\ seq' = seq
    BY <1>5 DEF Build, At, Active
  <2>2. PICK q : /\ Becomes(i, q) /\ SameTree(r, q) /\ q.step = "built"
                 /\ q.work.manifest = r.work.manifest
                 /\ q.work.reg.entry = r.work.manifest
                 /\ ~Lowered(r.work.reg.version, q.work.reg.version)
    BY <1>1, <1>5, BuildEffect
  <2>3. RunInv(r, main, seq) /\ r.work.reg = r.tree.reg /\ Raised(r.tree, r.work)
    BY <1>1, <2>1 DEF RunInv
  <2>4. Raised(q.tree, q.work) /\ Indexed(q.tree, q.work)
    BY <2>2, <2>3 DEF Raised, Indexed, SameTree, SameCommits
  <2>5. RunInv(q, main, seq)
    BY <2>2, <2>3, <2>4 DEF RunInv, SameTree, SameCommits
  <2> QED
    BY <2>1, <2>2, <2>5, OwnStep
<1>6. CASE BuildFails(i)
  BY <1>6, EndKeeps DEF BuildFails, Fails
<1>7. CASE Commit(i)
  <2>1. r \notin Idle /\ r.step = "built" /\ main' = main /\ seq' = seq
    BY <1>7 DEF Commit, At, Active
  <2>2. PICK q : /\ Becomes(i, q) /\ SameTree(r, q) /\ q.step = "committed"
                 /\ q.work.reg = r.work.reg
                 /\ \A f \in Versioned : q.work.manifest[f] = r.work.manifest[f]
    BY <1>1, <1>7, CommitEffect
  <2>3. RunInv(r, main, seq) /\ Raised(r.tree, r.work) /\ Indexed(r.tree, r.work)
    BY <1>1, <2>1 DEF RunInv
  <2>4. Raised(q.tree, q.work) /\ Indexed(q.tree, q.work)
    BY <2>2, <2>3 DEF Raised, Indexed, SameTree, SameCommits
  <2>5. RunInv(q, main, seq)
    BY <2>2, <2>3, <2>4 DEF RunInv, SameTree, SameCommits
  <2> QED
    BY <2>1, <2>2, <2>5, OwnStep
<1>8. CASE NothingToCommit(i)
  BY <1>8, EndKeeps DEF NothingToCommit
<1>9. CASE Rebase(i)
  <2>1. /\ r \notin Idle /\ r.step = "committed" /\ main' = main /\ seq' = seq
        /\ ~MustConflict(r.tree, main, r.work)
    BY <1>9 DEF Rebase, At, Active
  <2>2. PICK q : /\ Becomes(i, q) /\ SameCommits(r, q) /\ q.at = seq /\ q.step = "rebased"
                 /\ q.work = MergeTree(r.tree, main, r.work)
    BY <1>1, <1>9, RebaseEffect
  <2>3. /\ RunInv(r, main, seq) /\ r.tree \in Tree /\ r.work \in Tree /\ InOrder(main)
        /\ Raised(r.tree, r.work) /\ Indexed(r.tree, r.work)
        /\ InOrder(r.tree) /\ Outlived(r.tree, main)
    BY <1>1, <2>1, RunFields DEF RunInv, ReleaseInv
  <2>4. InOrder(q.work) /\ Follows(main, q.work)
    BY <1>1, <2>1, <2>2, <2>3, RebasedFollows
  <2>5. RunInv(q, main, seq)
    BY <1>1, <2>2, <2>3, <2>4 DEF RunInv, SameCommits
  <2> QED
    BY <2>1, <2>2, <2>5, OwnStep
<1>10. CASE RebaseFails(i)
  BY <1>10, EndKeeps DEF RebaseFails, Fails
<1>11. CASE PushMain(i)
  BY <1>11, PushMainKeeps
<1>12. CASE PushRejected(i)
  BY <1>12, EndKeeps DEF PushRejected, Fails
<1>13. CASE Tag(i)
  BY <1>13, EndKeeps DEF Tag
<1>14. CASE Die(i)
  BY <1>14, EndKeeps DEF Die, Fails
<1> QED
  BY <1>4, <1>5, <1>6, <1>7, <1>8, <1>9, <1>10, <1>11, <1>12, <1>13, <1>14 DEF Proceed

\* Every step keeps the invariant, and what main becomes follows what it was.
LEMMA StepKeeps ==
    ASSUME ReleaseInv, [Next]_vars
    PROVE  ReleaseInv' /\ Follows(main, main')
<1>1. TypeOK /\ main \in Tree
  BY DEF ReleaseInv, TypeOK
<1>2. CASE ReleaseStep
  <2>1. TypeOK'
    BY <1>1, <1>2, PushType, ProceedType DEF ReleaseStep
  <2> QED
    BY <1>2, <2>1, PushKeeps, ProceedKeeps DEF ReleaseStep
<1>3. CASE Elsewhere
  <2>1. /\ Follows(main, main') /\ main' = main /\ seq \in Nat /\ seq' = seq + 1
        /\ runs' = runs /\ TypeOK'
    BY <1>1, <1>3, FollowsItself DEF Elsewhere, TypeOK
  <2>2. \A j \in Run : runs[j] \notin Idle => RunInv(runs[j], main, seq + 1)
    BY <1>1, <2>1, RunInvStays DEF ReleaseInv, TypeOK
  <2> QED
    BY <2>1, <2>2 DEF ReleaseInv
<1>4. CASE UNCHANGED vars
  BY <1>1, <1>4, FollowsItself DEF ReleaseInv, TypeOK, vars
<1> QED
  BY <1>2, <1>3, <1>4 DEF Next

\* The first tree is in order, and no run is under way.
LEMMA InitInv == Init => ReleaseInv
<1> SUFFICES ASSUME Init PROVE ReleaseInv
  OBVIOUS
<1>1. TypeOK
  BY FoldersAssumption DEF Init, TypeOK, Tree, Registry, Manifests, Idle
<1>2. main \in Tree /\ main.reg.entry = main.manifest
  BY FoldersAssumption DEF Init
<1>3. InOrder(main)
  BY <1>2, TreeFields, NotLoweredItself DEF InOrder
<1> QED
  BY <1>1, <1>3 DEF Init, ReleaseInv, Idle

\* The numbers as written fall from one version to the other, as they do when
\* the third number of a version with a suffix restarts.
Falls(old, new)    == old # Absent /\ new # Absent /\ WrittenBefore(new, old)
Restarts(old, new) ==
    old.suffix # NoSuffix /\ new.major = old.major /\ new.minor = old.minor

FallsOnlyByRestart(old, new) == Falls(old, new) => Restarts(old, new)

LEMMA NotLoweredRestarts ==
    ASSUME NEW v \in Version \cup {Absent}, NEW w \in Version \cup {Absent},
           ~Lowered(v, w)
    PROVE  FallsOnlyByRestart(v, w)
BY OnlyDatesRestart DEF Lowered, Falls, Restarts, FallsOnlyByRestart

\* However many pushes and runs overlap, in whatever order they rebase, push
\* and fail, main never goes back to what semver_calc.go takes for an earlier
\* version: not that of the registry, not that of an arch, toolchain, driver
\* or chip, and not that of its entry in registry.json.  Read as written,
\* their numbers fall only where a third number with a suffix restarts.
\* Integrations are not among them.
THEOREM NeverRegresses ==
    Spec => /\ NothingRegresses
            /\ [][/\ FallsOnlyByRestart(main.reg.version, main'.reg.version)
                  /\ \A f \in Versioned :
                        /\ FallsOnlyByRestart(main.manifest[f], main'.manifest[f])
                        /\ FallsOnlyByRestart(main.reg.entry[f], main'.reg.entry[f])]_vars
<1>1. ReleaseInv /\ [Next]_vars => ReleaseInv'
  BY StepKeeps
<1>2. ReleaseInv /\ [Next]_vars =>
        [/\ ~Lowered(main.reg.version, main'.reg.version)
         /\ \A f \in Versioned :
               /\ ~Lowered(main.manifest[f], main'.manifest[f])
               /\ ~Lowered(main.reg.entry[f], main'.reg.entry[f])]_vars
  BY StepKeeps DEF Follows
<1>3. ReleaseInv /\ [Next]_vars =>
        [/\ FallsOnlyByRestart(main.reg.version, main'.reg.version)
         /\ \A f \in Versioned :
               /\ FallsOnlyByRestart(main.manifest[f], main'.manifest[f])
               /\ FallsOnlyByRestart(main.reg.entry[f], main'.reg.entry[f])]_vars
  <2> SUFFICES ASSUME ReleaseInv, [Next]_vars
               PROVE  /\ FallsOnlyByRestart(main.reg.version, main'.reg.version)
                      /\ \A f \in Versioned :
                            /\ FallsOnlyByRestart(main.manifest[f], main'.manifest[f])
                            /\ FallsOnlyByRestart(main.reg.entry[f], main'.reg.entry[f])
    OBVIOUS
  <2>1. Follows(main, main') /\ main \in Tree /\ main' \in Tree
    BY StepKeeps DEF ReleaseInv, TypeOK
  <2>2. FallsOnlyByRestart(main.reg.version, main'.reg.version)
    BY <2>1, TreeFields, NotLoweredRestarts DEF Follows
  <2>3. ASSUME NEW f \in Versioned
        PROVE  /\ FallsOnlyByRestart(main.manifest[f], main'.manifest[f])
               /\ FallsOnlyByRestart(main.reg.entry[f], main'.reg.entry[f])
    BY <2>1, <2>3, TreeFields, NotLoweredRestarts DEF Follows
  <2> QED
    BY <2>2, <2>3
<1> QED
  BY <1>1, <1>2, <1>3, InitInv, PTL DEF Spec, NothingRegresses

-----------------------------------------------------------------------------
(***************************************************************************)
(* The highest bump wins.  What the versions of a run's commit differ by   *)
(* from those before the push is what semver_calc found, however it got    *)
(* there: by comparing the manifests, by the human error fix, or on top of *)
(* either by inheritance.  The registry's version follows because a bumped *)
(* chip always has an entry older than its manifest.                       *)
(***************************************************************************)

\* The order of versions, strictly.
LEMMA EarlierChain ==
    ASSUME NEW u \in Version, NEW v \in Version, NEW w \in Version,
           Earlier(u, v), Earlier(v, w)
    PROVE  Earlier(u, w) /\ ~Earlier(w, u)
<1> DEFINE P(x) == ParseSemVer(x)
<1>1. \A x \in {u, v, w} : P(x).major \in Nat /\ P(x).minor \in Nat /\ P(x).patch \in Nat
  BY ParseType DEF Version
<1> HIDE DEF P
<1> QED
  BY <1>1 DEF Earlier, P

\* A version is kept, or becomes a later one.
Rises(v, w) == v = w \/ Earlier(v, w)

\* Steps up make a step up.
LEMMA RisesChain ==
    ASSUME NEW u \in Version, NEW v \in Version, NEW w \in Version,
           Rises(u, v), Rises(v, w)
    PROVE  Rises(u, w)
BY EarlierChain DEF Rises

\* What a push leaves for its run to compare.
Pushed(r) ==
    /\ InOrder(r.before)
    /\ r.tree.reg = r.before.reg
    /\ \A f \in Versioned : Survives(r, f) => Rises(r.before.manifest[f], r.tree.manifest[f])

\* What semver_calc has found is what the manifests show.
Calculated(r) ==
    /\ \A f \in Folder : r.work.manifest[f] = CalculatedManifest(r, f)
    /\ r.bumps = [c \in Chip |-> ChipBump(r, c)]
    /\ ~r.deleted

CompareInv(r) ==
    /\ Pushed(r)
    /\ r.step = "calculated" => Calculated(r)
    /\ r.step = "built" => HighestWins(r)

\* The version of a folder by its own changes differs by the folder's own bump.
LEMMA OwnIsExact ==
    ASSUME NEW r \in RunState, NEW f \in Folder
    PROVE  /\ CalcBump(r.before.manifest[f], OwnVersion(r, f)) = OwnBump(r, f)
           /\ Declared(r, f) <= OwnBump(r, f)
           /\ r.tree.manifest[f] = Absent => OwnVersion(r, f) = Absent
           /\ r.tree.manifest[f] # Absent => Rises(r.tree.manifest[f], OwnVersion(r, f))
<1>1. /\ r.before.manifest[f] \in Version \cup {Absent}
      /\ r.tree.manifest[f] \in Version \cup {Absent}
  BY RunFields DEF Tree, Manifests
<1>2. Declared(r, f) \in Bump
  BY CalcBumpType DEF Declared
<1>3. CASE Forgotten(r, f)
  <2>1. /\ r.before.manifest[f] = r.tree.manifest[f] /\ r.before.manifest[f] \in Version
        /\ r.before.manifest[f] # Absent /\ Declared(r, f) = 0
    BY <1>1, <1>3, CalcBumpType DEF Forgotten, Declared
  <2>2. AutoBump(r.edit[f].files) \in 1 .. 3
    BY DEF AutoBump
  <2>3. /\ OwnVersion(r, f) = ApplyBump(r.before.manifest[f], AutoBump(r.edit[f].files))
        /\ OwnBump(r, f) = AutoBump(r.edit[f].files)
    BY <1>3 DEF OwnVersion, OwnBump
  <2> QED
    BY <2>1, <2>2, <2>3, BumpIsRecognised, BumpIsLater DEF Rises
<1>4. CASE ~Forgotten(r, f)
  BY <1>2, <1>4 DEF OwnVersion, OwnBump, Declared, Rises
<1> QED
  BY <1>3, <1>4

\* The version a chip is left with differs by the highest of its bumps, and
\* is the one it had or a later one.
LEMMA ChipIsExact ==
    ASSUME NEW r \in RunState, NEW c \in Chip, Survives(r, c)
    PROVE  /\ CalcBump(r.before.manifest[c], ChipVersion(r, c)) = ChipBump(r, c)
           /\ Rises(r.tree.manifest[c], ChipVersion(r, c))
           /\ ChipVersion(r, c) \in Version
<1>1. c \in Folder
  BY DEF Folder, Versioned
<1>2. /\ r.before.manifest[c] \in Version /\ r.tree.manifest[c] \in Version
      /\ r.tree.manifest[c] # Absent
  BY <1>1, RunFields DEF Tree, Manifests, Survives
<1>3. /\ OwnVersion(r, c) \in Version /\ OwnBump(r, c) \in Bump
      /\ ChipBump(r, c) \in Bump /\ OwnBump(r, c) <= ChipBump(r, c)
  BY <1>1, <1>2, OwnType, ChipBumpType
<1>4. /\ CalcBump(r.before.manifest[c], OwnVersion(r, c)) = OwnBump(r, c)
      /\ Rises(r.tree.manifest[c], OwnVersion(r, c))
  BY <1>1, <1>2, OwnIsExact
<1>5. CASE ChipBump(r, c) > OwnBump(r, c)
  <2>1. ChipVersion(r, c) = ApplyBump(OwnVersion(r, c), ChipBump(r, c))
    BY <1>5 DEF ChipVersion
  <2>2. ChipBump(r, c) \in 1 .. 3
    BY <1>3, <1>5
  <2>3. CalcBump(r.before.manifest[c], ChipVersion(r, c)) = ChipBump(r, c)
    BY <1>2, <1>3, <1>4, <1>5, <2>1, <2>2, InheritedBumpIsExact
  <2>4. ChipVersion(r, c) \in Version /\ Rises(OwnVersion(r, c), ChipVersion(r, c))
    BY <1>3, <2>1, <2>2, ApplyBumpNumbers, BumpIsLater DEF Rises
  <2> QED
    BY <1>2, <1>3, <1>4, <2>3, <2>4, RisesChain
<1>6. CASE ~(ChipBump(r, c) > OwnBump(r, c))
  <2>1. ChipBump(r, c) = OwnBump(r, c)
    BY <1>3, <1>6
  <2>2. ChipVersion(r, c) = OwnVersion(r, c)
    BY <1>6 DEF ChipVersion
  <2> QED
    BY <1>3, <1>4, <2>1, <2>2
<1> QED
  BY <1>5, <1>6

\* What the manifests of a run show of its bumps: all of a chip that was there
\* before, its own at least of a new one, and all of what chips inherit.
LEMMA BumpsShow ==
    ASSUME NEW r \in RunState, Calculated(r),
           NEW q, SameCommits(r, q), q.work.manifest = r.work.manifest
    PROVE  /\ \A c \in Chip : Survives(r, c) => Bumped(q, c) = ChipBump(r, c)
           /\ \A c \in Chip : r.tree.manifest[c] # Absent =>
                 OwnBump(r, c) <= Bumped(q, c) /\ Bumped(q, c) <= ChipBump(r, c)
           /\ \A c \in Chip : \A b \in Inherits[c] :
                 Known(r, b) => Bumped(q, b) = OwnBump(r, b)
<1>1. \A f \in Folder : Bumped(q, f) = CalcBump(r.before.manifest[f], CalculatedManifest(r, f))
  BY DEF Calculated, Bumped, SameCommits
<1>2. ASSUME NEW c \in Chip, Survives(r, c)
      PROVE  Bumped(q, c) = ChipBump(r, c)
  <2>1. c \in Folder /\ CalculatedManifest(r, c) = ChipVersion(r, c)
    BY <1>2 DEF Survives, CalculatedManifest, Folder, Versioned
  <2> QED
    BY <1>1, <1>2, <2>1, ChipIsExact
<1>3. ASSUME NEW c \in Chip, r.tree.manifest[c] # Absent
      PROVE  OwnBump(r, c) <= Bumped(q, c) /\ Bumped(q, c) <= ChipBump(r, c)
  <2>1. /\ c \in Folder /\ OwnBump(r, c) \in Bump /\ ChipBump(r, c) \in Bump
        /\ OwnBump(r, c) <= ChipBump(r, c)
    BY <1>3, OwnType, ChipBumpType DEF Folder, Versioned
  <2>2. CASE Survives(r, c)
    BY <1>2, <2>1, <2>2
  <2>3. CASE ~Survives(r, c)
    <3>1. r.before.manifest[c] = Absent
      BY <1>3, <2>3 DEF Survives
    <3>2. OwnBump(r, c) = BumpMinor
      BY <1>3, <3>1 DEF OwnBump, Forgotten, Declared, CalcBump
    <3>3. CalculatedManifest(r, c) # Absent
      BY <1>3, <2>1, CalculatedType
    <3>4. Bumped(q, c) = BumpMinor
      BY <1>1, <2>1, <3>1, <3>3 DEF CalcBump
    <3> QED
      BY <2>1, <3>2, <3>4
  <2> QED
    BY <2>2, <2>3
<1>4. ASSUME NEW c \in Chip, NEW b \in Inherits[c], Known(r, b)
      PROVE  Bumped(q, b) = OwnBump(r, b)
  <2>1. b \in Folder /\ b \notin Chip
    BY FoldersAssumption DEF Folder, Versioned
  <2>2. CalculatedManifest(r, b) = OwnVersion(r, b)
    BY <1>4, <2>1, OwnIsExact DEF CalculatedManifest
  <2> QED
    BY <1>1, <2>1, <2>2, OwnIsExact
<1> QED
  BY <1>2, <1>3, <1>4

\* The bump the registry is given is the most that the manifests show.
LEMMA MostIsRecorded ==
    ASSUME NEW r \in RunState, Calculated(r),
           NEW q, SameCommits(r, q), q.work.manifest = r.work.manifest
    PROVE  RegistryBump(r) = MostBumped(q)
<1> DEFINE there   == {c \in Chip : q.tree.manifest[c] # Absent}
           parents == {b \in UNION {Inherits[c] : c \in there} : Known(q, b)}
           S == {BumpPatch} \cup {r.bumps[c] : c \in Chip}
           T == {BumpPatch} \cup {Bumped(q, f) : f \in there \cup parents}
<1>1. RegistryBump(r) = Max(S) /\ MostBumped(q) = Max(T)
  BY DEF RegistryBump, MostBumped, Calculated
<1>2. S \in SUBSET Bump /\ T \in SUBSET Bump
  BY RunFields, CalcBumpType DEF ChipBumps, Bumped
<1>3. \A c \in Chip : r.bumps[c] = ChipBump(r, c) /\ c \in Folder /\ Inherits[c] \subseteq Folder
  BY FoldersAssumption DEF Calculated, Folder, Versioned
<1>4. \A f : q.tree.manifest[f] = r.tree.manifest[f] /\ Known(q, f) = Known(r, f)
  BY DEF SameCommits, Known
<1>5. \A c \in there : OwnBump(r, c) <= Bumped(q, c) /\ Bumped(q, c) <= ChipBump(r, c)
  BY <1>4, BumpsShow
<1>6. \A b \in parents : Bumped(q, b) = OwnBump(r, b)
  BY <1>4, BumpsShow
<1>7. ASSUME NEW c \in Chip
      PROVE  \E y \in T : ChipBump(r, c) <= y
  <2>1. CASE c \notin there
    BY <1>4, <2>1 DEF ChipBump
  <2>2. CASE c \in there
    <3>1. PICK x \in {OwnBump(r, c)} \cup InheritedBumps(r, c) : x = ChipBump(r, c)
      BY <1>4, <2>2, ChipBumpType
    <3>2. CASE x = OwnBump(r, c)
      BY <1>5, <2>2, <3>1, <3>2
    <3>3. CASE x = BomBump(r, c)
      BY <3>1, <3>3 DEF BomBump
    <3>4. CASE \E b \in Inherits[c] : Known(r, b) /\ x = OwnBump(r, b)
      <4>1. PICK b \in Inherits[c] : Known(r, b) /\ x = OwnBump(r, b)
        BY <3>4
      <4>2. b \in parents
        BY <1>4, <2>2, <4>1
      <4>3. OwnBump(r, b) \in Bump
        BY <1>3, OwnType
      <4> QED
        BY <1>6, <3>1, <4>1, <4>2, <4>3
    <3> QED
      BY <3>1, <3>2, <3>3, <3>4 DEF InheritedBumps
  <2> QED
    BY <2>1, <2>2
<1>8. ASSUME NEW f \in there \cup parents
      PROVE  \E x \in S : Bumped(q, f) <= x
  <2>1. CASE f \in there
    BY <1>3, <1>5, <2>1
  <2>2. CASE f \in parents
    <3>1. PICK c \in there : f \in Inherits[c]
      BY <2>2
    <3>2. OwnBump(r, f) \in InheritedBumps(r, c)
      BY <1>4, <2>2, <3>1 DEF InheritedBumps
    <3>3. OwnBump(r, f) <= ChipBump(r, c)
      BY <1>4, <3>2, ChipBumpType
    <3> QED
      BY <1>3, <1>6, <2>2, <3>3
  <2> QED
    BY <2>1, <2>2
<1>9. (\A x \in S : \E y \in T : x <= y) /\ \A y \in T : \E x \in S : y <= x
  BY <1>3, <1>7, <1>8
<1> HIDE DEF S, T
<1>10. /\ Max(S) \in S /\ Max(T) \in T
       /\ (\A x \in S : x <= Max(S)) /\ \A y \in T : y <= Max(T)
  BY <1>2, MaxOfBumps DEF S, T
<1>11. Max(S) \in 0 .. 3 /\ Max(T) \in 0 .. 3
  BY <1>2, <1>10 DEF Bump
<1>12. PICK y \in T : Max(S) <= y
  BY <1>9, <1>10
<1>13. PICK x \in S : Max(T) <= x
  BY <1>9, <1>10
<1>14. x \in 0 .. 3 /\ y \in 0 .. 3 /\ x <= Max(S) /\ y <= Max(T)
  BY <1>2, <1>10 DEF Bump
<1>15. Max(S) = Max(T)
  <2> HIDE DEF there, parents
  <2> QED
    BY <1>11, <1>12, <1>13, <1>14
<1> QED
  BY <1>1, <1>15

\* When build_registry has run, the highest bump has won.
LEMMA BuiltHighest ==
    ASSUME NEW r \in RunState, CompareInv(r), r.step = "calculated",
           r.work.reg = r.tree.reg,
           NEW q \in RunState, SameCommits(r, q), q.work.manifest = r.work.manifest,
           NEW ecosystem \in SyncedEcosystems,
           q.work.reg = BuiltRegistry(r.work, RegistryBump(r), ecosystem)
    PROVE  HighestWins(q)
<1>1. Pushed(r) /\ Calculated(r)
  BY DEF CompareInv
<1>2. \A f \in Folder : /\ Bumped(q, f) = CalcBump(r.before.manifest[f], CalculatedManifest(r, f))
                        /\ Survives(q, f) = Survives(r, f) /\ Declared(q, f) = Declared(r, f)
                        /\ Known(q, f) = Known(r, f)
  BY <1>1 DEF Calculated, Bumped, Survives, Declared, Known, SameCommits
<1>3. \A c \in Chip : BomBump(q, c) = BomBump(r, c)
  BY DEF BomBump, SameCommits
<1>4. q.tree.reg.version = r.work.reg.version /\ r.work.reg.version \in Version
  BY RunFields DEF SameCommits, Tree, Registry
<1>5. ASSUME NEW c \in Chip, Survives(r, c)
      PROVE  Bumped(q, c) = ChipBump(r, c) /\ ChipBump(r, c) \in Bump
             /\ CalculatedManifest(r, c) = ChipVersion(r, c)
  BY <1>1, <1>5, BumpsShow, ChipBumpType DEF Survives, CalculatedManifest
<1>6. ASSUME NEW c \in Chip, NEW b \in Inherits[c], Known(r, b)
      PROVE  Bumped(q, b) = OwnBump(r, b)
  BY <1>1, <1>6, BumpsShow
<1>7. ASSUME NEW c \in Chip, Survives(r, c)
      PROVE  /\ \A b \in Inherits[c] : Known(r, b) => Bumped(q, c) >= Bumped(q, b)
             /\ Bumped(q, c) >= BomBump(r, c)
             /\ Bumped(q, c) >= Declared(r, c)
  <2>1. \A b \in {OwnBump(r, c)} \cup InheritedBumps(r, c) : b <= ChipBump(r, c)
    BY <1>7, ChipBumpType DEF Survives
  <2>2. c \in Folder /\ Inherits[c] \subseteq Folder
    BY FoldersAssumption DEF Folder, Versioned
  <2>3. Declared(r, c) <= OwnBump(r, c) /\ Declared(r, c) \in Bump /\ OwnBump(r, c) \in Bump
    BY <2>2, OwnIsExact, OwnType, CalcBumpType DEF Declared
  <2>4. BomBump(r, c) \in InheritedBumps(r, c) /\ BomBump(r, c) \in Bump
    BY DEF InheritedBumps, BomBump
  <2>5. \A b \in Inherits[c] : Known(r, b) =>
            OwnBump(r, b) \in InheritedBumps(r, c) /\ OwnBump(r, b) \in Bump
    BY <2>2, OwnType DEF InheritedBumps
  <2> QED
    BY <1>5, <1>6, <1>7, <2>1, <2>3, <2>4, <2>5
<1>8. ASSUME NEW c \in Chip, Survives(r, c)
      PROVE  CalcBump(r.work.reg.version, q.work.reg.version) >= ChipBump(r, c)
  <2>1. ChipBump(r, c) \in Bump /\ c \in Folder /\ c \in Versioned
    BY <1>5, <1>8 DEF Folder, Versioned
  <2>2. RegistryBump(r) \in 1 .. 3 /\ ChipBump(r, c) <= RegistryBump(r)
    <3>1. {BumpPatch} \cup {r.bumps[d] : d \in Chip} \in SUBSET Bump
      BY RunFields DEF ChipBumps
    <3>2. ChipBump(r, c) \in {BumpPatch} \cup {r.bumps[d] : d \in Chip}
      BY <1>1 DEF Calculated
    <3> QED
      BY <3>1, <3>2, <2>1, MaxOfBumps DEF RegistryBump
  <2>3. CASE ChipBump(r, c) = 0
    BY <2>3, CalcBumpType
  <2>4. CASE ChipBump(r, c) # 0
    <3> DEFINE old == r.before.manifest[c]
               new == ChipVersion(r, c)
    <3>1. /\ old \in Version /\ r.tree.manifest[c] \in Version /\ new \in Version
          /\ old # Absent /\ new # Absent
      BY <1>8, <2>1, RunFields, ChipIsExact, VersionAssumption DEF Survives, Tree, Manifests
    <3>2. Rises(old, new)
      BY <1>1, <1>8, <2>1, <3>1, ChipIsExact, RisesChain DEF Pushed
    <3>3. CalcBump(old, new) # 0
      BY <1>8, <2>4, ChipIsExact
    <3>4. old # new
      BY <3>3 DEF CalcBump
    <3>5. Earlier(old, new)
      BY <3>2, <3>4 DEF Rises
    <3>6. ~Lowered(r.work.reg.entry[c], old) /\ r.work.manifest[c] = new
      BY <1>1, <1>5, <1>8, <2>1 DEF Pushed, Calculated, InOrder
    <3>7. r.work.reg.entry[c] # r.work.manifest[c]
      BY <3>1, <3>5, <3>6 DEF Lowered
    <3>8. RegistryChanged(r.work, ecosystem)
      BY <3>7 DEF RegistryChanged
    <3>9. q.work.reg.version = ApplyBump(r.work.reg.version, RegistryBump(r))
      BY <2>2, <3>8 DEF BuiltRegistry, BumpVersion
    <3> QED
      BY <1>4, <2>1, <2>2, <3>9, BumpIsRecognised
  <2> QED
    BY <2>3, <2>4
<1>9. \A c \in Chip : c \in Folder /\ Inherits[c] \subseteq Folder
  BY FoldersAssumption DEF Folder, Versioned
<1>10. CalcBump(q.tree.reg.version, q.work.reg.version)
           = IF ListsAnew(q) THEN RegistryBump(r) ELSE BumpNone
  <2>1. RegistryBump(r) \in 1 .. 3
    <3>1. {BumpPatch} \cup {r.bumps[d] : d \in Chip} \in SUBSET Bump
      BY RunFields DEF ChipBumps
    <3> QED
      BY <3>1, MaxOfBumps DEF RegistryBump
  <2>2. ListsAnew(q) <=> RegistryChanged(r.work, ecosystem)
    BY DEF ListsAnew, RegistryChanged, BuiltRegistry, SameCommits
  <2>3. CASE RegistryChanged(r.work, ecosystem)
    <3>1. q.work.reg.version = ApplyBump(r.work.reg.version, RegistryBump(r))
      BY <2>1, <2>3 DEF BuiltRegistry, BumpVersion
    <3> QED
      BY <1>4, <2>1, <2>2, <2>3, <3>1, BumpIsRecognised
  <2>4. CASE ~RegistryChanged(r.work, ecosystem)
    BY <1>4, <2>2, <2>4 DEF BuiltRegistry, CalcBump
  <2> QED
    BY <2>3, <2>4
<1>11. RegistryBump(r) = MostBumped(q)
  BY <1>1, MostIsRecorded
<1> QED
  BY <1>2, <1>3, <1>4, <1>5, <1>7, <1>8, <1>9, <1>10, <1>11 DEF HighestWins

\* A manifest that a push keeps has its old version or a later one.
LEMMA PushRises ==
    ASSUME NEW t \in Tree, NEW e \in Pushes, Applies(e, t), NEW f \in Versioned,
           t.manifest[f] # Absent, TreeAfter(e, t).manifest[f] # Absent
    PROVE  Rises(t.manifest[f], TreeAfter(e, t).manifest[f])
<1>1. f \in Folder /\ t.manifest[f] \in Version
  BY TreeFields
<1>2. TreeAfter(e, t).manifest[f] = ManifestAfter(e[f], t.manifest[f])
  BY <1>1, TreeAfterType
<1>3. e[f].manifest \in {"kept", "gone", "patch", "minor", "major"}
  BY <1>1, FoldersAssumption DEF Edit, Applies
<1>4. CASE e[f].manifest = "kept"
  BY <1>2, <1>4 DEF ManifestAfter, Rises
<1>5. CASE e[f].manifest = "gone"
  BY <1>2, <1>5 DEF ManifestAfter
<1>6. CASE e[f].manifest \in {"patch", "minor", "major"}
  <2>1. \E b \in 1 .. 3 : TreeAfter(e, t).manifest[f] = ApplyBump(t.manifest[f], b)
    BY <1>2, <1>6 DEF ManifestAfter
  <2> QED
    BY <1>1, <2>1, BumpIsLater DEF Rises
<1> QED
  BY <1>3, <1>4, <1>5, <1>6

AllCompared == \A i \in Run : runs[i] \notin Idle => CompareInv(runs[i])

\* A step of run i that compares the same commits and neither calculates nor builds.
LEMMA OtherStep ==
    ASSUME TypeOK, AllCompared, NEW i \in Run, runs[i] \notin Idle, NEW q, Becomes(i, q),
           SameCommits(runs[i], q), q.step \notin {"calculated", "built"}
    PROVE  AllCompared'
<1>1. CompareInv(q)
  BY DEF AllCompared, CompareInv, Pushed, SameCommits, Survives
<1> QED
  BY <1>1 DEF AllCompared, TypeOK, Becomes

\* The end of a run.
LEMMA EndCompared ==
    ASSUME TypeOK, AllCompared, NEW i \in Run, NEW e \in {Done, Failed},
           runs' = [runs EXCEPT ![i] = e]
    PROVE  AllCompared'
BY DEF AllCompared, TypeOK, Idle

\* A push leaves its run the two commits in order.
LEMMA PushCompared ==
    ASSUME ReleaseInv, AllCompared, NEW e \in Pushes, Push(e)
    PROVE  AllCompared'
<1> DEFINE T == TreeAfter(e, main)
           q == [step |-> "checkedOut", edit |-> e, before |-> main, tree |-> T,
                 work |-> T, bumps |-> [c \in Chip |-> BumpNone], deleted |-> FALSE,
                 version |-> main.reg.version, at |-> seq + 1]
<1>1. main \in Tree /\ T.reg = main.reg /\ InOrder(main) /\ Applies(e, main)
  BY TreeAfterType DEF ReleaseInv, TypeOK, Push
<1>2. runs' = IF Triggers(e) THEN [runs EXCEPT ![pushes + 1] = q] ELSE runs
  BY DEF Push
<1>3. \A f \in Versioned :
        main.manifest[f] # Absent /\ T.manifest[f] # Absent
          => Rises(main.manifest[f], T.manifest[f])
  BY <1>1, PushRises
<1> HIDE DEF T
<1>4. CompareInv(q)
  BY <1>1, <1>3 DEF CompareInv, Pushed, Survives
<1> HIDE DEF q
<1> QED
  BY <1>2, <1>4 DEF AllCompared, ReleaseInv, TypeOK

\* Every step of a run keeps what is known of its comparison.
LEMMA ProceedCompared ==
    ASSUME ReleaseInv, AllCompared, NEW i \in Run, Proceed(i) \/ Die(i)
    PROVE  AllCompared'
<1> DEFINE r == runs[i]
<1>1. /\ TypeOK
      /\ r \notin Idle => r \in RunState /\ RunInv(r, main, seq) /\ CompareInv(r)
  BY DEF ReleaseInv, TypeOK, AllCompared
<1>2. ASSUME Fails(i)
      PROVE  AllCompared'
  BY <1>1, <1>2, EndCompared DEF Fails
<1>3. CASE Calculate(i)
  <2>1. r \notin Idle
    BY <1>3 DEF Calculate, At, Active
  <2>2. PICK q : /\ Becomes(i, q) /\ SameTree(r, q) /\ q.step = "calculated"
                 /\ q.bumps = [c \in Chip |-> ChipBump(r, c)]
                 /\ q.deleted = ChipVanished(r)
                 /\ \A f \in Folder : q.work.manifest[f] = CalculatedManifest(r, f)
    BY <1>1, <1>3, CalculateEffect
  <2>3. \A f \in Folder : /\ Known(q, f) = Known(r, f) /\ OwnBump(q, f) = OwnBump(r, f)
                          /\ OwnVersion(q, f) = OwnVersion(r, f)
    BY <2>2 DEF SameTree, SameCommits, Known, OwnBump, OwnVersion, Forgotten, Declared
  <2>4. \A c \in Chip : ChipBump(q, c) = ChipBump(r, c)
    <3> TAKE c \in Chip
    <3>1. c \in Folder /\ Inherits[c] \subseteq Folder
      BY FoldersAssumption DEF Folder, Versioned
    <3>2. BomBump(q, c) = BomBump(r, c)
      BY <2>2 DEF BomBump, SameTree, SameCommits
    <3>3. {d \in Inherits[c] : Known(q, d)} = {d \in Inherits[c] : Known(r, d)}
      BY <2>3, <3>1
    <3>4. {OwnBump(q, b) : b \in {d \in Inherits[c] : Known(r, d)}}
            = {OwnBump(r, b) : b \in {d \in Inherits[c] : Known(r, d)}}
      BY <2>3, <3>1
    <3>5. InheritedBumps(q, c) = InheritedBumps(r, c)
      BY <3>2, <3>3, <3>4 DEF InheritedBumps
    <3> QED
      BY <2>2, <2>3, <3>1, <3>5 DEF ChipBump, SameTree, SameCommits
  <2>5. \A f \in Folder : CalculatedManifest(q, f) = CalculatedManifest(r, f)
    BY <2>2, <2>3, <2>4 DEF CalculatedManifest, ChipVersion, SameTree, SameCommits
  <2>6. ~q.deleted
    BY <1>1, <2>1, <2>2 DEF CompareInv, Pushed, ChipVanished
  <2>7. Calculated(q)
    BY <2>2, <2>4, <2>5, <2>6 DEF Calculated
  <2>8. CompareInv(q)
    BY <1>1, <2>1, <2>2, <2>7 DEF CompareInv, Pushed, Survives, SameTree, SameCommits
  <2> QED
    BY <2>2, <2>8 DEF AllCompared, ReleaseInv, TypeOK, Becomes
<1>4. CASE Build(i)
  <2>1. r \notin Idle /\ r.step = "calculated"
    BY <1>4 DEF Build, At, Active
  <2>2. PICK q : /\ Becomes(i, q) /\ SameTree(r, q) /\ q.step = "built"
                 /\ q.work.manifest = r.work.manifest
                 /\ \E ecosystem \in SyncedEcosystems :
                       q.work.reg = BuiltRegistry(r.work, RegistryBump(r), ecosystem)
    BY <1>1, <1>4, BuildEffect
  <2>3. r.work.reg = r.tree.reg
    BY <1>1, <2>1 DEF RunInv
  <2>4. HighestWins(q)
    BY <1>1, <2>1, <2>2, <2>3, BuiltHighest DEF SameTree, Becomes
  <2>5. CompareInv(q)
    BY <1>1, <2>1, <2>2, <2>4 DEF CompareInv, Pushed, Survives, SameTree, SameCommits
  <2> QED
    BY <2>2, <2>5 DEF AllCompared, ReleaseInv, TypeOK, Becomes
<1>5. CASE BuildFails(i)
  BY <1>2, <1>5 DEF BuildFails, At, Active
<1>6. CASE Commit(i)
  BY <1>1, <1>6, CommitEffect, OtherStep DEF Commit, At, Active, SameTree
<1>7. CASE NothingToCommit(i)
  BY <1>1, <1>7, EndCompared DEF NothingToCommit
<1>8. CASE Rebase(i)
  BY <1>1, <1>8, RebaseEffect, OtherStep DEF Rebase, At, Active
<1>9. CASE RebaseFails(i)
  BY <1>2, <1>9 DEF RebaseFails, At, Active
<1>10. CASE PushMain(i)
  <2>1. r \notin Idle
    BY <1>10 DEF PushMain, At, Active
  <2>2. PICK q : /\ Becomes(i, q) /\ SameTree(r, q) /\ q.step = "pushed"
                 /\ q.work = r.work /\ q.version = r.version
    BY <1>1, <1>10, PushMainEffect
  <2> QED
    BY <1>1, <2>1, <2>2, OtherStep DEF SameTree
<1>11. CASE PushRejected(i)
  BY <1>2, <1>11 DEF PushRejected, At, Active
<1>12. CASE Tag(i)
  BY <1>1, <1>12, EndCompared DEF Tag
<1>13. CASE Die(i)
  BY <1>1, <1>2, <1>13, EndCompared DEF Die
<1> QED
  BY <1>3, <1>4, <1>5, <1>6, <1>7, <1>8, <1>9, <1>10, <1>11, <1>12, <1>13 DEF Proceed

\* In every commit a run builds, the highest bump of arch, toolchain and chip
\* has won: a chip's version differs by at least as much as those of its arch
\* and toolchain, and by a patch at least if a file it lists changed; the
\* registry's differs by exactly the most of all chips.  What is declared for
\* a driver or an integration is not inherited and not part of this.
THEOREM HighestAlwaysWins == Spec => []HighestBumpWins
<1>1. Init => AllCompared
  BY DEF Init, AllCompared, Idle
<1>2. ReleaseInv /\ AllCompared /\ [Next]_vars => AllCompared'
  <2>1. ReleaseInv /\ AllCompared /\ Next => AllCompared'
    BY PushCompared, ProceedCompared DEF Next, ReleaseStep, Elsewhere, AllCompared
  <2>2. AllCompared /\ UNCHANGED vars => AllCompared'
    BY DEF AllCompared, vars
  <2> QED
    BY <2>1, <2>2
<1>3. ReleaseInv /\ [Next]_vars => ReleaseInv'
  BY StepKeeps
<1>4. AllCompared => HighestBumpWins
  BY DEF AllCompared, CompareInv, HighestBumpWins, At, Active
<1> QED
  BY <1>1, <1>2, <1>3, <1>4, InitInv, PTL DEF Spec
-----------------------------------------------------------------------------
(***************************************************************************)
(* A quiet main is released.  While registry.json and a manifest on main   *)
(* differ, some run is under way that will mend it: the one of the push    *)
(* that gave the manifest its present version.  While a folder's code has  *)
(* changed under a released version, the run of the push that changed it   *)
(* is under way.  The hard part is that a run cannot mend one folder and   *)
(* spoil another: what it puts into registry.json on top of a main that    *)
(* has moved on is what main's manifests say.                              *)
(***************************************************************************)

\* If both are there, the second is the first or a later one.
Later(v, w) == v # Absent /\ w # Absent => Rises(v, w)

\* What semver_calc may make of the manifest of folder f.
Raise(r, f, c) ==
    /\ c \in Version \cup {Absent}
    /\ c = Absent <=> r.tree.manifest[f] = Absent
    /\ Later(r.tree.manifest[f], c)
    /\ Forgotten(r, f) /\ Known(r, f) => Earlier(r.tree.manifest[f], c)

\* Folder f of a commit rebased onto m without a conflict.
Lands(r, f, m, c) ==
    LET t == r.tree.manifest[f]
        e == r.tree.reg.entry[f]
    IN  /\ ~Conflict(t, m.manifest[f], c) /\ ~Conflict(e, m.reg.entry[f], c)
        /\ r.work.manifest[f] = Merge(t, m.manifest[f], c)
        /\ r.work.reg.entry[f] = Merge(e, m.reg.entry[f], c)

WorkInv(r, f, m, s) ==
    /\ r.step \in {"calculated", "built", "committed"} => Raise(r, f, r.work.manifest[f])
    /\ r.step = "rebased" /\ r.at = s => \E c : Raise(r, f, c) /\ Lands(r, f, m, c)

\* How the commit a run checked out stands to main, and to the folders that
\* are given up.
HeadInv(r, f, m, l) ==
    LET t == r.tree.manifest[f]
        e == r.tree.reg.entry[f]
    IN  /\ Later(e, t)
        /\ Later(t, m.manifest[f])
        /\ r.edit[f].manifest # "kept" => f \in l \/ e # t
        /\ t = Absent /\ e # Absent => m.manifest[f] = Absent /\ m.code[f] > 0
        /\ e # Absent /\ m.reg.entry[f] = Absent => m.manifest[f] = Absent /\ m.code[f] > 0
        /\ t # Absent /\ e = Absent /\ m.manifest[f] = Absent => f \in l

\* A run that will give folder f, whose manifest is v, its entry.
Mends(r, f, v) ==
    r.step # "pushed" /\ r.edit[f].manifest # "kept" /\ r.tree.manifest[f] = v

\* A run that will raise the version v of folder f, whose code has changed.
Raises(r, f, v) ==
    /\ r.step # "pushed" /\ r.edit[f].files # {} /\ Known(r, f)
    /\ r.before.manifest[f] = v /\ r.tree.manifest[f] = v

Mended(f) ==
    \/ f \in lost \/ main.reg.entry[f] = main.manifest[f]
    \/ \E j \in Run : Active(j) /\ Mends(runs[j], f, main.manifest[f])

Outgrown(f) ==
    \/ f \in lost \/ touched[f] \in {Never, Absent} \/ main.manifest[f] = Absent
    \/ Earlier(touched[f], main.manifest[f])
    \/ /\ touched[f] = main.manifest[f]
       /\ \E j \in Run : Active(j) /\ Raises(runs[j], f, touched[f])

RunSettles(r, f, m, s, l) == HeadInv(r, f, m, l) /\ WorkInv(r, f, m, s)

Settles(f) ==
    /\ Later(main.reg.entry[f], main.manifest[f])
    /\ \A i \in Run : Active(i) => RunSettles(runs[i], f, main, seq, lost)

SettledInv == \A f \in Versioned : Settles(f) /\ Mended(f) /\ Outgrown(f)

\* A forgotten bump is no declared one: the version was left as it was.
LEMMA ForgottenIsKept ==
    ASSUME NEW r, NEW f, Forgotten(r, f)
    PROVE  r.before.manifest[f] = r.tree.manifest[f]
BY CalcBumpType DEF Forgotten, Declared

\* Later versions, one after the other.
LEMMA LaterChain ==
    ASSUME NEW u \in Version \cup {Absent}, NEW v \in Version \cup {Absent},
           NEW w \in Version \cup {Absent},
           Later(u, v), Later(v, w), v = Absent => u = Absent \/ w = Absent
    PROVE  Later(u, w)
BY RisesChain DEF Later

\* semver_calc keeps versions or raises them, and raises a forgotten one.
LEMMA CalculatedRaises ==
    ASSUME NEW r \in RunState, NEW f \in Versioned
    PROVE  Raise(r, f, CalculatedManifest(r, f))
<1> DEFINE t == r.tree.manifest[f]
           own == OwnVersion(r, f)
<1>1. /\ f \in Folder /\ t \in Version \cup {Absent} /\ Absent \notin Version
      /\ r.before.manifest[f] \in Version \cup {Absent}
  BY RunFields, VersionAssumption DEF Folder, Tree, Manifests
<1>2. /\ CalculatedManifest(r, f) \in Version \cup {Absent}
      /\ CalculatedManifest(r, f) = Absent <=> t = Absent
  BY <1>1, CalculatedType
<1>3. CASE t = Absent
  BY <1>2, <1>3, ForgottenIsKept DEF Raise, Later, Forgotten
<1>4. CASE t # Absent
  <2>1. own \in Version /\ Rises(t, own) /\ t \in Version
    BY <1>1, <1>4, OwnType, OwnIsExact
  <2>2. Forgotten(r, f) => Earlier(t, own)
    <3> SUFFICES ASSUME Forgotten(r, f) PROVE Earlier(t, own)
      OBVIOUS
    <3>1. AutoBump(r.edit[f].files) \in 1 .. 3
      BY DEF AutoBump
    <3>2. own = ApplyBump(t, AutoBump(r.edit[f].files))
      BY ForgottenIsKept DEF OwnVersion
    <3> QED
      BY <2>1, <3>1, <3>2, BumpIsLater
  <2>3. CASE CalculatedManifest(r, f) = own
    BY <1>2, <2>1, <2>2, <2>3 DEF Raise, Later
  <2>4. CASE CalculatedManifest(r, f) = t /\ ~Known(r, f)
    BY <1>2, <2>4 DEF Raise, Later, Rises
  <2>5. CASE f \in Chip /\ ChipBump(r, f) > OwnBump(r, f)
    <3>1. ChipBump(r, f) \in 1 .. 3
      BY <1>1, <2>5, ChipBumpType, OwnType
    <3>2. CalculatedManifest(r, f) = ApplyBump(own, ChipBump(r, f))
      BY <1>4, <2>5 DEF CalculatedManifest, ChipVersion
    <3>3. Earlier(own, CalculatedManifest(r, f)) /\ CalculatedManifest(r, f) \in Version
      BY <2>1, <3>1, <3>2, BumpIsLater, ApplyBumpNumbers
    <3>4. Earlier(t, CalculatedManifest(r, f))
      BY <2>1, <3>3, EarlierChain DEF Rises
    <3> QED
      BY <1>2, <3>4 DEF Raise, Later, Rises
  <2> QED
    BY <1>4, <2>3, <2>4, <2>5 DEF CalculatedManifest, ChipVersion
<1> QED
  BY <1>3, <1>4

\* One folder of a push: t and e are its manifest and its entry in the commit
\* the run checked out, c what the run made of both, m and n main's.
LEMMA Landing ==
    ASSUME NEW t \in Version \cup {Absent}, NEW e \in Version \cup {Absent},
           NEW c \in Version \cup {Absent}, NEW m \in Version \cup {Absent},
           NEW n \in Version \cup {Absent},
           Later(e, t), c = Absent <=> t = Absent, Later(t, c), Later(t, m), Later(n, m),
           t = Absent /\ e # Absent => m = Absent,
           ~Conflict(t, m, c), ~Conflict(e, n, c)
    PROVE  LET m2 == Merge(t, m, c)
               n2 == Merge(e, n, c)
           IN  /\ Later(m, m2) /\ (m2 = Absent <=> m = Absent) /\ Later(n2, m2)
               /\ Earlier(t, c) => m2 = c
               /\ n2 = Absent => n = Absent \/ (t = Absent /\ e # Absent)
               /\ \/ n2 = m2
                  \/ m2 = m /\ m # n /\ t # m
                  \/ m2 = m /\ n2 = n /\ t = e
                  \/ m = Absent /\ t # Absent /\ e = Absent
<1> DEFINE m2 == Merge(t, m, c)
           n2 == Merge(e, n, c)
<1>1. \A u, v \in Version : Earlier(u, v) => ~Earlier(v, u) /\ u # v
  BY NotEarlierItself, EarlierChain
<1>2. CASE c # t
  <2>1. t \in Version /\ c \in Version /\ Earlier(t, c) /\ t # Absent /\ c # Absent
    BY <1>2 DEF Later, Rises
  <2>2. m2 = c /\ (m = t \/ m = c)
    BY <1>2 DEF Merge, Conflict
  <2>3. e # c
    BY <1>1, <2>1 DEF Later, Rises
  <2>4. n2 = c
    BY <2>3 DEF Merge
  <2> QED
    BY <2>1, <2>2, <2>4 DEF Later, Rises
<1>3. CASE c = t
  <2>1. m2 = m
    BY <1>3 DEF Merge
  <2>2. ~Earlier(t, c)
    BY <1>3, NotEarlierItself
  <2>3. CASE e = c
    BY <1>3, <2>1, <2>2, <2>3 DEF Merge, Later, Rises
  <2>4. CASE e # c
    <3>1. n2 = t
      BY <1>3, <2>4 DEF Merge
    <3>2. CASE m = n /\ t # m
      <4>1. n = e
        BY <1>3, <2>4, <3>2 DEF Conflict
      <4>2. m = Absent
        <5> SUFFICES ASSUME m # Absent PROVE FALSE
          OBVIOUS
        <5>1. t # Absent /\ e = m
          BY <3>2, <4>1
        <5>2. Earlier(e, t) /\ Earlier(t, e)
          BY <3>2, <5>1 DEF Later, Rises
        <5> QED
          BY <1>1, <5>1, <5>2
      <4> QED
        BY <1>3, <2>1, <2>2, <3>1, <3>2, <4>1, <4>2 DEF Later, Rises
    <3>3. CASE ~(m = n /\ t # m)
      BY <1>3, <2>1, <2>2, <2>4, <3>1, <3>3 DEF Later, Rises
    <3> QED
      BY <3>2, <3>3
  <2> QED
    BY <2>3, <2>4
<1> QED
  BY <1>2, <1>3

\* The commit a run checked out keeps its place while main moves on.
LEMMA HeadStays ==
    ASSUME NEW r \in RunState, NEW f \in Versioned, NEW m \in Tree, NEW n \in Tree,
           NEW l, NEW l2, HeadInv(r, f, m, l), f \in l => f \in l2,
           Outlived(r.tree, m), Follows(m, n), Later(m.manifest[f], n.manifest[f]),
           r.tree.manifest[f] # Absent /\ r.tree.reg.entry[f] = Absent
             /\ m.manifest[f] # Absent /\ n.manifest[f] = Absent => f \in l2,
           r.tree.reg.entry[f] # Absent /\ m.reg.entry[f] # Absent
             /\ n.reg.entry[f] = Absent => n.manifest[f] = Absent /\ n.code[f] > 0
    PROVE  HeadInv(r, f, n, l2)
<1> DEFINE t == r.tree.manifest[f]
           e == r.tree.reg.entry[f]
           v == m.manifest[f]
           w == n.manifest[f]
<1>1. /\ t \in Version \cup {Absent} /\ v \in Version \cup {Absent}
      /\ w \in Version \cup {Absent} /\ m.code[f] \in Nat /\ n.code[f] \in Nat
  BY RunFields, TreeFields
<1>2. /\ t # Absent => v # Absent \/ m.code[f] > 0
      /\ v = Absent /\ m.code[f] > 0 => w = Absent
      /\ m.code[f] <= n.code[f]
  BY DEF Outlived, Follows
<1>3. Later(t, v)
  BY DEF HeadInv
<1>4. Later(t, w)
  BY <1>1, <1>2, <1>3, LaterChain
<1>5. v = Absent /\ m.code[f] > 0 => w = Absent /\ n.code[f] > 0
  BY <1>1, <1>2
<1> QED
  BY <1>4, <1>5 DEF HeadInv

\* What a run has made stays good while others move main.
LEMMA WorkStays ==
    ASSUME NEW r \in RunState, NEW f, NEW m, NEW n, NEW s \in Nat, NEW s2 \in Nat,
           WorkInv(r, f, m, s), r.at <= s, s2 > s \/ (s2 = s /\ n = m)
    PROVE  WorkInv(r, f, n, s2)
BY RunFields DEF WorkInv

\* The runs after a step of run i.
LEMMA OneRunActs ==
    ASSUME TypeOK, NEW i \in Run, Active(i), NEW q, Becomes(i, q)
    PROVE  /\ runs'[i] = q
           /\ \A j \in Run \ {i} : runs'[j] = runs[j]
           /\ \A j \in Run : Active(j)' <=> Active(j)
<1>1. runs'[i] = q /\ \A j \in Run \ {i} : runs'[j] = runs[j]
  BY DEF Becomes, TypeOK
<1>2. q \notin Idle
  BY RunAssumption DEF Becomes, Idle
<1> QED
  BY <1>1, <1>2 DEF Active

\* A step of run i that leaves main alone and does not end the run.
LEMMA OwnSettles ==
    ASSUME ReleaseInv, SettledInv, NEW i \in Run, Active(i), NEW q, Becomes(i, q),
           SameCommits(runs[i], q), runs[i].step # "pushed", q.step # "pushed",
           main' = main, seq' = seq, lost' = lost, touched' = touched,
           \A f \in Versioned : WorkInv(q, f, main, seq)
    PROVE  SettledInv'
<1>1. /\ \A j \in Run : Active(j)' <=> Active(j)
      /\ \A j \in Run \ {i} : runs'[j] = runs[j]
      /\ runs'[i] = q
  BY OneRunActs DEF ReleaseInv
<1>2. ASSUME NEW f \in Versioned
      PROVE  Settles(f)' /\ Mended(f)' /\ Outgrown(f)'
  <2>1. Settles(f) /\ Mended(f) /\ Outgrown(f) /\ WorkInv(q, f, main, seq)
    BY DEF SettledInv
  <2>2. HeadInv(q, f, main, lost)
    BY <2>1 DEF Settles, RunSettles, HeadInv, SameCommits
  <2>3. Settles(f)'
    BY <1>1, <2>1, <2>2 DEF Settles, RunSettles
  <2>4. Mended(f)'
    BY <1>1, <2>1 DEF Mended, Mends, SameCommits
  <2>5. Outgrown(f)'
    BY <1>1, <2>1 DEF Outgrown, Raises, Known, SameCommits
  <2> QED
    BY <2>3, <2>4, <2>5
<1> QED
  BY <1>2 DEF SettledInv

\* The end of a run that has nothing left to mend, or gives it up.
LEMMA EndSettles ==
    ASSUME ReleaseInv, SettledInv, NEW i \in Run, Active(i), NEW e \in {Done, Failed},
           runs' = [runs EXCEPT ![i] = e], main' = main, seq' = seq, touched' = touched,
           lost \subseteq lost',
           \A f \in Versioned \ lost' :
              /\ ~Mends(runs[i], f, main.manifest[f])
              /\ touched[f] # Absent => ~Raises(runs[i], f, touched[f])
    PROVE  SettledInv'
<1>1. /\ \A j \in Run \ {i} : runs'[j] = runs[j]
      /\ \A j \in Run : Active(j)' => Active(j) /\ runs'[j] = runs[j] /\ runs[j] \in RunState
      /\ \A j \in Run \ {i} : Active(j) => Active(j)'
  BY DEF ReleaseInv, TypeOK, Active, Idle
<1>2. ASSUME NEW f \in Versioned
      PROVE  Settles(f)' /\ Mended(f)' /\ Outgrown(f)'
  <2>1. Settles(f) /\ Mended(f) /\ Outgrown(f) /\ (f \in lost => f \in lost')
    BY DEF SettledInv
  <2>2. Settles(f)'
    BY <1>1, <2>1 DEF Settles, RunSettles, HeadInv
  <2>3. Mended(f)'
    BY <1>1, <2>1 DEF Mended
  <2>4. Outgrown(f)'
    BY <1>1, <2>1 DEF Outgrown
  <2> QED
    BY <2>2, <2>3, <2>4
<1> QED
  BY <1>2 DEF SettledInv

\* A run that fails gives up the folders of its push.
LEMMA FailureSettles ==
    ASSUME ReleaseInv, SettledInv, NEW i \in Run, Active(i), Fails(i),
           main' = main, seq' = seq, touched' = touched
    PROVE  SettledInv'
<1>1. lost \subseteq lost' /\ runs' = [runs EXCEPT ![i] = Failed]
  BY DEF Fails
<1>2. ASSUME NEW f \in Versioned \ lost'
      PROVE  ~Mends(runs[i], f, main.manifest[f]) /\ ~Raises(runs[i], f, touched[f])
  <2>1. runs[i].edit[f] = Untouched
    BY <1>2 DEF Fails, Folder
  <2> QED
    BY <2>1 DEF Mends, Raises, Untouched
<1> QED
  BY <1>1, <1>2, EndSettles

\* A run that finds nothing to commit had nothing to mend.
LEMMA NothingSettles ==
    ASSUME ReleaseInv, SettledInv, NEW i \in Run, NothingToCommit(i)
    PROVE  SettledInv'
<1> DEFINE r == runs[i]
<1>1. /\ Active(i) /\ r \in RunState /\ r.step = "built" /\ r.work.reg = r.tree.reg
      /\ RunInv(r, main, seq)
  BY DEF NothingToCommit, At, Active, ReleaseInv, TypeOK
<1>2. ASSUME NEW f \in Versioned \ lost'
      PROVE  ~Mends(r, f, main.manifest[f]) /\ (touched[f] # Absent => ~Raises(r, f, touched[f]))
  <2> DEFINE t == r.tree.manifest[f]
             e == r.tree.reg.entry[f]
  <2>1. r.work.manifest[f] = e
    BY <1>1, <1>2 DEF RunInv, Indexed
  <2>2. Raise(r, f, e) /\ Later(e, t) /\ (r.edit[f].manifest # "kept" => e # t)
    BY <1>1, <1>2, <2>1 DEF NothingToCommit, SettledInv, Settles, RunSettles, HeadInv, WorkInv
  <2>3. \A u, v \in Version : Earlier(u, v) => ~Earlier(v, u) /\ u # v
    BY NotEarlierItself, EarlierChain
  <2>4. t \in Version \cup {Absent} /\ e \in Version \cup {Absent}
    BY <1>1, RunFields, TreeFields
  <2>5. e = t /\ ~Earlier(t, e)
    <3>1. CASE t = Absent
      BY <2>2, <3>1, NotEarlierItself DEF Raise
    <3>2. CASE t # Absent
      BY <2>2, <2>3, <2>4, <3>2 DEF Raise, Later, Rises
    <3> QED
      BY <3>1, <3>2
  <2>6. Raises(r, f, touched[f]) /\ touched[f] # Absent => Forgotten(r, f) /\ Known(r, f)
    BY DEF Raises, Forgotten, Declared, CalcBump
  <2> QED
    BY <2>2, <2>5, <2>6 DEF Mends, Raise
<1>3. /\ lost' = lost /\ main' = main /\ seq' = seq /\ touched' = touched
      /\ runs' = [runs EXCEPT ![i] = Done]
  BY DEF NothingToCommit
<1> QED
  BY <1>1, <1>2, <1>3, EndSettles

\* The push of a run gives main's manifests their entries, and spoils none.
LEMMA PushMainSettles ==
    ASSUME ReleaseInv, SettledInv, NEW i \in Run, PushMain(i),
           ReleaseInv', Follows(main, main')
    PROVE  SettledInv'
<1> DEFINE r == runs[i]
<1>1. /\ Active(i) /\ r \in RunState /\ r.step = "rebased" /\ r.at = seq /\ TypeOK
      /\ main \in Tree /\ seq \in Nat /\ r.work \in Tree /\ RunInv(r, main, seq)
  BY RunFields DEF ReleaseInv, TypeOK, PushMain, At, Active
<1>2. /\ main' = r.work /\ lost' = lost /\ touched' = touched
      /\ main' \in Tree /\ seq' \in Nat /\ (seq' > seq \/ (seq' = seq /\ main' = main))
  BY <1>1 DEF PushMain
<1>3. PICK q : /\ Becomes(i, q) /\ SameTree(r, q) /\ q.step = "pushed"
               /\ q.work = r.work /\ q.version = r.version
  BY PushMainEffect DEF ReleaseInv
<1>4. /\ \A j \in Run : Active(j)' <=> Active(j)
      /\ \A j \in Run \ {i} : runs'[j] = runs[j]
      /\ runs'[i] = q
      /\ \A j \in Run : Active(j) => runs[j] \in RunState /\ RunInv(runs[j], main, seq)
  <2>1. \A j \in Run : Active(j) => runs[j] \in RunState /\ RunInv(runs[j], main, seq)
    BY DEF ReleaseInv, TypeOK, Active
  <2> QED
    BY <1>1, <1>3, <2>1, OneRunActs
<1>5. ASSUME NEW f \in Versioned
      PROVE  Settles(f)' /\ Mended(f)' /\ Outgrown(f)'
  <2> DEFINE t == r.tree.manifest[f]
             e == r.tree.reg.entry[f]
             m == main.manifest[f]
             n == main.reg.entry[f]
             m2 == main'.manifest[f]
             n2 == main'.reg.entry[f]
  <2>1. Settles(f) /\ Mended(f) /\ Outgrown(f)
    BY DEF SettledInv
  <2>2. HeadInv(r, f, main, lost) /\ WorkInv(r, f, main, seq) /\ Later(n, m)
    BY <1>1, <2>1 DEF Settles, RunSettles
  <2>3. PICK c : Raise(r, f, c) /\ Lands(r, f, main, c)
    BY <1>1, <2>2 DEF WorkInv
  <2>4. /\ t \in Version \cup {Absent} /\ e \in Version \cup {Absent}
        /\ m \in Version \cup {Absent} /\ n \in Version \cup {Absent}
        /\ m2 \in Version \cup {Absent} /\ n2 \in Version \cup {Absent}
        /\ main.code[f] \in Nat /\ main'.code[f] \in Nat
    BY <1>1, <1>2, RunFields, TreeFields
  <2>5. m2 = Merge(t, m, c) /\ n2 = Merge(e, n, c)
    BY <1>2, <2>3 DEF Lands
  <2>6. /\ Later(m, m2) /\ (m2 = Absent <=> m = Absent) /\ Later(n2, m2)
        /\ Earlier(t, c) => m2 = c
        /\ n2 = Absent => n = Absent \/ (t = Absent /\ e # Absent)
        /\ \/ n2 = m2
           \/ m2 = m /\ m # n /\ t # m
           \/ m2 = m /\ n2 = n /\ t = e
           \/ m = Absent /\ t # Absent /\ e = Absent
    <3>1. /\ c \in Version \cup {Absent} /\ (c = Absent <=> t = Absent)
          /\ Later(t, c) /\ Later(e, t) /\ Later(t, m) /\ Later(n, m)
          /\ t = Absent /\ e # Absent => m = Absent
          /\ ~Conflict(t, m, c) /\ ~Conflict(e, n, c)
      BY <2>2, <2>3 DEF HeadInv, Raise, Lands
    <3> HIDE DEF t, e, m, n, m2, n2
    <3> QED
      BY <2>4, <2>5, <3>1, Landing
  <2>7. t = Absent /\ e # Absent => m2 = Absent /\ main'.code[f] > 0
    BY <2>2, <2>4, <2>6 DEF HeadInv, Follows
  <2>8. ASSUME NEW j \in Run, Active(j)
        PROVE  RunSettles(runs[j], f, main', seq', lost')
    <3>1. /\ runs[j] \in RunState /\ RunInv(runs[j], main, seq)
          /\ RunSettles(runs[j], f, main, seq, lost)
      BY <1>4, <2>1, <2>8 DEF Settles
    <3>2. HeadInv(runs[j], f, main', lost')
      BY <1>1, <1>2, <2>6, <2>7, <3>1, HeadStays DEF RunSettles, RunInv
    <3>3. WorkInv(runs[j], f, main', seq')
      BY <1>1, <1>2, <3>1, WorkStays DEF RunSettles, RunInv
    <3> QED
      BY <3>2, <3>3 DEF RunSettles
  <2>9. RunSettles(q, f, main', seq', lost')
    BY <1>1, <1>3, <2>8 DEF RunSettles, HeadInv, WorkInv, SameTree, SameCommits
  <2>10. Settles(f)'
    BY <1>4, <2>6, <2>8, <2>9 DEF Settles
  <2>11. Mended(f)'
    <3> SUFFICES ASSUME f \notin lost, n2 # m2
                 PROVE  \E j \in Run : Active(j)' /\ Mends(runs'[j], f, m2)
      BY <1>2 DEF Mended
    <3>1. ~(m = Absent /\ t # Absent /\ e = Absent)
      BY <1>2, <2>2 DEF HeadInv
    <3>2. m2 = m /\ m # n /\ (t # m \/ t = e)
      BY <2>6, <3>1
    <3>3. PICK j \in Run : Active(j) /\ Mends(runs[j], f, m)
      BY <1>2, <2>1, <3>2 DEF Mended
    <3>4. j # i
      BY <1>2, <2>2, <3>2, <3>3 DEF Mends, HeadInv
    <3> QED
      BY <1>4, <3>2, <3>3, <3>4
  <2>12. Outgrown(f)'
    <3> DEFINE v == touched[f]
    <3> SUFFICES ASSUME f \notin lost, v \notin {Never, Absent}, m2 # Absent,
                        ~Earlier(v, m2)
                 PROVE  v = m2 /\ \E j \in Run : Active(j)' /\ Raises(runs'[j], f, v)
      BY <1>2 DEF Outgrown
    <3>1. v \in Version /\ m \in Version /\ m2 \in Version
      BY <1>1, <2>4, <2>6 DEF TypeOK, Folder
    <3>2. Rises(m, m2)
      BY <2>6, <3>1 DEF Later
    <3>3. ~Earlier(v, m)
      BY <3>1, <3>2, EarlierChain DEF Rises
    <3>4. v = m /\ \E j \in Run : Active(j) /\ Raises(runs[j], f, v)
      BY <2>1, <2>6, <3>3 DEF Outgrown
    <3>5. m2 = m
      BY <3>2, <3>4 DEF Rises
    <3>6. PICK j \in Run : Active(j) /\ Raises(runs[j], f, v)
      BY <3>4
    <3>7. j # i
      <4> SUFFICES ASSUME Raises(r, f, v) PROVE FALSE
        BY <3>6
      <4>1. Forgotten(r, f) /\ Known(r, f) /\ t = m
        BY <3>4 DEF Raises, Forgotten, Declared, CalcBump
      <4>2. Earlier(t, c)
        BY <2>3, <4>1 DEF Raise
      <4> QED
        BY <2>6, <3>3, <3>4, <3>5, <4>1, <4>2
    <3> QED
      BY <1>4, <3>4, <3>5, <3>6, <3>7
  <2> QED
    BY <2>10, <2>11, <2>12
<1> QED
  BY <1>5 DEF SettledInv

\* What a push does to one folder, whose manifest was v and is w.
LEMMA PushedManifest ==
    ASSUME NEW t \in Tree, NEW e \in Pushes, Applies(e, t), NEW f \in Versioned,
           NEW v, NEW w, v = t.manifest[f], w = TreeAfter(e, t).manifest[f]
    PROVE  /\ v \in Version \cup {Absent} /\ w \in Version \cup {Absent}
           /\ \/ e[f].manifest = "kept" /\ w = v
              \/ e[f].manifest = "new" /\ v = Absent /\ w # Absent /\ t.code[f] = 0
              \/ e[f].manifest = "gone" /\ v # Absent /\ w = Absent
              \/ /\ e[f].manifest \notin {"kept", "new", "gone"}
                 /\ v \in Version /\ w \in Version /\ Earlier(v, w)
           /\ TreeAfter(e, t).code[f]
                = IF ChangesCode(e[f]) THEN t.code[f] + 1 ELSE t.code[f]
<1>1. /\ f \in Folder /\ v \in Version \cup {Absent} /\ w \in Version \cup {Absent}
      /\ Absent \notin Version /\ NewVersion \in Version
  BY TreeFields, TreeAfterType, VersionAssumption, FoldersAssumption
<1>2. e[f].manifest \in {"kept", "new", "gone", "patch", "minor", "major"}
  BY <1>1, FoldersAssumption DEF Edit
<1>3. /\ w = ManifestAfter(e[f], v)
      /\ TreeAfter(e, t).code[f] = IF ChangesCode(e[f]) THEN t.code[f] + 1 ELSE t.code[f]
  BY <1>1, TreeAfterType
<1>4. /\ e[f].manifest = "new" => v = Absent /\ t.code[f] = 0
      /\ e[f].manifest \in {"gone", "patch", "minor", "major"} => v # Absent
  BY <1>1 DEF Applies
<1>5. CASE e[f].manifest \in {"kept", "new", "gone"}
  BY <1>1, <1>3, <1>4, <1>5 DEF ManifestAfter
<1>6. CASE e[f].manifest \in {"patch", "minor", "major"}
  <2>1. v \in Version /\ \E b \in 1 .. 3 : w = ApplyBump(v, b)
    BY <1>1, <1>3, <1>4, <1>6 DEF ManifestAfter
  <2>2. w \in Version /\ Earlier(v, w)
    BY <2>1, ApplyBumpNumbers, BumpIsLater
  <2> QED
    BY <1>1, <1>3, <1>6, <2>1, <2>2
<1> QED
  BY <1>2, <1>5, <1>6

\* A push leaves a run that will settle what the push has changed.
LEMMA PushSettles ==
    ASSUME ReleaseInv, SettledInv, NEW e \in Pushes, Push(e), Follows(main, main')
    PROVE  SettledInv'
<1>0. PICK p \in Run : p = pushes + 1
  BY FoldersAssumption DEF ReleaseInv, TypeOK, Push, Run
<1> DEFINE T == TreeAfter(e, main)
           q == [step |-> "checkedOut", edit |-> e, before |-> main, tree |-> T,
                 work |-> T, bumps |-> [c \in Chip |-> BumpNone], deleted |-> FALSE,
                 version |-> main.reg.version, at |-> seq + 1]
<1>1. /\ main \in Tree /\ T \in Tree /\ T.reg = main.reg /\ seq \in Nat
      /\ InOrder(main) /\ Applies(e, main) /\ Absent \notin Version
  BY TreeAfterType, VersionAssumption DEF ReleaseInv, TypeOK, Push
<1>2. /\ main' = T /\ seq' = seq + 1
      /\ lost' = lost \cup {f \in Folder : e[f].manifest = "gone" /\ TakenForNew(f)}
      /\ touched' = [f \in Folder |->
                        IF ~ChangesCode(e[f]) THEN touched[f]
                        ELSE IF main.reg.entry[f] = Absent THEN Absent
                        ELSE main.manifest[f]]
  BY DEF Push
<1>3. runs' = IF Triggers(e) THEN [runs EXCEPT ![p] = q] ELSE runs
  BY <1>0 DEF Push
<1> HIDE DEF T
<1>4. /\ q.step = "checkedOut" /\ q.edit = e /\ q.before = main /\ q.tree = T
      /\ q \notin Idle
  <2>1. q \in RunState
    <3>1. main.reg.version \in Version
      BY <1>1, TreeFields
    <3> QED
      BY <1>1, <3>1 DEF RunState, Steps, ChipBumps
  <2> QED
    BY <2>1, RunAssumption DEF Idle
<1> HIDE DEF q
<1>5. ASSUME NEW j \in Run, Active(j)
      PROVE  /\ Active(j)' /\ runs'[j] = runs[j]
             /\ runs[j] \in RunState /\ RunInv(runs[j], main, seq)
  BY <1>0, <1>3, <1>5 DEF ReleaseInv, TypeOK, Active, Idle
<1>6. Triggers(e) => Active(p)' /\ runs'[p] = q
  BY <1>0, <1>3, <1>4 DEF ReleaseInv, TypeOK, Active
<1>7. ASSUME NEW j \in Run, Active(j)'
      PROVE  Active(j) \/ runs'[j] = q
  BY <1>0, <1>3, <1>7 DEF ReleaseInv, TypeOK, Active
<1>8. ASSUME NEW f \in Versioned
      PROVE  Settles(f)' /\ Mended(f)' /\ Outgrown(f)'
  <2> DEFINE v == main.manifest[f]
             w == T.manifest[f]
             n == main.reg.entry[f]
             k == main.code[f]
  <2>1. /\ Settles(f) /\ Mended(f) /\ Outgrown(f)
        /\ f \in Folder /\ f \in Versioned \cup Soc
        /\ n \in Version \cup {Absent} /\ k \in Nat
        /\ touched[f] \in Version \cup {Absent, Never}
        /\ e[f].files \subseteq {"changed", "added", "removed"}
    BY <1>1, TreeFields, FoldersAssumption DEF SettledInv, ReleaseInv, TypeOK, Folder, Edit
  <2>2. /\ v \in Version \cup {Absent} /\ w \in Version \cup {Absent}
        /\ \/ e[f].manifest = "kept" /\ w = v
           \/ e[f].manifest = "new" /\ v = Absent /\ w # Absent /\ k = 0
           \/ e[f].manifest = "gone" /\ v # Absent /\ w = Absent
           \/ /\ e[f].manifest \notin {"kept", "new", "gone"}
              /\ v \in Version /\ w \in Version /\ Earlier(v, w)
        /\ T.code[f] = IF ChangesCode(e[f]) THEN k + 1 ELSE k
    BY <1>1, PushedManifest DEF T
  <2>3. Later(n, v) /\ (v = Absent /\ k = 0 => n = Absent)
    BY <1>1, <2>1 DEF Settles, InOrder
  <2>4. T.reg.entry[f] = n
    BY <1>1
  <2>5. /\ f \in lost => f \in lost'
        /\ e[f].manifest = "gone" /\ TakenForNew(f) => f \in lost'
        /\ touched'[f] = IF ~ChangesCode(e[f]) THEN touched[f]
                         ELSE IF n = Absent THEN Absent ELSE v
    BY <1>2, <2>1
  <2>6. /\ e[f].manifest # "kept" => Triggers(e)
        /\ e[f].files # {} => Triggers(e)
    BY <2>1 DEF Triggers, Untouched
  <2> HIDE DEF v, w, n, k
  <2>7. Later(v, w) /\ Later(n, w)
    <3>1. Later(v, w)
      BY <2>2 DEF Later, Rises
    <3>2. v = Absent => n = Absent \/ w = Absent
      BY <1>1, <2>2, <2>3
    <3> QED
      BY <2>1, <2>2, <2>3, <3>1, <3>2, LaterChain
  <2>8. ASSUME e[f].manifest = "gone", n = Absent
        PROVE  f \in lost'
    <3> SUFFICES ASSUME f \notin lost PROVE TakenForNew(f)
      BY <2>5, <2>8
    <3>1. PICK j \in Run : Active(j) /\ Mends(runs[j], f, v)
      BY <2>1, <2>2, <2>8 DEF Mended, v, n
    <3>2. /\ HeadInv(runs[j], f, main, lost) /\ runs[j].tree.manifest[f] # Absent
      BY <2>1, <2>2, <2>8, <3>1 DEF Settles, RunSettles, Mends
    <3>3. runs[j].tree.reg.entry[f] = Absent
      BY <2>2, <2>8, <3>2 DEF HeadInv, v, n
    <3> QED
      BY <3>1, <3>2, <3>3 DEF TakenForNew
  <2>9. HeadInv(q, f, T, lost')
    <3>1. Later(w, w)
      BY DEF Later, Rises
    <3>2. e[f].manifest # "kept" => f \in lost' \/ n # w
      <4>1. \A x \in Version : ~Earlier(x, v) \/ ~Earlier(v, x) \/ v \notin Version
        BY EarlierChain
      <4>2. \A x \in Version : ~Earlier(x, x)
        BY NotEarlierItself
      <4> QED
        BY <2>2, <2>3, <2>8, <4>1, <4>2, <1>1 DEF Later, Rises
    <3>3. w = Absent /\ n # Absent => T.code[f] > 0
      BY <1>1, <2>1, <2>2, <2>3 DEF ChangesCode
    <3> QED
      BY <1>4, <2>4, <2>7, <3>1, <3>2, <3>3 DEF HeadInv, w
  <2>10. ASSUME NEW j \in Run, Active(j)'
         PROVE  RunSettles(runs'[j], f, main', seq', lost')
    <3>1. CASE runs'[j] = q
      BY <1>2, <1>4, <2>9, <3>1 DEF RunSettles, WorkInv
    <3>2. CASE Active(j)
      <4> DEFINE r == runs[j]
      <4>1. /\ r \in RunState /\ RunInv(r, main, seq) /\ runs'[j] = r
            /\ RunSettles(r, f, main, seq, lost)
        BY <1>5, <2>1, <3>2 DEF Settles
      <4>2. r.tree.manifest[f] # Absent /\ r.tree.reg.entry[f] = Absent
              /\ v # Absent /\ w = Absent => f \in lost'
        BY <1>1, <2>2, <2>5, <3>2 DEF TakenForNew
      <4>3. HeadInv(r, f, T, lost')
        BY <1>1, <1>2, <2>4, <2>5, <2>7, <4>1, <4>2, HeadStays
        DEF RunSettles, RunInv, v, w, n
      <4>4. WorkInv(r, f, T, seq + 1)
        BY <1>1, <4>1, WorkStays DEF RunSettles, RunInv
      <4> QED
        BY <1>2, <4>1, <4>3, <4>4 DEF RunSettles
    <3> QED
      BY <1>7, <2>10, <3>1, <3>2
  <2>11. Settles(f)'
    BY <1>2, <2>4, <2>7, <2>10 DEF Settles, w
  <2>12. Mended(f)'
    <3> SUFFICES ASSUME f \notin lost', n # w
                 PROVE  \E j \in Run : Active(j)' /\ Mends(runs'[j], f, w)
      BY <1>2, <2>4 DEF Mended, w
    <3>1. CASE e[f].manifest = "kept"
      <4>1. PICK j \in Run : Active(j) /\ Mends(runs[j], f, w)
        BY <2>1, <2>2, <2>5, <3>1 DEF Mended, v, n
      <4> QED
        BY <1>5, <4>1
    <3>2. CASE e[f].manifest # "kept"
      <4>1. Mends(q, f, w)
        BY <1>4, <3>2 DEF Mends, w
      <4> QED
        BY <1>1, <1>6, <2>6, <3>2, <4>1
    <3> QED
      BY <3>1, <3>2
  <2>13. Outgrown(f)'
    <3> DEFINE u == touched'[f]
    <3> SUFFICES ASSUME f \notin lost', u \notin {Never, Absent}, w # Absent, ~Earlier(u, w)
                 PROVE  u = w /\ \E j \in Run : Active(j)' /\ Raises(runs'[j], f, u)
      BY <1>2 DEF Outgrown, w
    <3>1. CASE ChangesCode(e[f])
      <4>1. u = v /\ n # Absent
        BY <2>5, <3>1
      <4>2. e[f].manifest = "kept" /\ w = v
        BY <2>2, <2>3, <4>1
      <4>3. e[f].files # {} /\ Raises(q, f, v)
        BY <1>1, <1>4, <3>1, <4>1, <4>2 DEF ChangesCode, Raises, Known, v, w, n
      <4> QED
        BY <1>1, <1>6, <2>6, <4>1, <4>2, <4>3
    <3>2. CASE ~ChangesCode(e[f])
      <4>1. u = touched[f] /\ u \in Version /\ e[f].manifest \notin {"new", "gone"}
        BY <2>1, <2>5, <3>2 DEF ChangesCode
      <4>2. ~Earlier(u, v) /\ v # Absent
        BY <1>1, <2>2, <4>1, EarlierChain
      <4>3. u = v /\ \E j \in Run : Active(j) /\ Raises(runs[j], f, u)
        BY <2>1, <2>5, <4>1, <4>2 DEF Outgrown, v
      <4>4. w = v
        BY <2>2, <4>1, <4>3
      <4> QED
        BY <1>5, <4>3, <4>4
    <3> QED
      BY <3>1, <3>2
  <2> QED
    BY <2>11, <2>12, <2>13
<1> QED
  BY <1>8 DEF SettledInv

\* A rebase that meets no conflict lands what the run has made of a folder.
LEMMA RebasedLands ==
    ASSUME NEW r \in RunState, NEW m \in Tree, NEW f \in Versioned,
           NEW q, SameCommits(r, q), q.work = MergeTree(r.tree, m, r.work),
           ~MustConflict(r.tree, m, r.work), Indexed(r.tree, r.work)
    PROVE  Lands(q, f, m, r.work.manifest[f])
<1>1. f \in Folder /\ r.work.reg.entry[f] = r.work.manifest[f]
  BY DEF Indexed, Folder
<1>2. /\ ~Conflict(r.tree.manifest[f], m.manifest[f], r.work.manifest[f])
      /\ ~Conflict(r.tree.reg.entry[f], m.reg.entry[f], r.work.manifest[f])
  BY <1>1 DEF MustConflict
<1>3. /\ q.work.manifest[f]
           = Merge(r.tree.manifest[f], m.manifest[f], r.work.manifest[f])
      /\ q.work.reg.entry[f]
           = Merge(r.tree.reg.entry[f], m.reg.entry[f], r.work.manifest[f])
  BY <1>1 DEF MergeTree
<1> QED
  BY <1>2, <1>3 DEF Lands, SameCommits

\* Every step of a run keeps what it, and the others, will settle.
LEMMA ProceedSettles ==
    ASSUME ReleaseInv, SettledInv, NEW i \in Run, Proceed(i) \/ Die(i),
           ReleaseInv', Follows(main, main')
    PROVE  SettledInv'
<1> DEFINE r == runs[i]
<1>1. /\ TypeOK /\ main \in Tree
      /\ Active(i) => r \in RunState /\ RunInv(r, main, seq)
      /\ Active(i) => \A f \in Versioned : WorkInv(r, f, main, seq)
  BY DEF ReleaseInv, TypeOK, Active, SettledInv, Settles, RunSettles
<1>2. ASSUME NEW q, SameCommits(r, q)
      PROVE  \A f, c : Raise(r, f, c) <=> Raise(q, f, c)
  BY <1>2 DEF SameCommits, Raise, Forgotten, Declared, Known
<1>3. ASSUME Active(i), r.step = "pushed", NEW e \in {Done, Failed},
             runs' = [runs EXCEPT ![i] = e],
             main' = main, seq' = seq, touched' = touched, lost' = lost
      PROVE  SettledInv'
  BY <1>3, EndSettles DEF Mends, Raises
<1>4. CASE Calculate(i)
  <2>1. /\ Active(i) /\ r.step = "checkedOut" /\ main' = main /\ seq' = seq
        /\ touched' = touched /\ lost' = lost
    BY <1>4 DEF Calculate, At
  <2>2. PICK q : /\ Becomes(i, q) /\ SameCommits(r, q) /\ q.step = "calculated"
                 /\ \A f \in Folder : q.work.manifest[f] = CalculatedManifest(r, f)
    BY <1>1, <1>4, CalculateEffect DEF SameTree
  <2>3. \A f \in Versioned : WorkInv(q, f, main, seq)
    BY <1>1, <1>2, <2>1, <2>2, CalculatedRaises DEF WorkInv, Folder
  <2> QED
    BY <2>1, <2>2, <2>3, OwnSettles
<1>5. CASE Build(i)
  <2>1. /\ Active(i) /\ r.step = "calculated" /\ main' = main /\ seq' = seq
        /\ touched' = touched /\ lost' = lost
    BY <1>5 DEF Build, At
  <2>2. PICK q : /\ Becomes(i, q) /\ SameCommits(r, q) /\ q.step = "built"
                 /\ q.work.manifest = r.work.manifest
    BY <1>1, <1>5, BuildEffect DEF SameTree
  <2>3. \A f \in Versioned : WorkInv(q, f, main, seq)
    BY <1>1, <1>2, <2>1, <2>2 DEF WorkInv
  <2> QED
    BY <2>1, <2>2, <2>3, OwnSettles
<1>6. CASE BuildFails(i)
  BY <1>6, FailureSettles DEF BuildFails, At
<1>7. CASE Commit(i)
  <2>1. /\ Active(i) /\ r.step = "built" /\ main' = main /\ seq' = seq
        /\ touched' = touched /\ lost' = lost
    BY <1>7 DEF Commit, At
  <2>2. PICK q : /\ Becomes(i, q) /\ SameCommits(r, q) /\ q.step = "committed"
                 /\ \A f \in Versioned : q.work.manifest[f] = r.work.manifest[f]
    BY <1>1, <1>7, CommitEffect DEF SameTree
  <2>3. \A f \in Versioned : WorkInv(q, f, main, seq)
    BY <1>1, <1>2, <2>1, <2>2 DEF WorkInv
  <2> QED
    BY <2>1, <2>2, <2>3, OwnSettles
<1>8. CASE NothingToCommit(i)
  BY <1>8, NothingSettles
<1>9. CASE Rebase(i)
  <2>1. /\ Active(i) /\ r.step = "committed" /\ main' = main /\ seq' = seq
        /\ touched' = touched /\ lost' = lost /\ ~MustConflict(r.tree, main, r.work)
    BY <1>9 DEF Rebase, At
  <2>2. PICK q : /\ Becomes(i, q) /\ SameCommits(r, q) /\ q.step = "rebased"
                 /\ q.work = MergeTree(r.tree, main, r.work)
    BY <1>1, <1>9, RebaseEffect
  <2>3. r \in RunState /\ Indexed(r.tree, r.work)
    BY <1>1, <2>1 DEF RunInv
  <2>4. ASSUME NEW f \in Versioned
        PROVE  WorkInv(q, f, main, seq)
    <3>1. Lands(q, f, main, r.work.manifest[f])
      BY <1>1, <2>1, <2>2, <2>3, RebasedLands
    <3>2. Raise(q, f, r.work.manifest[f])
      BY <1>1, <1>2, <2>1, <2>2 DEF WorkInv
    <3> QED
      BY <2>2, <3>1, <3>2 DEF WorkInv
  <2> QED
    BY <2>1, <2>2, <2>4, OwnSettles
<1>10. CASE RebaseFails(i)
  BY <1>10, FailureSettles DEF RebaseFails, At
<1>11. CASE PushMain(i)
  BY <1>11, PushMainSettles
<1>12. CASE PushRejected(i)
  BY <1>12, FailureSettles DEF PushRejected, At
<1>13. CASE Tag(i)
  BY <1>3, <1>13 DEF Tag, At
<1>14. CASE Die(i)
  BY <1>3, <1>14, FailureSettles DEF Die
<1> QED
  BY <1>4, <1>5, <1>6, <1>7, <1>8, <1>9, <1>10, <1>11, <1>12, <1>13, <1>14 DEF Proceed

\* A commit of another workflow outdates what was rebased before it, no more.
LEMMA ElsewhereSettles ==
    ASSUME ReleaseInv, SettledInv, Elsewhere
    PROVE  SettledInv'
<1>1. /\ main' = main /\ runs' = runs /\ lost' = lost /\ touched' = touched
      /\ seq' = seq + 1 /\ seq \in Nat
  BY DEF Elsewhere, ReleaseInv, TypeOK
<1>2. ASSUME NEW f \in Versioned, NEW j \in Run, Active(j)
      PROVE  RunSettles(runs[j], f, main, seq + 1, lost)
  <2>1. /\ runs[j] \in RunState /\ RunInv(runs[j], main, seq)
        /\ RunSettles(runs[j], f, main, seq, lost)
    BY <1>2 DEF ReleaseInv, TypeOK, Active, SettledInv, Settles
  <2>2. WorkInv(runs[j], f, main, seq + 1)
    BY <1>1, <2>1, WorkStays DEF RunSettles, RunInv
  <2> QED
    BY <2>1, <2>2 DEF RunSettles
<1>3. ASSUME NEW f \in Versioned
      PROVE  Settles(f)' /\ Mended(f)' /\ Outgrown(f)'
  <2>1. Settles(f) /\ Mended(f) /\ Outgrown(f)
    BY DEF SettledInv
  <2>2. \A j \in Run : Active(j)' <=> Active(j)
    BY <1>1 DEF Active
  <2>3. Settles(f)'
    BY <1>1, <1>2, <2>1, <2>2 DEF Settles
  <2>4. Mended(f)' /\ Outgrown(f)'
    BY <1>1, <2>1, <2>2 DEF Mended, Outgrown
  <2> QED
    BY <2>3, <2>4
<1> QED
  BY <1>3 DEF SettledInv

\* Whatever overlaps, fails or is outrun: once no run is under way, the
\* manifests and registry.json on main agree for every folder of which no push
\* was given up, and code that changed under a released version has a later one.
THEOREM QuietMain == Spec => []QuietMainIsReleased
<1>1. Init => SettledInv
  <2> SUFFICES ASSUME Init PROVE SettledInv
    OBVIOUS
  <2>1. /\ main.reg.entry = main.manifest /\ \A i \in Run : ~Active(i)
        /\ \A f \in Versioned : touched[f] = Never
    BY FoldersAssumption DEF Init, Active, Idle, Folder
  <2> QED
    BY <2>1 DEF SettledInv, Settles, Mended, Outgrown, Later, Rises
<1>2. ReleaseInv /\ [Next]_vars => ReleaseInv' /\ Follows(main, main')
  BY StepKeeps
<1>3. ReleaseInv /\ SettledInv /\ [Next]_vars => SettledInv'
  <2> SUFFICES ASSUME ReleaseInv, SettledInv, [Next]_vars PROVE SettledInv'
    OBVIOUS
  <2>1. CASE ReleaseStep
    BY <1>2, <2>1, PushSettles, ProceedSettles DEF ReleaseStep, Next
  <2>2. CASE Elsewhere
    BY <2>2, ElsewhereSettles
  <2>3. CASE UNCHANGED vars
    BY <2>3 DEF vars, SettledInv, Settles, Mended, Outgrown, Active
  <2> QED
    BY <2>1, <2>2, <2>3 DEF Next
<1>4. SettledInv => QuietMainIsReleased
  BY DEF SettledInv, Mended, Outgrown, QuietMainIsReleased
<1>5. ReleaseInv /\ [Next]_vars => ReleaseInv'
  BY <1>2
<1> QED
  BY <1>1, <1>3, <1>4, <1>5, InitInv, PTL DEF Spec

-----------------------------------------------------------------------------
(***************************************************************************)
(* What a release commits, and what its tag names.  A rebase puts lines of *)
(* two commits together; that it neither brings back what was removed nor  *)
(* removes what is there, and that what it took from main is not older     *)
(* than the version read before, is again a matter of what the run did to  *)
(* its working copy long before.                                           *)
(***************************************************************************)

\* Commit w on top of m: the same sources and folders, and, since they are
\* not staged, the same manifests of integrations.
KeepsSources(m, w) ==
    /\ w.code = m.code
    /\ \A f \in Folder : w.manifest[f] = Absent <=> m.manifest[f] = Absent
    /\ \A f \in Integration : w.manifest[f] = m.manifest[f]

\* No folder comes or goes while the versions are calculated.
SameFolders(t, w) == \A f \in Folder : w.manifest[f] = Absent <=> t.manifest[f] = Absent

CommitInv(r, m, s) ==
    /\ ~Earlier(m.reg.version, r.tree.reg.version)
    /\ r.step \in {"checkedOut", "calculated", "built", "committed"} =>
          SameFolders(r.tree, r.work)
    /\ r.step = "committed" =>
          /\ r.version = r.work.reg.version
          /\ \A f \in Integration : r.work.manifest[f] = r.tree.manifest[f]
    /\ r.step = "rebased" /\ r.at = s => KeepsSources(m, r.work)
    /\ r.step \in {"rebased", "pushed"} => ~Earlier(r.work.reg.version, r.version)
    /\ r.step = "pushed" => ~Earlier(m.reg.version, r.work.reg.version)

\* The version in a tag's name is not later than that of the registry it
\* names, nor is that one later than main's.
TagsInOrder ==
    \A t \in tags : /\ ~Earlier(t.reg.version, t.name)
                   /\ ~Earlier(main.reg.version, t.reg.version)

AllCommits ==
    /\ TagsInOrder
    /\ \A i \in Run : runs[i] \notin Idle => CommitInv(runs[i], main, seq)

\* The version of the registry, step by step.
LEMMA RegistryChain ==
    ASSUME NEW u \in Version, NEW v \in Version, NEW w \in Version,
           ~Earlier(v, u), ~Earlier(w, v)
    PROVE  ~Earlier(w, u)
BY EarlierTransitive

\* What is known of a run's commit stays while main moves on.
LEMMA CommitStays ==
    ASSUME NEW r \in RunState, NEW m \in Tree, NEW n \in Tree, NEW s \in Nat,
           NEW s2 \in Nat, CommitInv(r, m, s), Follows(m, n), r.at <= s,
           s2 > s \/ (s2 = s /\ n = m)
    PROVE  CommitInv(r, n, s2)
<1>1. /\ r.tree.reg.version \in Version /\ r.work.reg.version \in Version
      /\ m.reg.version \in Version /\ n.reg.version \in Version
  BY RunFields, TreeFields
<1>2. ~Earlier(n.reg.version, m.reg.version)
  BY <1>1, VersionAssumption DEF Follows, Lowered
<1>3. /\ ~Earlier(n.reg.version, r.tree.reg.version)
      /\ r.step = "pushed" => ~Earlier(n.reg.version, r.work.reg.version)
  BY <1>1, <1>2, RegistryChain DEF CommitInv
<1>4. r.step = "rebased" /\ r.at = s2 => KeepsSources(n, r.work)
  BY RunFields DEF CommitInv
<1> QED
  BY <1>3, <1>4 DEF CommitInv

\* A rebase that meets no conflict keeps the folders of main.
LEMMA RebasedKeeps ==
    ASSUME NEW t \in Tree, NEW m \in Tree, NEW w \in Tree, SameFolders(t, w),
           \A f \in Integration : w.manifest[f] = t.manifest[f],
           ~MustConflict(t, m, w)
    PROVE  KeepsSources(m, MergeTree(t, m, w))
<1> DEFINE u == MergeTree(t, m, w)
<1>1. u.code = m.code
  BY MergeType
<1>2. ASSUME NEW f \in Folder
      PROVE  /\ u.manifest[f] = Absent <=> m.manifest[f] = Absent
             /\ f \in Integration => u.manifest[f] = m.manifest[f]
  <2>1. /\ ~Conflict(t.manifest[f], m.manifest[f], w.manifest[f])
        /\ w.manifest[f] = Absent <=> t.manifest[f] = Absent
    BY DEF MustConflict, SameFolders
  <2>2. u.manifest[f] = Merge(t.manifest[f], m.manifest[f], w.manifest[f])
    BY MergeType
  <2> QED
    BY <2>1, <2>2, MergeOfOne DEF Merge
<1> QED
  BY <1>1, <1>2 DEF KeepsSources, Folder

\* The registry of a rebased commit is not older than the one before.
LEMMA RebasedVersion ==
    ASSUME NEW t \in Tree, NEW m \in Tree, NEW w \in Tree,
           ~Earlier(m.reg.version, t.reg.version)
    PROVE  ~Earlier(MergeTree(t, m, w).reg.version, w.reg.version)
<1>1. MergeTree(t, m, w).reg.version = Merge(t.reg.version, m.reg.version, w.reg.version)
  BY MergeType
<1> QED
  BY <1>1, TreeFields, NotEarlierItself DEF Merge

\* A step that replaces the record of run i and leaves main and the tags alone.
LEMMA OwnCommit ==
    ASSUME TypeOK, AllCommits, NEW i \in Run, NEW q, Becomes(i, q),
           main' = main, seq' = seq, tags' = tags, CommitInv(q, main, seq)
    PROVE  AllCommits'
<1>1. \A j \in Run : runs'[j] \notin Idle => CommitInv(runs'[j], main, seq)
  BY DEF AllCommits, TypeOK, Becomes
<1> QED
  BY <1>1 DEF AllCommits, TagsInOrder

\* The end of a run.
LEMMA EndCommit ==
    ASSUME TypeOK, AllCommits, NEW i \in Run, NEW e \in {Done, Failed},
           runs' = [runs EXCEPT ![i] = e], main' = main, seq' = seq, TagsInOrder'
    PROVE  AllCommits'
BY DEF AllCommits, TypeOK, Idle

\* Tags stay in order while main moves on.
LEMMA TagsStay ==
    ASSUME TypeOK, TypeOK', TagsInOrder, Follows(main, main'), tags' = tags
    PROVE  TagsInOrder'
<1>1. main.reg.version \in Version /\ main'.reg.version \in Version
  BY TreeFields DEF TypeOK
<1>2. ~Earlier(main'.reg.version, main.reg.version)
  BY <1>1, VersionAssumption DEF Follows, Lowered
<1>3. \A t \in tags : t.reg.version \in Version
  BY DEF TypeOK, Registry
<1> QED
  BY <1>1, <1>2, <1>3, RegistryChain DEF TagsInOrder

\* The steps that move main, or its head.
LEMMA MainMoves ==
    ASSUME ReleaseInv, ReleaseInv', Follows(main, main'), AllCommits, tags' = tags,
           seq' > seq \/ (seq' = seq /\ main' = main),
           \A j \in Run : runs'[j] \notin Idle =>
              (runs[j] \notin Idle /\ runs'[j] = runs[j]) \/ CommitInv(runs'[j], main', seq')
    PROVE  AllCommits'
<1>1. /\ TypeOK /\ TypeOK' /\ main \in Tree /\ main' \in Tree /\ seq \in Nat /\ seq' \in Nat
  BY DEF ReleaseInv, TypeOK
<1>2. TagsInOrder'
  BY <1>1, TagsStay DEF AllCommits
<1>3. ASSUME NEW j \in Run, runs[j] \notin Idle
      PROVE  CommitInv(runs[j], main', seq')
  <2>1. runs[j] \in RunState /\ runs[j].at <= seq /\ CommitInv(runs[j], main, seq)
    BY <1>3 DEF ReleaseInv, TypeOK, RunInv, AllCommits
  <2> QED
    BY <1>1, <2>1, CommitStays
<1> QED
  BY <1>2, <1>3 DEF AllCommits

\* The run of a push starts with the version of main.
LEMMA PushCommits ==
    ASSUME ReleaseInv, ReleaseInv', Follows(main, main'), AllCommits,
           NEW e \in Pushes, Push(e)
    PROVE  AllCommits'
<1> DEFINE T == TreeAfter(e, main)
           q == [step |-> "checkedOut", edit |-> e, before |-> main, tree |-> T,
                 work |-> T, bumps |-> [c \in Chip |-> BumpNone], deleted |-> FALSE,
                 version |-> main.reg.version, at |-> seq + 1]
<1>1. /\ main' = T /\ seq' = seq + 1 /\ tags' = tags /\ seq \in Nat
      /\ T \in Tree
  BY TreeAfterType DEF Push, ReleaseInv, TypeOK
<1>2. runs' = IF Triggers(e) THEN [runs EXCEPT ![pushes + 1] = q] ELSE runs
  BY DEF Push
<1> HIDE DEF T
<1>3. CommitInv(q, T, seq + 1)
  BY <1>1, TreeFields, NotEarlierItself DEF CommitInv, SameFolders
<1> HIDE DEF q
<1>4. \A j \in Run : runs'[j] \notin Idle =>
         (runs[j] \notin Idle /\ runs'[j] = runs[j]) \/ CommitInv(runs'[j], main', seq')
  BY <1>1, <1>2, <1>3 DEF ReleaseInv, TypeOK
<1> QED
  BY <1>1, <1>4, MainMoves

\* Every step of a run keeps what is known of its commit, and only a commit
\* that keeps the sources becomes main.
LEMMA ProceedCommits ==
    ASSUME ReleaseInv, ReleaseInv', Follows(main, main'), AllCommits,
           NEW i \in Run, Proceed(i) \/ Die(i)
    PROVE  AllCommits' /\ KeepsSources(main, main')
<1> DEFINE r == runs[i]
<1>1. /\ TypeOK /\ TypeOK' /\ main \in Tree /\ seq \in Nat
      /\ r \notin Idle => /\ r \in RunState /\ r.tree \in Tree /\ r.work \in Tree
                         /\ RunInv(r, main, seq) /\ CommitInv(r, main, seq)
  BY RunFields DEF ReleaseInv, TypeOK, AllCommits
<1>2. KeepsSources(main, main)
  BY DEF KeepsSources
<1>3. TagsInOrder /\ (tags' = tags /\ main' = main => TagsInOrder')
  BY DEF AllCommits, TagsInOrder
<1>4. CASE Calculate(i)
  <2>1. r \notin Idle /\ r.step = "checkedOut" /\ main' = main /\ seq' = seq /\ tags' = tags
    BY <1>4 DEF Calculate, At, Active
  <2>2. PICK q : /\ Becomes(i, q) /\ SameTree(r, q) /\ q.step = "calculated"
                 /\ \A f \in Folder : q.work.manifest[f] = CalculatedManifest(r, f)
    BY <1>1, <1>4, CalculateEffect
  <2>3. SameFolders(q.tree, q.work)
    BY <1>1, <2>1, <2>2, CalculatedType DEF SameFolders, SameTree, SameCommits
  <2>4. CommitInv(q, main, seq)
    BY <1>1, <2>1, <2>2, <2>3 DEF CommitInv, SameTree, SameCommits
  <2> QED
    BY <1>1, <1>2, <2>1, <2>2, <2>4, OwnCommit
<1>5. CASE Build(i)
  <2>1. r \notin Idle /\ r.step = "calculated" /\ main' = main /\ seq' = seq /\ tags' = tags
    BY <1>5 DEF Build, At, Active
  <2>2. PICK q : /\ Becomes(i, q) /\ SameTree(r, q) /\ q.step = "built"
                 /\ q.work.manifest = r.work.manifest
    BY <1>1, <1>5, BuildEffect
  <2>3. CommitInv(q, main, seq)
    BY <1>1, <2>1, <2>2 DEF CommitInv, SameFolders, SameTree, SameCommits
  <2> QED
    BY <1>1, <1>2, <2>1, <2>2, <2>3, OwnCommit
<1>6. CASE Commit(i)
  <2>1. r \notin Idle /\ r.step = "built" /\ main' = main /\ seq' = seq /\ tags' = tags
    BY <1>6 DEF Commit, At, Active
  <2>2. PICK q : /\ Becomes(i, q) /\ SameTree(r, q) /\ q.step = "committed"
                 /\ q.work.reg = r.work.reg /\ q.version = r.work.reg.version
                 /\ \A f \in Folder :
                       q.work.manifest[f] = IF f \in Integration THEN r.tree.manifest[f]
                                            ELSE r.work.manifest[f]
    BY <1>1, <1>6, CommitEffect
  <2>3. /\ SameFolders(q.tree, q.work)
        /\ \A f \in Integration : q.work.manifest[f] = q.tree.manifest[f]
    BY <1>1, <2>1, <2>2 DEF CommitInv, SameFolders, SameTree, SameCommits, Folder
  <2>4. CommitInv(q, main, seq)
    BY <1>1, <2>1, <2>2, <2>3 DEF CommitInv, SameTree, SameCommits
  <2> QED
    BY <1>1, <1>2, <2>1, <2>2, <2>4, OwnCommit
<1>7. CASE Rebase(i)
  <2>1. /\ r \notin Idle /\ r.step = "committed" /\ main' = main /\ seq' = seq /\ tags' = tags
        /\ ~MustConflict(r.tree, main, r.work)
    BY <1>7 DEF Rebase, At, Active
  <2>2. PICK q : /\ Becomes(i, q) /\ SameCommits(r, q) /\ q.at = seq /\ q.step = "rebased"
                 /\ q.version = r.version /\ q.work = MergeTree(r.tree, main, r.work)
    BY <1>1, <1>7, RebaseEffect
  <2>3. KeepsSources(main, q.work)
    BY <1>1, <2>1, <2>2, RebasedKeeps DEF CommitInv
  <2>4. ~Earlier(q.work.reg.version, q.version)
    BY <1>1, <2>1, <2>2, RebasedVersion DEF CommitInv
  <2>5. CommitInv(q, main, seq)
    BY <1>1, <2>1, <2>2, <2>3, <2>4 DEF CommitInv, SameCommits
  <2> QED
    BY <1>1, <1>2, <2>1, <2>2, <2>5, OwnCommit
<1>8. CASE PushMain(i)
  <2>1. /\ r \notin Idle /\ r.step = "rebased" /\ r.at = seq /\ main' = r.work /\ tags' = tags
        /\ seq' = IF r.work = main THEN seq ELSE seq + 1
    BY <1>8 DEF PushMain, At, Active
  <2>2. PICK q : /\ Becomes(i, q) /\ SameTree(r, q) /\ q.step = "pushed"
                 /\ q.work = r.work /\ q.version = r.version
    BY <1>1, <1>8, PushMainEffect
  <2>3. seq' > seq \/ (seq' = seq /\ main' = main)
    BY <1>1, <2>1
  <2>4. ~Earlier(main'.reg.version, r.tree.reg.version)
    <3>1. CommitInv(r, main', seq')
      BY <1>1, <2>1, <2>3, CommitStays DEF RunInv, TypeOK
    <3> QED
      BY <3>1 DEF CommitInv
  <2>5. ~Earlier(main'.reg.version, q.work.reg.version)
    BY <1>1, <2>1, <2>2, TreeFields, NotEarlierItself
  <2>6. CommitInv(q, main', seq')
    BY <1>1, <2>1, <2>2, <2>4, <2>5 DEF CommitInv, SameTree, SameCommits
  <2>7. \A j \in Run : runs'[j] \notin Idle =>
           (runs[j] \notin Idle /\ runs'[j] = runs[j]) \/ CommitInv(runs'[j], main', seq')
    BY <2>2, <2>6 DEF Becomes, ReleaseInv, TypeOK
  <2>8. KeepsSources(main, main')
    BY <1>1, <2>1 DEF CommitInv
  <2> QED
    BY <2>1, <2>3, <2>7, <2>8, MainMoves
<1>9. CASE Tag(i)
  <2>1. /\ r \notin Idle /\ r.step = "pushed" /\ main' = main /\ seq' = seq
        /\ runs' = [runs EXCEPT ![i] = Done]
        /\ tags' \subseteq tags \cup {[name |-> r.version, reg |-> r.work.reg]}
    BY <1>9 DEF Tag, At, Active
  <2>2. TagsInOrder'
    BY <1>1, <1>3, <2>1 DEF TagsInOrder, CommitInv
  <2> QED
    BY <1>1, <1>2, <2>1, <2>2, EndCommit
<1>10. CASE \E e \in {Done, Failed} : /\ runs' = [runs EXCEPT ![i] = e]
                                     /\ main' = main /\ seq' = seq /\ tags' = tags
  BY <1>1, <1>2, <1>3, <1>10, EndCommit
<1>11. CASE BuildFails(i) \/ NothingToCommit(i) \/ RebaseFails(i) \/ PushRejected(i) \/ Die(i)
  BY <1>10, <1>11 DEF BuildFails, NothingToCommit, RebaseFails, PushRejected, Die, Fails
<1> QED
  BY <1>4, <1>5, <1>6, <1>7, <1>8, <1>9, <1>11 DEF Proceed

\* Every step keeps the invariant of the commits; a step that is no push keeps
\* the sources.
LEMMA CommitsStep ==
    ASSUME ReleaseInv, AllCommits, [Next]_vars
    PROVE  AllCommits' /\ (pushes' = pushes => KeepsSources(main, main'))
<1>1. ReleaseInv' /\ Follows(main, main')
  BY StepKeeps
<1>2. CASE \E e \in Pushes : Push(e)
  <2>1. pushes' # pushes
    BY <1>2 DEF Push, ReleaseInv, TypeOK
  <2> QED
    BY <1>1, <1>2, <2>1, PushCommits
<1>3. CASE \E i \in Run : Proceed(i) \/ Die(i)
  BY <1>1, <1>3, ProceedCommits
<1>4. CASE Elsewhere
  <2>1. seq \in Nat /\ seq' = seq + 1 /\ main' = main /\ runs' = runs /\ tags' = tags
    BY <1>4 DEF Elsewhere, ReleaseInv, TypeOK
  <2>2. KeepsSources(main, main')
    BY <2>1 DEF KeepsSources
  <2> QED
    BY <1>1, <2>1, <2>2, MainMoves
<1>5. CASE UNCHANGED vars
  BY <1>5 DEF vars, AllCommits, TagsInOrder, KeepsSources
<1> QED
  BY <1>2, <1>3, <1>4, <1>5 DEF Next, ReleaseStep

\* No run and no tag at first, but the one of the first registry.
LEMMA InitCommits == Init => AllCommits
<1> SUFFICES ASSUME Init PROVE AllCommits
  OBVIOUS
<1>1. FirstTree.reg.version \in Version
  BY FoldersAssumption, TreeFields
<1> QED
  BY <1>1, NotEarlierItself DEF Init, AllCommits, TagsInOrder, Idle

\* Although the name of a tag is read before the rebase, it is never later than
\* the version of the registry the tag names, and main holds that version or a
\* later one: a tag may name too new a registry, never too old a one.
THEOREM TagsAreInOrder == Spec => []TagsInOrder
<1>1. ReleaseInv /\ [Next]_vars => ReleaseInv'
  BY StepKeeps
<1>2. ReleaseInv /\ AllCommits /\ [Next]_vars => AllCommits'
  BY CommitsStep
<1>3. AllCommits => TagsInOrder
  BY DEF AllCommits
<1> QED
  BY <1>1, <1>2, <1>3, InitInv, InitCommits, PTL DEF Spec

\* Whatever a run rebases onto, its commit changes no source, brings back no
\* removed folder, removes none, and leaves the manifests of integrations alone.
THEOREM ReleasesKeepSources == Spec => [][pushes' = pushes => KeepsSources(main, main')]_vars
<1>1. ReleaseInv /\ [Next]_vars => ReleaseInv'
  BY StepKeeps
<1>2. ReleaseInv /\ AllCommits /\ [Next]_vars =>
         AllCommits' /\ [pushes' = pushes => KeepsSources(main, main')]_vars
  BY CommitsStep
<1> QED
  BY <1>1, <1>2, InitInv, InitCommits, PTL DEF Spec
=============================================================================
