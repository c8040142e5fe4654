------------------------------- MODULE Release -------------------------------
(***************************************************************************)
(* The release of the registry: .github/workflows/main-release.yml with    *)
(* the scripts it runs, semver_calc.go, sync_releases.go and               *)
(* build_registry.go.                                                      *)
(*                                                                         *)
(* Every push to main that touches a versioned folder starts a run.  A run *)
(* checks out the pushed commit, raises the versions of what the push      *)
(* changed, rebuilds registry.json, commits, rebases onto whatever main    *)
(* has become meanwhile, pushes and tags.  Nothing keeps the runs of two   *)
(* pushes from overlapping.                                                *)
(*                                                                         *)
(* Abstractions.  A folder's code is a counter of the pushes that changed  *)
(* it, its manifest the version it holds.  Entries of registry.json are    *)
(* the version they were made from: every other change of a manifest       *)
(* raises its version in the same run.  A push lies on top of the head of  *)
(* main, so the difference between the two commits a run compares is what  *)
(* the push did.  Developers do not lower a version (semver_calc.go only   *)
(* warns), nor use the name of a removed folder again.  A file on a bill   *)
(* of materials is removed together with its folder or with the line that  *)
(* lists it; without that every build fails until one of them is back.     *)
(***************************************************************************)
EXTENDS SemVer, FiniteSetsExt

CONSTANTS
    Base,        \* folders under arch/ and toolchains/
    Driver,      \* folders under drivers/
    Soc,         \* folders under soc/, which have no manifest
    Integration, \* folders under integrations/
    Chip,        \* folders under chips/
    Inherits,    \* the arch and the toolchain of a chip
    Uses,        \* the folders with files in a chip's bill of materials
    Pushes,      \* the pushes the developers may make
    FirstTree,   \* what main holds at first
    NewVersion,  \* the version a new manifest starts with
    Source,      \* where published software is listed: GitHub, DockerHub
    Outages,     \* sets of sources that may be unreachable together
    MaxPushes,   \* bound: pushes in one behaviour
    MaxCommits,  \* bound: commits on main after which no other workflow adds one
    MaxFaults    \* bound: runs that die in one behaviour

CONSTANTS NoRun, Done, Failed, Never

Idle == {NoRun, Done, Failed}  \* of a run: not started, ended

Versioned == Base \cup Driver \cup Chip     \* what the workflow versions and commits
Folder    == Versioned \cup Soc \cup Integration

Run == 1 .. MaxPushes

\* What a push does to a folder: the kinds of file operations, whether a file
\* on a bill of materials is among them, and what it does to the manifest.
Edit == [files : SUBSET {"changed", "added", "removed"}, listed : BOOLEAN,
         manifest : {"kept", "new", "gone", "patch", "minor", "major"}]

Untouched == [files |-> {}, listed |-> FALSE, manifest |-> "kept"]

Manifests == [Folder -> Version \cup {Absent}]
Registry  == [version : Version, entry : Manifests, ecosystem : SUBSET Source]
Tree      == [manifest : Manifests, code : [Folder -> Nat], reg : Registry]

ChipBumps == [Chip -> Bump]

ASSUME FoldersAssumption ==
    /\ Versioned \cap (Soc \cup Integration) = {} /\ Soc \cap Integration = {}
    /\ Chip \cap (Base \cup Driver) = {} /\ Base \cap Driver = {}
    /\ Inherits \in [Chip -> SUBSET Base]
    /\ Uses \in [Chip -> SUBSET (Driver \cup Soc)]
    /\ FirstTree \in Tree /\ FirstTree.reg.entry = FirstTree.manifest
    /\ Pushes \subseteq [Folder -> Edit]
    /\ \A e \in Pushes, f \in Folder :
          e[f].listed /\ "removed" \in e[f].files => e[f].manifest = "gone"
    /\ NewVersion \in Version
    /\ Outages \subseteq SUBSET Source
    /\ MaxPushes \in Nat /\ MaxCommits \in Nat /\ MaxFaults \in Nat

VARIABLES
    main,    \* the tree at the head of main
    seq,     \* the number of that head
    pushes,  \* how many pushes there were
    runs,    \* the workflow run of each push, with its working copy
    tags,    \* the registry that each tag names
    faults,  \* runs that died
    \* history: the version a folder had when its code last changed, Absent
    \* when registry.json did not list it yet; and the folders whose push was
    \* never released, or that were removed while a run took them for new
    touched, lost

vars == <<main, seq, pushes, runs, tags, faults, touched, lost>>

-----------------------------------------------------------------------------
(***************************************************************************)
(* What a developer's push does to main.                                   *)
(***************************************************************************)

Applies(e, t) ==
    \A f \in Folder :
        /\ e[f].manifest = "new" =>
              t.manifest[f] = Absent /\ t.code[f] = 0 /\ f \notin Soc
        /\ e[f].manifest \in {"gone", "patch", "minor", "major"}
              => t.manifest[f] # Absent

ManifestAfter(edit, v) ==
    CASE edit.manifest = "kept"  -> v
      [] edit.manifest = "new"   -> NewVersion
      [] edit.manifest = "gone"  -> Absent
      [] edit.manifest = "patch" -> ApplyBump(v, BumpPatch)
      [] edit.manifest = "minor" -> ApplyBump(v, BumpMinor)
      [] edit.manifest = "major" -> ApplyBump(v, BumpMajor)

ChangesCode(edit) == edit.files # {} \/ edit.manifest \in {"new", "gone"}

TreeAfter(e, t) ==
    [t EXCEPT !.manifest = [f \in Folder |-> ManifestAfter(e[f], t.manifest[f])],
              !.code = [f \in Folder |->
                  IF ChangesCode(e[f]) THEN t.code[f] + 1 ELSE t.code[f]]]

\* The path filter leaves out integrations.
Triggers(e) == \E f \in Versioned \cup Soc : e[f] # Untouched

-----------------------------------------------------------------------------
(***************************************************************************)
(* semver_calc.go.  r.before and r.tree are the two commits it compares,   *)
(* r.edit their difference.                                                *)
(***************************************************************************)

Declared(r, f) == CalcBump(r.before.manifest[f], r.tree.manifest[f])

\* The "human error fix": the code changed, the version did not.
Forgotten(r, f) ==
    /\ Declared(r, f) = BumpNone
    /\ r.before.manifest[f] # Absent
    /\ r.edit[f].files # {}

OwnBump(r, f) ==
    IF Forgotten(r, f) THEN AutoBump(r.edit[f].files) ELSE Declared(r, f)

OwnVersion(r, f) ==
    IF Forgotten(r, f)
    THEN ApplyBump(r.before.manifest[f], AutoBump(r.edit[f].files))
    ELSE r.tree.manifest[f]

\* Dependencies are checked only when registry.json knows them already.
Known(r, f) == r.tree.reg.entry[f] # Absent

BomBump(r, c) ==
    IF \E d \in Uses[c] : r.edit[d].listed THEN BumpPatch ELSE BumpNone

\* What a chip inherits: the bumps of its arch and toolchain, and a patch
\* for the files on its bill of materials.
InheritedBumps(r, c) ==
    {BomBump(r, c)} \cup {OwnBump(r, b) : b \in {d \in Inherits[c] : Known(r, d)}}

\* Mutant: own and inherited bumps add up.
ChipBump_Sum(r, c) ==
    IF r.tree.manifest[c] = Absent THEN BumpNone
    ELSE OwnBump(r, c) + Max(InheritedBumps(r, c))

ChipBump(r, c) ==
    IF r.tree.manifest[c] = Absent THEN BumpNone
    ELSE Max({OwnBump(r, c)} \cup InheritedBumps(r, c))

\* Mutant: what is inherited is always a patch.
ChipVersion_Patch(r, c) ==
    IF ChipBump(r, c) > OwnBump(r, c)
    THEN ApplyBump(OwnVersion(r, c), BumpPatch)
    ELSE OwnVersion(r, c)

ChipVersion(r, c) ==
    IF ChipBump(r, c) > OwnBump(r, c)
    THEN ApplyBump(OwnVersion(r, c), ChipBump(r, c))
    ELSE OwnVersion(r, c)

CalculatedManifest(r, f) ==
    IF r.tree.manifest[f] = Absent THEN Absent
    ELSE IF f \in Chip THEN ChipVersion(r, f)
    ELSE IF Known(r, f) THEN OwnVersion(r, f)
    ELSE r.tree.manifest[f]

\* A chip that registry.json listed before the push and does not list in the
\* pushed commit.  The file is rebuilt only after this comparison.
ChipVanished(r) ==
    \E c \in Chip : /\ r.before.reg.entry[c] # Absent
                    /\ r.tree.reg.entry[c] = Absent

-----------------------------------------------------------------------------
(***************************************************************************)
(* sync_releases.go and build_registry.go.                                 *)
(***************************************************************************)

\* A source that does not answer is written as empty (or as "main" alone).
SyncedEcosystems == {Source \ down : down \in Outages}

\* The fatal checks: every chip's arch, toolchain and listed drivers exist.
Valid(t) ==
    \A c \in Chip : t.manifest[c] # Absent =>
        /\ \A b \in Inherits[c] : t.manifest[b] # Absent
        /\ \A d \in Uses[c] \cap Driver : t.manifest[d] # Absent

\* Drivers are not among what raises the registry's version.
RegistryChanged(t, ecosystem) ==
    \/ \E f \in Base \cup Integration \cup Chip : t.reg.entry[f] # t.manifest[f]
    \/ t.reg.ecosystem # ecosystem

BuiltRegistry(t, bump, ecosystem) ==
    [version |-> IF RegistryChanged(t, ecosystem)
                 THEN BumpVersion(t.reg.version, bump) ELSE t.reg.version,
     entry |-> t.manifest,
     ecosystem |-> ecosystem]

-----------------------------------------------------------------------------
(***************************************************************************)
(* git: a rebase merges line by line.                                      *)
(***************************************************************************)

\* Both sides changed a line, and differently.
Conflict(base, ours, theirs) == ours # base /\ theirs # base /\ ours # theirs

Merge(base, ours, theirs) == IF theirs = base THEN ours ELSE theirs

MergeTree(base, ours, theirs) ==
    [manifest |-> [f \in Folder |->
        Merge(base.manifest[f], ours.manifest[f], theirs.manifest[f])],
     code |-> ours.code,
     reg |-> [version |-> Merge(base.reg.version, ours.reg.version, theirs.reg.version),
              entry |-> [f \in Folder |->
                 Merge(base.reg.entry[f], ours.reg.entry[f], theirs.reg.entry[f])],
              ecosystem |-> Merge(base.reg.ecosystem, ours.reg.ecosystem,
                                  theirs.reg.ecosystem)]]

MustConflict(base, ours, theirs) ==
    \/ \E f \in Folder :
          \/ Conflict(base.manifest[f], ours.manifest[f], theirs.manifest[f])
          \/ Conflict(base.reg.entry[f], ours.reg.entry[f], theirs.reg.entry[f])
    \/ Conflict(base.reg.version, ours.reg.version, theirs.reg.version)
    \/ Conflict(base.reg.ecosystem, ours.reg.ecosystem, theirs.reg.ecosystem)

\* Changes of neighbouring lines of one file may conflict, too.
MayConflict(base, ours, theirs) ==
    \/ MustConflict(base, ours, theirs)
    \/ ours.reg # base.reg /\ theirs.reg # base.reg
    \/ \E f \in Folder : /\ theirs.manifest[f] # base.manifest[f]
                         /\ ours.code[f] # base.code[f]

-----------------------------------------------------------------------------
Init ==
    /\ main = FirstTree
    /\ seq = 0
    /\ pushes = 0
    /\ runs = [i \in Run |-> NoRun]
    /\ tags = {[name |-> FirstTree.reg.version, reg |-> FirstTree.reg]}
    /\ faults = 0
    /\ touched = [f \in Folder |-> Never]
    /\ lost = {}

Active(i) == runs[i] \notin Idle

\* A run that takes a removed folder for new may list it again.
TakenForNew(f) ==
    \E i \in Run : /\ Active(i)
                   /\ runs[i].tree.manifest[f] # Absent
                   /\ runs[i].tree.reg.entry[f] = Absent

\* A developer pushes to main; github.event.before is the head it replaces.
\* The checkout is that of the pushed commit.
Push(e) ==
    /\ pushes < MaxPushes
    /\ Applies(e, main)
    /\ pushes' = pushes + 1
    /\ main' = TreeAfter(e, main)
    /\ seq' = seq + 1
    /\ runs' = IF Triggers(e)
               THEN [runs EXCEPT ![pushes + 1] =
                       [step |-> "checkedOut", edit |-> e, before |-> main,
                        tree |-> TreeAfter(e, main), work |-> TreeAfter(e, main),
                        bumps |-> [c \in Chip |-> BumpNone], deleted |-> FALSE,
                        version |-> main.reg.version, at |-> seq + 1]]
               ELSE runs
    /\ touched' = [f \in Folder |->
                      IF ~ChangesCode(e[f]) THEN touched[f]
                      ELSE IF main.reg.entry[f] = Absent THEN Absent
                      ELSE main.manifest[f]]
    /\ lost' = lost \cup {f \in Folder : e[f].manifest = "gone" /\ TakenForNew(f)}
    /\ UNCHANGED <<tags, faults>>

At(i, step) == Active(i) /\ runs[i].step = step

\* A run that ends without a release takes its push's changes with it: the
\* next run compares with a commit that contains them.
Fails(i) ==
    /\ runs' = [runs EXCEPT ![i] = Failed]
    /\ lost' = lost \cup {f \in Folder : runs[i].edit[f] # Untouched}

Calculate(i) ==
    /\ At(i, "checkedOut")
    /\ runs' = [runs EXCEPT ![i].step = "calculated",
          ![i].work.manifest = [f \in Folder |-> CalculatedManifest(runs[i], f)],
          ![i].bumps = [c \in Chip |-> ChipBump(runs[i], c)],
          ![i].deleted = ChipVanished(runs[i])]
    /\ UNCHANGED <<main, seq, pushes, tags, faults, touched, lost>>

\* The bump of .chip_bumps.json that the registry inherits.
RegistryBump(r) ==
    IF r.deleted THEN BumpMajor ELSE Max({BumpPatch} \cup {r.bumps[c] : c \in Chip})

Build(i) ==
    /\ At(i, "calculated")
    /\ Valid(runs[i].work)
    /\ \E ecosystem \in SyncedEcosystems :
          runs' = [runs EXCEPT ![i].step = "built",
             ![i].work.reg =
                 BuiltRegistry(runs[i].work, RegistryBump(runs[i]), ecosystem)]
    /\ UNCHANGED <<main, seq, pushes, tags, faults, touched, lost>>

BuildFails(i) ==
    /\ At(i, "calculated")
    /\ ~Valid(runs[i].work)
    /\ Fails(i)
    /\ UNCHANGED <<main, seq, pushes, tags, faults, touched>>

\* Mutant: git add leaves out drivers/ as well.
Commit_NoDrivers(i) ==
    /\ At(i, "built")
    /\ runs[i].work.reg # runs[i].tree.reg
    /\ runs' = [runs EXCEPT ![i].step = "committed",
          ![i].version = runs[i].work.reg.version,
          ![i].work.manifest = [f \in Folder |->
              IF f \in Integration \cup Driver
              THEN runs[i].tree.manifest[f] ELSE @[f]]]
    /\ UNCHANGED <<main, seq, pushes, tags, faults, touched, lost>>

\* git add leaves out integrations/, and git checkout discards what was not
\* added: their raised versions stay in registry.json alone.
Commit(i) ==
    /\ At(i, "built")
    /\ runs[i].work.reg # runs[i].tree.reg
    /\ runs' = [runs EXCEPT ![i].step = "committed",
          ![i].version = runs[i].work.reg.version,
          ![i].work.manifest = [f \in Folder |->
              IF f \in Integration THEN runs[i].tree.manifest[f] ELSE @[f]]]
    /\ UNCHANGED <<main, seq, pushes, tags, faults, touched, lost>>

NothingToCommit(i) ==
    /\ At(i, "built")
    /\ runs[i].work.reg = runs[i].tree.reg
    /\ runs' = [runs EXCEPT ![i] = Done]
    /\ UNCHANGED <<main, seq, pushes, tags, faults, touched, lost>>

\* git pull --rebase: fetch the head of main and put the commit on top.
Rebase(i) ==
    /\ At(i, "committed")
    /\ ~MustConflict(runs[i].tree, main, runs[i].work)
    /\ runs' = [runs EXCEPT ![i].step = "rebased", ![i].at = seq,
          ![i].work = MergeTree(runs[i].tree, main, @)]
    /\ UNCHANGED <<main, seq, pushes, tags, faults, touched, lost>>

RebaseFails(i) ==
    /\ At(i, "committed")
    /\ MayConflict(runs[i].tree, main, runs[i].work)
    /\ Fails(i)
    /\ UNCHANGED <<main, seq, pushes, tags, faults, touched>>

\* Mutant: a forced push.
PushMain_Forced(i) ==
    /\ At(i, "rebased")
    /\ main' = runs[i].work
    /\ seq' = IF runs[i].work = main THEN seq ELSE seq + 1
    /\ runs' = [runs EXCEPT ![i].step = "pushed"]
    /\ UNCHANGED <<pushes, tags, faults, touched, lost>>

\* git push takes only a successor of the head.  The commit is marked
\* [skip ci] and starts no run.
PushMain(i) ==
    /\ At(i, "rebased")
    /\ runs[i].at = seq
    /\ main' = runs[i].work
    /\ seq' = IF runs[i].work = main THEN seq ELSE seq + 1
    /\ runs' = [runs EXCEPT ![i].step = "pushed"]
    /\ UNCHANGED <<pushes, tags, faults, touched, lost>>

PushRejected(i) ==
    /\ At(i, "rebased")
    /\ runs[i].at # seq
    /\ Fails(i)
    /\ UNCHANGED <<main, seq, pushes, tags, faults, touched>>

\* The name is the version read before the rebase; a tag that exists stays.
Tag(i) ==
    /\ At(i, "pushed")
    /\ tags' = IF \E t \in tags : t.name = runs[i].version THEN tags
               ELSE tags \cup {[name |-> runs[i].version, reg |-> runs[i].work.reg]}
    /\ runs' = [runs EXCEPT ![i] = Done]
    /\ UNCHANGED <<main, seq, pushes, faults, touched, lost>>

\* The runner dies, or git or the network fails it.
Die(i) ==
    /\ Active(i)
    /\ faults < MaxFaults
    /\ faults' = faults + 1
    /\ IF runs[i].step = "pushed"
       THEN runs' = [runs EXCEPT ![i] = Failed] /\ UNCHANGED lost
       ELSE Fails(i)
    /\ UNCHANGED <<main, seq, pushes, tags, touched>>

Proceed(i) ==
    \/ Calculate(i) \/ Build(i) \/ BuildFails(i) \/ Commit(i) \/ NothingToCommit(i)
    \/ Rebase(i) \/ RebaseFails(i) \/ PushMain(i) \/ PushRejected(i) \/ Tag(i)

\* Another workflow commits files of its own to main: the matrix of the farm,
\* the version index.  It starts no run.
Elsewhere ==
    /\ seq < MaxCommits
    /\ seq' = seq + 1
    /\ UNCHANGED <<main, pushes, runs, tags, faults, touched, lost>>

ReleaseStep ==
    \/ \E e \in Pushes : Push(e)
    \/ \E i \in Run : Proceed(i) \/ Die(i)

Next == ReleaseStep \/ Elsewhere

Spec == Init /\ [][Next]_vars

-----------------------------------------------------------------------------
(***************************************************************************)
(* Properties.                                                             *)
(***************************************************************************)

Steps == {"checkedOut", "calculated", "built", "committed", "rebased", "pushed"}

RunState == [step : Steps, edit : Pushes, before : Tree, tree : Tree, work : Tree,
             bumps : ChipBumps, deleted : BOOLEAN, version : Version, at : Nat]

ASSUME RunAssumption ==
    /\ NoRun \notin RunState \cup {Done, Failed}
    /\ Done \notin RunState /\ Failed \notin RunState

\* Every variable keeps its type; versions keep their three numbers.
TypeOK ==
    /\ main \in Tree
    /\ seq \in Nat
    /\ pushes \in 0 .. MaxPushes
    /\ runs \in [Run -> RunState \cup Idle]
    /\ \A i \in Run : i > pushes => runs[i] = NoRun
    /\ tags \subseteq [name : Version, reg : Registry]
    /\ faults \in Nat
    /\ touched \in [Folder -> Version \cup {Absent, Never}]
    /\ lost \subseteq Folder

Lowered(old, new) == old # Absent /\ new # Absent /\ Earlier(new, old)

\* However the runs of several pushes overlap, no step takes the version of
\* the registry, of the manifest of an arch, toolchain, driver or chip, or of
\* its entry in registry.json back to one that semver_calc.go takes for
\* earlier: what a rebase merges is never older than main.  That order knows
\* nothing of a third number with a suffix, which counts as 0; and the entry
\* of an integration does go back, since its raised manifest is not staged.
NothingRegresses ==
    [][/\ ~Lowered(main.reg.version, main'.reg.version)
       /\ \A f \in Versioned :
             /\ ~Lowered(main.manifest[f], main'.manifest[f])
             /\ ~Lowered(main.reg.entry[f], main'.reg.entry[f])]_vars

\* When all runs have ended, registry.json and the manifests on main agree,
\* and no folder's code has changed under a version released before: for
\* every folder none of whose pushes was lost to a run that failed, and that
\* was not removed again while a run was about to list it.
QuietMainIsReleased ==
    (\A i \in Run : ~Active(i)) =>
        \A f \in Versioned \ lost :
            /\ main.reg.entry[f] = main.manifest[f]
            /\ touched[f] \notin {Never, Absent} /\ main.manifest[f] # Absent
                  => Earlier(touched[f], main.manifest[f])

\* What the versions before and after a run differ by.
Bumped(r, f) == CalcBump(r.before.manifest[f], r.work.manifest[f])

Survives(r, f) == r.before.manifest[f] # Absent /\ r.tree.manifest[f] # Absent

\* The most of all chips; a new one counts with what it inherits.
MostBumped(r) ==
    LET there   == {c \in Chip : r.tree.manifest[c] # Absent}
        parents == {b \in UNION {Inherits[c] : c \in there} : Known(r, b)}
    IN  Max({BumpPatch} \cup {Bumped(r, f) : f \in there \cup parents})

\* The run's registry lists something else, drivers aside, than the one it found.
ListsAnew(r) ==
    \/ \E f \in Base \cup Integration \cup Chip : r.work.reg.entry[f] # r.tree.reg.entry[f]
    \/ r.work.reg.ecosystem # r.tree.reg.ecosystem

HighestWins(r) ==
    LET raised == CalcBump(r.tree.reg.version, r.work.reg.version)
    IN  /\ \A c \in Chip : Survives(r, c) =>
              /\ \A b \in Inherits[c] : Known(r, b) => Bumped(r, c) >= Bumped(r, b)
              /\ Bumped(r, c) >= BomBump(r, c)
              /\ Bumped(r, c) >= Declared(r, c)
              /\ raised >= Bumped(r, c)
        /\ raised = IF ListsAnew(r) THEN MostBumped(r) ELSE BumpNone

\* dependency_versioning.md, "Der höchste Update-Typ gewinnt": in the tree a
\* run commits, a chip's version differs from the one before the push by at
\* least as much as those of its arch and toolchain, and a change of a listed
\* file raises it; the registry's version rises by exactly the most of all
\* chips, or a patch, and stays only if the registry lists what it did.  Read
\* off the versions, not off the recorded bumps.
HighestBumpWins ==
    \A i \in Run : At(i, "built") => HighestWins(runs[i])
=============================================================================
