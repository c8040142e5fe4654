-------------------------------- MODULE SemVer --------------------------------
(***************************************************************************)
(* The arithmetic of versions in scripts/semver_calc.go and                *)
(* scripts/build_registry.go.  A version is the record of what its text    *)
(* says; the suffix stands for what follows the third number, such as the  *)
(* date in "13.2.0_20230928".                                              *)
(***************************************************************************)
EXTENDS Integers

CONSTANTS Suffix, NoSuffix, Absent

Version == [major : Nat, minor : Nat, patch : Nat, suffix : Suffix]

ASSUME VersionAssumption == NoSuffix \in Suffix /\ Absent \notin Version

BumpNone  == 0
BumpPatch == 1
BumpMinor == 2
BumpMajor == 3
Bump      == 0 .. 3

Plain(a, b, c) == [major |-> a, minor |-> b, patch |-> c, suffix |-> NoSuffix]

\* A third number with a suffix does not parse and counts as zero, as does
\* everything in a manifest without a version.
ParseSemVer(v) ==
    IF v = Absent THEN Plain(0, 0, 0)
    ELSE Plain(v.major, v.minor, IF v.suffix = NoSuffix THEN v.patch ELSE 0)

\* The order of the parsed numbers.
Earlier(v, w) ==
    LET p == ParseSemVer(v)
        q == ParseSemVer(w)
    IN  \/ p.major < q.major
        \/ p.major = q.major /\ p.minor < q.minor
        \/ p.major = q.major /\ p.minor = q.minor /\ p.patch < q.patch

\* A downgrade only earns a warning and counts as a major bump; a change of
\* the suffix alone is a patch.
CalcBump(old, new) ==
    LET p == ParseSemVer(old)
        q == ParseSemVer(new)
    IN  IF old = new THEN BumpNone
        ELSE IF old = Absent THEN BumpMinor
        ELSE IF new = Absent \/ Earlier(new, old) \/ p.major < q.major
             THEN BumpMajor
        ELSE IF p.minor < q.minor THEN BumpMinor
        ELSE BumpPatch

ApplyBump(v, bump) ==
    LET p == ParseSemVer(v)
    IN  CASE bump = BumpMajor -> Plain(p.major + 1, 0, 0)
          [] bump = BumpMinor -> Plain(p.major, p.minor + 1, 0)
          [] bump = BumpPatch -> Plain(p.major, p.minor, p.patch + 1)
          [] OTHER -> p

\* The registry's own copy takes everything else for a patch.
BumpVersion(v, bump) ==
    ApplyBump(v, IF bump \in {BumpMajor, BumpMinor} THEN bump ELSE BumpPatch)

\* What happened to the files of a folder decides an undeclared bump.
AutoBump(files) ==
    IF "removed" \in files THEN BumpMajor
    ELSE IF "added" \in files THEN BumpMinor
    ELSE BumpPatch

HigherBump(a, b) == IF a < b THEN b ELSE a
=============================================================================
