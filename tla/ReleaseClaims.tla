---------------------------- MODULE ReleaseClaims ----------------------------
(***************************************************************************)
(* What the comments and the documentation say of the release and the code *)
(* does not do.                                                            *)
(***************************************************************************)
EXTENDS Release

\* semver_calc.go:38-40, the script "VERERBT (inherits) the HIGHEST bump type
\* to all dependent Chips", and dependency_versioning.md:313, "Driver MAJOR
\* ... Chip = MAJOR (vererbt)".  The bump recorded for a driver is never
\* looked up; a change of a listed file counts as a patch.
DriversAreInherited ==
    \A i \in Run : At(i, "built") =>
        \A c \in Chip : Survives(runs[i], c) =>
            \A d \in Uses[c] \cap Driver : Known(runs[i], d) =>
                Bumped(runs[i], c) >= Bumped(runs[i], d)

\* dependency_versioning.md:346, "Git Tag = neue registry_version": a tag
\* names a commit whose registry.json has that version.  The name is read
\* before the rebase; what is merged into the commit may be newer.
TagNamesItsRegistry == \A t \in tags : t.reg.version = t.name
=============================================================================
