------------------------------ MODULE MCLedger ------------------------------
(***************************************************************************)
(* Instances of Ledger for TLC: one chip, one version unless the run is    *)
(* about versions, two hashes.                                             *)
(***************************************************************************)
EXTENDS LedgerClaims, TLC

MCHash == {1, 2}

\* One version and one toolchain cover both environments, as when a driver
\* changed, so that the rows of two hashes meet in one entry of the matrix.
OneVersionOf   == [h \in MCHash |-> "v1"]
OneToolchainOf == [h \in MCHash |-> "t1"]

\* Two environments that differ in the toolchain.
TwoToolchainOf == [h \in MCHash |-> IF h = 1 THEN "t1" ELSE "t2"]

\* Two environments of two chip versions.
TwoVersionOf   == [h \in MCHash |-> IF h = 1 THEN "v1" ELSE "v2"]

NoLegacy == {NoFile}

\* A legacy matrix with all combinations of one version, tested in
\* environment 1, also against "main"; a legacy state in which a combination
\* is parked under the other toolchain.
LegacyMatrix(S) ==
    [g \in Group |-> IF g[2] = "v1" THEN [hash |-> 1, software |-> S]
                                    ELSE EmptyEntry]
MainMatrices == {NoFile, LegacyMatrix(Software)}
ParkedStates ==
    {NoFile} \cup
    {[NoJobs EXCEPT ![j] = [status |-> "INFRA_ERROR", retry |-> 0, tested |-> 0]]
        : j \in {k \in Job : k[4] \notin MainSoftware /\ k[3] = "t2" /\ k[2] = "v1"}}

AllInputs == [chip : Chip, version : Version, software : Software,
              hash : Hash, status : ResultStatus]

\* Without the invalid ones.
ValidInputs == {r \in AllInputs : r.status # "INVALID"}

\* Results of the legacy format, without a chip version: successes, and
\* infrastructure errors of the first environment.
LegacyInputs ==
    {r \in [chip : Chip, version : {NoVersion}, software : Software,
            hash : Hash, status : {"VERIFIED", "INFRA_ERROR"}] :
        r.status = "VERIFIED" \/ r.hash = 1}

\* A chip may turn from any environment to any other, and vanish.
AnyChange == {<<a, b>> \in (MCHash \cup {NoHash}) \X (MCHash \cup {NoHash}) : a # b}
NoChange == {}
Upgrades == {<<1, 2>>}

AllOutcomes == ResultStatus

FileSymmetry == Permutations(File)
=============================================================================
