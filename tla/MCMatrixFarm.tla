---------------------------- MODULE MCMatrixFarm ----------------------------
(***************************************************************************)
(* Instances of MatrixFarm for TLC.                                        *)
(***************************************************************************)
EXTENDS MatrixFarmClaims, LedgerClaims, TLC

MCHash == {1, 2}
OneHash == {1}
OneVersionOf   == [h \in Hash |-> "v1"]
OneToolchainOf == [h \in Hash |-> "t1"]
TwoToolchainOf == [h \in Hash |-> IF h = 1 THEN "t1" ELSE "t2"]
TwoVersionOf   == [h \in Hash |-> IF h = 1 THEN "v1" ELSE "v2"]

NoLegacy == {NoFile}
Everything == [chip : Chip, version : Version, software : Software,
               hash : Hash, status : ResultStatus]
ExceptInfra == {r \in Everything : r.status # "INFRA_ERROR"}

\* A ledger from the time of the environment with the higher-sorting hash, in
\* which everything was verified.
OldMatrix == {NoFile, [g \in Group |-> [hash |-> 2, software |-> Software]]}

\* A chip is added; a chip's environment changes to one that sorts lower.
Arrival == {<<NoHash, 1>>}
Inversion == {<<2, 1>>}
NoChange == {}

AllOutcomes == ResultStatus
Failures == ResultStatus \ {"VERIFIED"}

MCRank == [p \in Chip \X Software |->
              (IF p[1] = "c1" THEN 0 ELSE 2) + (IF p[2] = "s1" THEN 0 ELSE 1)]
=============================================================================
