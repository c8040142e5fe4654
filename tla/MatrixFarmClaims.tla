--------------------------- MODULE MatrixFarmClaims ---------------------------
(***************************************************************************)
(* What the documentation says of the farm and the code does not do.       *)
(***************************************************************************)
EXTENDS MatrixFarm

\* release.md:225, the soft retrigger "Clears all _failed_ (unverified) jobs
\* from the queue and awakens the Matrix Poller to retry them": a call beside
\* which nothing else is at work, while the ledger holds no failed job, leaves
\* no target out for a failure.  clear_unverified deletes the rows, but the
\* generator reads internal_state.json, which nobody exports.
SoftRetriggerRetests ==
    [][Compute /\ quiet /\ dbExists /\ state = NoJobs => Rested = open]_farmVars
=============================================================================
