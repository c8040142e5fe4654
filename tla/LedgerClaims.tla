----------------------------- MODULE LedgerClaims -----------------------------
(***************************************************************************)
(* What the comments and the documentation say of the ledger and the code  *)
(* does not do.  Each property quotes its sentence.                        *)
(***************************************************************************)
EXTENDS Ledger

\* update_ledger.go:433, "If a newer hash appears for this version, reset to
\* only keep that hash's entries", and :412, "so stale hashes don't overwrite
\* current entries": a success in the environment the registry names now is
\* public when the run that merged it ends without a fault.  The export
\* keeps the hash that sorts last, not the newer one.
NewestHashIsPublished ==
    pc = "done" /\ behind = {} => \A f \in File :
        LET r == inbox[f]
            entry == Published[<<r.chip, VersionIn(r)>>]
        IN  Sole(f) /\ r.status = "VERIFIED" /\ r.hash = reg[r.chip]
               => entry.hash = r.hash /\ r.software \in entry.software

\* matrix_farm.md:68, a failed test "landet ... nicht in der öffentlichen
\* Matrix": once a run has merged a failure and ended, the combination is not
\* public.  When a first run dies between the commit and the export, the
\* second one finds the row gone already and exports nothing.
FailureIsNotPublic ==
    pc = "done" /\ "batch" \notin behind => \A f \in File :
        LET r == inbox[f]
        IN  Sole(f) /\ r.status # "VERIFIED"
               => r.software \notin Published[<<r.chip, VersionIn(r)>>].software

\* matrix_farm.md:74, "Tritt er zweimal in Folge auf, eskaliert das System
\* den Fehler zu FATAL_INFRA_ERROR": an infrastructure error merged over the
\* row of another one escalates.  The counter starts at zero with the first
\* error and must reach two, so the third one does.
TwiceInARowEscalates ==
    [][\A j \in Job :
          /\ state[j] # NoRow /\ state'[j] # NoRow
          /\ state[j].status = "INFRA_ERROR"
          /\ state'[j].retry > state[j].retry
          => state'[j].status = "FATAL_INFRA_ERROR"]_vars
=============================================================================
