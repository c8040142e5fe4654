------------------------------- MODULE Ledger -------------------------------
(***************************************************************************)
(* scripts/update_ledger.go and scripts/clear_unverified.go: the SQLite    *)
(* ledger of tested combinations, and the two JSON files exported from it. *)
(*                                                                         *)
(* The CI daemon drops result files into the working directory and runs    *)
(* update_ledger, which merges them into ledger.db in one transaction and  *)
(* then rewrites compatibility_matrix.json and internal_state.json.  The   *)
(* script may die between any two of its steps; the result files survive   *)
(* (they are git-ignored and only the daemon removes them), so the next    *)
(* run merges them again.                                                  *)
(*                                                                         *)
(* Abstractions.  A software triple (cli, core, compiler) is one value of  *)
(* Software.  Environment hashes are numbers, whose order is the order in  *)
(* which ORDER BY environment_hash sorts the hexadecimal strings: it has   *)
(* nothing to do with which hash is newer.  A job id is the tuple it is    *)
(* the checksum of.  Timestamps are readings of a coarse clock.            *)
(***************************************************************************)
EXTENDS Integers, FiniteSets, FiniteSetsExt

CONSTANTS
    Chip,           \* chip names
    Version,        \* chip manifest versions
    Software,       \* (cli, core, compiler) triples
    MainSoftware,   \* those whose cli or core is the moving "main"
    Hash,           \* environment hashes, in their sorting order
    MaxHash,        \* the greatest a SHA-256 value can be
    Toolchain,      \* toolchain versions
    VersionOf,      \* the chip version an environment hash covers
    ToolchainOf,    \* the toolchain version an environment hash covers
    DefaultVersion, \* "1.0.0", for a legacy result of an unknown chip
    File,           \* names of result files
    Inputs,         \* the results the test farm may deliver
    LegacyMatrices, \* what compatibility_matrix.json may hold at first
    LegacyStates,   \* what internal_state.json may hold at first
    Follows,        \* bound: the registry changes considered, as pairs
    Counted,        \* bound: the outcomes that are limited in number,
    MaxResults,     \* bound: and how many of them one behaviour has
    MaxFaults,      \* bound: crashes, failed commits and exports in one behaviour
    MaxClock        \* bound: the last reading of the clock

CONSTANTS NoHash, NoVersion, NoRow, NoFile, Torn

ResultStatus == {"VERIFIED", "INFRA_ERROR", "COMPILER_ERROR", "INVALID"}
ParkedStatus == {"INFRA_ERROR", "COMPILER_ERROR", "FATAL_INFRA_ERROR"}

\* A result file.  INVALID stands for the files the merge loop skips:
\* unreadable, unparsable, lacking a mandatory field or with another status.
Result == [chip : Chip, version : Version \cup {NoVersion},
           software : Software, hash : Hash, status : ResultStatus]

Combo == Chip \X Version \X Software               \* verified_combinations.tuple_key
Job   == Chip \X Version \X Toolchain \X Software  \* internal_state.job_id
Group == Chip \X Version                           \* one entry of the exported matrix
Test  == Chip \X Toolchain \X Software             \* a job but for the version it is filed under

Row   == [status : ParkedStatus, retry : Nat, tested : Nat]
Entry == [hash : Hash \cup {NoHash}, software : SUBSET Software]

VerifiedTable == [Combo -> Hash \cup {NoHash}]
StateTable    == [Job -> Row \cup {NoRow}]
Matrix        == [Group -> Entry]

NoCombos    == [c \in Combo |-> NoHash]
NoJobs      == [j \in Job |-> NoRow]
EmptyEntry  == [hash |-> NoHash, software |-> {}]
EmptyMatrix == [g \in Group |-> EmptyEntry]

\* A matrix the export can have written: an entry lists at least one
\* combination, and all of them under the entry's hash.
WellFormed(m) == \A g \in Group : m[g].hash = NoHash <=> m[g].software = {}

ASSUME ConstantsAssumption ==
    /\ MainSoftware \subseteq Software
    /\ MaxHash \in Nat /\ Hash \subseteq 0 .. MaxHash
    /\ VersionOf \in [Hash -> Version]
    /\ ToolchainOf \in [Hash -> Toolchain]
    /\ DefaultVersion \in Version
    /\ Inputs \subseteq Result
    /\ Follows \subseteq (Hash \cup {NoHash}) \X (Hash \cup {NoHash})
    /\ Counted \subseteq ResultStatus
    /\ MaxResults \in Nat /\ MaxFaults \in Nat /\ MaxClock \in Nat

ASSUME LegacyAssumption ==
    /\ \A m \in LegacyMatrices : m = NoFile \/ (m \in Matrix /\ WellFormed(m))
    /\ \A s \in LegacyStates : s = NoFile \/ s \in StateTable
    /\ \A m \in LegacyMatrices \ {NoFile}, s \in LegacyStates \ {NoFile} :
          \A g \in Group : \A p \in m[g].software :
             s[<<g[1], g[2], ToolchainOf[m[g].hash], p>>] = NoRow

ASSUME DistinctAssumption ==
    /\ NoHash \notin Hash /\ NoVersion \notin Version /\ NoRow \notin Row
    /\ NoFile \notin Result
    /\ {NoFile, Torn} \cap (Matrix \cup StateTable) = {}
    /\ NoFile # Torn

VARIABLES
    dbExists,   \* is there a file ledger.db
    verified,   \* table verified_combinations: the environment hash of a row
    state,      \* table internal_state
    matrixJson, \* compatibility_matrix.json
    stateJson,  \* internal_state.json
    reg,        \* registry.json: the current environment of each chip
    inbox,      \* result_*.json.processing
    clock,      \* time.Now
    \* the running update_ledger process
    pc, todo, txVerified, txState, updated, stateUpdated, rows,
    \* history: counted results and faults so far, INFRA_ERROR results per test,
    \* environments software was verified in, exports known to lag behind
    results, faults, infraReports, proven, behind

db      == <<dbExists, verified, state>>
json    == <<matrixJson, stateJson>>
process == <<pc, todo, txVerified, txState, updated, stateUpdated, rows>>
history == <<results, faults, infraReports, proven, behind>>
vars    == <<db, json, reg, inbox, clock, process, history>>

-----------------------------------------------------------------------------
(***************************************************************************)
(* What the exports compute, and what their readers see.                   *)
(***************************************************************************)

\* The rows arrive sorted by hash, and every change of hash drops the rows
\* collected so far: the group's greatest hash remains, with its rows.
HashesOf(v, g) == {v[<<g[1], g[2], s>>] : s \in Software} \ {NoHash}

\* Mutant: no reset when the hash changes.
ExportGroup_KeepsRows(v, g) ==
    IF HashesOf(v, g) = {}
    THEN EmptyEntry
    ELSE [hash |-> Max(HashesOf(v, g)),
          software |-> {s \in Software : v[<<g[1], g[2], s>>] # NoHash}]

ExportGroup(v, g) ==
    IF HashesOf(v, g) = {}
    THEN EmptyEntry
    ELSE LET last == Max(HashesOf(v, g))
         IN  [hash |-> last,
              software |-> {s \in Software : v[<<g[1], g[2], s>>] = last}]

ExportMatrix(v) == [g \in Group |-> ExportGroup(v, g)]

\* Readers take a missing or empty file for an empty document.  (A matrix cut
\* off in its middle is no document at all: Torn stands for it too, and where
\* it makes a difference to a reader, that reader's step says so.)
MatrixOf(file) == IF file \in {NoFile, Torn} THEN EmptyMatrix ELSE file
StateOf(file)  == IF file \in {NoFile, Torn} THEN NoJobs ELSE file

Published == MatrixOf(matrixJson)

\* The combination as the merge loop resolves it, with its fallback for
\* legacy results that carry no chip version.
VersionIn(r) ==
    IF r.version # NoVersion THEN r.version
    ELSE IF reg[r.chip] # NoHash THEN VersionOf[reg[r.chip]]
    ELSE DefaultVersion

ComboOf(r) == <<r.chip, VersionIn(r), r.software>>
JobOf(r)   == <<r.chip, VersionIn(r), ToolchainOf[r.hash], r.software>>
TestOf(r)  == <<r.chip, ToolchainOf[r.hash], r.software>>

\* Mutant: every failure counts as a retry, not only INFRA_ERROR.
RowFor_CountsAll(r, old) ==
    LET retry == IF old # NoRow THEN old.retry + 1 ELSE 0
    IN  [status |-> IF r.status = "INFRA_ERROR" /\ retry >= 2
                    THEN "FATAL_INFRA_ERROR" ELSE r.status,
         retry |-> retry, tested |-> clock]

RowFor(r, old) ==
    LET retry == IF r.status = "INFRA_ERROR" /\ old # NoRow
                 THEN old.retry + 1 ELSE 0
    IN  [status |-> IF r.status = "INFRA_ERROR" /\ retry >= 2
                    THEN "FATAL_INFRA_ERROR" ELSE r.status,
         retry  |-> retry,
         tested |-> clock]

Init ==
    /\ dbExists = FALSE
    /\ verified = NoCombos
    /\ state = NoJobs
    /\ matrixJson \in LegacyMatrices
    /\ stateJson \in LegacyStates
    /\ reg \in [Chip -> Hash \cup {NoHash}]
    /\ inbox = [f \in File |-> NoFile]
    /\ clock = 0
    /\ pc = "idle"
    /\ todo = {}
    /\ txVerified = NoCombos
    /\ txState = NoJobs
    /\ updated = FALSE
    /\ stateUpdated = FALSE
    /\ rows = NoJobs
    /\ results = 0
    /\ faults = 0
    /\ infraReports = [t \in Test |-> 0]
    /\ proven = {p \in Chip \X Software \X Hash :
                    \E v \in Version :
                       /\ Published[<<p[1], v>>].hash = p[3]
                       /\ p[2] \in Published[<<p[1], v>>].software}
    /\ behind = {}

-----------------------------------------------------------------------------
(***************************************************************************)
(* The environment: the farm, the registry, the clock, the operator.       *)
(***************************************************************************)

\* The daemon renames a finished result to *.processing between two runs.
Deliver(f, r) ==
    /\ pc = "idle"
    /\ inbox[f] = NoFile
    /\ r.status \in Counted => results < MaxResults
    /\ inbox' = [inbox EXCEPT ![f] = r]
    /\ results' = IF r.status \in Counted THEN results + 1 ELSE results
    /\ infraReports' = IF r.status = "INFRA_ERROR"
                       THEN [infraReports EXCEPT ![TestOf(r)] = @ + 1]
                       ELSE infraReports
    /\ proven' = IF r.status = "VERIFIED"
                 THEN proven \cup {<<r.chip, r.software, r.hash>>} ELSE proven
    /\ UNCHANGED <<db, json, reg, clock, process, faults, behind>>

\* The daemon pulls a registry.json in which a chip was changed or removed.
RegistryChange(c, h) ==
    /\ pc = "idle"
    /\ <<reg[c], h>> \in Follows
    /\ reg' = [reg EXCEPT ![c] = h]
    /\ UNCHANGED <<db, json, inbox, clock, process, history>>

Tick ==
    /\ clock < MaxClock
    /\ clock' = clock + 1
    /\ UNCHANGED <<db, json, reg, inbox, process, history>>

\* clear_unverified deletes every row of internal_state (a row's status is
\* never VERIFIED).  On a missing ledger.db it leaves an empty database
\* behind, and nothing will migrate the JSON files any more.  SQLite keeps
\* it waiting while the merge's transaction is open.
ClearUnverified ==
    /\ pc # "apply"
    /\ dbExists' = TRUE
    /\ state' = NoJobs
    /\ behind' = behind \cup (IF dbExists THEN {} ELSE {"matrix"})
                        \cup (IF state = StateOf(stateJson) /\ state = NoJobs
                              THEN {} ELSE {"state"})
    /\ UNCHANGED <<verified, json, reg, inbox, clock, process,
                   results, faults, infraReports, proven>>

\* The administrator's hard reset drops ledger.db and the JSON caches.
HardReset ==
    /\ pc = "idle"
    /\ dbExists' = FALSE
    /\ verified' = NoCombos
    /\ state' = NoJobs
    /\ matrixJson' = NoFile
    /\ stateJson' = NoFile
    /\ behind' = {}
    /\ UNCHANGED <<reg, inbox, clock, process,
                   results, faults, infraReports, proven>>

-----------------------------------------------------------------------------
(***************************************************************************)
(* update_ledger, step by step.                                            *)
(***************************************************************************)

\* initDB: a missing database is created with its schema, then migrated.
Start ==
    /\ pc = "idle"
    /\ dbExists' = TRUE
    /\ pc' = IF dbExists THEN "purge" ELSE "import"
    /\ UNCHANGED <<verified, state, json, reg, inbox, clock, todo,
                   txVerified, txState, updated, stateUpdated, rows, history>>

\* importLegacyJSON, first transaction.  Without a matrix to import it
\* returns, and the internal state is not imported either.
ImportMatrix ==
    /\ pc = "import"
    /\ IF matrixJson \in {NoFile, Torn}
       THEN /\ pc' = "purge"
            /\ behind' = behind \cup (IF StateOf(stateJson) = NoJobs
                                      THEN {} ELSE {"state"})
            /\ UNCHANGED verified
       ELSE /\ verified' = [c \in Combo |->
                  LET e == matrixJson[<<c[1], c[2]>>]
                  IN  IF c[3] \in e.software THEN e.hash ELSE verified[c]]
            /\ pc' = "importState"
            /\ UNCHANGED behind
    /\ UNCHANGED <<dbExists, state, json, reg, inbox, clock, todo, txVerified,
                   txState, updated, stateUpdated, rows,
                   results, faults, infraReports, proven>>

\* Mutant: the second transaction is forgotten.
ImportState_Forgotten ==
    /\ pc = "importState"
    /\ pc' = "purge"
    /\ UNCHANGED <<db, json, reg, inbox, clock, todo,
                   txVerified, txState, updated, stateUpdated, rows, history>>

\* Second transaction: the rows of internal_state.json.
ImportState ==
    /\ pc = "importState"
    /\ state' = [j \in Job |-> IF StateOf(stateJson)[j] # NoRow
                               THEN StateOf(stateJson)[j] ELSE state[j]]
    /\ pc' = "purge"
    /\ UNCHANGED <<dbExists, verified, json, reg, inbox, clock, todo,
                   txVerified, txState, updated, stateUpdated, rows, history>>

\* The purge of rows tested against "main", committed on its own.
IsMainRow(c) == c[3] \in MainSoftware /\ verified[c] # NoHash

\* Mutant: the purge does not raise the updated flag.
Purge_Silent ==
    /\ pc = "purge"
    /\ verified' = [c \in Combo |-> IF IsMainRow(c) THEN NoHash ELSE verified[c]]
    /\ pc' = "glob"
    /\ UNCHANGED <<dbExists, state, json, reg, inbox, clock, todo,
                   txVerified, txState, updated, stateUpdated, rows, history>>

Purge ==
    /\ pc = "purge"
    /\ verified' = [c \in Combo |-> IF IsMainRow(c) THEN NoHash ELSE verified[c]]
    /\ updated' = (\E c \in Combo : IsMainRow(c))
    /\ pc' = "glob"
    /\ UNCHANGED <<dbExists, state, json, reg, inbox, clock, todo,
                   txVerified, txState, stateUpdated, rows, history>>

\* Mutant: it takes up names without a file.
Glob_AnyName ==
    /\ pc = "glob"
    /\ pc' = "apply"
    /\ todo' = File
    /\ txVerified' = verified
    /\ txState' = state
    /\ UNCHANGED <<db, json, reg, inbox, clock, updated, stateUpdated, rows,
                   history>>

\* Lists the result files and opens the transaction; with nothing to merge
\* and nothing purged the script ends here.
Glob ==
    /\ pc = "glob"
    /\ LET found == {f \in File : inbox[f] # NoFile}
       IN  IF found = {} /\ ~updated
           THEN pc' = "done" /\ UNCHANGED <<todo, txVerified, txState>>
           ELSE /\ pc' = "apply"
                /\ todo' = found
                /\ txVerified' = verified
                /\ txState' = state
    /\ UNCHANGED <<db, json, reg, inbox, clock, updated, stateUpdated, rows,
                   history>>

\* One iteration of the merge loop.  The order of the files is the order of
\* their names, which says nothing of the order of the tests.
Skip(r) ==
    /\ r.status = "INVALID"
    /\ UNCHANGED <<txVerified, txState, updated, stateUpdated>>

\* Mutants: the job stays parked; the deletion of its row raises no flag; the
\* row is filed under the environment the registry names now.
Accept_KeepsJob(r) ==
    /\ r.status = "VERIFIED"
    /\ txVerified' = [txVerified EXCEPT ![ComboOf(r)] = r.hash]
    /\ updated' = TRUE
    /\ UNCHANGED <<txState, stateUpdated>>

Accept_NoFlag(r) ==
    /\ r.status = "VERIFIED"
    /\ txVerified' = [txVerified EXCEPT ![ComboOf(r)] = r.hash]
    /\ updated' = TRUE
    /\ txState' = [txState EXCEPT ![JobOf(r)] = NoRow]
    /\ UNCHANGED stateUpdated

Accept_CurrentHash(r) ==
    /\ r.status = "VERIFIED"
    /\ txVerified' = [txVerified EXCEPT ![ComboOf(r)] = reg[r.chip]]
    /\ updated' = TRUE
    /\ txState' = [txState EXCEPT ![JobOf(r)] = NoRow]
    /\ stateUpdated' = (stateUpdated \/ txState[JobOf(r)] # NoRow)

Accept(r) ==
    /\ r.status = "VERIFIED"
    /\ txVerified' = [txVerified EXCEPT ![ComboOf(r)] = r.hash]
    /\ updated' = TRUE
    /\ txState' = [txState EXCEPT ![JobOf(r)] = NoRow]
    /\ stateUpdated' = (stateUpdated \/ txState[JobOf(r)] # NoRow)

\* Mutants: a failure leaves the verified row; its deletion raises no flag.
Park_KeepsCombo(r) ==
    /\ r.status \in {"INFRA_ERROR", "COMPILER_ERROR"}
    /\ UNCHANGED <<txVerified, updated>>
    /\ txState' = [txState EXCEPT ![JobOf(r)] = RowFor(r, @)]
    /\ stateUpdated' = TRUE

Park_NoFlag(r) ==
    /\ r.status \in {"INFRA_ERROR", "COMPILER_ERROR"}
    /\ txVerified' = [txVerified EXCEPT ![ComboOf(r)] = NoHash]
    /\ txState' = [txState EXCEPT ![JobOf(r)] = RowFor(r, @)]
    /\ stateUpdated' = TRUE
    /\ UNCHANGED updated

Park(r) ==
    /\ r.status \in {"INFRA_ERROR", "COMPILER_ERROR"}
    /\ txVerified' = [txVerified EXCEPT ![ComboOf(r)] = NoHash]
    /\ updated' = (updated \/ txVerified[ComboOf(r)] # NoHash)
    /\ txState' = [txState EXCEPT ![JobOf(r)] = RowFor(r, @)]
    /\ stateUpdated' = TRUE

\* Mutant: the loop does not move on.
Apply_Again(f) ==
    /\ pc = "apply"
    /\ f \in todo
    /\ Skip(inbox[f]) \/ Accept(inbox[f]) \/ Park(inbox[f])
    /\ UNCHANGED <<db, json, reg, inbox, clock, pc, todo, rows, history>>

Apply(f) ==
    /\ pc = "apply"
    /\ f \in todo
    /\ todo' = todo \ {f}
    /\ Skip(inbox[f]) \/ Accept(inbox[f]) \/ Park(inbox[f])
    /\ UNCHANGED <<db, json, reg, inbox, clock, pc, rows, history>>

TxEnds == txVerified' = NoCombos /\ txState' = NoJobs

Commit ==
    /\ pc = "apply"
    /\ todo = {}
    /\ verified' = txVerified
    /\ state' = txState
    /\ TxEnds
    /\ pc' = "matrix"
    /\ UNCHANGED <<dbExists, json, reg, inbox, clock, todo,
                   updated, stateUpdated, rows, history>>

\* tx.Commit returns an error, which the script ignores: it goes on to
\* export the old tables, and the daemon takes the batch for merged.
CommitFails ==
    /\ pc = "apply"
    /\ todo = {}
    /\ faults < MaxFaults
    /\ faults' = faults + 1
    /\ behind' = behind \cup {"batch"}
    /\ TxEnds
    /\ pc' = "matrix"
    /\ UNCHANGED <<db, json, reg, inbox, clock, todo, updated, stateUpdated,
                   rows, results, infraReports, proven>>

\* os.WriteFile truncates before it writes.
TruncateMatrix ==
    /\ pc = "matrix"
    /\ updated
    /\ matrixJson' = Torn
    /\ pc' = "writeMatrix"
    /\ UNCHANGED <<db, stateJson, reg, inbox, clock, todo, txVerified, txState,
                   updated, stateUpdated, rows, history>>

WriteMatrix ==
    /\ pc = "writeMatrix"
    /\ matrixJson' = ExportMatrix(verified)
    /\ behind' = behind \ {"matrix"}
    /\ pc' = "state"
    /\ UNCHANGED <<db, stateJson, reg, inbox, clock, todo, txVerified, txState,
                   updated, stateUpdated, rows,
                   results, faults, infraReports, proven>>

\* A table read to an error: rows.Next returns false, nobody asks rows.Err,
\* and the rows not read yet are missing.
Partial(table, read, none) ==
    [k \in DOMAIN table |-> IF k \in read THEN table[k] ELSE none]

\* The matrix of such a read.  The rows of one chip version are read in the
\* order of their hashes.
WriteMatrixInPart ==
    /\ pc = "writeMatrix"
    /\ faults < MaxFaults
    /\ faults' = faults + 1
    /\ \E read \in SUBSET {c \in Combo : verified[c] # NoHash} :
          /\ \A c, d \in Combo :
                /\ verified[c] # NoHash /\ d \in read
                /\ c[1] = d[1] /\ c[2] = d[2] /\ verified[c] < verified[d]
                => c \in read
          /\ matrixJson' = ExportMatrix(Partial(verified, read, NoHash))
    /\ behind' = behind \cup {"matrix"}
    /\ pc' = "state"
    /\ UNCHANGED <<db, stateJson, reg, inbox, clock, todo, txVerified, txState,
                   updated, stateUpdated, rows, results, infraReports, proven>>

SkipMatrix ==
    /\ pc = "matrix"
    /\ ~updated
    /\ pc' = "state"
    /\ UNCHANGED <<db, json, reg, inbox, clock, todo, txVerified, txState,
                   updated, stateUpdated, rows, history>>

\* The query is read before the file is truncated.
TruncateState ==
    /\ pc = "state"
    /\ stateUpdated
    /\ rows' = state
    /\ stateJson' = Torn
    /\ behind' = behind \ {"state"}
    /\ pc' = "writeState"
    /\ UNCHANGED <<db, matrixJson, reg, inbox, clock, todo, txVerified, txState,
                   updated, stateUpdated, results, faults, infraReports, proven>>

WriteState ==
    /\ pc = "writeState"
    /\ stateJson' = rows
    /\ pc' = "done"
    /\ UNCHANGED <<db, matrixJson, reg, inbox, clock, todo, txVerified, txState,
                   updated, stateUpdated, rows, history>>

\* What exportInternalState keeps to itself: an error of the query or of
\* opening the file, after which it returns as if nothing were to be done...
ExportStateFails ==
    /\ pc = "state"
    /\ stateUpdated
    /\ faults < MaxFaults
    /\ faults' = faults + 1
    /\ behind' = behind \cup {"state"}
    /\ pc' = "done"
    /\ UNCHANGED <<db, json, reg, inbox, clock, todo, txVerified, txState,
                   updated, stateUpdated, rows, results, infraReports, proven>>

\* ...an error amid the rows...
TruncateStateInPart ==
    /\ pc = "state"
    /\ stateUpdated
    /\ faults < MaxFaults
    /\ faults' = faults + 1
    /\ \E read \in SUBSET Job : rows' = Partial(state, read, NoRow)
    /\ stateJson' = Torn
    /\ behind' = behind \cup {"state"}
    /\ pc' = "writeState"
    /\ UNCHANGED <<db, matrixJson, reg, inbox, clock, todo, txVerified, txState,
                   updated, stateUpdated, results, infraReports, proven>>

\* ...and an error of writing the file it has truncated.
WriteStateFails ==
    /\ pc = "writeState"
    /\ faults < MaxFaults
    /\ faults' = faults + 1
    /\ behind' = behind \cup {"state"}
    /\ pc' = "done"
    /\ UNCHANGED <<db, json, reg, inbox, clock, todo, txVerified, txState,
                   updated, stateUpdated, rows, results, infraReports, proven>>

SkipState ==
    /\ pc = "state"
    /\ ~stateUpdated
    /\ pc' = "done"
    /\ UNCHANGED <<db, json, reg, inbox, clock, todo, txVerified, txState,
                   updated, stateUpdated, rows, history>>

\* The process is gone, and its memory with it.
ProcessEnds ==
    /\ pc' = "idle"
    /\ todo' = {}
    /\ TxEnds
    /\ updated' = FALSE
    /\ stateUpdated' = FALSE
    /\ rows' = NoJobs

\* After a run that ended normally the daemon removes the merged files.
Cleanup ==
    /\ pc = "done"
    /\ ProcessEnds
    /\ inbox' = [f \in File |-> NoFile]
    /\ behind' = behind \ {"batch"}
    /\ UNCHANGED <<db, json, reg, clock, results, faults, infraReports, proven>>

\* The process dies: what it committed and wrote stays, the rest is gone.
\* The ghost records which export may now lag behind its table.
Crash ==
    /\ pc # "idle"
    /\ faults < MaxFaults
    /\ faults' = faults + 1
    /\ ProcessEnds
    /\ behind' = (behind \ {"batch"})
          \cup (IF \/ pc = "import"
                   \/ pc \in {"glob", "apply", "matrix", "writeMatrix"} /\ updated
                THEN {"matrix"} ELSE {})
          \cup (IF \/ pc \in {"import", "importState", "writeState"}
                   \/ pc \in {"matrix", "writeMatrix", "state"} /\ stateUpdated
                THEN {"state"} ELSE {})
    /\ UNCHANGED <<db, json, reg, inbox, clock, results, infraReports, proven>>

Run ==
    \/ Start \/ ImportMatrix \/ ImportState \/ Purge \/ Glob
    \/ \E f \in File : Apply(f)
    \/ Commit \/ CommitFails
    \/ TruncateMatrix \/ WriteMatrix \/ WriteMatrixInPart \/ SkipMatrix
    \/ TruncateState \/ WriteState \/ SkipState
    \/ ExportStateFails \/ TruncateStateInPart \/ WriteStateFails
    \/ Cleanup

Operator == ClearUnverified \/ HardReset

Surroundings ==
    \/ \E c \in Chip, h \in Hash \cup {NoHash} : RegistryChange(c, h)
    \/ Tick
    \/ Crash

Next ==
    \/ Run
    \/ \E f \in File, r \in Inputs : Deliver(f, r)
    \/ Surroundings
    \/ Operator

Spec == Init /\ [][Next]_vars

-----------------------------------------------------------------------------
(***************************************************************************)
(* Properties.                                                             *)
(***************************************************************************)

Steps == {"idle", "import", "importState", "purge", "glob", "apply", "matrix",
          "writeMatrix", "state", "writeState", "done"}

\* Every variable keeps its type; the tables always have one entry per key.
TypeOK ==
    /\ dbExists \in BOOLEAN
    /\ verified \in VerifiedTable /\ txVerified \in VerifiedTable
    /\ state \in StateTable /\ txState \in StateTable /\ rows \in StateTable
    /\ matrixJson \in {NoFile, Torn} \/ matrixJson \in Matrix
    /\ stateJson \in {NoFile, Torn} \/ stateJson \in StateTable
    /\ reg \in [Chip -> Hash \cup {NoHash}]
    /\ inbox \in [File -> Inputs \cup {NoFile}]
    /\ clock \in Nat
    /\ pc \in Steps
    /\ todo \in SUBSET {f \in File : inbox[f] # NoFile}
    /\ updated \in BOOLEAN /\ stateUpdated \in BOOLEAN
    /\ results \in Nat /\ faults \in Nat
    /\ infraReports \in [Test -> Nat]
    /\ proven \subseteq Chip \X Software \X Hash
    /\ behind \subseteq {"matrix", "state", "batch"}

\* Between two runs compatibility_matrix.json is the export of the verified
\* table: the updated flag misses no change of the table.  The exceptions,
\* each until the next export, are a crash, a table that could not be read to
\* its end, and a database that clear_unverified created or a crash left
\* without its migration.
MatrixInSync ==
    pc = "idle" /\ "matrix" \notin behind /\ dbExists
       => Published = ExportMatrix(verified)

\* The same of internal_state.json and stateUpdated.  The exceptions, each
\* until the next export, are a crash, an export whose error exportInternalState
\* keeps to itself, a migration that imported no matrix and so no state either,
\* and clear_unverified, which deletes the rows and exports nothing (see
\* SoftRetriggerRetests for what comes of that).
StateInSync ==
    pc = "idle" /\ "state" \notin behind /\ dbExists
       => StateOf(stateJson) = state

\* A file that is the only valid one of its batch for its combination.
Sole(f) ==
    /\ inbox[f] # NoFile /\ inbox[f].status # "INVALID"
    /\ \A e \in File \ {f} :
          \/ inbox[e] = NoFile \/ inbox[e].status = "INVALID"
          \/ ComboOf(inbox[e]) # ComboOf(inbox[f])

\* When a run ends, every result of its batch that no other result of the
\* batch contradicts has reached both files: a failure is out of the public
\* matrix and parked (or cleared meanwhile), a success is parked no more and
\* public, unless rows of a hash that sorts higher occupy the entry of its
\* chip version.
MergeReachesExports ==
    pc = "done" /\ "batch" \notin behind => \A f \in File : Sole(f) =>
        LET r == inbox[f]
            entry == Published[<<r.chip, VersionIn(r)>>]
            parked == StateOf(stateJson)[JobOf(r)]
        IN  /\ "matrix" \notin behind =>
                  IF r.status = "VERIFIED"
                  THEN /\ entry.hash # NoHash /\ entry.hash >= r.hash
                       /\ entry.hash = r.hash => r.software \in entry.software
                  ELSE r.software \notin entry.software
            /\ "state" \notin behind =>
                  IF r.status = "VERIFIED" THEN parked = NoRow
                  ELSE parked # NoRow \/ state[JobOf(r)] = NoRow

\* A combination is public only with an environment hash its software was
\* really verified in on that chip: the export never files a combination
\* under the hash of another row of its chip version.
PublishedWasProven ==
    \A g \in Group : \A s \in Published[g].software :
        <<g[1], s, Published[g].hash>> \in proven

\* A job is given up (FATAL_INFRA_ERROR) only on at least two reports of an
\* infrastructure error, where a crash can make one report count once more;
\* other outcomes never add to the count.
RetriesAreReported ==
    \A j \in Job : state[j] # NoRow =>
        LET reports == infraReports[<<j[1], j[3], j[4]>>] * (faults + 1)
        IN  /\ state[j].retry <= reports
            /\ state[j].status = "FATAL_INFRA_ERROR" => reports >= 2

\* No combination is both verified in an environment and parked as failing
\* with that environment's toolchain, committed or in the transaction.
Excludes(v, t) ==
    \A c \in Combo : v[c] # NoHash =>
        t[<<c[1], c[2], ToolchainOf[v[c]], c[3]>>] = NoRow

ParkedExcludesVerified == Excludes(verified, state)

=============================================================================
