---------------------------- MODULE LedgerProofs ----------------------------
(***************************************************************************)
(* Proofs about Ledger, for every value of its constants.                  *)
(***************************************************************************)
EXTENDS Ledger, TLAPS, WellFoundedInduction

(***************************************************************************)
(* The export.                                                             *)
(***************************************************************************)

\* The hashes are bounded naturals.
LEMMA HashRange ==
    /\ MaxHash \in Nat
    /\ \A h \in Hash : h \in Nat /\ h <= MaxHash
<1>1. MaxHash \in Nat /\ Hash \subseteq 0 .. MaxHash
  BY Zenon, ConstantsAssumption
<1>2. QED
  BY <1>1

\* A nonempty set of hashes has a greatest element, and Max names it.
LEMMA GreatestHash ==
    ASSUME NEW S, S \subseteq Hash, S # {}
    PROVE  /\ Max(S) \in S
           /\ \A h \in S : Max(S) >= h
<1> DEFINE Below == {MaxHash - h : h \in S}
<1>1. Below \subseteq Nat /\ Below # {}
  BY HashRange
<1>2. PICK d \in Below : \A e \in Below : ~(<<e, d>> \in OpToRel(<, Nat))
  BY <1>1, NatLessThanWellFounded, WFMin
<1>3. ASSUME NEW e \in Below PROVE d <= e
  <2>1. <<e, d>> \in Nat \X Nat /\ e \in Nat /\ d \in Nat
    BY <1>1
  <2>2. ~(e < d)
    BY <1>2, <2>1 DEF OpToRel
  <2>3. QED
    BY <2>1, <2>2
<1>4. PICK m \in S : d = MaxHash - m
  OBVIOUS
<1>5. ASSUME NEW h \in S PROVE m >= h
  <2>1. MaxHash - h \in Below
    OBVIOUS
  <2>2. MaxHash - m <= MaxHash - h
    BY <1>3, <1>4, <2>1
  <2>3. QED
    BY <2>2, HashRange
<1>6. QED
  BY <1>4, <1>5 DEF Max

\* The exported entry of a chip version is empty exactly when its table has
\* no row, and otherwise lists the rows of a hash that no other one exceeds.
LEMMA ExportedEntry ==
    ASSUME NEW v \in VerifiedTable, NEW g \in Group
    PROVE  /\ ExportGroup(v, g) \in Entry
           /\ ExportGroup(v, g).hash = NoHash <=> ExportGroup(v, g).software = {}
           /\ \A s \in ExportGroup(v, g).software :
                 /\ v[<<g[1], g[2], s>>] = ExportGroup(v, g).hash
                 /\ ExportGroup(v, g).hash \in Hash
<1> DEFINE H == HashesOf(v, g)
<1>1. \A s \in Software : v[<<g[1], g[2], s>>] \in Hash \cup {NoHash}
  BY DEF VerifiedTable, Combo, Group
<1>2. H \subseteq Hash
  BY <1>1 DEF HashesOf
<1>3. CASE H = {}
  BY <1>3 DEF ExportGroup, EmptyEntry, Entry
<1>4. CASE H # {}
  <2>1. Max(H) \in H
    BY <1>2, <1>4, GreatestHash
  <2>2. PICK s \in Software : v[<<g[1], g[2], s>>] = Max(H)
    BY <2>1 DEF HashesOf
  <2>3. ExportGroup(v, g) =
           [hash |-> Max(H),
            software |-> {p \in Software : v[<<g[1], g[2], p>>] = Max(H)}]
    BY <1>4 DEF ExportGroup
  <2>4. Max(H) \in Hash /\ Max(H) # NoHash
    BY <1>2, <2>1, DistinctAssumption
  <2>5. QED
    BY <2>2, <2>3, <2>4 DEF Entry
<1>5. QED
  BY <1>3, <1>4

\* The export of a table has the type of the document.
LEMMA ExportIsMatrix ==
    ASSUME NEW v \in VerifiedTable
    PROVE  ExportMatrix(v) \in Matrix
  BY ExportedEntry DEF ExportMatrix, Matrix

(***************************************************************************)
(* What a result file names.                                               *)
(***************************************************************************)

\* The fields of a result have their types.
LEMMA ResultFields ==
    ASSUME NEW r \in Inputs
    PROVE  /\ r.chip \in Chip /\ r.version \in Version \cup {NoVersion}
           /\ r.software \in Software /\ r.hash \in Hash
           /\ r.status \in ResultStatus
           /\ ToolchainOf[r.hash] \in Toolchain
<1>1. r \in Result
  BY Zenon, ConstantsAssumption
<1>2. ToolchainOf \in [Hash -> Toolchain]
  BY Zenon, ConstantsAssumption
<1>3. QED
  BY <1>1, <1>2 DEF Result

\* Whatever the registry names, a result resolves to a version, and so to a
\* combination, a job and a test.
LEMMA ResultNames ==
    ASSUME NEW r \in Inputs, reg \in [Chip -> Hash \cup {NoHash}]
    PROVE  /\ VersionIn(r) \in Version
           /\ ComboOf(r) \in Combo
           /\ JobOf(r) \in Job
           /\ TestOf(r) \in Test
<1>1. VersionOf \in [Hash -> Version] /\ DefaultVersion \in Version
  BY Zenon, ConstantsAssumption
<1>2. VersionIn(r) \in Version
  BY <1>1, ResultFields DEF VersionIn
<1>3. QED
  BY <1>2, ResultFields DEF ComboOf, JobOf, TestOf, Combo, Job, Test

\* The row written for a failure is a row.
LEMMA RowForIsRow ==
    ASSUME NEW r \in Inputs, r.status \in {"INFRA_ERROR", "COMPILER_ERROR"},
           NEW old \in Row \cup {NoRow}, clock \in Nat
    PROVE  RowFor(r, old) \in Row
<1> DEFINE retry == IF r.status = "INFRA_ERROR" /\ old # NoRow
                    THEN old.retry + 1 ELSE 0
<1>1. retry \in Nat
  BY DEF Row
<1>2. QED
  BY <1>1 DEF RowFor, Row, ParkedStatus


(***************************************************************************)
(* Type correctness.                                                       *)
(***************************************************************************)

\* The empty tables and the empty document have their types.
LEMMA EmptyTables ==
    /\ NoCombos \in VerifiedTable
    /\ NoJobs \in StateTable
    /\ EmptyMatrix \in Matrix
  BY DEF NoCombos, VerifiedTable, NoJobs, StateTable, EmptyMatrix, Matrix,
         EmptyEntry, Entry

\* What a reader makes of a file has the type of the document.
LEMMA ReadersSeeDocuments ==
    ASSUME TypeOK
    PROVE  Published \in Matrix /\ StateOf(stateJson) \in StateTable
  BY EmptyTables DEF TypeOK, Published, MatrixOf, StateOf

\* The initial state has its types.
LEMMA InitTypeOK == Init => TypeOK
<1> SUFFICES ASSUME Init PROVE TypeOK
  OBVIOUS
<1>1. matrixJson \in {NoFile, Torn} \/ matrixJson \in Matrix
  BY Zenon, LegacyAssumption DEF Init
<1>2. stateJson \in {NoFile, Torn} \/ stateJson \in StateTable
  BY Zenon, LegacyAssumption DEF Init
<1>3. proven \subseteq Chip \X Software \X Hash
  BY DEF Init
<1>4. QED
  BY <1>1, <1>2, <1>3, EmptyTables DEF Init, TypeOK, Steps

\* The merge of one file keeps the transaction's tables typed.
LEMMA ApplyTypeOK ==
    ASSUME TypeOK, NEW f \in File, Apply(f)
    PROVE  /\ txVerified' \in VerifiedTable /\ txState' \in StateTable
           /\ updated' \in BOOLEAN /\ stateUpdated' \in BOOLEAN
           /\ todo' \in SUBSET File
<1> DEFINE r == inbox[f]
<1>1. r \in Inputs /\ todo' \in SUBSET File
  BY DEF Apply, TypeOK
<1>2. /\ ComboOf(r) \in Combo /\ JobOf(r) \in Job
      /\ r.hash \in Hash
  BY <1>1, ResultNames, ResultFields DEF TypeOK
<1>3. CASE Skip(r)
  BY <1>1, <1>3 DEF Skip, TypeOK
<1>4. CASE Accept(r)
  BY <1>1, <1>2, <1>4 DEF Accept, TypeOK, VerifiedTable, StateTable
<1>5. CASE Park(r)
  <2>1. txState[JobOf(r)] \in Row \cup {NoRow}
    BY <1>2 DEF TypeOK, StateTable
  <2>2. RowFor(r, txState[JobOf(r)]) \in Row
    BY <1>1, <1>5, <2>1, RowForIsRow DEF Park, TypeOK
  <2>3. QED
    BY <1>1, <1>2, <1>5, <2>2 DEF Park, TypeOK, VerifiedTable, StateTable
<1>6. QED
  BY <1>3, <1>4, <1>5 DEF Apply

\* A table read to an error has the type of the table.
LEMMA PartialTables ==
    ASSUME NEW read
    PROVE  /\ \A v \in VerifiedTable : Partial(v, read, NoHash) \in VerifiedTable
           /\ \A t \in StateTable : Partial(t, read, NoRow) \in StateTable
  BY DEF Partial, VerifiedTable, StateTable

\* Every step keeps the types.
LEMMA StepTypeOK == TypeOK /\ [Next]_vars => TypeOK'
<1> SUFFICES ASSUME TypeOK, [Next]_vars PROVE TypeOK'
  OBVIOUS
<1> USE DEF vars, db, json, process, history
<1>1. CASE Start
  BY <1>1 DEF Start, TypeOK, Steps
<1>2. CASE ImportMatrix
  <2>1. CASE matrixJson \in {NoFile, Torn}
    BY <1>2, <2>1 DEF ImportMatrix, TypeOK, Steps
  <2>2. CASE matrixJson \notin {NoFile, Torn}
    <3> DEFINE entry(c) == matrixJson[<<c[1], c[2]>>]
    <3>1. \A c \in Combo : entry(c) \in Entry
      BY <2>2 DEF TypeOK, Matrix, Combo, Group
    <3>2. \A c \in Combo : entry(c).hash \in Hash \cup {NoHash}
      BY <3>1 DEF Entry
    <3>3. verified' = [c \in Combo |-> IF c[3] \in entry(c).software
                                       THEN entry(c).hash ELSE verified[c]]
      BY <1>2, <2>2 DEF ImportMatrix
    <3>4. verified' \in VerifiedTable
      BY <3>2, <3>3 DEF TypeOK, VerifiedTable
    <3>5. QED
      BY <1>2, <2>2, <3>4 DEF ImportMatrix, TypeOK, Steps
  <2>3. QED
    BY <2>1, <2>2
<1>3. CASE ImportState
  <2>1. state' \in StateTable
    BY <1>3, ReadersSeeDocuments DEF ImportState, TypeOK, StateTable
  <2>2. QED
    BY <1>3, <2>1 DEF ImportState, TypeOK, Steps
<1>4. CASE Purge
  <2>1. verified' \in VerifiedTable
    BY <1>4 DEF Purge, TypeOK, VerifiedTable
  <2>2. QED
    BY <1>4, <2>1 DEF Purge, TypeOK, Steps
<1>5. CASE Glob
  BY <1>5 DEF Glob, TypeOK, Steps
<1>6. ASSUME NEW f \in File, Apply(f) PROVE TypeOK'
  <2>1. todo' \in SUBSET {e \in File : inbox'[e] # NoFile}
    BY <1>6 DEF Apply, TypeOK
  <2>2. QED
    BY <1>6, <2>1, ApplyTypeOK DEF Apply, TypeOK
<1>7. CASE Commit
  BY <1>7, EmptyTables DEF Commit, TxEnds, TypeOK, Steps
<1>8. CASE CommitFails
  BY <1>8, EmptyTables DEF CommitFails, TxEnds, TypeOK, Steps
<1>9. CASE TruncateMatrix
  BY <1>9 DEF TruncateMatrix, TypeOK, Steps
<1>10. CASE WriteMatrix
  BY <1>10, ExportIsMatrix DEF WriteMatrix, TypeOK, Steps
<1>11. CASE SkipMatrix
  BY <1>11 DEF SkipMatrix, TypeOK, Steps
<1>12. CASE TruncateState
  BY <1>12 DEF TruncateState, TypeOK, Steps
<1>13. CASE WriteState
  BY <1>13 DEF WriteState, TypeOK, Steps
<1>14. CASE SkipState
  BY <1>14 DEF SkipState, TypeOK, Steps
<1>15. CASE Cleanup
  BY <1>15, EmptyTables DEF Cleanup, ProcessEnds, TxEnds, TypeOK, Steps
<1>16. CASE Crash
  <2>1. \E M \in {{"matrix"}, {}}, S \in {{"state"}, {}} :
           behind' = (behind \ {"batch"}) \cup M \cup S
    BY <1>16, Zenon DEF Crash
  <2>2. behind' \subseteq {"matrix", "state", "batch"}
    BY <2>1 DEF TypeOK
  <2>3. /\ ProcessEnds /\ faults' = faults + 1
        /\ UNCHANGED <<db, json, reg, inbox, clock, results, infraReports, proven>>
    BY <1>16, Zenon DEF Crash
  <2>4. faults' \in Nat
    BY <2>3 DEF TypeOK
  <2>5. /\ pc' \in Steps /\ todo' \in SUBSET {f \in File : inbox'[f] # NoFile}
        /\ updated' \in BOOLEAN /\ stateUpdated' \in BOOLEAN
    BY <2>3 DEF ProcessEnds, Steps
  <2>6. txVerified' \in VerifiedTable /\ txState' \in StateTable /\ rows' \in StateTable
    BY <2>3, EmptyTables DEF ProcessEnds, TxEnds
  <2>7. QED
    BY <2>2, <2>3, <2>4, <2>5, <2>6 DEF TypeOK
<1>17. ASSUME NEW f \in File, NEW r \in Inputs, Deliver(f, r) PROVE TypeOK'
  <2>1. TestOf(r) \in Test
    BY ResultNames DEF TypeOK
  <2>2. infraReports' \in [Test -> Nat]
    BY <1>17, <2>1 DEF Deliver, TypeOK
  <2>3. proven' \subseteq Chip \X Software \X Hash
    BY <1>17, ResultFields DEF Deliver, TypeOK
  <2>4. /\ inbox' \in [File -> Inputs \cup {NoFile}]
        /\ todo' \in SUBSET {e \in File : inbox'[e] # NoFile}
    BY <1>17 DEF Deliver, TypeOK
  <2>5. QED
    BY <1>17, <2>2, <2>3, <2>4 DEF Deliver, TypeOK
<1>18. ASSUME NEW c \in Chip, NEW h \in Hash \cup {NoHash}, RegistryChange(c, h)
       PROVE  TypeOK'
  BY <1>18 DEF RegistryChange, TypeOK
<1>19. CASE Tick
  BY <1>19 DEF Tick, TypeOK
<1>20. CASE ClearUnverified
  BY <1>20, EmptyTables DEF ClearUnverified, TypeOK
<1>21. CASE HardReset
  BY <1>21, EmptyTables DEF HardReset, TypeOK
<1>22. CASE UNCHANGED vars
  BY <1>22 DEF TypeOK
<1>23. CASE WriteMatrixInPart
  <2>1. PICK read : matrixJson' = ExportMatrix(Partial(verified, read, NoHash))
    BY <1>23 DEF WriteMatrixInPart
  <2>2. matrixJson' \in Matrix
    BY <2>1, PartialTables, ExportIsMatrix DEF TypeOK
  <2>3. QED
    BY <1>23, <2>2 DEF WriteMatrixInPart, TypeOK, Steps
<1>24. CASE ExportStateFails
  BY <1>24 DEF ExportStateFails, TypeOK, Steps
<1>25. CASE TruncateStateInPart
  <2>1. PICK read : rows' = Partial(state, read, NoRow)
    BY <1>25 DEF TruncateStateInPart
  <2>2. rows' \in StateTable
    BY <2>1, PartialTables DEF TypeOK
  <2>3. QED
    BY <1>25, <2>2 DEF TruncateStateInPart, TypeOK, Steps
<1>26. CASE WriteStateFails
  BY <1>26 DEF WriteStateFails, TypeOK, Steps
<1>27. QED
  BY <1>1, <1>2, <1>3, <1>4, <1>5, <1>6, <1>7, <1>8, <1>9, <1>10, <1>11,
     <1>12, <1>13, <1>14, <1>15, <1>16, <1>17, <1>18, <1>19, <1>20, <1>21,
     <1>22, <1>23, <1>24, <1>25, <1>26 DEF Next, Run, Surroundings, Operator

\* Every table, file and process variable of the ledger keeps its type, in
\* every behaviour and for every choice of the constants.
THEOREM TypeCorrect == Spec => []TypeOK
<1>1. QED
  BY InitTypeOK, StepTypeOK, PTL DEF Spec


(***************************************************************************)
(* The matrix file and the verified table.                                 *)
(*                                                                         *)
(* MatrixInSync speaks of the moments between two runs only.  It follows   *)
(* from what holds at each step of a run: the file is the export of the    *)
(* table until a step sets the updated flag, and a raised flag is either   *)
(* answered by an export or reported as a crash; before the migration the  *)
(* table is empty and the files are the legacy ones.                       *)
(***************************************************************************)

LegacyMatrix ==
    matrixJson = NoFile \/ (matrixJson \in Matrix /\ WellFormed(matrixJson))

Imported(m) ==
    [c \in Combo |-> IF c[3] \in m[<<c[1], c[2]>>].software
                     THEN m[<<c[1], c[2]>>].hash ELSE NoHash]

MatrixInv ==
    /\ ~dbExists => pc = "idle"
    /\ ~dbExists \/ pc = "import" => verified = NoCombos /\ LegacyMatrix
    /\ pc \in {"idle", "import", "importState", "purge"} => updated = FALSE
    /\ pc = "apply" /\ updated = FALSE => txVerified = verified
    /\ pc = "writeMatrix" => updated = TRUE
    /\ dbExists /\ "matrix" \notin behind =>
         /\ pc \in {"idle", "importState", "purge", "state", "writeState", "done"}
               => Published = ExportMatrix(verified)
         /\ pc \in {"glob", "apply", "matrix"} /\ updated = FALSE
               => Published = ExportMatrix(verified)

\* The export of an empty table is the empty document.
LEMMA ExportOfNothing == ExportMatrix(NoCombos) = EmptyMatrix
<1>1. ASSUME NEW g \in Group PROVE HashesOf(NoCombos, g) = {}
  BY DEF HashesOf, NoCombos, Combo, Group
<1>2. QED
  BY <1>1 DEF ExportMatrix, ExportGroup, EmptyMatrix

\* Exporting what was imported gives the imported matrix back.
LEMMA ImportThenExport ==
    ASSUME NEW m \in Matrix, WellFormed(m)
    PROVE  ExportMatrix(Imported(m)) = m
<1> DEFINE v == Imported(m)
<1>1. ASSUME NEW g \in Group PROVE ExportGroup(v, g) = m[g]
  <2>1. m[g] = [hash |-> m[g].hash, software |-> m[g].software]
        /\ m[g].hash \in Hash \cup {NoHash} /\ m[g].software \subseteq Software
    BY DEF Matrix, Entry
  <2>2. \A s \in Software :
           v[<<g[1], g[2], s>>] = IF s \in m[g].software THEN m[g].hash ELSE NoHash
    BY DEF Imported, Combo, Group
  <2>3. CASE m[g].software = {}
    <3>1. HashesOf(v, g) = {}
      BY <2>2, <2>3 DEF HashesOf
    <3>2. m[g].hash = NoHash
      BY <2>3 DEF WellFormed
    <3>3. QED
      BY <2>1, <2>3, <3>1, <3>2 DEF ExportGroup, EmptyEntry
  <2>4. CASE m[g].software # {}
    <3>1. m[g].hash \in Hash /\ m[g].hash # NoHash
      BY <2>1, <2>4 DEF WellFormed
    <3>2. HashesOf(v, g) = {m[g].hash}
      BY <2>1, <2>2, <2>4, <3>1 DEF HashesOf
    <3>3. Max(HashesOf(v, g)) = m[g].hash
      BY <3>1, <3>2, GreatestHash
    <3>4. {s \in Software : v[<<g[1], g[2], s>>] = m[g].hash} = m[g].software
      BY <2>1, <2>2, <3>1
    <3>5. QED
      BY <2>1, <3>2, <3>3, <3>4 DEF ExportGroup
  <2>5. QED
    BY <2>3, <2>4
<1>2. QED
  BY <1>1 DEF ExportMatrix, Matrix

\* Before the first run there is no database, and the files are legacy files.
LEMMA InitMatrixInv == Init => MatrixInv
  BY LegacyAssumption, Zenon DEF Init, MatrixInv, LegacyMatrix


\* A merged file that leaves the updated flag down leaves the table alone.
LEMMA ApplyMatrixInv ==
    ASSUME TypeOK, MatrixInv, NEW f \in File, Apply(f), updated' = FALSE
    PROVE  updated = FALSE /\ txVerified' = verified
<1> DEFINE r == inbox[f]
<1>1. r \in Inputs
  BY DEF Apply, TypeOK
<1>2. ComboOf(r) \in Combo
  BY <1>1, ResultNames DEF TypeOK
<1>3. CASE Skip(r)
  BY <1>3 DEF Skip, Apply, MatrixInv
<1>4. CASE Accept(r)
  BY <1>4 DEF Accept
<1>5. CASE Park(r)
  <2>1. ~(updated \/ txVerified[ComboOf(r)] # NoHash)
    BY <1>5, Zenon DEF Park
  <2>2. updated = FALSE /\ txVerified[ComboOf(r)] = NoHash
    BY <2>1 DEF TypeOK
  <2>3. txVerified' = txVerified
    BY <1>2, <1>5, <2>2 DEF Park, TypeOK, VerifiedTable
  <2>4. QED
    BY <2>2, <2>3 DEF Apply, MatrixInv
<1>6. QED
  BY <1>3, <1>4, <1>5, Zenon DEF Apply

\* Every step keeps the files and the tables as MatrixInv relates them.
LEMMA StepMatrixInv == TypeOK /\ MatrixInv /\ [Next]_vars => MatrixInv'
<1> SUFFICES ASSUME TypeOK, MatrixInv, [Next]_vars PROVE MatrixInv'
  OBVIOUS
<1> USE DEF vars, db, json, process, history
<1>1. CASE Start
  BY <1>1, Zenon DEF Start, MatrixInv, LegacyMatrix, Published
<1>2. CASE ImportMatrix
  <2>1. verified = NoCombos /\ LegacyMatrix /\ dbExists /\ updated = FALSE
    BY <1>2 DEF ImportMatrix, MatrixInv, TypeOK
  <2>2. CASE matrixJson \in {NoFile, Torn}
    <3>1. Published' = ExportMatrix(verified')
      BY <1>2, <2>1, <2>2, ExportOfNothing DEF ImportMatrix, Published, MatrixOf
    <3>2. QED
      BY <1>2, <2>1, <2>2, <3>1 DEF ImportMatrix, MatrixInv
  <2>3. CASE matrixJson \notin {NoFile, Torn}
    <3>1. verified' = Imported(matrixJson)
      BY <1>2, <2>1, <2>3 DEF ImportMatrix, Imported, NoCombos
    <3>2. matrixJson \in Matrix /\ WellFormed(matrixJson)
      BY <2>1, <2>3 DEF LegacyMatrix
    <3>3. Published' = ExportMatrix(verified')
      BY <1>2, <2>3, <3>1, <3>2, ImportThenExport
         DEF ImportMatrix, Published, MatrixOf
    <3>4. QED
      BY <1>2, <2>1, <2>3, <3>3 DEF ImportMatrix, MatrixInv
  <2>4. QED
    BY <2>2, <2>3
<1>3. CASE ImportState
  BY <1>3 DEF ImportState, MatrixInv, Published
<1>4. CASE Purge
  <2>1. updated' = FALSE => verified' = verified
    BY <1>4 DEF Purge, TypeOK, VerifiedTable
  <2>2. QED
    BY <1>4, <2>1, Zenon DEF Purge, MatrixInv, Published
<1>5. CASE Glob
  BY <1>5 DEF Glob, MatrixInv, Published, TypeOK
<1>6. ASSUME NEW f \in File, Apply(f) PROVE MatrixInv'
  BY <1>6, ApplyMatrixInv DEF Apply, MatrixInv, Published
<1>7. CASE Commit
  BY <1>7 DEF Commit, MatrixInv, Published
<1>8. CASE CommitFails
  BY <1>8 DEF CommitFails, MatrixInv, Published
<1>9. CASE TruncateMatrix
  BY <1>9 DEF TruncateMatrix, MatrixInv, TypeOK
<1>10. CASE WriteMatrix
  <2>1. Published' = ExportMatrix(verified')
    BY <1>10, ExportIsMatrix, DistinctAssumption
       DEF WriteMatrix, Published, MatrixOf, TypeOK
  <2>2. QED
    BY <1>10, <2>1 DEF WriteMatrix, MatrixInv
<1>11. CASE SkipMatrix
  BY <1>11 DEF SkipMatrix, MatrixInv, Published, TypeOK
<1>12. CASE TruncateState
  BY <1>12 DEF TruncateState, MatrixInv, Published
<1>13. CASE WriteState
  BY <1>13 DEF WriteState, MatrixInv, Published
<1>14. CASE SkipState
  BY <1>14 DEF SkipState, MatrixInv, Published
<1>15. CASE Cleanup
  BY <1>15 DEF Cleanup, ProcessEnds, MatrixInv, Published
<1>16. CASE Crash
  <2>1. /\ ProcessEnds
        /\ UNCHANGED <<db, json>>
    BY <1>16, Zenon DEF Crash
  <2>2. "matrix" \notin behind' =>
           /\ "matrix" \notin behind /\ pc # "import"
           /\ pc \in {"glob", "apply", "matrix", "writeMatrix"} => updated = FALSE
    BY <1>16, Zenon DEF Crash, TypeOK
  <2>3. /\ pc # "idle" /\ pc' = "idle" /\ updated' = FALSE
        /\ dbExists' = dbExists /\ verified' = verified /\ Published' = Published
    BY <1>16, <2>1, Zenon DEF Crash, ProcessEnds, Published
  <2>4. dbExists = TRUE
    BY <2>3, Zenon DEF MatrixInv, TypeOK
  <2>5. "matrix" \notin behind' => Published = ExportMatrix(verified)
    <3>1. pc \in Steps
      BY Zenon DEF TypeOK
    <3>2. QED
      BY <2>2, <2>3, <2>4, <3>1 DEF MatrixInv, Steps
  <2>6. QED
    BY <2>3, <2>4, <2>5, Zenon DEF MatrixInv
<1>17. ASSUME NEW f \in File, NEW r \in Inputs, Deliver(f, r) PROVE MatrixInv'
  BY <1>17 DEF Deliver, MatrixInv, LegacyMatrix, Published
<1>18. ASSUME NEW c \in Chip, NEW h \in Hash \cup {NoHash}, RegistryChange(c, h)
       PROVE  MatrixInv'
  BY <1>18 DEF RegistryChange, MatrixInv, LegacyMatrix, Published
<1>19. CASE Tick
  BY <1>19 DEF Tick, MatrixInv, LegacyMatrix, Published
<1>20. CASE ClearUnverified
  BY <1>20 DEF ClearUnverified, MatrixInv, LegacyMatrix, Published
<1>21. CASE HardReset
  BY <1>21 DEF HardReset, MatrixInv, LegacyMatrix
<1>22. CASE UNCHANGED vars
  BY <1>22 DEF MatrixInv, LegacyMatrix, Published
<1>23. CASE WriteMatrixInPart
  BY <1>23 DEF WriteMatrixInPart, MatrixInv
<1>24. CASE ExportStateFails
  BY <1>24 DEF ExportStateFails, MatrixInv, Published
<1>25. CASE TruncateStateInPart
  BY <1>25 DEF TruncateStateInPart, MatrixInv, Published
<1>26. CASE WriteStateFails
  BY <1>26 DEF WriteStateFails, MatrixInv, Published
<1>27. QED
  BY <1>1, <1>2, <1>3, <1>4, <1>5, <1>6, <1>7, <1>8, <1>9, <1>10, <1>11,
     <1>12, <1>13, <1>14, <1>15, <1>16, <1>17, <1>18, <1>19, <1>20, <1>21,
     <1>22, <1>23, <1>24, <1>25, <1>26 DEF Next, Run, Surroundings, Operator

\* Between two runs the public matrix is the export of the verified table,
\* unless a crash, an incomplete read or a skipped migration is on record:
\* update_ledger raises its updated flag whenever the table changes, the
\* purge and the migration included.
THEOREM MatrixStaysInSync == Spec => []MatrixInSync
<1>1. TypeOK /\ MatrixInv => MatrixInSync
  BY DEF MatrixInv, MatrixInSync
<1>2. QED
  BY <1>1, TypeCorrect, InitMatrixInv, StepMatrixInv, PTL DEF Spec

=============================================================================
