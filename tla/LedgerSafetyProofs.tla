------------------------- MODULE LedgerSafetyProofs -------------------------
(***************************************************************************)
(* What the ledger may publish and park, proved for every value of the     *)
(* constants.  Each property is strengthened to the other places its data  *)
(* passes through: result files, transaction tables, legacy files.         *)
(***************************************************************************)
EXTENDS LedgerProofs

(***************************************************************************)
(* Nothing is published that was not verified.                             *)
(***************************************************************************)

RowsProven(v) == \A c \in Combo : v[c] # NoHash => <<c[1], c[3], v[c]>> \in proven

FilesProven ==
    \A f \in File : inbox[f] # NoFile /\ inbox[f].status = "VERIFIED" =>
        <<inbox[f].chip, inbox[f].software, inbox[f].hash>> \in proven

ProvenInv ==
    /\ PublishedWasProven
    /\ RowsProven(verified)
    /\ RowsProven(txVerified)
    /\ FilesProven

\* Exporting proven rows publishes proven combinations only.
LEMMA ExportOfProven ==
    ASSUME NEW v \in VerifiedTable, RowsProven(v), NEW g \in Group,
           NEW s \in ExportGroup(v, g).software
    PROVE  <<g[1], s, ExportGroup(v, g).hash>> \in proven
<1>1. ExportGroup(v, g) \in Entry
  BY ExportedEntry
<1>2. s \in Software /\ v[<<g[1], g[2], s>>] = ExportGroup(v, g).hash
      /\ ExportGroup(v, g).hash \in Hash
  BY <1>1, ExportedEntry DEF Entry
<1>3. <<g[1], g[2], s>> \in Combo
  BY <1>2 DEF Combo, Group
<1>4. QED
  BY <1>2, <1>3, DistinctAssumption DEF RowsProven

\* What the legacy matrix publishes counts as proven.
LEMMA InitProvenInv == Init => ProvenInv
<1> SUFFICES ASSUME Init PROVE ProvenInv
  OBVIOUS
<1>1. Published \in Matrix
  BY InitTypeOK, ReadersSeeDocuments
<1>2. PublishedWasProven
  <2> SUFFICES ASSUME NEW g \in Group, NEW s \in Published[g].software
               PROVE  <<g[1], s, Published[g].hash>> \in proven
    BY DEF PublishedWasProven
  <2>1. Published[g].hash \in Hash /\ s \in Software
    <3>1. Published[g] \in Entry
      BY <1>1 DEF Matrix
    <3>2. Published[g].hash # NoHash
      <4>1. matrixJson \in {NoFile, Torn} => Published[g].software = {}
        BY DEF Published, MatrixOf, EmptyMatrix, EmptyEntry
      <4>2. matrixJson = NoFile \/ (matrixJson \in Matrix /\ WellFormed(matrixJson))
        BY LegacyAssumption, Zenon DEF Init
      <4>3. matrixJson \notin {NoFile, Torn} /\ WellFormed(Published)
        BY <4>1, <4>2 DEF Published, MatrixOf
      <4>4. QED
        BY <4>3 DEF WellFormed
    <3>3. QED
      BY <3>1, <3>2 DEF Entry
  <2>2. g = <<g[1], g[2]>> /\ g[1] \in Chip /\ g[2] \in Version
    BY DEF Group
  <2>3. proven = {p \in Chip \X Software \X Hash :
                    \E v \in Version :
                       /\ Published[<<p[1], v>>].hash = p[3]
                       /\ p[2] \in Published[<<p[1], v>>].software}
    BY Zenon DEF Init
  <2>4. QED
    BY <2>1, <2>2, <2>3
<1>3. RowsProven(verified) /\ RowsProven(txVerified)
  BY DEF Init, RowsProven, NoCombos
<1>4. FilesProven
  BY DEF Init, FilesProven
<1>5. QED
  BY <1>2, <1>3, <1>4 DEF ProvenInv

\* The steps that leave both tables, the published file and the inbox alone,
\* or forget some of them, cannot break the invariant.
LEMMA ProvenStays ==
    ASSUME ProvenInv, proven \subseteq proven',
           Published' = Published \/ Published' = EmptyMatrix,
           \A f \in File : inbox'[f] \in {inbox[f], NoFile},
           verified' = verified \/ verified' = NoCombos \/ verified' = txVerified,
           txVerified' \in {txVerified, verified, NoCombos}
    PROVE  ProvenInv'
<1>1. PublishedWasProven'
  BY DEF ProvenInv, PublishedWasProven, EmptyMatrix, EmptyEntry
<1>2. \A c \in Combo : NoCombos[c] = NoHash
  BY DEF NoCombos
<1>3. RowsProven(verified)' /\ RowsProven(txVerified)'
  BY <1>2 DEF ProvenInv, RowsProven
<1>4. FilesProven'
  BY DEF ProvenInv, FilesProven
<1>5. QED
  BY <1>1, <1>3, <1>4 DEF ProvenInv

\* A merged file adds a row only for a combination that it proves.
LEMMA ApplyProvenInv ==
    ASSUME TypeOK, ProvenInv, NEW f \in File, Apply(f)
    PROVE  ProvenInv'
<1> DEFINE r == inbox[f]
<1>1. r \in Inputs /\ inbox[f] # NoFile
  BY DEF Apply, TypeOK
<1>2. ComboOf(r) \in Combo
  BY <1>1, ResultNames DEF TypeOK
<1>3. /\ Published' = Published /\ verified' = verified
      /\ inbox' = inbox /\ proven' = proven
  BY DEF Apply, Published, db, json, history
<1>4. RowsProven(txVerified)'
  <2>1. CASE txVerified' = txVerified
    BY <1>3, <2>1 DEF ProvenInv, RowsProven
  <2>2. CASE Accept(r)
    <3>1. <<r.chip, r.software, r.hash>> \in proven
      BY <1>1, <2>2 DEF Accept, ProvenInv, FilesProven
    <3>2. ComboOf(r)[1] = r.chip /\ ComboOf(r)[3] = r.software
      BY DEF ComboOf
    <3>3. txVerified' = [txVerified EXCEPT ![ComboOf(r)] = r.hash]
      BY <2>2 DEF Accept
    <3>4. QED
      BY <1>2, <1>3, <3>1, <3>2, <3>3 DEF ProvenInv, RowsProven, TypeOK, VerifiedTable
  <2>3. CASE Park(r)
    BY <1>2, <1>3, <2>3 DEF Park, ProvenInv, RowsProven, TypeOK, VerifiedTable
  <2>4. QED
    BY <2>1, <2>2, <2>3, Zenon DEF Apply, Skip
<1>5. QED
  BY <1>3, <1>4 DEF ProvenInv, PublishedWasProven, RowsProven, FilesProven

\* Every step keeps to what was proven.
LEMMA StepProvenInv == TypeOK /\ ProvenInv /\ [Next]_vars => ProvenInv'
<1> SUFFICES ASSUME TypeOK, ProvenInv, [Next]_vars PROVE ProvenInv'
  OBVIOUS
<1> USE DEF vars, db, json, process, history
<1>1. CASE Start
  BY <1>1, ProvenStays DEF Start, Published
<1>2. CASE ImportMatrix
  <2>1. CASE matrixJson \in {NoFile, Torn}
    BY <1>2, <2>1, ProvenStays DEF ImportMatrix, Published
  <2>2. CASE matrixJson \notin {NoFile, Torn}
    <3>1. Published = matrixJson
      BY <2>2 DEF Published, MatrixOf
    <3>2. verified' = [c \in Combo |->
              IF c[3] \in matrixJson[<<c[1], c[2]>>].software
              THEN matrixJson[<<c[1], c[2]>>].hash ELSE verified[c]]
      BY <1>2, <2>2 DEF ImportMatrix
    <3>3. \A c \in Combo : <<c[1], c[2]>> \in Group
      BY DEF Combo, Group
    <3>4. RowsProven(verified)'
      <4> SUFFICES ASSUME NEW c \in Combo, verified'[c] # NoHash
                   PROVE  <<c[1], c[3], verified'[c]>> \in proven
        BY <1>2 DEF ImportMatrix, RowsProven
      <4> DEFINE g == <<c[1], c[2]>>
      <4>1. CASE c[3] \in Published[g].software
        <5>1. verified'[c] = Published[g].hash /\ g[1] = c[1] /\ g \in Group
          BY <3>1, <3>2, <3>3, <4>1
        <5>2. QED
          BY <4>1, <5>1 DEF ProvenInv, PublishedWasProven
      <4>2. CASE c[3] \notin Published[g].software
        BY <3>1, <3>2, <4>2 DEF ProvenInv, RowsProven
      <4>3. QED
        BY <4>1, <4>2
    <3>5. UNCHANGED <<matrixJson, txVerified, inbox, proven>>
      BY <1>2, <2>2 DEF ImportMatrix
    <3>6. QED
      BY <3>4, <3>5 DEF ProvenInv, PublishedWasProven, Published, RowsProven, FilesProven
  <2>3. QED
    BY <2>1, <2>2
<1>3. CASE ImportState
  BY <1>3, ProvenStays DEF ImportState, Published
<1>4. CASE Purge
  <2>1. RowsProven(verified)'
    BY <1>4 DEF Purge, ProvenInv, RowsProven
  <2>2. QED
    BY <1>4, <2>1 DEF Purge, ProvenInv, PublishedWasProven, Published, RowsProven,
                      FilesProven
<1>5. CASE Glob
  <2>1. UNCHANGED <<matrixJson, verified, inbox, proven>>
        /\ txVerified' \in {txVerified, verified}
    BY <1>5, Zenon DEF Glob
  <2>2. QED
    BY <2>1, ProvenStays DEF Published
<1>6. ASSUME NEW f \in File, Apply(f) PROVE ProvenInv'
  BY <1>6, ApplyProvenInv
<1>7. CASE Commit
  BY <1>7, ProvenStays DEF Commit, TxEnds, Published
<1>8. CASE CommitFails
  BY <1>8, ProvenStays DEF CommitFails, TxEnds, Published
<1>9. CASE TruncateMatrix
  <2>1. Published' = EmptyMatrix
    BY <1>9 DEF TruncateMatrix, Published, MatrixOf
  <2>2. QED
    BY <1>9, <2>1, ProvenStays DEF TruncateMatrix
<1>10. CASE WriteMatrix
  <2>1. Published' = ExportMatrix(verified)
    BY <1>10, ExportIsMatrix, DistinctAssumption
       DEF WriteMatrix, Published, MatrixOf, TypeOK
  <2>2. verified \in VerifiedTable /\ RowsProven(verified)
    BY DEF TypeOK, ProvenInv
  <2>3. UNCHANGED <<verified, txVerified, inbox, proven>>
    BY <1>10 DEF WriteMatrix
  <2>4. PublishedWasProven'
    BY <2>1, <2>2, <2>3, ExportOfProven DEF PublishedWasProven, ExportMatrix
  <2>5. QED
    BY <2>3, <2>4 DEF ProvenInv, RowsProven, FilesProven
<1>11. CASE SkipMatrix
  BY <1>11, ProvenStays DEF SkipMatrix, Published
<1>12. CASE TruncateState
  BY <1>12, ProvenStays DEF TruncateState, Published
<1>13. CASE WriteState
  BY <1>13, ProvenStays DEF WriteState, Published
<1>14. CASE SkipState
  BY <1>14, ProvenStays DEF SkipState, Published
<1>15. CASE Cleanup
  BY <1>15, ProvenStays DEF Cleanup, ProcessEnds, TxEnds, Published
<1>16. CASE Crash
  <2>1. UNCHANGED <<matrixJson, verified, inbox, proven>> /\ txVerified' = NoCombos
    BY <1>16, Zenon DEF Crash, ProcessEnds, TxEnds
  <2>2. QED
    BY <2>1, ProvenStays DEF Published
<1>17. ASSUME NEW f \in File, NEW r \in Inputs, Deliver(f, r) PROVE ProvenInv'
  <2>1. /\ UNCHANGED <<matrixJson, verified, txVerified>>
        /\ inbox' = [inbox EXCEPT ![f] = r]
        /\ proven' = IF r.status = "VERIFIED"
                     THEN proven \cup {<<r.chip, r.software, r.hash>>} ELSE proven
    BY <1>17 DEF Deliver
  <2>2. FilesProven'
    BY <2>1 DEF ProvenInv, FilesProven, TypeOK
  <2>3. QED
    BY <2>1, <2>2 DEF ProvenInv, PublishedWasProven, Published, RowsProven
<1>18. ASSUME NEW c \in Chip, NEW h \in Hash \cup {NoHash}, RegistryChange(c, h)
       PROVE  ProvenInv'
  BY <1>18, ProvenStays DEF RegistryChange, Published
<1>19. CASE Tick
  BY <1>19, ProvenStays DEF Tick, Published
<1>20. CASE ClearUnverified
  BY <1>20, ProvenStays DEF ClearUnverified, Published
<1>21. CASE HardReset
  BY <1>21, ProvenStays DEF HardReset, Published, MatrixOf
<1>22. CASE UNCHANGED vars
  BY <1>22, ProvenStays DEF Published
<1>23. CASE WriteMatrixInPart
  <2>1. PICK read : matrixJson' = ExportMatrix(Partial(verified, read, NoHash))
    BY <1>23 DEF WriteMatrixInPart
  <2> DEFINE v == Partial(verified, read, NoHash)
  <2>2. v \in VerifiedTable /\ RowsProven(v)
    <3>1. \A c \in Combo : v[c] \in {verified[c], NoHash}
      BY DEF Partial, TypeOK, VerifiedTable
    <3>2. QED
      BY <3>1, PartialTables DEF TypeOK, ProvenInv, RowsProven
  <2>3. UNCHANGED <<verified, txVerified, inbox, proven>>
    BY <1>23 DEF WriteMatrixInPart
  <2> HIDE DEF v
  <2>4. Published' = ExportMatrix(v)
    BY <2>1, <2>2, ExportIsMatrix, DistinctAssumption DEF Published, MatrixOf, v
  <2>5. PublishedWasProven'
    BY <2>2, <2>3, <2>4, ExportOfProven DEF PublishedWasProven, ExportMatrix
  <2>6. QED
    BY <2>3, <2>5 DEF ProvenInv, RowsProven, FilesProven
<1>24. CASE ExportStateFails
  BY <1>24, ProvenStays DEF ExportStateFails, Published
<1>25. CASE TruncateStateInPart
  BY <1>25, ProvenStays DEF TruncateStateInPart, Published
<1>26. CASE WriteStateFails
  BY <1>26, ProvenStays DEF WriteStateFails, Published
<1>27. QED
  BY <1>1, <1>2, <1>3, <1>4, <1>5, <1>6, <1>7, <1>8, <1>9, <1>10, <1>11,
     <1>12, <1>13, <1>14, <1>15, <1>16, <1>17, <1>18, <1>19, <1>20, <1>21,
     <1>22, <1>23, <1>24, <1>25, <1>26 DEF Next, Run, Surroundings, Operator

\* The public matrix never names software with an environment in which it
\* was not verified: the grouping of exportMatrix, the merge loop and the
\* migration keep every combination with the hash it was reported with.
THEOREM OnlyProvenIsPublished == Spec => []PublishedWasProven
<1>1. ProvenInv => PublishedWasProven
  BY DEF ProvenInv
<1>2. QED
  BY <1>1, TypeCorrect, InitProvenInv, StepProvenInv, PTL DEF Spec


(***************************************************************************)
(* A combination is verified or parked, never both.                        *)
(*                                                                         *)
(* The merge keeps the two tables of its transaction apart; the migration  *)
(* fills them from two files that must agree, one table after the other.   *)
(***************************************************************************)

ExcludesInv ==
    /\ Excludes(verified, state)
    /\ pc = "apply" => Excludes(txVerified, txState)
    /\ ~dbExists => pc = "idle"
    /\ ~dbExists \/ pc = "import" =>
          /\ verified = NoCombos /\ state = NoJobs /\ LegacyMatrix
          /\ Excludes(Imported(Published), StateOf(stateJson))
    /\ pc = "importState" =>
          state = NoJobs /\ Excludes(verified, StateOf(stateJson))

\* With an empty table on either side there is nothing to exclude.
LEMMA NothingToExclude ==
    ASSUME NEW v, NEW t \in StateTable
    PROVE  /\ Excludes(NoCombos, t)
           /\ v \in VerifiedTable => Excludes(v, NoJobs)
<1>1. Excludes(NoCombos, t)
  BY DEF Excludes, NoCombos
<1>2. ASSUME v \in VerifiedTable, NEW c \in Combo, v[c] # NoHash
      PROVE  <<c[1], c[2], ToolchainOf[v[c]], c[3]>> \in Job
  <2>1. ToolchainOf \in [Hash -> Toolchain]
    BY Zenon, ConstantsAssumption
  <2>2. QED
    BY <1>2, <2>1 DEF VerifiedTable, Combo, Job
<1>3. QED
  BY <1>1, <1>2 DEF Excludes, NoJobs

\* Every row of an imported table is parked under no version of its job.
LEMMA ImportedIsTable ==
    ASSUME NEW m \in Matrix
    PROVE  Imported(m) \in VerifiedTable
<1>1. ASSUME NEW c \in Combo PROVE m[<<c[1], c[2]>>] \in Entry
  BY DEF Matrix, Combo, Group
<1>2. QED
  BY <1>1 DEF Imported, VerifiedTable, Entry

\* The legacy files park nothing that they list as verified.
LEMMA LegacyFilesAgree ==
    ASSUME Init PROVE Excludes(Imported(Published), StateOf(stateJson))
<1>0. matrixJson \in LegacyMatrices /\ stateJson \in LegacyStates
  BY Zenon DEF Init
<1>1. CASE matrixJson = NoFile
  <2>1. Imported(Published) = NoCombos
    BY <1>1 DEF Published, MatrixOf, Imported, NoCombos, EmptyMatrix, EmptyEntry,
                Combo, Group
  <2>2. QED
    BY <2>1, NothingToExclude, InitTypeOK, ReadersSeeDocuments
<1>2. CASE stateJson = NoFile
  <2>1. StateOf(stateJson) = NoJobs
    BY <1>2 DEF StateOf
  <2>2. QED
    BY <2>1, NothingToExclude, ImportedIsTable, InitTypeOK, ReadersSeeDocuments,
       EmptyTables
<1>3. CASE matrixJson # NoFile /\ stateJson # NoFile
  <2>1. matrixJson \in Matrix /\ WellFormed(matrixJson) /\ stateJson \in StateTable
    BY <1>0, <1>3, LegacyAssumption, Zenon
  <2>2. Published = matrixJson /\ StateOf(stateJson) = stateJson
    BY <2>1, DistinctAssumption DEF Published, MatrixOf, StateOf
  <2>3. \A g \in Group : \A p \in matrixJson[g].software :
           stateJson[<<g[1], g[2], ToolchainOf[matrixJson[g].hash], p>>] = NoRow
    BY <1>0, <1>3, LegacyAssumption, Zenon
  <2> SUFFICES ASSUME NEW c \in Combo, Imported(matrixJson)[c] # NoHash
               PROVE  stateJson[<<c[1], c[2], ToolchainOf[Imported(matrixJson)[c]],
                                  c[3]>>] = NoRow
    BY <2>2 DEF Excludes
  <2> DEFINE g == <<c[1], c[2]>>
  <2>4. g \in Group /\ g[1] = c[1] /\ g[2] = c[2]
    BY DEF Combo, Group
  <2>5. c[3] \in matrixJson[g].software /\ Imported(matrixJson)[c] = matrixJson[g].hash
    BY DEF Imported
  <2>6. QED
    BY <2>3, <2>4, <2>5
<1>4. QED
  BY <1>1, <1>2, <1>3

\* Initially the two tables are empty.
LEMMA InitExcludesInv == Init => ExcludesInv
<1> SUFFICES ASSUME Init PROVE ExcludesInv
  OBVIOUS
<1>1. Excludes(verified, state)
  BY NothingToExclude, EmptyTables DEF Init
<1>2. LegacyMatrix /\ verified = NoCombos /\ state = NoJobs /\ pc = "idle"
  BY LegacyAssumption, Zenon DEF Init, LegacyMatrix
<1>3. QED
  BY <1>1, <1>2, LegacyFilesAgree DEF ExcludesInv

\* Two combinations have one job only if they are one combination.
LEMMA ApplyExcludes ==
    ASSUME TypeOK, Excludes(txVerified, txState), NEW f \in File, Apply(f)
    PROVE  Excludes(txVerified, txState)'
<1> DEFINE r == inbox[f]
<1> DEFINE job(c, h) == <<c[1], c[2], ToolchainOf[h], c[3]>>
<1>1. r \in Inputs
  BY DEF Apply, TypeOK
<1>2. /\ ComboOf(r) \in Combo /\ JobOf(r) \in Job
      /\ JobOf(r) = job(ComboOf(r), r.hash)
  BY <1>1, ResultNames DEF TypeOK, ComboOf, JobOf
<1>3. ASSUME NEW c \in Combo, c # ComboOf(r), NEW h PROVE job(c, h) # JobOf(r)
  BY <1>2, <1>3 DEF Combo, ComboOf, JobOf
<1>4. CASE Skip(r)
  BY <1>4 DEF Skip, Excludes
<1>5. CASE Accept(r)
  <2>1. /\ txVerified' = [txVerified EXCEPT ![ComboOf(r)] = r.hash]
        /\ txState' = [txState EXCEPT ![JobOf(r)] = NoRow]
    BY <1>5 DEF Accept
  <2> SUFFICES ASSUME NEW c \in Combo, txVerified'[c] # NoHash
               PROVE  txState'[job(c, txVerified'[c])] = NoRow
    BY DEF Excludes
  <2>2. CASE c = ComboOf(r)
    <3>1. txVerified'[c] = r.hash /\ job(c, r.hash) = JobOf(r)
      BY <1>2, <2>1, <2>2 DEF TypeOK, VerifiedTable
    <3>2. txState'[JobOf(r)] = NoRow
      BY <1>2, <2>1 DEF TypeOK, StateTable
    <3>3. QED
      BY <3>1, <3>2
  <2>3. CASE c # ComboOf(r)
    <3>1. txVerified'[c] = txVerified[c]
      BY <2>1, <2>3
    <3>2. txState[job(c, txVerified[c])] = NoRow
      BY <3>1 DEF Excludes
    <3>3. txState' = [j \in Job |-> IF j = JobOf(r) THEN NoRow ELSE txState[j]]
      BY <2>1 DEF TypeOK, StateTable
    <3>4. job(c, txVerified[c]) # JobOf(r)
      BY <1>3, <2>3
    <3>5. QED
      BY <2>1, <3>1, <3>2, <3>4
  <2>4. QED
    BY <2>2, <2>3
<1>6. CASE Park(r)
  <2>1. /\ txVerified' = [txVerified EXCEPT ![ComboOf(r)] = NoHash]
        /\ txState' = [txState EXCEPT ![JobOf(r)] = RowFor(r, txState[JobOf(r)])]
    BY <1>6 DEF Park
  <2> SUFFICES ASSUME NEW c \in Combo, txVerified'[c] # NoHash
               PROVE  txState'[job(c, txVerified'[c])] = NoRow
    BY DEF Excludes
  <2>2. c # ComboOf(r) /\ txVerified'[c] = txVerified[c]
    BY <1>2, <2>1 DEF TypeOK, VerifiedTable
  <2>3. txState[job(c, txVerified[c])] = NoRow /\ job(c, txVerified[c]) # JobOf(r)
    BY <1>3, <2>2 DEF Excludes
  <2>4. QED
    BY <2>1, <2>2, <2>3
<1>7. QED
  BY <1>4, <1>5, <1>6 DEF Apply

\* Every step keeps the two tables apart, inside the transaction too.
LEMMA StepExcludesInv == TypeOK /\ ExcludesInv /\ [Next]_vars => ExcludesInv'
<1> SUFFICES ASSUME TypeOK, ExcludesInv, [Next]_vars PROVE ExcludesInv'
  OBVIOUS
<1> USE DEF vars, db, json, process, history
<1>1. CASE Start
  BY <1>1 DEF Start, ExcludesInv, LegacyMatrix, Published, TypeOK
<1>2. CASE ImportMatrix
  <2>1. /\ verified = NoCombos /\ state = NoJobs /\ LegacyMatrix
        /\ Excludes(Imported(Published), StateOf(stateJson)) /\ dbExists = TRUE
    BY <1>2 DEF ImportMatrix, ExcludesInv, TypeOK
  <2>2. UNCHANGED <<dbExists, state, stateJson>> /\ pc' \in {"purge", "importState"}
    BY <1>2 DEF ImportMatrix
  <2>3. CASE matrixJson \in {NoFile, Torn}
    <3>1. verified' = NoCombos /\ pc' = "purge"
      BY <1>2, <2>1, <2>3 DEF ImportMatrix
    <3>2. QED
      BY <2>1, <2>2, <3>1, NothingToExclude, EmptyTables DEF ExcludesInv
  <2>4. CASE matrixJson \notin {NoFile, Torn}
    <3>1. verified' = Imported(matrixJson) /\ Published = matrixJson /\ pc' = "importState"
      BY <1>2, <2>1, <2>4 DEF ImportMatrix, Imported, NoCombos, Published, MatrixOf
    <3>2. Imported(matrixJson) \in VerifiedTable
      BY <3>1, ImportedIsTable, ReadersSeeDocuments
    <3>3. Excludes(verified', NoJobs)
      BY <3>1, <3>2, NothingToExclude, EmptyTables
    <3>4. QED
      BY <2>1, <2>2, <3>1, <3>3 DEF ExcludesInv
  <2>5. QED
    BY <2>3, <2>4
<1>3. CASE ImportState
  <2>1. state = NoJobs /\ Excludes(verified, StateOf(stateJson)) /\ dbExists = TRUE
    BY <1>3 DEF ImportState, ExcludesInv, TypeOK
  <2>2. state' = StateOf(stateJson)
    BY <1>3, <2>1, ReadersSeeDocuments DEF ImportState, NoJobs, StateTable
  <2>3. QED
    BY <1>3, <2>1, <2>2 DEF ImportState, ExcludesInv
<1>4. CASE Purge
  <2>1. verified' = [c \in Combo |-> IF IsMainRow(c) THEN NoHash ELSE verified[c]]
        /\ UNCHANGED <<dbExists, state>> /\ pc = "purge" /\ pc' = "glob"
    BY <1>4, Zenon DEF Purge
  <2>2. Excludes(verified', state)
    BY <2>1 DEF ExcludesInv, Excludes
  <2>3. QED
    BY <2>1, <2>2 DEF ExcludesInv, TypeOK
<1>5. CASE Glob
  <2>1. /\ UNCHANGED <<dbExists, verified, state>> /\ pc = "glob"
        /\ \/ pc' = "done"
           \/ pc' = "apply" /\ txVerified' = verified /\ txState' = state
    BY <1>5, Zenon DEF Glob
  <2>2. QED
    BY <2>1 DEF ExcludesInv, TypeOK
<1>6. ASSUME NEW f \in File, Apply(f) PROVE ExcludesInv'
  <2>1. /\ pc = "apply" /\ pc' = pc /\ UNCHANGED <<db, json>>
    BY <1>6 DEF Apply
  <2>2. Excludes(txVerified, txState)'
    BY <1>6, <2>1, ApplyExcludes DEF ExcludesInv
  <2>3. QED
    BY <2>1, <2>2 DEF ExcludesInv
<1>7. CASE Commit
  BY <1>7 DEF Commit, ExcludesInv
<1>8. CASE CommitFails
  BY <1>8 DEF CommitFails, ExcludesInv
<1>9. CASE TruncateMatrix
  BY <1>9 DEF TruncateMatrix, ExcludesInv
<1>10. CASE WriteMatrix
  BY <1>10 DEF WriteMatrix, ExcludesInv
<1>11. CASE SkipMatrix
  BY <1>11 DEF SkipMatrix, ExcludesInv
<1>12. CASE TruncateState
  BY <1>12 DEF TruncateState, ExcludesInv
<1>13. CASE WriteState
  BY <1>13 DEF WriteState, ExcludesInv
<1>14. CASE SkipState
  BY <1>14 DEF SkipState, ExcludesInv
<1>15. CASE Cleanup
  BY <1>15 DEF Cleanup, ProcessEnds, ExcludesInv
<1>16. CASE Crash
  <2>1. pc # "idle" /\ pc' = "idle" /\ UNCHANGED <<dbExists, verified, state>>
    BY <1>16, Zenon DEF Crash, ProcessEnds
  <2>2. QED
    BY <2>1 DEF ExcludesInv
<1>17. ASSUME NEW f \in File, NEW r \in Inputs, Deliver(f, r) PROVE ExcludesInv'
  BY <1>17 DEF Deliver, ExcludesInv, LegacyMatrix, Published
<1>18. ASSUME NEW c \in Chip, NEW h \in Hash \cup {NoHash}, RegistryChange(c, h)
       PROVE  ExcludesInv'
  BY <1>18 DEF RegistryChange, ExcludesInv, LegacyMatrix, Published
<1>19. CASE Tick
  BY <1>19 DEF Tick, ExcludesInv, LegacyMatrix, Published
<1>20. CASE ClearUnverified
  <2>1. /\ state' = NoJobs /\ pc # "apply" /\ dbExists' = TRUE
        /\ UNCHANGED <<verified, json, pc>>
    BY <1>20, Zenon DEF ClearUnverified
  <2>2. Excludes(verified', state')
    BY <2>1, NothingToExclude, EmptyTables DEF TypeOK
  <2>3. QED
    BY <2>1, <2>2 DEF ExcludesInv, LegacyMatrix, Published
<1>21. CASE HardReset
  <2>1. /\ verified' = NoCombos /\ state' = NoJobs /\ pc = "idle" /\ pc' = pc
        /\ matrixJson' = NoFile /\ stateJson' = NoFile
    BY <1>21 DEF HardReset
  <2>2. Imported(Published)' = NoCombos
    BY <2>1 DEF Published, MatrixOf, Imported, NoCombos, EmptyMatrix, EmptyEntry,
                Combo, Group
  <2>3. Excludes(NoCombos, NoJobs) /\ StateOf(stateJson') = NoJobs
    BY <2>1, NothingToExclude, EmptyTables DEF StateOf
  <2>4. QED
    BY <2>1, <2>2, <2>3 DEF ExcludesInv, LegacyMatrix
<1>22. CASE UNCHANGED vars
  BY <1>22 DEF ExcludesInv, LegacyMatrix, Published
<1>23. CASE WriteMatrixInPart
  BY <1>23 DEF WriteMatrixInPart, ExcludesInv
<1>24. CASE ExportStateFails
  BY <1>24 DEF ExportStateFails, ExcludesInv
<1>25. CASE TruncateStateInPart
  BY <1>25 DEF TruncateStateInPart, ExcludesInv
<1>26. CASE WriteStateFails
  BY <1>26 DEF WriteStateFails, ExcludesInv
<1>27. QED
  BY <1>1, <1>2, <1>3, <1>4, <1>5, <1>6, <1>7, <1>8, <1>9, <1>10, <1>11,
     <1>12, <1>13, <1>14, <1>15, <1>16, <1>17, <1>18, <1>19, <1>20, <1>21,
     <1>22, <1>23, <1>24, <1>25, <1>26 DEF Next, Run, Surroundings, Operator

\* No combination is published as verified while the farm parks it as
\* failing with the same toolchain: each merged result moves its combination
\* from one table to the other in a single transaction.
THEOREM VerifiedIsNotParked == Spec => []ParkedExcludesVerified
<1>1. ExcludesInv => ParkedExcludesVerified
  BY DEF ExcludesInv, ParkedExcludesVerified
<1>2. QED
  BY <1>1, TypeCorrect, InitExcludesInv, StepExcludesInv, PTL DEF Spec


(***************************************************************************)
(* internal_state.json and the table it is exported from.                  *)
(***************************************************************************)

StateSyncInv ==
    /\ ~dbExists => pc = "idle"
    /\ ~dbExists \/ pc \in {"import", "importState"} => state = NoJobs
    /\ pc \in {"idle", "import", "importState", "purge", "glob"} => stateUpdated = FALSE
    /\ pc = "apply" /\ stateUpdated = FALSE => txState = state
    /\ dbExists /\ "state" \notin behind =>
         /\ pc \in {"idle", "purge", "glob", "apply", "done"}
               => StateOf(stateJson) = state
         /\ pc \in {"matrix", "writeMatrix", "state"} /\ stateUpdated = FALSE
               => StateOf(stateJson) = state
         /\ pc = "writeState" => rows = state

\* Before the first run there is no table to lag behind.
LEMMA InitStateSyncInv == Init => StateSyncInv
  BY Zenon DEF Init, StateSyncInv

\* A merged file that leaves the stateUpdated flag down leaves the jobs alone.
LEMMA ApplyStateSync ==
    ASSUME TypeOK, StateSyncInv, NEW f \in File, Apply(f), stateUpdated' = FALSE
    PROVE  txState' = state
<1> DEFINE r == inbox[f]
<1>1. r \in Inputs
  BY DEF Apply, TypeOK
<1>2. JobOf(r) \in Job
  BY <1>1, ResultNames DEF TypeOK
<1>3. CASE Skip(r)
  BY <1>3 DEF Skip, Apply, StateSyncInv
<1>4. CASE Accept(r)
  <2>1. ~(stateUpdated \/ txState[JobOf(r)] # NoRow)
    BY <1>4, Zenon DEF Accept
  <2>2. stateUpdated = FALSE /\ txState[JobOf(r)] = NoRow
    BY <2>1 DEF TypeOK
  <2>3. txState' = txState
    BY <1>2, <1>4, <2>2 DEF Accept, TypeOK, StateTable
  <2>4. QED
    BY <2>2, <2>3 DEF Apply, StateSyncInv
<1>5. CASE Park(r)
  BY <1>5 DEF Park
<1>6. QED
  BY <1>3, <1>4, <1>5, Zenon DEF Apply

\* Every step keeps internal_state.json and its table as StateSyncInv relates them.
LEMMA StepStateSyncInv == TypeOK /\ StateSyncInv /\ [Next]_vars => StateSyncInv'
<1> SUFFICES ASSUME TypeOK, StateSyncInv, [Next]_vars PROVE StateSyncInv'
  OBVIOUS
<1> USE DEF vars, db, json, process, history
<1>1. CASE Start
  BY <1>1, Zenon DEF Start, StateSyncInv
<1>2. CASE ImportMatrix
  <2>1. /\ state = NoJobs /\ stateUpdated = FALSE /\ dbExists = TRUE
        /\ UNCHANGED <<dbExists, state, stateJson, stateUpdated>>
        /\ pc' \in {"purge", "importState"}
    BY <1>2 DEF ImportMatrix, StateSyncInv, TypeOK
  <2>2. pc' = "purge" /\ "state" \notin behind' => StateOf(stateJson) = NoJobs
    BY <1>2 DEF ImportMatrix
  <2>3. QED
    BY <2>1, <2>2 DEF StateSyncInv
<1>3. CASE ImportState
  <2>1. state = NoJobs /\ dbExists = TRUE /\ stateUpdated = FALSE
    BY <1>3 DEF ImportState, StateSyncInv, TypeOK
  <2>2. state' = StateOf(stateJson)
    BY <1>3, <2>1, ReadersSeeDocuments DEF ImportState, NoJobs, StateTable
  <2>3. QED
    BY <1>3, <2>1, <2>2 DEF ImportState, StateSyncInv
<1>4. CASE Purge
  <2>1. UNCHANGED <<dbExists, state, stateJson, stateUpdated, behind>>
        /\ pc = "purge" /\ pc' = "glob"
    BY <1>4, Zenon DEF Purge
  <2>2. QED
    BY <2>1, Zenon DEF StateSyncInv, TypeOK
<1>5. CASE Glob
  <2>1. /\ UNCHANGED <<dbExists, state, stateJson, stateUpdated, behind>> /\ pc = "glob"
        /\ \/ pc' = "done"
           \/ pc' = "apply" /\ txState' = state
    BY <1>5, Zenon DEF Glob
  <2>2. QED
    BY <2>1 DEF StateSyncInv, TypeOK
<1>6. ASSUME NEW f \in File, Apply(f) PROVE StateSyncInv'
  <2>1. /\ pc = "apply" /\ pc' = pc
        /\ UNCHANGED <<dbExists, state, stateJson, rows, behind>>
    BY <1>6 DEF Apply
  <2>2. stateUpdated' = FALSE => txState' = state
    BY <1>6, ApplyStateSync
  <2>3. QED
    BY <2>1, <2>2 DEF StateSyncInv
<1>7. CASE Commit
  BY <1>7 DEF Commit, StateSyncInv
<1>8. CASE CommitFails
  BY <1>8 DEF CommitFails, StateSyncInv
<1>9. CASE TruncateMatrix
  BY <1>9 DEF TruncateMatrix, StateSyncInv
<1>10. CASE WriteMatrix
  BY <1>10 DEF WriteMatrix, StateSyncInv
<1>11. CASE SkipMatrix
  BY <1>11 DEF SkipMatrix, StateSyncInv
<1>12. CASE TruncateState
  BY <1>12 DEF TruncateState, StateSyncInv
<1>13. CASE WriteState
  <2>1. "state" \notin behind => StateOf(stateJson') = state
    <3>1. dbExists = TRUE
      BY <1>13 DEF WriteState, StateSyncInv, TypeOK
    <3>2. "state" \notin behind => rows = state
      BY <1>13, <3>1 DEF WriteState, StateSyncInv
    <3>3. QED
      BY <1>13, <3>2, DistinctAssumption DEF WriteState, StateOf, TypeOK
  <2>2. QED
    BY <1>13, <2>1 DEF WriteState, StateSyncInv
<1>14. CASE SkipState
  BY <1>14 DEF SkipState, StateSyncInv, TypeOK
<1>15. CASE Cleanup
  BY <1>15 DEF Cleanup, ProcessEnds, StateSyncInv
<1>16. CASE Crash
  <2>1. /\ pc # "idle" /\ pc' = "idle" /\ stateUpdated' = FALSE
        /\ UNCHANGED <<dbExists, state, stateJson>>
    BY <1>16, Zenon DEF Crash, ProcessEnds
  <2>2. dbExists = TRUE
    BY <2>1, Zenon DEF StateSyncInv, TypeOK
  <2>3. "state" \notin behind' =>
           /\ "state" \notin behind /\ pc \notin {"import", "importState", "writeState"}
           /\ pc \in {"matrix", "writeMatrix", "state"} => stateUpdated = FALSE
    BY <1>16, Zenon DEF Crash, TypeOK
  <2>4. "state" \notin behind' => StateOf(stateJson) = state
    <3>1. pc \in Steps
      BY Zenon DEF TypeOK
    <3>2. QED
      BY <2>1, <2>2, <2>3, <3>1 DEF StateSyncInv, Steps
  <2>5. QED
    BY <2>1, <2>2, <2>4, Zenon DEF StateSyncInv
<1>17. ASSUME NEW f \in File, NEW r \in Inputs, Deliver(f, r) PROVE StateSyncInv'
  BY <1>17 DEF Deliver, StateSyncInv
<1>18. ASSUME NEW c \in Chip, NEW h \in Hash \cup {NoHash}, RegistryChange(c, h)
       PROVE  StateSyncInv'
  BY <1>18 DEF RegistryChange, StateSyncInv
<1>19. CASE Tick
  BY <1>19 DEF Tick, StateSyncInv
<1>20. CASE ClearUnverified
  <2>1. /\ pc # "apply" /\ state' = NoJobs
        /\ UNCHANGED <<stateJson, pc, stateUpdated, rows, txState>>
    BY <1>20, Zenon DEF ClearUnverified
  <2>2. "state" \notin behind' =>
           "state" \notin behind /\ state = NoJobs /\ StateOf(stateJson) = NoJobs
    BY <1>20, Zenon DEF ClearUnverified
  <2>3. ~dbExists => pc = "idle"
    BY DEF StateSyncInv
  <2>4. CASE dbExists
    <3>1. dbExists = TRUE /\ dbExists' = TRUE
      BY <1>20, <2>4 DEF ClearUnverified, TypeOK
    <3>2. QED
      BY <2>1, <2>2, <3>1 DEF StateSyncInv
  <2>5. CASE ~dbExists
    BY <1>20, <2>1, <2>2, <2>3, <2>5 DEF ClearUnverified, StateSyncInv
  <2>6. QED
    BY <2>4, <2>5
<1>21. CASE HardReset
  BY <1>21 DEF HardReset, StateSyncInv
<1>22. CASE UNCHANGED vars
  BY <1>22 DEF StateSyncInv
<1>23. CASE WriteMatrixInPart
  BY <1>23 DEF WriteMatrixInPart, StateSyncInv
<1>24. CASE ExportStateFails
  BY <1>24 DEF ExportStateFails, StateSyncInv
<1>25. CASE TruncateStateInPart
  BY <1>25 DEF TruncateStateInPart, StateSyncInv
<1>26. CASE WriteStateFails
  BY <1>26 DEF WriteStateFails, StateSyncInv
<1>27. QED
  BY <1>1, <1>2, <1>3, <1>4, <1>5, <1>6, <1>7, <1>8, <1>9, <1>10, <1>11,
     <1>12, <1>13, <1>14, <1>15, <1>16, <1>17, <1>18, <1>19, <1>20, <1>21,
     <1>22, <1>23, <1>24, <1>25, <1>26 DEF Next, Run, Surroundings, Operator

\* Between two runs internal_state.json is the table of parked jobs, unless
\* since the last export a run crashed, one failed to export and kept that to
\* itself, a migration imported no matrix and so left the file's rows out, or
\* clear_unverified deleted the rows: update_ledger raises its stateUpdated
\* flag whenever it changes the table itself.
THEOREM StateStaysInSync == Spec => []StateInSync
<1>1. StateSyncInv => StateInSync
  BY DEF StateSyncInv, StateInSync
<1>2. QED
  BY <1>1, TypeCorrect, InitStateSyncInv, StepStateSyncInv, PTL DEF Spec

=============================================================================
