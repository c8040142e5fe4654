-------------------------- MODULE LedgerMergeProofs --------------------------
(***************************************************************************)
(* What becomes of a batch of results, proved for every value of the       *)
(* constants: an uncontradicted result reaches both exported files, and a  *)
(* job is given up only on as many reports as it takes.                    *)
(***************************************************************************)
EXTENDS LedgerSafetyProofs, FiniteSetTheorems

(***************************************************************************)
(* A result that no other file of its batch contradicts.                   *)
(*                                                                         *)
(* The registry and the inbox stand still while update_ledger runs, so     *)
(* that a sole file stays sole.  Once the loop has passed it, its          *)
(* combination and its job keep what the file said, for the remaining      *)
(* files are invalid or name another combination, and so another job; the  *)
(* commit carries this over to the tables.                                 *)
(***************************************************************************)

\* What the tables hold of a merged result.
Merged(r, v, t) ==
    /\ v[ComboOf(r)] = IF r.status = "VERIFIED" THEN r.hash ELSE NoHash
    /\ r.status = "VERIFIED" => t[JobOf(r)] = NoRow

AllMerged(S, v, t) == \A f \in S : Sole(f) => Merged(inbox[f], v, t)

MergeInv ==
    /\ pc = "apply" => AllMerged(File \ todo, txVerified, txState)
    /\ pc \in {"matrix", "writeMatrix", "state", "writeState", "done"}
          /\ "batch" \notin behind
       => AllMerged(File, verified, state)

\* Merging a file says of its combination and its job what the file says.
LEMMA ApplyMerges ==
    ASSUME TypeOK, NEW f \in File, Apply(f), inbox[f].status # "INVALID"
    PROVE  Merged(inbox[f], txVerified', txState')
<1> DEFINE r == inbox[f]
<1>1. r \in Inputs
  BY DEF Apply, TypeOK
<1>2. ComboOf(r) \in Combo /\ JobOf(r) \in Job
  BY <1>1, ResultNames DEF TypeOK
<1>3. CASE Skip(r)
  BY <1>3 DEF Skip
<1>4. CASE Accept(r)
  BY <1>2, <1>4 DEF Accept, Merged, TypeOK, VerifiedTable, StateTable
<1>5. CASE Park(r)
  BY <1>2, <1>5 DEF Park, Merged, TypeOK, VerifiedTable
<1>6. QED
  BY <1>3, <1>4, <1>5, Zenon DEF Apply

\* It leaves the combination and the job of every sole file alone.
LEMMA ApplySpares ==
    ASSUME TypeOK, NEW f \in File, Apply(f), NEW e \in File \ {f}, Sole(e),
           Merged(inbox[e], txVerified, txState)
    PROVE  Merged(inbox[e], txVerified', txState')
<1> DEFINE r == inbox[f]
<1> DEFINE p == inbox[e]
<1>1. r \in Inputs /\ r # NoFile /\ p \in Inputs
  BY DEF Apply, TypeOK, Sole
<1>2. CASE Skip(r)
  BY <1>2 DEF Skip, Merged
<1>3. CASE ~Skip(r)
  <2>1. Accept(r) \/ Park(r)
    BY <1>3, Zenon DEF Apply
  <2>2. r.status # "INVALID"
    BY <2>1 DEF Accept, Park
  <2>3. ComboOf(r) # ComboOf(p)
    BY <1>1, <2>2 DEF Sole
  <2>4. JobOf(r) # JobOf(p)
    BY <2>3 DEF ComboOf, JobOf
  <2>5. txVerified'[ComboOf(p)] = txVerified[ComboOf(p)]
        /\ txState'[JobOf(p)] = txState[JobOf(p)]
    <3>1. ComboOf(p) \in Combo /\ JobOf(p) \in Job
      BY <1>1, ResultNames DEF TypeOK
    <3>2. CASE Accept(r)
      BY <2>3, <2>4, <3>1, <3>2 DEF Accept, TypeOK, VerifiedTable, StateTable
    <3>3. CASE Park(r)
      BY <2>3, <2>4, <3>1, <3>3 DEF Park, TypeOK, VerifiedTable, StateTable
    <3>4. QED
      BY <2>1, <3>2, <3>3
  <2>6. QED
    BY <2>5 DEF Merged
<1>4. QED
  BY <1>2, <1>3

\* While the registry and the inbox stand still, so does what is merged.
LEMMA MergedStays ==
    ASSUME reg' = reg, inbox' = inbox, NEW S, NEW v, NEW t, NEW u,
           AllMerged(S, v, t), \A j : t[j] = NoRow => u[j] = NoRow
    PROVE  AllMerged(S, v, u)'
<1>1. \A f : Sole(f)' <=> Sole(f)
  BY DEF Sole, ComboOf, VersionIn
<1>2. \A r : ComboOf(r)' = ComboOf(r) /\ JobOf(r)' = JobOf(r)
  BY DEF ComboOf, JobOf, VersionIn
<1>3. QED
  BY <1>1, <1>2 DEF AllMerged, Merged

\* Nothing runs at first.
LEMMA InitMergeInv == Init => MergeInv
  BY DEF Init, MergeInv

\* Every step keeps to what the loop has merged.
LEMMA StepMergeInv == TypeOK /\ MergeInv /\ [Next]_vars => MergeInv'
<1> SUFFICES ASSUME TypeOK, MergeInv, [Next]_vars PROVE MergeInv'
  OBVIOUS
<1> USE DEF vars, db, json, process, history
<1> DEFINE Quiet == {"idle", "import", "importState", "purge", "glob"}
<1> DEFINE Late  == {"matrix", "writeMatrix", "state", "writeState", "done"}
<1>1. ASSUME pc' \in Quiet PROVE MergeInv'
  BY <1>1 DEF MergeInv
<1>2. ASSUME pc \in Late, pc' \in Late, UNCHANGED <<reg, inbox, verified, state>>,
             "batch" \notin behind' => "batch" \notin behind
      PROVE  MergeInv'
  <2>1. CASE "batch" \in behind'
    BY <1>2, <2>1 DEF MergeInv
  <2>2. CASE "batch" \notin behind'
    <3>1. AllMerged(File, verified, state)
      BY <1>2, <2>2 DEF MergeInv
    <3>2. AllMerged(File, verified, state)'
      BY <1>2, <3>1, MergedStays
    <3>3. QED
      BY <1>2, <3>2 DEF MergeInv
  <2>3. QED
    BY <2>1, <2>2
<1>3. CASE Start
  BY <1>1, <1>3 DEF Start
<1>4. CASE ImportMatrix
  BY <1>1, <1>4 DEF ImportMatrix
<1>5. CASE ImportState
  BY <1>1, <1>5 DEF ImportState
<1>6. CASE Purge
  BY <1>1, <1>6 DEF Purge
<1>7. CASE Glob
  <2> DEFINE found == {f \in File : inbox[f] # NoFile}
  <2>1. UNCHANGED <<reg, inbox>>
    BY <1>7 DEF Glob
  <2>2. CASE found = {} /\ ~updated
    <3>1. \A f \in File : ~Sole(f)'
      BY <2>1, <2>2 DEF Sole
    <3>2. pc' = "done"
      BY <1>7, <2>2 DEF Glob
    <3>3. QED
      BY <3>1, <3>2 DEF MergeInv, AllMerged
  <2>3. CASE ~(found = {} /\ ~updated)
    <3>1. pc' = "apply" /\ todo' = found
      BY <1>7, <2>3, Zenon DEF Glob
    <3>2. \A f \in File \ todo' : ~Sole(f)'
      BY <2>1, <3>1 DEF Sole
    <3>3. QED
      BY <3>1, <3>2 DEF MergeInv, AllMerged
  <2>4. QED
    BY <2>2, <2>3
<1>8. ASSUME NEW f \in File, Apply(f) PROVE MergeInv'
  <2>1. /\ pc = "apply" /\ pc' = "apply" /\ todo' = todo \ {f}
        /\ UNCHANGED <<reg, inbox>>
    BY <1>8 DEF Apply
  <2>2. \A g : Sole(g)' <=> Sole(g)
    BY <2>1 DEF Sole, ComboOf, VersionIn
  <2>3. ASSUME NEW e \in File \ todo', Sole(e)
        PROVE  Merged(inbox[e], txVerified', txState')
    <3>1. CASE e = f
      BY <1>8, <2>3, <3>1, ApplyMerges DEF Sole
    <3>2. CASE e # f
      <4>1. Merged(inbox[e], txVerified, txState)
        BY <2>1, <2>3, <3>2 DEF MergeInv, AllMerged
      <4>2. QED
        BY <1>8, <2>3, <3>2, <4>1, ApplySpares
    <3>3. QED
      BY <3>1, <3>2
  <2>4. \A r : ComboOf(r)' = ComboOf(r) /\ JobOf(r)' = JobOf(r)
    BY <2>1 DEF ComboOf, JobOf, VersionIn
  <2>5. AllMerged(File \ todo, txVerified, txState)'
    BY <2>1, <2>2, <2>3, <2>4 DEF AllMerged, Merged
  <2>6. QED
    BY <2>1, <2>5 DEF MergeInv
<1>9. CASE Commit
  <2>1. /\ pc = "apply" /\ todo = {} /\ pc' = "matrix" /\ UNCHANGED <<reg, inbox>>
        /\ verified' = txVerified /\ state' = txState
    BY <1>9 DEF Commit
  <2>2. AllMerged(File, txVerified, txState)
    BY <2>1 DEF MergeInv
  <2>3. AllMerged(File, verified, state)'
    BY <2>1, <2>2 DEF AllMerged, Merged, Sole, ComboOf, JobOf, VersionIn
  <2>4. QED
    BY <2>1, <2>3 DEF MergeInv
<1>10. CASE CommitFails
  BY <1>10 DEF CommitFails, MergeInv
<1>11. CASE TruncateMatrix
  BY <1>2, <1>11 DEF TruncateMatrix
<1>12. CASE WriteMatrix
  BY <1>2, <1>12 DEF WriteMatrix
<1>13. CASE SkipMatrix
  BY <1>2, <1>13 DEF SkipMatrix
<1>14. CASE TruncateState
  BY <1>2, <1>14 DEF TruncateState
<1>15. CASE WriteState
  BY <1>2, <1>15 DEF WriteState
<1>16. CASE SkipState
  BY <1>2, <1>16 DEF SkipState
<1>17. CASE Cleanup
  BY <1>1, <1>17 DEF Cleanup, ProcessEnds
<1>18. CASE Crash
  <2>1. pc' = "idle"
    BY <1>18, Zenon DEF Crash, ProcessEnds
  <2>2. QED
    BY <1>1, <2>1
<1>19. ASSUME NEW f \in File, NEW r \in Inputs, Deliver(f, r) PROVE MergeInv'
  BY <1>1, <1>19 DEF Deliver
<1>20. ASSUME NEW c \in Chip, NEW h \in Hash \cup {NoHash}, RegistryChange(c, h)
       PROVE  MergeInv'
  BY <1>1, <1>20 DEF RegistryChange
<1>21. ASSUME UNCHANGED <<verified, state, reg, inbox, pc, todo, txVerified, txState,
                          behind>>
       PROVE  MergeInv'
  BY <1>21 DEF MergeInv, AllMerged, Merged, Sole, ComboOf, JobOf, VersionIn
<1>22. CASE Tick
  BY <1>21, <1>22 DEF Tick
<1>23. CASE ClearUnverified
  <2>1. /\ state' = NoJobs /\ pc # "apply"
        /\ UNCHANGED <<verified, reg, inbox, pc>>
        /\ "batch" \notin behind' => "batch" \notin behind
    BY <1>23, Zenon DEF ClearUnverified
  <2>2. \A j : j \in Job => NoJobs[j] = NoRow
    BY DEF NoJobs
  <2>3. ASSUME AllMerged(File, verified, state) PROVE AllMerged(File, verified, NoJobs)
    BY <2>2, <2>3, ResultNames DEF AllMerged, Merged, Sole, TypeOK
  <2>4. AllMerged(File, verified, state) => AllMerged(File, verified, state)'
    BY <2>1, <2>3 DEF AllMerged, Merged, Sole, ComboOf, JobOf, VersionIn
  <2>5. QED
    BY <2>1, <2>4 DEF MergeInv
<1>24. CASE HardReset
  BY <1>1, <1>24 DEF HardReset
<1>25. CASE UNCHANGED vars
  BY <1>21, <1>25
<1>26. CASE WriteMatrixInPart
  BY <1>2, <1>26 DEF WriteMatrixInPart
<1>27. CASE ExportStateFails
  BY <1>2, <1>27 DEF ExportStateFails
<1>28. CASE TruncateStateInPart
  BY <1>2, <1>28 DEF TruncateStateInPart
<1>29. CASE WriteStateFails
  BY <1>2, <1>29 DEF WriteStateFails
<1>30. QED
  BY <1>3, <1>4, <1>5, <1>6, <1>7, <1>8, <1>9, <1>10, <1>11, <1>12, <1>13,
     <1>14, <1>15, <1>16, <1>17, <1>18, <1>19, <1>20, <1>22, <1>23, <1>24,
     <1>25, <1>26, <1>27, <1>28, <1>29 DEF Next, Run, Surroundings, Operator

\* The entry that a verified row of a chip version is exported to.
LEMMA ExportOfRow ==
    ASSUME NEW v \in VerifiedTable, NEW c \in Combo
    PROVE  LET entry == ExportGroup(v, <<c[1], c[2]>>)
           IN  /\ v[c] = NoHash => c[3] \notin entry.software
               /\ v[c] # NoHash =>
                     /\ entry.hash # NoHash /\ entry.hash >= v[c]
                     /\ entry.hash = v[c] => c[3] \in entry.software
<1> DEFINE g == <<c[1], c[2]>>
<1> DEFINE entry == ExportGroup(v, g)
<1>1. g \in Group /\ g[1] = c[1] /\ g[2] = c[2] /\ c[3] \in Software
      /\ c = <<g[1], g[2], c[3]>>
  BY DEF Combo, Group
<1>2. CASE v[c] = NoHash
  BY <1>1, <1>2, ExportedEntry, DistinctAssumption
<1>3. CASE v[c] # NoHash
  <2> DEFINE H == HashesOf(v, g)
  <2>1. v[c] \in H
    BY <1>1, <1>3 DEF HashesOf
  <2>2. H \subseteq Hash
    BY <1>1 DEF HashesOf, VerifiedTable, Combo
  <2>3. Max(H) \in H /\ Max(H) >= v[c]
    BY <2>1, <2>2, GreatestHash
  <2>4. entry = [hash |-> Max(H),
                 software |-> {s \in Software : v[<<g[1], g[2], s>>] = Max(H)}]
    BY <2>1 DEF ExportGroup
  <2>5. Max(H) # NoHash
    BY <2>2, <2>3, DistinctAssumption
  <2>6. QED
    BY <1>1, <1>3, <2>3, <2>4, <2>5
<1>4. QED
  BY <1>2, <1>3

\* What the tables hold of a merged result, the exports of a finished run hold.
LEMMA MergedReachesExports ==
    TypeOK /\ MatrixInv /\ StateSyncInv /\ MergeInv => MergeReachesExports
<1> SUFFICES ASSUME TypeOK, MatrixInv, StateSyncInv, MergeInv,
                    pc = "done", "batch" \notin behind, NEW f \in File, Sole(f)
             PROVE  LET r == inbox[f]
                        entry == Published[<<r.chip, VersionIn(r)>>]
                        parked == StateOf(stateJson)[JobOf(r)]
                    IN  /\ "matrix" \notin behind =>
                              IF r.status = "VERIFIED"
                              THEN /\ entry.hash # NoHash /\ entry.hash >= r.hash
                                   /\ entry.hash = r.hash => r.software \in entry.software
                              ELSE r.software \notin entry.software
                        /\ "state" \notin behind =>
                              IF r.status = "VERIFIED" THEN parked = NoRow
                              ELSE parked # NoRow \/ state[JobOf(r)] = NoRow
  BY DEF MergeReachesExports
<1> DEFINE r == inbox[f]
<1> DEFINE c == ComboOf(r)
<1>1. dbExists = TRUE
  BY DEF MatrixInv, TypeOK
<1>2. r \in Inputs
  BY DEF Sole, TypeOK
<1>3. c \in Combo /\ c[1] = r.chip /\ c[2] = VersionIn(r) /\ c[3] = r.software
  BY <1>2, ResultNames DEF TypeOK, ComboOf
<1>4. Merged(r, verified, state)
  BY DEF MergeInv, AllMerged
<1>5. ASSUME "matrix" \notin behind
      PROVE  Published[<<r.chip, VersionIn(r)>>] = ExportGroup(verified, <<c[1], c[2]>>)
  <2>1. Published = ExportMatrix(verified)
    BY <1>1, <1>5 DEF MatrixInv
  <2>2. <<r.chip, VersionIn(r)>> \in Group
    BY <1>3 DEF Combo, Group
  <2>3. QED
    BY <1>3, <2>1, <2>2 DEF ExportMatrix
<1>6. r.hash \in Hash /\ r.hash # NoHash
  BY <1>2, ResultFields, DistinctAssumption
<1>7. ASSUME "state" \notin behind PROVE StateOf(stateJson) = state
  BY <1>1, <1>7 DEF StateSyncInv
<1>8. verified \in VerifiedTable
  BY DEF TypeOK
<1>9. CASE r.status = "VERIFIED"
  <2>1. verified[c] = r.hash /\ state[JobOf(r)] = NoRow
    BY <1>4, <1>9 DEF Merged
  <2>2. QED
    BY <1>3, <1>5, <1>6, <1>7, <1>8, <1>9, <2>1, ExportOfRow
<1>10. CASE r.status # "VERIFIED"
  <2>1. verified[c] = NoHash
    BY <1>4, <1>10 DEF Merged
  <2>2. QED
    BY <1>3, <1>5, <1>7, <1>8, <1>10, <2>1, ExportOfRow
<1>11. QED
  BY <1>9, <1>10

\* When a run has ended and its commit went through, every result that no
\* other file of the batch contradicts is in both exported files, whatever
\* order the files were merged in.
THEOREM BatchReachesExports == Spec => []MergeReachesExports
<1>1. QED
  BY TypeCorrect, InitTypeOK, StepTypeOK, InitMatrixInv, StepMatrixInv,
     InitStateSyncInv, StepStateSyncInv, InitMergeInv, StepMergeInv,
     MergedReachesExports, PTL DEF Spec


(***************************************************************************)
(* Giving up on a job.                                                     *)
(*                                                                         *)
(* A report waits in the inbox until a run merges it, and raises the       *)
(* retries of its job by at most one.  A crash or a failed commit leaves   *)
(* the merged reports in the inbox, to be merged once more: each fault     *)
(* grants each report one more merge.  So the retries of a job and the     *)
(* reports that still wait for it never exceed the reports made so far     *)
(* times the faults plus one, on top of what the job brought along from    *)
(* the internal_state.json that the ledger was migrated from: L bounds     *)
(* that for each job.                                                      *)
(***************************************************************************)

UpTo(t, L) == \A j \in Job : t[j] # NoRow =>
    /\ t[j].retry <= L[j]
    /\ t[j].status = "FATAL_INFRA_ERROR" => L[j] >= 2

LegacyUpTo(L) == \A s \in LegacyStates : s # NoFile => UpTo(s, L)

IsReport(f, T) ==
    inbox[f] # NoFile /\ inbox[f].status = "INFRA_ERROR" /\ TestOf(inbox[f]) = T

Waiting(T)     == {f \in File : IsReport(f, T)}
TestOfJob(j)   == <<j[1], j[3], j[4]>>
Allowed(T)     == infraReports[T] * (faults + 1)

\* With S the files yet to be merged for sure.
Within(t, S, L) == \A j \in Job : t[j] # NoRow =>
    /\ t[j].retry + Cardinality(Waiting(TestOfJob(j)) \cap S)
          <= L[j] + Allowed(TestOfJob(j))
    /\ t[j].status = "FATAL_INFRA_ERROR" => t[j].retry >= 2 \/ L[j] >= 2

RetryInv(L) ==
    /\ \A T \in Test : IsFiniteSet(Waiting(T)) /\ Cardinality(Waiting(T)) <= infraReports[T]
    /\ Within(state, {}, L)
    /\ pc \in {"idle", "import", "importState", "purge", "glob"} => Within(state, File, L)
    /\ pc = "apply" => Within(txState, todo, L)
    /\ ~dbExists => pc = "idle"
    /\ ~dbExists \/ pc \in {"import", "importState"} => UpTo(StateOf(stateJson), L)

\* One more report, or one more fault, allows at least one more retry, or
\* once more as many as there are reports.
LEMMA Allowance ==
    ASSUME NEW n \in Nat, NEW k \in Nat
    PROVE  /\ n <= n * (k + 1)
           /\ n * (k + 1) + 1 <= (n + 1) * (k + 1)
           /\ n * (k + 2) = n * (k + 1) + n
           /\ n * (k + 1) \in Nat
<1>1. n * (k + 1) = n * k + n /\ n * k \in Nat
  OBVIOUS
<1>2. (n + 1) * (k + 1) = n * k + n + k + 1
  OBVIOUS
<1>3. n * (k + 2) = n * k + n + n
  OBVIOUS
<1>4. QED
  BY <1>1, <1>2, <1>3

\* A job names a test, and a result the test of its job.
LEMMA JobsAreTests ==
    ASSUME NEW j \in Job PROVE TestOfJob(j) \in Test
  BY DEF Job, Test, TestOfJob

\* What a test is allowed is a number, and at least what was reported of it.
LEMMA AllowedBounds ==
    ASSUME TypeOK, NEW T \in Test
    PROVE  /\ infraReports[T] \in Nat /\ Allowed(T) \in Nat
           /\ infraReports[T] <= Allowed(T)
<1>1. infraReports[T] \in Nat /\ faults \in Nat
  BY DEF TypeOK
<1>2. QED
  BY <1>1, Allowance DEF Allowed

\* No job has more retries than it brought along and was granted, and none is
\* given up on less than two.
RetriesAreGranted(L) == \A j \in Job : state[j] # NoRow =>
    /\ state[j].retry <= L[j] + Allowed(TestOfJob(j))
    /\ state[j].status = "FATAL_INFRA_ERROR" => L[j] + Allowed(TestOfJob(j)) >= 2

\* The invariant bounds retries as the property says.
LEMMA RetryBounds ==
    ASSUME NEW L \in [Job -> Nat]
    PROVE  TypeOK /\ RetryInv(L) => RetriesAreGranted(L)
<1> SUFFICES ASSUME TypeOK, RetryInv(L), NEW j \in Job, state[j] # NoRow
             PROVE  /\ state[j].retry <= L[j] + Allowed(TestOfJob(j))
                    /\ state[j].status = "FATAL_INFRA_ERROR"
                          => L[j] + Allowed(TestOfJob(j)) >= 2
  BY DEF RetriesAreGranted
<1>1. Waiting(TestOfJob(j)) \cap {} = {}
  OBVIOUS
<1>2. state[j].retry + 0 <= L[j] + Allowed(TestOfJob(j))
  BY <1>1, FS_EmptySet DEF RetryInv, Within
<1>3. state[j].status = "FATAL_INFRA_ERROR" => state[j].retry >= 2 \/ L[j] >= 2
  BY DEF RetryInv, Within
<1>4. state[j].retry \in Nat /\ L[j] \in Nat
  BY DEF TypeOK, StateTable, Row
<1>5. Allowed(TestOfJob(j)) \in Nat
  BY JobsAreTests, AllowedBounds
<1>6. QED
  BY <1>2, <1>3, <1>4, <1>5

\* Nothing is parked at first, and nothing is reported.
LEMMA InitRetryInv ==
    ASSUME NEW L \in [Job -> Nat], LegacyUpTo(L) PROVE Init => RetryInv(L)
<1> SUFFICES ASSUME Init PROVE RetryInv(L)
  OBVIOUS
<1>1. ASSUME NEW T \in Test
      PROVE  IsFiniteSet(Waiting(T)) /\ Cardinality(Waiting(T)) <= infraReports[T]
  <2>1. Waiting(T) = {} /\ infraReports[T] = 0
    BY DEF Init, Waiting, IsReport
  <2>2. QED
    BY <2>1, FS_EmptySet
<1>2. \A S : Within(state, S, L)
  BY DEF Init, NoJobs, Within
<1>3. UpTo(StateOf(stateJson), L)
  <2>1. stateJson \in LegacyStates
    BY Zenon DEF Init
  <2>2. CASE stateJson \in {NoFile, Torn}
    BY <2>2 DEF StateOf, UpTo, NoJobs
  <2>3. CASE stateJson \notin {NoFile, Torn}
    BY <2>1, <2>3 DEF StateOf, LegacyUpTo
  <2>4. QED
    BY <2>2, <2>3
<1>4. QED
  BY <1>1, <1>2, <1>3 DEF Init, RetryInv

\* What waits and what is allowed depends on three variables only.
LEMMA WithinStays ==
    ASSUME UNCHANGED <<inbox, infraReports, faults>>, NEW t, NEW S, NEW L,
           Within(t, S, L)
    PROVE  Within(t, S, L)'
<1>1. \A T : Waiting(T)' = Waiting(T) /\ Allowed(T)' = Allowed(T)
  BY DEF Waiting, IsReport, TestOf, Allowed
<1>2. QED
  BY <1>1 DEF Within

\* Fewer files leave more room.
LEMMA WithinLess ==
    ASSUME TypeOK, \A T \in Test : IsFiniteSet(Waiting(T)),
           NEW t \in StateTable, NEW S, NEW R, R \subseteq S,
           NEW L \in [Job -> Nat], Within(t, S, L)
    PROVE  Within(t, R, L)
<1> SUFFICES ASSUME NEW j \in Job, t[j] # NoRow
             PROVE  t[j].retry + Cardinality(Waiting(TestOfJob(j)) \cap R)
                       <= L[j] + Allowed(TestOfJob(j))
  BY DEF Within
<1> DEFINE W == Waiting(TestOfJob(j))
<1>1. /\ Cardinality(W \cap R) <= Cardinality(W \cap S)
      /\ Cardinality(W \cap R) \in Nat /\ Cardinality(W \cap S) \in Nat
  <2>1. IsFiniteSet(W \cap S) /\ W \cap R \subseteq W \cap S
    BY JobsAreTests, FS_Subset
  <2>2. QED
    BY <2>1, FS_Subset, FS_CardinalityType
<1>2. t[j].retry \in Nat /\ Allowed(TestOfJob(j)) \in Nat /\ L[j] \in Nat
  BY JobsAreTests, AllowedBounds DEF StateTable, Row
<1>3. t[j].retry + Cardinality(W \cap S) <= L[j] + Allowed(TestOfJob(j))
  BY DEF Within
<1>4. QED
  BY <1>1, <1>2, <1>3

\* A table that was brought along leaves room for all that waits.
LEMMA LegacyIsWithin ==
    ASSUME NEW L \in [Job -> Nat], TypeOK, RetryInv(L),
           NEW t \in StateTable, UpTo(t, L), NEW S
    PROVE  Within(t, S, L)
<1> SUFFICES ASSUME NEW j \in Job, t[j] # NoRow
             PROVE  t[j].retry + Cardinality(Waiting(TestOfJob(j)) \cap S)
                       <= L[j] + Allowed(TestOfJob(j))
  BY DEF Within, UpTo
<1> DEFINE W == Waiting(TestOfJob(j))
<1>1. /\ IsFiniteSet(W) /\ Cardinality(W) <= infraReports[TestOfJob(j)]
      /\ infraReports[TestOfJob(j)] \in Nat /\ Allowed(TestOfJob(j)) \in Nat
      /\ infraReports[TestOfJob(j)] <= Allowed(TestOfJob(j))
  BY JobsAreTests, AllowedBounds DEF RetryInv
<1>2. /\ Cardinality(W \cap S) <= Cardinality(W)
      /\ Cardinality(W \cap S) \in Nat /\ Cardinality(W) \in Nat
  BY <1>1, FS_Subset, FS_CardinalityType
<1>3. t[j].retry \in Nat /\ t[j].retry <= L[j] /\ L[j] \in Nat
  BY DEF UpTo, StateTable, Row
<1>4. QED
  BY <1>1, <1>2, <1>3

\* Merging a file uses up at most the report it is.
LEMMA ApplyWithin ==
    ASSUME NEW L \in [Job -> Nat], TypeOK, RetryInv(L), NEW f \in File, Apply(f)
    PROVE  Within(txState, todo, L)'
<1> DEFINE r == inbox[f]
<1>1. /\ r \in Inputs /\ r # NoFile /\ todo' = todo \ {f} /\ f \in todo
      /\ UNCHANGED <<inbox, infraReports, faults>>
  BY DEF Apply, TypeOK, history
<1>2. /\ JobOf(r) \in Job /\ TestOfJob(JobOf(r)) = TestOf(r)
  BY <1>1, ResultNames DEF TypeOK, JobOf, TestOf, TestOfJob
<1>3. \A T \in Test : IsFiniteSet(Waiting(T))
  BY DEF RetryInv
<1>4. Within(txState, todo, L) /\ txState \in StateTable
  BY DEF Apply, RetryInv, TypeOK
<1>5. Within(txState, todo', L)
  BY <1>1, <1>3, <1>4, WithinLess
<1>6. ASSUME NEW t, Within(t, todo', L), txState' = t PROVE Within(txState, todo, L)'
  BY <1>1, <1>6, WithinStays
<1>7. CASE txState' = txState
  BY <1>5, <1>6, <1>7
<1>8. CASE Accept(r)
  <2>1. txState' = [txState EXCEPT ![JobOf(r)] = NoRow]
    BY <1>8 DEF Accept
  <2>2. Within([txState EXCEPT ![JobOf(r)] = NoRow], todo', L)
    BY <1>2, <1>4, <1>5 DEF Within, StateTable
  <2>3. QED
    BY <1>6, <2>1, <2>2
<1>9. CASE Park(r)
  <2> DEFINE old == txState[JobOf(r)]
  <2> DEFINE W == Waiting(TestOf(r))
  <2>1. txState' = [txState EXCEPT ![JobOf(r)] = RowFor(r, old)]
    BY <1>9 DEF Park
  <2>2. RowFor(r, old).status = "FATAL_INFRA_ERROR" => RowFor(r, old).retry >= 2
    BY <1>9 DEF RowFor, Park
  <2>3. RowFor(r, old).retry + Cardinality(W \cap todo')
            <= L[JobOf(r)] + Allowed(TestOf(r))
    <3>0. /\ TestOf(r) \in Test /\ IsFiniteSet(W \cap todo) /\ IsFiniteSet(W \cap todo')
          /\ L[JobOf(r)] \in Nat /\ Allowed(TestOf(r)) \in Nat
      BY <1>1, <1>2, <1>3, ResultNames, AllowedBounds, FS_Subset DEF TypeOK
    <3>1. CASE r.status = "INFRA_ERROR" /\ old # NoRow
      <4>1. RowFor(r, old).retry = old.retry + 1 /\ old.retry \in Nat
        BY <1>2, <1>4, <3>1 DEF RowFor, StateTable, Row
      <4>2. f \in W
        BY <3>1, <1>1 DEF Waiting, IsReport
      <4>3. W \cap todo' = (W \cap todo) \ {f} /\ f \in W \cap todo
        BY <1>1, <4>2
      <4>4. Cardinality(W \cap todo') = Cardinality(W \cap todo) - 1
        BY <3>0, <4>3, FS_RemoveElement
      <4>5. Cardinality(W \cap todo) \in Nat /\ Cardinality(W \cap todo') \in Nat
        BY <3>0, FS_CardinalityType
      <4>6. old.retry + Cardinality(W \cap todo) <= L[JobOf(r)] + Allowed(TestOf(r))
        BY <1>2, <1>4, <3>1 DEF Within
      <4>7. QED
        BY <3>0, <4>1, <4>4, <4>5, <4>6
    <3>2. CASE ~(r.status = "INFRA_ERROR" /\ old # NoRow)
      <4>1. RowFor(r, old).retry = 0
        BY <3>2 DEF RowFor
      <4>2. /\ IsFiniteSet(W) /\ Cardinality(W) <= infraReports[TestOf(r)]
            /\ infraReports[TestOf(r)] \in Nat /\ Allowed(TestOf(r)) \in Nat
            /\ infraReports[TestOf(r)] <= Allowed(TestOf(r))
        BY <3>0, AllowedBounds DEF RetryInv
      <4>3. /\ Cardinality(W \cap todo') <= Cardinality(W)
            /\ Cardinality(W \cap todo') \in Nat /\ Cardinality(W) \in Nat
        BY <4>2, FS_Subset, FS_CardinalityType
      <4>4. QED
        BY <3>0, <4>1, <4>2, <4>3
    <3>3. QED
      BY <3>1, <3>2
  <2>4. Within([txState EXCEPT ![JobOf(r)] = RowFor(r, old)], todo', L)
    BY <1>2, <1>4, <1>5, <2>2, <2>3 DEF Within, StateTable
  <2>5. QED
    BY <1>6, <2>1, <2>4
<1>10. QED
  BY <1>7, <1>8, <1>9, Zenon DEF Apply, Skip

\* The steps that report nothing and fail nowhere.
LEMMA RetryStays ==
    ASSUME NEW L \in [Job -> Nat], TypeOK, RetryInv(L),
           UNCHANGED <<inbox, infraReports, faults>>,
           state' \in StateTable,
           Within(state', {}, L),
           pc' \in {"idle", "import", "importState", "purge", "glob"}
              => Within(state', File, L),
           pc' = "apply" => Within(txState, todo, L)',
           ~dbExists' => pc' = "idle",
           ~dbExists' \/ pc' \in {"import", "importState"} => UpTo(StateOf(stateJson'), L)
    PROVE  RetryInv(L)'
<1>1. \A T : Waiting(T)' = Waiting(T)
  BY DEF Waiting, IsReport, TestOf
<1>2. Within(state, {}, L)'
  BY WithinStays
<1>3. pc' \in {"idle", "import", "importState", "purge", "glob"} => Within(state, File, L)'
  BY WithinStays
<1>4. QED
  BY <1>1, <1>2, <1>3 DEF RetryInv, UpTo, StateOf

\* A finished result is one more that waits and, if it reports an
\* infrastructure error, one more that was reported.
LEMMA DeliverRetryInv ==
    ASSUME NEW L \in [Job -> Nat], TypeOK, RetryInv(L),
           NEW f \in File, NEW r \in Inputs, Deliver(f, r)
    PROVE  RetryInv(L)'
<1>1. /\ pc = "idle" /\ inbox[f] = NoFile /\ inbox' = [inbox EXCEPT ![f] = r]
      /\ infraReports' = IF r.status = "INFRA_ERROR"
                         THEN [infraReports EXCEPT ![TestOf(r)] = @ + 1]
                         ELSE infraReports
      /\ UNCHANGED <<dbExists, state, stateJson, pc, faults>>
  BY DEF Deliver, db, json, process
<1>2. r # NoFile /\ TestOf(r) \in Test
  <2>1. r \in Result
    BY Zenon, ConstantsAssumption
  <2>2. QED
    BY <2>1, ResultNames, DistinctAssumption DEF TypeOK
<1>3. ASSUME NEW T \in Test
      PROVE  /\ IsFiniteSet(Waiting(T)') /\ Cardinality(Waiting(T)') <= infraReports'[T]
             /\ Cardinality(Waiting(T)') \in Nat /\ Cardinality(Waiting(T)) \in Nat
             /\ infraReports[T] \in Nat /\ Allowed(T) \in Nat /\ Allowed(T)' \in Nat
             /\ Cardinality(Waiting(T)') - Cardinality(Waiting(T))
                   <= Allowed(T)' - Allowed(T)
  <2>1. IsFiniteSet(Waiting(T)) /\ Cardinality(Waiting(T)) <= infraReports[T]
    BY DEF RetryInv
  <2>2. infraReports[T] \in Nat /\ faults \in Nat /\ Cardinality(Waiting(T)) \in Nat
    BY <2>1, FS_CardinalityType DEF TypeOK
  <2>3. CASE r.status = "INFRA_ERROR" /\ T = TestOf(r)
    <3>1. Waiting(T)' = Waiting(T) \cup {f} /\ f \notin Waiting(T)
      BY <1>1, <1>2, <2>3 DEF Waiting, IsReport, TestOf, TypeOK
    <3>2. IsFiniteSet(Waiting(T)') /\ Cardinality(Waiting(T)') = Cardinality(Waiting(T)) + 1
      BY <2>1, <3>1, FS_AddElement
    <3>3. infraReports'[T] = infraReports[T] + 1
      BY <1>1, <1>2, <2>3 DEF TypeOK
    <3>4. Allowed(T)' = (infraReports[T] + 1) * (faults + 1)
      BY <1>1, <3>3 DEF Allowed
    <3>5. Allowed(T) + 1 <= Allowed(T)' /\ Allowed(T) \in Nat /\ Allowed(T)' \in Nat
      BY <2>2, <3>4, Allowance DEF Allowed
    <3>6. QED
      BY <2>1, <2>2, <3>2, <3>3, <3>5
  <2>4. CASE ~(r.status = "INFRA_ERROR" /\ T = TestOf(r))
    <3>1. Waiting(T)' = Waiting(T)
      BY <1>1, <1>2, <2>4 DEF Waiting, IsReport, TestOf, TypeOK
    <3>2. infraReports'[T] = infraReports[T]
      BY <1>1, <2>4 DEF TypeOK
    <3>3. Allowed(T)' = Allowed(T) /\ Allowed(T) \in Nat
      BY <1>1, <2>2, <3>2, Allowance DEF Allowed
    <3>4. QED
      BY <2>1, <2>2, <3>1, <3>2, <3>3
  <2>5. QED
    BY <2>3, <2>4
<1>4. ASSUME NEW j \in Job, state[j] # NoRow
      PROVE  /\ state[j].retry \in Nat
             /\ state[j].retry + Cardinality(Waiting(TestOfJob(j)))
                   <= L[j] + Allowed(TestOfJob(j))
             /\ state[j].status = "FATAL_INFRA_ERROR"
                   => state[j].retry >= 2 \/ L[j] >= 2
  <2>1. Within(state, File, L) /\ Waiting(TestOfJob(j)) \cap File = Waiting(TestOfJob(j))
    BY <1>1 DEF RetryInv, Waiting
  <2>2. QED
    BY <1>4, <2>1 DEF Within, TypeOK, StateTable, Row
<1>5. Within(state, File, L)' /\ Within(state, {}, L)'
  <2>1. ASSUME NEW j \in Job, state[j] # NoRow, NEW T \in Test, T = TestOfJob(j)
        PROVE  /\ state[j].retry + Cardinality(Waiting(T)' \cap File)
                     <= L[j] + Allowed(T)'
               /\ state[j].retry + Cardinality(Waiting(T)' \cap {})
                     <= L[j] + Allowed(T)'
    <3>1. Waiting(T)' \cap File = Waiting(T)' /\ Cardinality(Waiting(T)' \cap {}) = 0
      BY FS_EmptySet DEF Waiting
    <3>2. /\ state[j].retry \in Nat /\ L[j] \in Nat
          /\ state[j].retry + Cardinality(Waiting(T)) <= L[j] + Allowed(T)
      BY <1>4, <2>1
    <3> DEFINE now == Cardinality(Waiting(T))
    <3> DEFINE next == Cardinality(Waiting(T)')
    <3>3. /\ next \in Nat /\ now \in Nat /\ Allowed(T) \in Nat /\ Allowed(T)' \in Nat
          /\ next - now <= Allowed(T)' - Allowed(T)
      BY <1>3
    <3>4. state[j].retry + next <= L[j] + Allowed(T)'
      <4> HIDE DEF now, next
      <4> QED
        BY <3>2, <3>3 DEF now
    <3>5. state[j].retry + 0 <= L[j] + Allowed(T)'
      BY <3>2, <3>3, <3>4
    <3> QED
      BY <3>1, <3>4, <3>5
  <2>2. QED
    BY <1>1, <1>4, <2>1, JobsAreTests DEF Within, TestOfJob
<1>6. QED
  BY <1>1, <1>3, <1>5 DEF RetryInv

\* A fault grants every waiting report one more merge.
LEMMA FaultRetryInv ==
    ASSUME NEW L \in [Job -> Nat], TypeOK, RetryInv(L),
           UNCHANGED <<inbox, infraReports, state, dbExists>>,
           faults' = faults + 1, pc # "idle",
           pc' \in {"idle", "matrix", "state", "writeState", "done"}
    PROVE  RetryInv(L)'
<1>1. dbExists' = TRUE
  BY DEF RetryInv, TypeOK
<1>2. \A T : Waiting(T)' = Waiting(T)
  BY DEF Waiting, IsReport, TestOf
<1>3. ASSUME NEW j \in Job, state[j] # NoRow, NEW T \in Test, T = TestOfJob(j), NEW S
      PROVE  state[j].retry + Cardinality(Waiting(T) \cap S) <= L[j] + Allowed(T)'
  <2>1. /\ infraReports[T] \in Nat /\ faults \in Nat /\ state[j].retry \in Nat
        /\ L[j] \in Nat
    BY <1>3 DEF TypeOK, StateTable, Row
  <2>2. Allowed(T)' = Allowed(T) + infraReports[T] /\ Allowed(T) \in Nat
    <3>1. Allowed(T)' = infraReports[T] * (faults + 2)
      BY <2>1 DEF Allowed
    <3>2. QED
      BY <2>1, <3>1, Allowance DEF Allowed
  <2>3. /\ Cardinality(Waiting(T) \cap S) <= infraReports[T]
        /\ Cardinality(Waiting(T) \cap S) \in Nat
    <3>1. IsFiniteSet(Waiting(T)) /\ Cardinality(Waiting(T)) <= infraReports[T]
      BY DEF RetryInv
    <3>2. /\ Cardinality(Waiting(T) \cap S) <= Cardinality(Waiting(T))
          /\ Cardinality(Waiting(T) \cap S) \in Nat /\ Cardinality(Waiting(T)) \in Nat
      BY <3>1, FS_Subset, FS_CardinalityType
    <3>3. QED
      BY <2>1, <3>1, <3>2
  <2>4. state[j].retry + 0 <= L[j] + Allowed(T)
    <3>1. Waiting(T) \cap {} = {}
      OBVIOUS
    <3>2. QED
      BY <1>3, <3>1, FS_EmptySet DEF RetryInv, Within
  <2>5. QED
    BY <2>1, <2>2, <2>3, <2>4
<1>4. Within(state, File, L)' /\ Within(state, {}, L)'
  BY <1>2, <1>3, JobsAreTests DEF Within, TestOfJob, RetryInv
<1>5. QED
  BY <1>1, <1>2, <1>4 DEF RetryInv

\* Every step keeps retries within what was reported.
LEMMA StepRetryInv ==
    ASSUME NEW L \in [Job -> Nat]
    PROVE  TypeOK /\ RetryInv(L) /\ [Next]_vars => RetryInv(L)'
<1> SUFFICES ASSUME TypeOK, RetryInv(L), [Next]_vars PROVE RetryInv(L)'
  OBVIOUS
<1> USE DEF vars, db, json, process, history
<1>0. TypeOK'
  BY StepTypeOK
<1>1. /\ \A S : Within(NoJobs, S, L)
      /\ UpTo(NoJobs, L) /\ StateOf(NoFile) = NoJobs
      /\ pc # "idle" => dbExists
  BY DEF Within, UpTo, NoJobs, StateOf, RetryInv
<1>2. CASE Start
  BY <1>2, RetryStays DEF Start, RetryInv, TypeOK
<1>3. CASE ImportMatrix
  <2>1. /\ UNCHANGED <<inbox, infraReports, faults, state, dbExists, stateJson>>
        /\ pc = "import" /\ pc' \in {"purge", "importState"}
    BY <1>3 DEF ImportMatrix
  <2>2. QED
    BY <1>1, <2>1, RetryStays DEF RetryInv, TypeOK
<1>4. CASE ImportState
  <2>1. /\ UNCHANGED <<inbox, infraReports, faults, dbExists, stateJson>>
        /\ pc = "importState" /\ pc' = "purge"
        /\ state' = [j \in Job |-> IF StateOf(stateJson)[j] # NoRow
                                   THEN StateOf(stateJson)[j] ELSE state[j]]
    BY <1>4 DEF ImportState
  <2>2. \A S : Within(StateOf(stateJson), S, L)
    <3>1. StateOf(stateJson) \in StateTable
      BY EmptyTables DEF StateOf, TypeOK
    <3> QED
      BY <2>1, <3>1, LegacyIsWithin DEF RetryInv
  <2>3. Within(state, File, L) /\ Within(state, {}, L)
    BY <2>1 DEF RetryInv
  <2>4. Within(state', File, L) /\ Within(state', {}, L)
    BY <2>1, <2>2, <2>3 DEF Within
  <2>5. QED
    BY <1>0, <1>1, <2>1, <2>4, RetryStays DEF TypeOK
<1>5. CASE Purge
  BY <1>1, <1>5, RetryStays DEF Purge, RetryInv, TypeOK
<1>6. CASE Glob
  <2>1. /\ UNCHANGED <<inbox, infraReports, faults, dbExists, stateJson, state>>
        /\ pc = "glob" /\ pc' \in {"apply", "done"}
        /\ pc' = "apply" => txState' = state /\ todo' \subseteq File
    BY <1>6, Zenon DEF Glob
  <2>2. Within(state, File, L) /\ Within(state, {}, L) /\ state \in StateTable
        /\ \A T \in Test : IsFiniteSet(Waiting(T))
    BY <2>1 DEF RetryInv, TypeOK
  <2>3. pc' = "apply" => Within(txState', todo', L)
    BY <2>1, <2>2, WithinLess
  <2>4. pc' = "apply" => Within(txState, todo, L)'
    BY <2>1, <2>3, WithinStays
  <2>5. QED
    BY <1>1, <2>1, <2>2, <2>4, RetryStays
<1>7. ASSUME NEW f \in File, Apply(f) PROVE RetryInv(L)'
  <2>1. Within(txState, todo, L)'
    BY <1>7, ApplyWithin
  <2>2. /\ UNCHANGED <<inbox, infraReports, faults, dbExists, stateJson, state, pc>>
        /\ pc = "apply"
    BY <1>7 DEF Apply
  <2>3. QED
    BY <1>1, <2>1, <2>2, RetryStays DEF RetryInv, TypeOK
<1>8. CASE Commit
  <2>1. /\ UNCHANGED <<inbox, infraReports, faults, dbExists, stateJson>>
        /\ pc = "apply" /\ pc' = "matrix" /\ state' = txState
    BY <1>8 DEF Commit
  <2>2. Within(txState, {}, L)
    BY <2>1, WithinLess DEF RetryInv, TypeOK
  <2>3. QED
    BY <1>0, <1>1, <2>1, <2>2, RetryStays DEF TypeOK
<1>9. CASE CommitFails
  BY <1>9, FaultRetryInv DEF CommitFails
<1>10. CASE TruncateMatrix
  BY <1>1, <1>10, RetryStays DEF TruncateMatrix, RetryInv, TypeOK
<1>11. CASE WriteMatrix
  BY <1>1, <1>11, RetryStays DEF WriteMatrix, RetryInv, TypeOK
<1>12. CASE SkipMatrix
  BY <1>1, <1>12, RetryStays DEF SkipMatrix, RetryInv, TypeOK
<1>13. CASE TruncateState
  BY <1>1, <1>13, RetryStays DEF TruncateState, RetryInv, TypeOK
<1>14. CASE WriteState
  BY <1>1, <1>14, RetryStays DEF WriteState, RetryInv, TypeOK
<1>15. CASE SkipState
  BY <1>1, <1>15, RetryStays DEF SkipState, RetryInv, TypeOK
<1>16. CASE Cleanup
  <2>1. /\ UNCHANGED <<infraReports, faults, dbExists, state>>
        /\ pc = "done" /\ pc' = "idle" /\ inbox' = [f \in File |-> NoFile]
    BY <1>16 DEF Cleanup, ProcessEnds
  <2>2. \A T : Waiting(T)' = {} /\ Allowed(T)' = Allowed(T)
    BY <2>1 DEF Waiting, IsReport, Allowed
  <2>3. \A T \in Test : infraReports[T] \in Nat
    BY DEF TypeOK
  <2>4. Within(state, {}, L)
    BY DEF RetryInv
  <2>5. Within(state, File, L)' /\ Within(state, {}, L)'
    BY <2>1, <2>2, <2>4 DEF Within, TestOfJob
  <2>6. QED
    BY <1>1, <2>1, <2>2, <2>3, <2>5, FS_EmptySet DEF RetryInv
<1>17. CASE Crash
  <2>1. /\ UNCHANGED <<inbox, infraReports, state, dbExists>>
        /\ faults' = faults + 1 /\ pc # "idle" /\ pc' = "idle"
    BY <1>17, Zenon DEF Crash, ProcessEnds
  <2>2. QED
    BY <2>1, FaultRetryInv
<1>18. ASSUME NEW f \in File, NEW r \in Inputs, Deliver(f, r) PROVE RetryInv(L)'
  BY <1>18, DeliverRetryInv
<1>19. ASSUME UNCHANGED <<inbox, infraReports, faults, dbExists, stateJson, state, pc,
                          txState, todo>>
       PROVE  RetryInv(L)'
  <2>1. pc' = "apply" => Within(txState, todo, L)'
    BY <1>19, WithinStays DEF RetryInv
  <2>2. QED
    BY <1>19, <2>1, RetryStays DEF RetryInv, TypeOK
<1>20. ASSUME NEW c \in Chip, NEW h \in Hash \cup {NoHash}, RegistryChange(c, h)
       PROVE  RetryInv(L)'
  BY <1>19, <1>20 DEF RegistryChange
<1>21. CASE Tick
  BY <1>19, <1>21 DEF Tick
<1>22. CASE ClearUnverified
  <2>1. /\ UNCHANGED <<inbox, infraReports, faults, stateJson, pc>>
        /\ pc # "apply" /\ state' = NoJobs /\ dbExists' = TRUE
    BY <1>22, Zenon DEF ClearUnverified
  <2>2. QED
    BY <1>1, <2>1, EmptyTables, RetryStays DEF RetryInv
<1>23. CASE HardReset
  <2>1. /\ UNCHANGED <<inbox, infraReports, faults, pc>>
        /\ pc = "idle" /\ state' = NoJobs /\ stateJson' = NoFile
    BY <1>23 DEF HardReset
  <2>2. QED
    BY <1>1, <2>1, EmptyTables, RetryStays DEF RetryInv
<1>24. CASE WriteMatrixInPart \/ ExportStateFails \/ TruncateStateInPart \/ WriteStateFails
  <2>1. /\ UNCHANGED <<inbox, infraReports, state, dbExists>>
        /\ faults' = faults + 1 /\ pc # "idle"
        /\ pc' \in {"state", "writeState", "done"}
    BY <1>24, Zenon
       DEF WriteMatrixInPart, ExportStateFails, TruncateStateInPart, WriteStateFails
  <2>2. QED
    BY <2>1, FaultRetryInv
<1>25. CASE UNCHANGED vars
  BY <1>19, <1>25
<1>26. QED
  BY <1>2, <1>3, <1>4, <1>5, <1>6, <1>7, <1>8, <1>9, <1>10, <1>11, <1>12,
     <1>13, <1>14, <1>15, <1>16, <1>17, <1>18, <1>20, <1>21, <1>22, <1>23,
     <1>24, <1>25, Zenon DEF Next, Run, Surroundings, Operator

\* A job is given up only on at least two reports of an infrastructure error,
\* each counted at most once more for every fault, or on the retries it had in
\* the file that the ledger was migrated from: whatever those are, the reset
\* of the count by every other outcome, and the removal of the merged files,
\* keep update_ledger from counting further.  (Where nothing was brought
\* along, L is zero and this is RetriesAreReported.)
THEOREM GivingUpTakesReports ==
    ASSUME NEW L \in [Job -> Nat], LegacyUpTo(L)
    PROVE  Spec => []RetriesAreGranted(L)
<1>1. Init => RetryInv(L)
  BY InitRetryInv
<1>2. TypeOK /\ RetryInv(L) /\ [Next]_vars => RetryInv(L)'
  BY StepRetryInv
<1>3. TypeOK /\ RetryInv(L) => RetriesAreGranted(L)
  BY RetryBounds
<1>4. QED
  BY <1>1, <1>2, <1>3, TypeCorrect, PTL DEF Spec

-----------------------------------------------------------------------------
(***************************************************************************)
(* What becomes of a result, and how long a run takes: neither needs any   *)
(* fairness.                                                               *)
(***************************************************************************)

\* The public files hold the result r.
InFiles(r) ==
    LET entry == Published[<<r.chip, VersionIn(r)>>]
        parked == StateOf(stateJson)[JobOf(r)]
    IN  IF r.status = "VERIFIED"
        THEN /\ entry.hash # NoHash /\ entry.hash >= r.hash
             /\ entry.hash = r.hash => r.software \in entry.software
             /\ parked = NoRow
        ELSE /\ r.software \notin entry.software
             /\ parked # NoRow \/ state[JobOf(r)] = NoRow

\* A result file stays in the inbox, unaltered, through crashes, resets and
\* failing commits, until a run has ended; and when a file leaves whose result
\* no other one contradicts, and nothing is known to have failed, both
\* exports hold it, and still do after it is gone.
ResultsLeaveMerged ==
    [][\A f \in File : inbox[f] # NoFile /\ inbox'[f] # inbox[f] =>
          /\ pc = "done" /\ UNCHANGED json
          /\ Sole(f) /\ behind = {} => InFiles(inbox[f])]_vars

LEMMA FilesStay ==
    ASSUME Next, NEW f \in File, inbox[f] # NoFile, inbox'[f] # inbox[f]
    PROVE  Cleanup
<1>1. CASE Run
  BY <1>1, Zenon
     DEF Run, Start, ImportMatrix, ImportState, Purge, Glob, Apply, Commit, CommitFails,
         TruncateMatrix, WriteMatrix, WriteMatrixInPart, SkipMatrix, TruncateState,
         WriteState, SkipState, ExportStateFails, TruncateStateInPart, WriteStateFails
<1>2. ASSUME NEW g \in File, NEW r \in Inputs, Deliver(g, r)
      PROVE  FALSE
  BY <1>2 DEF Deliver
<1>3. CASE Surroundings
  BY <1>3, Zenon DEF Surroundings, RegistryChange, Tick, Crash
<1>4. CASE Operator
  BY <1>4, Zenon DEF Operator, ClearUnverified, HardReset
<1> QED
  BY <1>1, <1>2, <1>3, <1>4 DEF Next

\* No result is lost between the inbox and the exports.
THEOREM NoResultIsLost == Spec => ResultsLeaveMerged
<1>1. ASSUME MergeReachesExports, Next, NEW f \in File,
             inbox[f] # NoFile, inbox'[f] # inbox[f]
      PROVE  /\ pc = "done" /\ UNCHANGED json
             /\ Sole(f) /\ behind = {} => InFiles(inbox[f])
  <2>1. pc = "done" /\ UNCHANGED json
    BY <1>1, FilesStay DEF Cleanup
  <2>2. ASSUME Sole(f), behind = {} PROVE InFiles(inbox[f])
    BY <1>1, <2>1, <2>2 DEF MergeReachesExports, InFiles
  <2> QED
    BY <2>1, <2>2
<1>2. MergeReachesExports /\ [Next]_vars =>
         [\A f \in File : inbox[f] # NoFile /\ inbox'[f] # inbox[f] =>
             /\ pc = "done" /\ UNCHANGED json
             /\ Sole(f) /\ behind = {} => InFiles(inbox[f])]_vars
  BY <1>1
<1> QED
  BY <1>2, BatchReachesExports, PTL DEF Spec, ResultsLeaveMerged

\* The steps a run has yet to make: those of the script, and one for each
\* file that is still to be merged or may still be found.
ScriptLeft ==
    [s \in Steps |->
        CASE s = "import" -> 10 [] s = "importState" -> 9 [] s = "purge" -> 8
          [] s = "glob" -> 7 [] s = "apply" -> 6 [] s = "matrix" -> 5
          [] s = "writeMatrix" -> 4 [] s = "state" -> 3 [] s = "writeState" -> 2
          [] s = "done" -> 1 [] OTHER -> 0]

FilesLeft ==
    IF pc \in {"import", "importState", "purge", "glob"} THEN Cardinality(File)
    ELSE IF pc = "apply" THEN Cardinality(todo) ELSE 0

Left == ScriptLeft[pc] + FilesLeft

\* Whatever runs beside it, each step of a run leaves it less to do, and no
\* step of anything else leaves it more.
RunCountsDown ==
    [][pc # "idle" => Left' <= Left /\ (Run => Left' < Left)]_vars

\* The measure is a number, and no run starts with more than its ten steps
\* and one for each file name.
LEMMA LeftIsBounded ==
    IsFiniteSet(File) /\ TypeOK =>
        /\ FilesLeft \in 0 .. Cardinality(File) /\ Cardinality(File) \in Nat
        /\ Left \in 0 .. 10 + Cardinality(File)
<1> SUFFICES ASSUME IsFiniteSet(File), TypeOK
             PROVE  /\ FilesLeft \in 0 .. Cardinality(File) /\ Cardinality(File) \in Nat
                    /\ Left \in 0 .. 10 + Cardinality(File)
  OBVIOUS
<1>1. /\ IsFiniteSet(todo) /\ Cardinality(todo) <= Cardinality(File)
      /\ Cardinality(todo) \in Nat /\ Cardinality(File) \in Nat
  <2>1. todo \in SUBSET File
    BY DEF TypeOK
  <2> QED
    BY <2>1, FS_Subset, FS_CardinalityType
<1>2. FilesLeft \in 0 .. Cardinality(File)
  BY <1>1 DEF FilesLeft
<1>3. ScriptLeft[pc] \in 0 .. 10
  BY DEF ScriptLeft, TypeOK, Steps
<1> QED
  BY <1>1, <1>2, <1>3 DEF Left

LEMMA LeftStaysBounded ==
    IsFiniteSet(File) /\ TypeOK' =>
        /\ FilesLeft' \in 0 .. Cardinality(File)
        /\ Left' \in 0 .. 10 + Cardinality(File)
<1>1. (IsFiniteSet(File) /\ TypeOK)' =>
         (/\ FilesLeft \in 0 .. Cardinality(File) /\ Cardinality(File) \in Nat
          /\ Left \in 0 .. 10 + Cardinality(File))'
  BY LeftIsBounded, PTL
<1> QED
  BY <1>1

LEMMA ScriptOrder ==
    /\ ScriptLeft["import"] = 10 /\ ScriptLeft["importState"] = 9
    /\ ScriptLeft["purge"] = 8 /\ ScriptLeft["glob"] = 7 /\ ScriptLeft["apply"] = 6
    /\ ScriptLeft["matrix"] = 5 /\ ScriptLeft["writeMatrix"] = 4
    /\ ScriptLeft["state"] = 3 /\ ScriptLeft["writeState"] = 2
    /\ ScriptLeft["done"] = 1 /\ ScriptLeft["idle"] = 0
BY DEF ScriptLeft, Steps

\* Every step of a run shortens it.
LEMMA RunStepsCount ==
    ASSUME IsFiniteSet(File), TypeOK, TypeOK', Run, pc # "idle"
    PROVE  Left' < Left
<1> USE ScriptOrder DEF Left
<1>1. /\ FilesLeft \in 0 .. Cardinality(File) /\ FilesLeft' \in 0 .. Cardinality(File)
      /\ Cardinality(File) \in Nat
  BY LeftIsBounded, LeftStaysBounded
<1>2. /\ pc = "glob" => FilesLeft = Cardinality(File)
      /\ pc \in {"import", "importState", "purge"} /\ pc' \in {"importState", "purge", "glob"}
            => FilesLeft' = FilesLeft
  BY DEF FilesLeft
<1>3. pc' \in {"idle", "done", "matrix", "writeMatrix", "state", "writeState"}
         => FilesLeft' = 0
  BY DEF FilesLeft
<1>4. ASSUME NEW f \in File, Apply(f)
      PROVE  Left' < Left
  <2>1. /\ pc = "apply" /\ pc' = "apply" /\ f \in todo /\ todo' = todo \ {f}
        /\ todo \in SUBSET File
    BY <1>4, Zenon DEF Apply, TypeOK
  <2>2. /\ Cardinality(todo') = Cardinality(todo) - 1 /\ Cardinality(todo) \in Nat
    BY <2>1, FS_Subset, FS_RemoveElement, FS_CardinalityType
  <2>3. FilesLeft = Cardinality(todo) /\ FilesLeft' = Cardinality(todo')
    BY <2>1 DEF FilesLeft
  <2> QED
    BY <2>1, <2>2, <2>3
<1>5. CASE ImportMatrix
  <2>1. pc = "import" /\ pc' \in {"importState", "purge"}
    BY <1>5 DEF ImportMatrix
  <2> QED
    BY <1>1, <1>2, <2>1
<1>6. CASE ImportState \/ Purge
  <2>1. \/ pc = "importState" /\ pc' = "purge"
        \/ pc = "purge" /\ pc' = "glob"
    BY <1>6 DEF ImportState, Purge
  <2> QED
    BY <1>1, <1>2, <2>1
<1>7. CASE Glob
  <2>1. pc = "glob" /\ pc' \in {"apply", "done"}
    BY <1>7 DEF Glob
  <2> QED
    BY <1>1, <1>2, <2>1
<1>8. CASE Commit \/ CommitFails
  <2>1. pc = "apply" /\ pc' = "matrix"
    BY <1>8 DEF Commit, CommitFails
  <2> QED
    BY <1>1, <1>3, <2>1
<1>9. CASE TruncateMatrix \/ WriteMatrix \/ WriteMatrixInPart \/ SkipMatrix
  <2>1. \/ pc = "matrix" /\ pc' \in {"writeMatrix", "state"}
        \/ pc = "writeMatrix" /\ pc' = "state"
    BY <1>9 DEF TruncateMatrix, WriteMatrix, WriteMatrixInPart, SkipMatrix
  <2> QED
    BY <1>1, <1>3, <2>1
<1>10. CASE \/ TruncateState \/ WriteState \/ SkipState
            \/ ExportStateFails \/ TruncateStateInPart \/ WriteStateFails
  <2>1. \/ pc = "state" /\ pc' \in {"writeState", "done"}
        \/ pc = "writeState" /\ pc' = "done"
    BY <1>10 DEF TruncateState, WriteState, SkipState, ExportStateFails,
                 TruncateStateInPart, WriteStateFails
  <2> QED
    BY <1>1, <1>3, <2>1
<1>11. CASE Cleanup
  <2>1. pc = "done" /\ pc' = "idle"
    BY <1>11 DEF Cleanup, ProcessEnds
  <2> QED
    BY <1>1, <1>3, <2>1
<1> QED
  BY <1>4, <1>5, <1>6, <1>7, <1>8, <1>9, <1>10, <1>11, Zenon DEF Run, Start

\* The farm, the operator and the clock do not prolong a run, and a crash
\* ends it.
LEMMA OtherStepsCount ==
    ASSUME IsFiniteSet(File), TypeOK, TypeOK', [Next]_vars, ~Run, pc # "idle"
    PROVE  Left' <= Left
<1>1. Left \in Nat /\ Left' \in Nat
  BY LeftIsBounded, LeftStaysBounded
<1>2. CASE UNCHANGED <<pc, todo>>
  BY <1>1, <1>2 DEF Left, FilesLeft
<1>3. CASE Crash
  <2>1. pc' = "idle"
    BY <1>3 DEF Crash, ProcessEnds
  <2>2. Left' = 0
    BY <2>1, ScriptOrder DEF Left, FilesLeft
  <2> QED
    BY <1>1, <2>2
<1>4. UNCHANGED <<pc, todo>> \/ Crash
  <2>1. ASSUME NEW f \in File, NEW r \in Inputs, Deliver(f, r)
        PROVE  FALSE
    BY <2>1 DEF Deliver
  <2>2. CASE Surroundings
    BY <2>2, Zenon DEF Surroundings, RegistryChange, Tick, process
  <2>3. CASE Operator
    BY <2>3, Zenon DEF Operator, ClearUnverified, HardReset, process
  <2>4. CASE UNCHANGED vars
    BY <2>4, Zenon DEF vars, process
  <2> QED
    BY <2>1, <2>2, <2>3, <2>4, Zenon DEF Next
<1> QED
  BY <1>2, <1>3, <1>4

\* With finitely many names for result files a run of update_ledger comes to
\* its end within a known number of its own steps, unless it dies before.
THEOREM RunsAreBounded ==
    ASSUME IsFiniteSet(File)
    PROVE  Spec => [](Left \in 0 .. 10 + Cardinality(File)) /\ RunCountsDown
<1>1. TypeOK => Left \in 0 .. 10 + Cardinality(File)
  BY LeftIsBounded
<1>2. ASSUME TypeOK, TypeOK', [Next]_vars, pc # "idle"
      PROVE  Left' <= Left /\ (Run => Left' < Left)
  <2>1. Left \in Nat /\ Left' \in Nat
    BY <1>2, LeftIsBounded, LeftStaysBounded
  <2>2. Run => Left' < Left
    BY <1>2, RunStepsCount
  <2>3. ~Run => Left' <= Left
    BY <1>2, OtherStepsCount
  <2> QED
    BY <2>1, <2>2, <2>3
<1>3. TypeOK /\ TypeOK' /\ [Next]_vars
         => [pc # "idle" => Left' <= Left /\ (Run => Left' < Left)]_vars
  BY <1>2
<1> QED
  BY <1>1, <1>3, TypeCorrect, PTL DEF Spec, RunCountsDown

=============================================================================
