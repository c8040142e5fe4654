-------------------------- MODULE MatrixFarmProofs --------------------------
(***************************************************************************)
(* Proofs about the farm: what a call of the generator queues and leaves   *)
(* out agrees with the ledger's tables, although it reads only files, one  *)
(* after the other, and other steps come between.                          *)
(***************************************************************************)
EXTENDS MatrixFarm, LedgerMergeProofs

\* Every step of the farm is a step of the ledger or leaves it alone, so that
\* what is proved of the ledger can be used here.
LEMMA FarmStepIsLedgerStep == [FarmNext]_farmVars => [Next]_vars
<1> SUFFICES ASSUME [FarmNext]_farmVars PROVE [Next]_vars
  OBVIOUS
<1>1. CASE Update
  BY <1>1 DEF Update, Next
<1>2. CASE Other
  BY <1>2 DEF Other, Next
<1>3. CASE Generator
  BY <1>3, Zenon
     DEF Generator, ReadRegistry, ReadMatrix, Abort, ReadState, Compute, TakeOver
<1>4. ASSUME NEW t \in Target, FinishTest(t) PROVE Next
  <2>1. PICK f \in File, status \in ResultStatus : Finish(t, f, status)
    BY <1>4 DEF FinishTest
  <2>2. ResultOf(t, status) \in Inputs /\ Deliver(f, ResultOf(t, status))
    BY <2>1 DEF Finish
  <2>3. QED
    BY <2>2 DEF Next
<1>5. CASE Administer
  BY <1>5 DEF Administer, Next
<1>6. CASE UNCHANGED farmVars
  BY <1>6 DEF farmVars
<1>7. QED
  BY <1>1, <1>2, <1>3, <1>4, <1>5, <1>6, Zenon DEF FarmNext, FarmStep

LEMMA FarmRunsTheLedger == FarmSpec => Spec
<1>1. FarmInit => Init
  BY DEF FarmInit
<1>2. QED
  BY <1>1, FarmStepIsLedgerStep, PTL DEF FarmSpec, Spec

\* The steps that are not the generator's leave its variables alone, and only
\* a finished test takes targets from the queue.
LEMMA OtherSteps ==
    ASSUME [FarmNext]_farmVars
    PROVE  \/ Generator
           \/ UNCHANGED generator /\ queue' \subseteq queue
<1>1. ASSUME NEW t \in Target, FinishTest(t)
      PROVE  UNCHANGED generator /\ queue' \subseteq queue
  BY <1>1 DEF FinishTest, Finish
<1>2. CASE Update
  BY <1>2 DEF Update
<1>3. CASE Other
  BY <1>3 DEF Other
<1>4. CASE Administer
  BY <1>4 DEF Administer
<1>5. CASE UNCHANGED farmVars
  BY <1>5 DEF farmVars
<1>6. QED
  BY <1>1, <1>2, <1>3, <1>4, <1>5, Zenon DEF FarmNext, FarmStep

-----------------------------------------------------------------------------
(***************************************************************************)
(* Types.                                                                  *)
(***************************************************************************)

LEMMA InitFarmTypeOK == FarmInit => FarmTypeOK
  BY EmptyTables DEF FarmInit, FarmTypeOK, Calls

LEMMA QuietIsBoolean ==
    ASSUME FarmTypeOK, [FarmNext]_farmVars PROVE quiet' \in BOOLEAN
<1>1. ASSUME NEW t \in Target, FinishTest(t) PROVE quiet' = quiet
  BY <1>1 DEF FinishTest, Finish
<1>2. CASE Update \/ Administer
  BY <1>2 DEF Update, Administer
<1>3. CASE Other
  BY <1>3 DEF Other
<1>4. CASE Generator
  BY <1>4 DEF Generator, ReadRegistry, ReadMatrix, Abort, ReadState, Compute,
              TakeOver, FarmTypeOK
<1>5. CASE UNCHANGED farmVars
  BY <1>5 DEF farmVars, FarmTypeOK
<1>6. QED
  BY <1>1, <1>2, <1>3, <1>4, <1>5, Zenon DEF FarmNext, FarmStep, FarmTypeOK

LEMMA StepFarmTypeOK == TypeOK /\ FarmTypeOK /\ [FarmNext]_farmVars => FarmTypeOK'
<1> SUFFICES ASSUME TypeOK, FarmTypeOK, [FarmNext]_farmVars PROVE FarmTypeOK'
  OBVIOUS
<1>1. quiet' \in BOOLEAN
  BY QuietIsBoolean
<1>2. ASSUME open' \subseteq open, queue' \subseteq queue \cup open,
             call' \in Calls, parked' \in StateTable
      PROVE  FarmTypeOK'
  BY <1>1, <1>2 DEF FarmTypeOK
<1>3. CASE UNCHANGED generator /\ queue' \subseteq queue
  BY <1>2, <1>3 DEF generator, FarmTypeOK
<1>4. CASE ReadRegistry
  BY <1>1, <1>4 DEF ReadRegistry, Wanted, FarmTypeOK, Calls
<1>5. CASE ReadMatrix
  BY <1>2, <1>5 DEF ReadMatrix, FarmTypeOK, Calls
<1>6. CASE Abort
  BY <1>2, <1>6 DEF Abort, FarmTypeOK, Calls
<1>7. CASE ReadState
  <2>1. StateOf(stateJson) \in StateTable
    BY EmptyTables DEF StateOf, TypeOK
  <2> QED
    BY <1>2, <1>7, <2>1 DEF ReadState, FarmTypeOK, Calls
<1>8. CASE Compute
  BY <1>2, <1>8, EmptyTables DEF Compute, Capped, Rested, FarmTypeOK, Calls
<1>9. CASE TakeOver
  BY <1>2, <1>9 DEF TakeOver, FarmTypeOK, Calls
<1>10. QED
  BY <1>3, <1>4, <1>5, <1>6, <1>7, <1>8, <1>9, OtherSteps, Zenon DEF Generator

\* The generator's variables keep their types in the farm, and however its
\* calls meet changes of the registry, one call never looks at two
\* environments of the same chip.
THEOREM FarmTypeCorrect == FarmSpec => []FarmTypeOK
<1>1. QED
  BY FarmRunsTheLedger, TypeCorrect, InitFarmTypeOK, StepFarmTypeOK, PTL DEF FarmSpec

-----------------------------------------------------------------------------
(***************************************************************************)
(* The generator reads files; the ledger's tables are what counts.  With   *)
(* the files in sync, what it says of a target holds of the tables.        *)
(***************************************************************************)

\* A target names a combination and a job.
LEMMA TargetNames ==
    ASSUME NEW t \in Target
    PROVE  /\ t[2] \in Hash /\ t[3] \in Software
           /\ <<t[1], VersionOf[t[2]]>> \in Group
           /\ <<t[1], VersionOf[t[2]], t[3]>> \in Combo
<1>1. VersionOf \in [Hash -> Version]
  BY Zenon, ConstantsAssumption
<1>2. QED
  BY <1>1 DEF Target, Group, Combo

\* A target found verified in an exported matrix is verified in the table
\* under the same hash.
LEMMA VerifiedInTable ==
    ASSUME TypeOK, Published = ExportMatrix(verified), NEW t \in Target,
           IsVerified(t, Published)
    PROVE  verified[<<t[1], VersionOf[t[2]], t[3]>>] = t[2]
<1> DEFINE g == <<t[1], VersionOf[t[2]]>>
<1>1. g \in Group /\ verified \in VerifiedTable
  BY TargetNames DEF TypeOK
<1>2. Published[g] = ExportGroup(verified, g)
  BY <1>1 DEF ExportMatrix
<1>3. t[3] \in ExportGroup(verified, g).software
      /\ ExportGroup(verified, g).hash = t[2]
  BY <1>2 DEF IsVerified
<1>4. QED
  BY <1>1, <1>3, ExportedEntry

\* Conversely, a target verified in the table is found so in the exported
\* matrix unless rows with a higher-sorting hash shadow it.
LEMMA UnshadowedIsPublished ==
    ASSUME TypeOK, Published = ExportMatrix(verified), NEW t \in Target,
           Unshadowed(t), verified[<<t[1], VersionOf[t[2]], t[3]>>] = t[2]
    PROVE  IsVerified(t, Published)
<1> DEFINE g == <<t[1], VersionOf[t[2]]>>
           H == HashesOf(verified, g)
<1>1. /\ g \in Group /\ t[2] \in Hash /\ t[3] \in Software
      /\ \A s \in Software : verified[<<t[1], VersionOf[t[2]], s>>] \in Hash \cup {NoHash}
  BY TargetNames DEF TypeOK, VerifiedTable, Group, Combo
<1>2. H \subseteq Hash /\ t[2] \in H
  BY <1>1, DistinctAssumption DEF HashesOf
<1>3. \A h \in H : h <= t[2]
  BY <1>1 DEF HashesOf, Unshadowed
<1>4. Max(H) \in H /\ Max(H) >= t[2]
  BY <1>2, GreatestHash
<1>5. Max(H) = t[2]
  BY <1>2, <1>3, <1>4, HashRange
<1>6. ExportGroup(verified, g) =
         [hash |-> t[2],
          software |-> {s \in Software : verified[<<g[1], g[2], s>>] = t[2]}]
  BY <1>2, <1>5 DEF ExportGroup
<1>7. Published[g] = ExportGroup(verified, g)
  BY <1>1 DEF ExportMatrix
<1>8. QED
  BY <1>1, <1>6, <1>7 DEF IsVerified

(***************************************************************************)
(* A quiet call.  Nothing but the clock and finishing tests moves beside   *)
(* it, and these change neither the registry nor the files; so what the    *)
(* call read at its start is still so at its end, and a failure that was   *)
(* not resting when the targets were computed does not rest later.         *)
(***************************************************************************)

ReadyNow(t) == Wanted(t) /\ ~IsVerified(t, Published)

QuietInv ==
    quiet =>
       /\ pc = "idle"
       /\ call = "readMatrix" => open = {t \in Target : Wanted(t)}
       /\ call \in {"readState", "compute"} => open = {t \in Target : ReadyNow(t)}
       /\ call = "compute" => parked = StateOf(stateJson)
       /\ call = "output" =>
             \A t \in open : /\ t \in Target /\ ReadyNow(t)
                             /\ ~Resting(StateOf(stateJson)[JobOfTarget(t)])

LEMMA InitQuietInv == FarmInit => QuietInv
  BY DEF FarmInit, QuietInv

\* What other steps leave alone beside a quiet call.
LEMMA QuietSteps ==
    ASSUME TypeOK, [FarmNext]_farmVars, quiet', ~Generator
    PROVE  /\ quiet /\ UNCHANGED <<pc, json, reg, generator>>
           /\ clock' \in {clock, clock + 1}
<1>1. ASSUME NEW t \in Target, FinishTest(t)
      PROVE  quiet /\ UNCHANGED <<pc, json, reg, generator, clock>>
  <2>1. PICK f \in File, status \in ResultStatus : Finish(t, f, status)
    BY <1>1 DEF FinishTest
  <2>2. UNCHANGED <<pc, json, reg, clock, generator, quiet>>
    BY <2>1, Zenon DEF Finish, Deliver, process
  <2> QED
    BY <2>2
<1>2. CASE Update \/ Administer
  BY <1>2 DEF Update, Administer
<1>3. CASE Other
  BY <1>3 DEF Other, Tick, process
<1>4. CASE UNCHANGED farmVars
  BY <1>4 DEF farmVars, vars, process
<1>5. QED
  BY <1>1, <1>2, <1>3, <1>4, Zenon DEF FarmNext, FarmStep

\* A failure that rests no more rests no more later.
LEMMA RestEnds ==
    ASSUME TypeOK, clock' \in {clock, clock + 1},
           NEW row \in Row \cup {NoRow}, ~Resting(row)
    PROVE  ~Resting(row)'
<1>1. clock \in Nat
  BY DEF TypeOK
<1>2. row # NoRow => row.tested \in Nat /\ Window(row.status) \in Nat
  BY FarmAssumption DEF Row, Window
<1>3. QED
  BY <1>1, <1>2 DEF Resting, Window

LEMMA StepQuietInv == TypeOK /\ FarmTypeOK /\ QuietInv /\ [FarmNext]_farmVars => QuietInv'
<1> SUFFICES ASSUME TypeOK, FarmTypeOK, QuietInv, [FarmNext]_farmVars, quiet'
             PROVE  QuietInv'
  BY DEF QuietInv
<1>1. UNCHANGED <<json, reg>>
         => \A t : ReadyNow(t)' = ReadyNow(t) /\ Wanted(t)' = Wanted(t)
  BY DEF ReadyNow, Wanted, IsVerified, Published, json
<1>2. CASE ~Generator
  <2>1. /\ quiet /\ UNCHANGED <<pc, json, reg, generator>>
        /\ clock' \in {clock, clock + 1}
    BY <1>2, QuietSteps
  <2>2. ASSUME NEW t \in Target, ~Resting(StateOf(stateJson)[JobOfTarget(t)])
        PROVE  ~Resting(StateOf(stateJson)[JobOfTarget(t)])'
    <3> DEFINE row == StateOf(stateJson)[JobOfTarget(t)]
    <3>1. row \in Row \cup {NoRow} /\ row' = row
      <4>1. StateOf(stateJson) \in StateTable /\ JobOfTarget(t) \in Job
        <5>1. StateOf(stateJson) \in StateTable
          BY EmptyTables DEF StateOf, TypeOK
        <5>2. ToolchainOf \in [Hash -> Toolchain] /\ VersionOf \in [Hash -> Version]
          BY Zenon, ConstantsAssumption
        <5>3. JobOfTarget(t) \in Job
          BY <5>2 DEF Target, JobOfTarget, Job
        <5> QED
          BY <5>1, <5>3
      <4>2. UNCHANGED stateJson
        BY <2>1 DEF json
      <4> QED
        BY <4>1, <4>2 DEF StateTable, StateOf, JobOfTarget
    <3> HIDE DEF row
    <3>2. ~Resting(row) => ~(row' # NoRow /\ clock' - row'.tested < Window(row'.status))
      BY <2>1, <3>1, RestEnds DEF Resting, Window
    <3> QED
      BY <2>2, <3>2 DEF row, Resting, Window
  <2>3. quiet' /\ pc' = "idle" /\ UNCHANGED <<call, open, parked, stateJson>>
    BY <2>1 DEF QuietInv, generator, json
  <2> QED
    BY <1>1, <2>1, <2>2, <2>3 DEF QuietInv, StateOf
<1>3. ASSUME Generator
      PROVE  UNCHANGED <<json, reg, pc, clock, stateJson>>
  BY <1>3, Zenon DEF Generator, ReadRegistry, ReadMatrix, Abort, ReadState, Compute,
                     TakeOver, vars, process, json
<1>4. CASE ReadRegistry
  BY <1>1, <1>3, <1>4 DEF ReadRegistry, Generator, QuietInv
<1>5. CASE ReadMatrix
  <2>1. quiet /\ call' = "readState" /\ open' = {t \in Target : ReadyNow(t)}
    BY <1>5 DEF ReadMatrix, QuietInv, ReadyNow
  <2> QED
    BY <1>1, <1>3, <1>5, <2>1 DEF Generator, QuietInv
<1>6. CASE Abort \/ TakeOver
  <2>1. quiet /\ call' = "none"
    BY <1>6 DEF Abort, TakeOver
  <2> QED
    BY <1>3, <1>6, <2>1 DEF Generator, QuietInv
<1>7. CASE ReadState
  <2>1. /\ quiet /\ call' = "compute" /\ open' = {t \in Target : ReadyNow(t)}
        /\ parked' = StateOf(stateJson)
    BY <1>7 DEF ReadState, QuietInv
  <2> QED
    BY <1>1, <1>3, <1>7, <2>1 DEF Generator, QuietInv, StateOf
<1>8. CASE Compute
  <2>1. quiet /\ call = "compute" /\ call' = "output" /\ open' \subseteq Rested
    BY <1>8 DEF Compute, Capped
  <2>2. \A t \in open' : /\ t \in Target /\ ReadyNow(t)
                         /\ ~Resting(StateOf(stateJson)[JobOfTarget(t)])
    BY <2>1 DEF Rested, QuietInv
  <2>3. \A t : Resting(StateOf(stateJson)[JobOfTarget(t)])'
                  = Resting(StateOf(stateJson)[JobOfTarget(t)])
    BY <1>3, <1>8 DEF Generator, Resting, Window, StateOf, JobOfTarget
  <2> QED
    BY <1>1, <1>3, <1>8, <2>1, <2>2, <2>3 DEF Generator, QuietInv
<1>9. QED
  BY <1>2, <1>4, <1>5, <1>6, <1>7, <1>8, Zenon DEF Generator

LEMMA CallsAreQuiet == FarmSpec => [](TypeOK /\ FarmTypeOK /\ QuietInv)
<1>1. QED
  BY FarmRunsTheLedger, TypeCorrect, FarmTypeCorrect, InitQuietInv, StepQuietInv,
     PTL DEF FarmSpec

\* With both exports up to date the files say what the tables say.
LEMMA FilesAreTables ==
    ASSUME MatrixInSync, StateInSync, QuietInv, quiet, Exported
    PROVE  Published = ExportMatrix(verified) /\ StateOf(stateJson) = state
  BY DEF MatrixInSync, StateInSync, QuietInv, Exported

\* Whatever steps come between its three reads and the moment its output is
\* taken over, a call of matrix_generator that meets no run of update_ledger,
\* no change of the registry and no administrator queues a combination only
\* if the ledger's tables call for it: not while a failure of its job is
\* resting, and not when it is verified in the current environment, entries
\* that a higher-sorting hash occupies excepted.
THEOREM QueuedIsOpen == FarmSpec => QueuesOnlyWhatIsOpen
<1>1. TypeOK /\ QuietInv /\ MatrixInSync /\ StateInSync /\ [FarmNext]_farmVars
         => [quiet /\ Exported => \A t \in queue' \ queue :
               ~Resting(state[JobOfTarget(t)]) /\ (Unshadowed(t) => ~IsDone(t))]_farmVars
  <2> SUFFICES ASSUME TypeOK, QuietInv, MatrixInSync, StateInSync, FarmNext,
                      quiet, Exported, NEW t \in queue' \ queue
               PROVE  ~Resting(state[JobOfTarget(t)]) /\ (Unshadowed(t) => ~IsDone(t))
    OBVIOUS
  <2>1. call = "output" /\ t \in open
    <3>1. CASE Generator
      BY <3>1 DEF Generator, ReadRegistry, ReadMatrix, Abort, ReadState, Compute, TakeOver
    <3>2. CASE ~Generator
      BY <3>2, OtherSteps
    <3> QED
      BY <3>1, <3>2
  <2>2. /\ t \in Target /\ ~IsVerified(t, Published)
        /\ ~Resting(StateOf(stateJson)[JobOfTarget(t)])
    BY <2>1 DEF QuietInv, ReadyNow
  <2>3. Published = ExportMatrix(verified) /\ StateOf(stateJson) = state
    BY FilesAreTables
  <2>4. QED
    BY <2>2, <2>3, UnshadowedIsPublished DEF IsDone
<1>2. QED
  BY <1>1, FarmRunsTheLedger, CallsAreQuiet, MatrixStaysInSync, StateStaysInSync,
     PTL DEF FarmSpec, QueuesOnlyWhatIsOpen

-----------------------------------------------------------------------------
(***************************************************************************)
(* The cap.  Each target is let in by the number of those before it, which *)
(* tells any two apart; so no more than Cap are let in, and the first that *)
(* is left out has nothing but Cap of those before it.                     *)
(***************************************************************************)

RankOf(t) == Rank[<<t[1], t[3]>>]

Before(t, S) == {u \in S : RankOf(u) < RankOf(t)}

\* Targets of one environment for each chip have different positions.
LEMMA RanksDiffer ==
    ASSUME NEW S \in SUBSET Target, \A t, u \in S : t[1] = u[1] => t[2] = u[2]
    PROVE  \A t, u \in S : RankOf(t) \in Nat /\ (RankOf(t) = RankOf(u) => t = u)
<1> SUFFICES ASSUME NEW t \in S, NEW u \in S
             PROVE  RankOf(t) \in Nat /\ (RankOf(t) = RankOf(u) => t = u)
  OBVIOUS
<1>1. /\ t = <<t[1], t[2], t[3]>> /\ u = <<u[1], u[2], u[3]>>
      /\ <<t[1], t[3]>> \in Chip \X Software /\ <<u[1], u[3]>> \in Chip \X Software
  BY DEF Target
<1>2. RankOf(t) \in Nat
  BY <1>1, FarmAssumption DEF RankOf
<1>3. ASSUME RankOf(t) = RankOf(u)
      PROVE  t = u
  <2>1. <<t[1], t[3]>> = <<u[1], u[3]>>
    BY <1>1, <1>3, FarmAssumption DEF RankOf
  <2> QED
    BY <1>1, <2>1
<1> QED
  BY <1>2, <1>3

\* A target has finitely many before it, and more than each of these.
LEMMA BeforeCounts ==
    ASSUME NEW S \in SUBSET Target, \A t, u \in S : t[1] = u[1] => t[2] = u[2],
           NEW t \in S
    PROVE  /\ IsFiniteSet(Before(t, S)) /\ Cardinality(Before(t, S)) \in Nat
           /\ \A u \in Before(t, S) : Cardinality(Before(u, S)) < Cardinality(Before(t, S))
<1>1. \A u, w \in S : RankOf(u) \in Nat /\ (RankOf(u) = RankOf(w) => u = w)
  BY RanksDiffer
<1>2. ASSUME NEW u \in S
      PROVE  IsFiniteSet(Before(u, S)) /\ Cardinality(Before(u, S)) \in Nat
  <2> DEFINE f == [w \in Before(u, S) |-> RankOf(w)]
  <2>1. f \in Injection(Before(u, S), 0 .. RankOf(u) - 1)
    <3>1. f \in [Before(u, S) -> 0 .. RankOf(u) - 1]
      BY <1>1 DEF Before
    <3>2. \A a, b \in Before(u, S) : f[a] = f[b] => a = b
      BY <1>1 DEF Before
    <3> HIDE DEF f
    <3> QED
      BY <3>1, <3>2 DEF Injection, IsInjective
  <2>2. IsFiniteSet(0 .. RankOf(u) - 1)
    BY <1>1, FS_Interval
  <2> HIDE DEF f
  <2> QED
    BY <2>1, <2>2, FS_Injection, FS_CardinalityType
<1>3. ASSUME NEW u \in Before(t, S)
      PROVE  Cardinality(Before(u, S)) < Cardinality(Before(t, S))
  <2>1. u \in S /\ Before(u, S) \subseteq Before(t, S) /\ Before(u, S) # Before(t, S)
    BY <1>1 DEF Before
  <2>2. /\ IsFiniteSet(Before(t, S))
        /\ Cardinality(Before(t, S)) \in Nat /\ Cardinality(Before(u, S)) \in Nat
    BY <1>2, <2>1
  <2>3. /\ Cardinality(Before(u, S)) <= Cardinality(Before(t, S))
        /\ Cardinality(Before(u, S)) # Cardinality(Before(t, S))
    BY <2>1, <2>2, FS_Subset
  <2> QED
    BY <2>2, <2>3
<1> QED
  BY <1>2, <1>3

\* What passes the cap: at most Cap targets, all or exactly Cap, and those
\* that are left out come last.
LEMMA CappedIsFirst ==
    ASSUME NEW S \in SUBSET Target, \A t, u \in S : t[1] = u[1] => t[2] = u[2]
    PROVE  /\ IsFiniteSet(Capped(S)) /\ Cardinality(Capped(S)) \in 0 .. Cap
           /\ Capped(S) # S => Cardinality(Capped(S)) = Cap
           /\ \A u \in Capped(S) : \A t \in S \ Capped(S) : RankOf(u) < RankOf(t)
<1> DEFINE C == Capped(S)
           n(t) == Cardinality(Before(t, S))
<1>1. C = {t \in S : n(t) < Cap} /\ C \subseteq S /\ Cap \in Nat \ {0}
  BY FarmAssumption DEF Capped, Before, RankOf
<1>2. \A t, u \in S : RankOf(t) \in Nat /\ (RankOf(t) = RankOf(u) => t = u)
  BY RanksDiffer
<1>3. \A t \in S : n(t) \in Nat /\ IsFiniteSet(Before(t, S))
  BY BeforeCounts
<1>4. \A t, u \in S : RankOf(u) < RankOf(t) => n(u) < n(t)
  BY BeforeCounts DEF Before
<1> HIDE DEF C, n
<1>5. IsFiniteSet(C) /\ Cardinality(C) \in 0 .. Cap
  <2> DEFINE f == [t \in C |-> n(t)]
  <2>1. f \in [C -> 0 .. Cap - 1]
    BY <1>1, <1>3
  <2>2. \A t, u \in C : n(t) = n(u) => t = u
    <3> TAKE t, u \in C
    <3>1. t \in S /\ u \in S /\ n(t) \in Nat /\ n(u) \in Nat
          /\ RankOf(t) \in Nat /\ RankOf(u) \in Nat
      BY <1>1, <1>2, <1>3
    <3>2. CASE RankOf(t) = RankOf(u)
      BY <1>2, <3>1, <3>2
    <3>3. CASE RankOf(t) # RankOf(u)
      BY <1>4, <3>1, <3>3
    <3> QED
      BY <3>2, <3>3
  <2>3. f \in Injection(C, 0 .. Cap - 1)
    <3>1. \A t, u \in C : f[t] = f[u] => t = u
      BY <2>2
    <3> HIDE DEF f
    <3> QED
      BY <2>1, <3>1 DEF Injection, IsInjective
  <2>4. IsFiniteSet(0 .. Cap - 1) /\ Cardinality(0 .. Cap - 1) = Cap
    BY <1>1, FS_Interval
  <2> HIDE DEF f
  <2>5. IsFiniteSet(C) /\ Cardinality(C) <= Cap
    BY <2>3, <2>4, FS_Injection
  <2> QED
    BY <1>1, <2>5, FS_CardinalityType
<1>6. ASSUME NEW u \in C, NEW t \in S \ C
      PROVE  RankOf(u) < RankOf(t)
  <2>1. u \in S /\ n(u) < Cap /\ ~(n(t) < Cap) /\ n(u) \in Nat /\ n(t) \in Nat
    BY <1>1, <1>3
  <2>2. RankOf(t) \in Nat /\ RankOf(u) \in Nat /\ RankOf(t) # RankOf(u)
    BY <1>2, <2>1
  <2>3. ~(RankOf(t) < RankOf(u))
    BY <1>1, <1>4, <2>1
  <2> QED
    BY <2>2, <2>3
<1>7. ASSUME C # S
      PROVE  Cardinality(C) = Cap
  <2> DEFINE Ranks == {RankOf(t) : t \in S \ C}
  <2>1. Ranks \subseteq Nat /\ Ranks # {}
    BY <1>1, <1>2, <1>7
  <2>2. PICK d \in Ranks : \A e \in Ranks : ~(<<e, d>> \in OpToRel(<, Nat))
    BY <2>1, NatLessThanWellFounded, WFMin
  <2>3. PICK t \in S \ C : d = RankOf(t)
    OBVIOUS
  <2>4. ASSUME NEW u \in S \ C
        PROVE  ~(RankOf(u) < RankOf(t))
    <3>1. RankOf(u) \in Ranks /\ RankOf(u) \in Nat /\ RankOf(t) \in Nat
      BY <1>2
    <3> QED
      BY <2>2, <2>3, <3>1 DEF OpToRel
  <2>5. Before(t, S) \subseteq C
    BY <2>4 DEF Before
  <2>6. n(t) <= Cardinality(C)
    BY <1>5, <2>5, FS_Subset DEF n
  <2>7. ~(n(t) < Cap) /\ n(t) \in Nat
    BY <1>1, <1>3
  <2> QED
    BY <1>1, <1>5, <2>6, <2>7
<1> QED
  BY <1>5, <1>6, <1>7 DEF C

\* What is left when the failures are out has one environment for each chip.
LEMMA RestedIsCurrent ==
    ASSUME FarmTypeOK
    PROVE  Rested \in SUBSET Target /\ \A t, u \in Rested : t[1] = u[1] => t[2] = u[2]
BY DEF Rested, FarmTypeOK

\* matrix_generator returns nothing only when nothing is left to do: if no
\* run, no change of the registry and no administrator was at work beside the
\* call, every wanted combination is verified in the current environment or
\* its job has failed within the retry window.
THEOREM NothingIsForgotten == FarmSpec => NothingForgotten
<1>1. TypeOK /\ FarmTypeOK /\ QuietInv /\ MatrixInSync /\ StateInSync
         => [Compute /\ quiet /\ Exported /\ open' = {} =>
               \A t \in Target : Wanted(t) => IsDone(t) \/ Resting(state[JobOfTarget(t)])
            ]_farmVars
  <2> SUFFICES ASSUME TypeOK, FarmTypeOK, QuietInv, MatrixInSync, StateInSync,
                      Compute, quiet, Exported, open' = {}, NEW t \in Target, Wanted(t)
               PROVE  IsDone(t) \/ Resting(state[JobOfTarget(t)])
    OBVIOUS
  <2>1. Published = ExportMatrix(verified) /\ StateOf(stateJson) = state
    BY FilesAreTables
  <2>2. Rested = {}
    <3>1. Capped(Rested) = {}
      BY DEF Compute
    <3>2. Cardinality(Capped(Rested)) # Cap
      BY <3>1, FS_EmptySet, FarmAssumption
    <3> QED
      BY <3>1, <3>2, RestedIsCurrent, CappedIsFirst
  <2>3. open = {u \in Target : ReadyNow(u)} /\ parked = state
    BY <2>1 DEF QuietInv, Compute
  <2>4. IsVerified(t, Published) \/ Resting(state[JobOfTarget(t)])
    BY <2>2, <2>3 DEF Rested, ReadyNow
  <2>5. QED
    BY <2>1, <2>4, VerifiedInTable DEF IsDone
<1>2. QED
  BY <1>1, FarmRunsTheLedger, CallsAreQuiet, MatrixStaysInSync, StateStaysInSync,
     PTL DEF NothingForgotten

\* No call queues more targets than the cap allows.
QueueGrowsByCap ==
    [][IsFiniteSet(queue' \ queue) /\ Cardinality(queue' \ queue) <= Cap]_farmVars

\* A call leaves out a target only behind a full load of others, all of them
\* in its output: while any is left, a call returns some of it.
LeftOutBehindFullLoad ==
    [][Compute => \A t \in Rested \ open' :
                     /\ IsFiniteSet(Before(t, open'))
                     /\ Cardinality(Before(t, open')) >= Cap]_farmVars

\* What a call is about to return.
CapInv == call = "output" => IsFiniteSet(open) /\ Cardinality(open) <= Cap

LEMMA StepCapInv == FarmTypeOK /\ CapInv /\ [FarmNext]_farmVars => CapInv'
<1> SUFFICES ASSUME FarmTypeOK, CapInv, [FarmNext]_farmVars PROVE CapInv'
  OBVIOUS
<1>1. CASE Compute
  <2>1. open' = Capped(Rested)
    BY <1>1 DEF Compute
  <2>2. IsFiniteSet(Capped(Rested)) /\ Cardinality(Capped(Rested)) \in 0 .. Cap
    BY RestedIsCurrent, CappedIsFirst
  <2>3. Cardinality(Capped(Rested)) <= Cap
    BY <2>2, FarmAssumption
  <2> QED
    BY <2>1, <2>2, <2>3 DEF CapInv
<1>2. CASE ReadRegistry \/ ReadMatrix \/ Abort \/ ReadState \/ TakeOver
  BY <1>2 DEF ReadRegistry, ReadMatrix, Abort, ReadState, TakeOver, CapInv
<1>3. CASE UNCHANGED generator
  BY <1>3 DEF generator, CapInv
<1> QED
  BY <1>1, <1>2, <1>3, OtherSteps, Zenon DEF Generator

\* However many combinations the registry offers, and whatever happens to it
\* in the middle of a call, matrix_generator's loops stop at the cap: one step
\* of the farm queues no more than that.
THEOREM CapIsKept == FarmSpec => QueueGrowsByCap
<1>1. ASSUME CapInv, [FarmNext]_farmVars
      PROVE  IsFiniteSet(queue' \ queue) /\ Cardinality(queue' \ queue) <= Cap
  <2>1. CASE TakeOver
    <3>1. IsFiniteSet(open) /\ Cardinality(open) <= Cap /\ queue' \ queue \in SUBSET open
      BY <1>1, <2>1 DEF CapInv, TakeOver
    <3>2. /\ IsFiniteSet(queue' \ queue)
          /\ Cardinality(queue' \ queue) <= Cardinality(open)
      BY <3>1, FS_Subset
    <3>3. Cardinality(queue' \ queue) \in Nat /\ Cardinality(open) \in Nat /\ Cap \in Nat
      BY <3>1, <3>2, FS_CardinalityType, FarmAssumption
    <3> QED
      BY <3>1, <3>2, <3>3
  <2>2. CASE ~TakeOver
    <3>1. queue' \subseteq queue
      BY <1>1, <2>2, OtherSteps, Zenon
         DEF Generator, ReadRegistry, ReadMatrix, Abort, ReadState, Compute
    <3>2. queue' \ queue = {}
      BY <3>1
    <3>3. IsFiniteSet(queue' \ queue) /\ Cardinality(queue' \ queue) = 0
      BY <3>2, FS_EmptySet, Zenon
    <3> QED
      BY <3>3, FarmAssumption
  <2> QED
    BY <2>1, <2>2
<1>2. CapInv /\ [FarmNext]_farmVars =>
         [IsFiniteSet(queue' \ queue) /\ Cardinality(queue' \ queue) <= Cap]_farmVars
  BY <1>1
<1>3. FarmInit => CapInv
  BY DEF FarmInit, CapInv
<1> QED
  BY <1>2, <1>3, StepCapInv, FarmTypeCorrect, PTL DEF FarmSpec, QueueGrowsByCap

\* The cap cuts in one place only: what a call of matrix_generator leaves out
\* comes after Cap targets that it returns, so nothing in front is passed over.
THEOREM CapLeavesNoGap == FarmSpec => LeftOutBehindFullLoad
<1>1. ASSUME FarmTypeOK, Compute, NEW t \in Rested \ open'
      PROVE  /\ IsFiniteSet(Before(t, open'))
             /\ Cardinality(Before(t, open')) >= Cap
  <2> DEFINE C == Capped(Rested)
  <2>1. open' = C /\ t \in Rested \ C
    BY <1>1 DEF Compute
  <2>2. /\ IsFiniteSet(C) /\ Cardinality(C) = Cap
        /\ \A u \in C : RankOf(u) < RankOf(t)
    BY <1>1, <2>1, RestedIsCurrent, CappedIsFirst
  <2>3. Before(t, C) = C
    BY <2>2 DEF Before
  <2> QED
    BY <2>1, <2>2, <2>3, FarmAssumption
<1>2. FarmTypeOK =>
         [Compute => \A t \in Rested \ open' :
                        /\ IsFiniteSet(Before(t, open'))
                        /\ Cardinality(Before(t, open')) >= Cap]_farmVars
  BY <1>1
<1> QED
  BY <1>2, FarmTypeCorrect, PTL DEF LeftOutBehindFullLoad

-----------------------------------------------------------------------------

\* What is proved of the ledger on its own holds of it inside the farm, with
\* the generator feeding it.
THEOREM LedgerInFarm ==
    FarmSpec => /\ []TypeOK /\ []MatrixInSync /\ []StateInSync /\ []PublishedWasProven
                /\ []ParkedExcludesVerified /\ []MergeReachesExports
                /\ ResultsLeaveMerged
BY FarmRunsTheLedger, TypeCorrect, MatrixStaysInSync, StateStaysInSync,
   OnlyProvenIsPublished, VerifiedIsNotParked, BatchReachesExports, NoResultIsLost, PTL
=============================================================================
