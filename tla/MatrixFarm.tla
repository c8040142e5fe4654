------------------------------ MODULE MatrixFarm ------------------------------
(***************************************************************************)
(* The test farm: scripts/matrix_generator.go, which computes the queue of *)
(* combinations still to be tested from the registry and the two exported  *)
(* files, composed with the ledger that merges the results.                *)
(*                                                                         *)
(* The daemon (not in this repository) calls the generator every hour and  *)
(* runs the queued tests in its slots; a finished test drops one result    *)
(* file, and a full batch of files has the ledger updated.  The generator  *)
(* runs at any moment, also while update_ledger is rewriting the files it  *)
(* reads: it reads three files one after the other, asks GitHub and        *)
(* DockerHub for what the registry does not list, and its output is taken  *)
(* over when it has ended.                                                 *)
(***************************************************************************)
EXTENDS Ledger

CONSTANTS
    Offered,      \* software the registry or, failing that, GitHub lists
    BelowMinimum, \* <<chip, software>> under the chip's minimal versions
    Rank,         \* position of <<chip, software>> in the iteration order
    Cap,          \* 256, the most targets one call may return
    InfraWindow,  \* two hours: how long an infrastructure error rests
    ParkWindow,   \* thirty days: how long the other failures rest
    Batch         \* 20, the results for which the daemon updates the ledger

\* A target names the environment it was computed for through the chip and
\* toolchain versions; the worker reports that environment's hash.
Target == Chip \X Hash \X Software

ResultOf(t, status) ==
    [chip |-> t[1], version |-> VersionOf[t[2]], software |-> t[3],
     hash |-> t[2], status |-> status]

ASSUME FarmAssumption ==
    /\ Offered \subseteq Software
    /\ BelowMinimum \subseteq Chip \X Software
    /\ Rank \in [Chip \X Software -> Nat]
    /\ \A p, q \in Chip \X Software : Rank[p] = Rank[q] => p = q
    /\ Cap \in Nat \ {0} /\ Batch \in Nat \ {0}
    /\ InfraWindow \in Nat /\ ParkWindow \in Nat

VARIABLES
    queue,   \* targets the daemon has taken over and not yet reported
    call,    \* what the running generator does next
    open,    \* the targets it has not ruled out yet
    parked,  \* what it has read of internal_state.json
    quiet    \* history: the call began, and went on, with nothing beside it

generator == <<call, open, parked>>
farmVars == <<vars, queue, generator, quiet>>

-----------------------------------------------------------------------------
(***************************************************************************)
(* The filters of the generator.                                           *)
(***************************************************************************)

\* The combinations of the registry.
\* Mutant: in every environment the chip ever had.
Wanted_AnyHash(t) ==
    /\ reg[t[1]] # NoHash
    /\ t[3] \in Offered
    /\ <<t[1], t[3]>> \notin BelowMinimum

Wanted(t) ==
    /\ reg[t[1]] = t[2]
    /\ t[3] \in Offered
    /\ <<t[1], t[3]>> \notin BelowMinimum

\* verified_combinations of the chip's current version count only under the
\* current environment hash.
IsVerified(t, matrix) ==
    LET entry == matrix[<<t[1], VersionOf[t[2]]>>]
    IN  entry.hash = t[2] /\ t[3] \in entry.software

Window(status) == IF status = "INFRA_ERROR" THEN InfraWindow ELSE ParkWindow

\* A row is that of a job, which does not name the environment: a failure in
\* another environment with the same chip and toolchain versions rests too.
Resting(row) == row # NoRow /\ clock - row.tested < Window(row.status)

JobOfTarget(t) == <<t[1], VersionOf[t[2]], ToolchainOf[t[2]], t[3]>>

\* The loops stop at the cap, so one call returns the targets that come
\* first in the order of the chips and of the ecosystem lists.
Capped(targets) ==
    {t \in targets :
        Cardinality({u \in targets : Rank[<<u[1], u[3]>>] < Rank[<<t[1], t[3]>>]})
            < Cap}

-----------------------------------------------------------------------------
(***************************************************************************)
(* A call of the generator, read by read.                                  *)
(***************************************************************************)

FarmInit ==
    /\ Init
    /\ queue = {}
    /\ call = "none"
    /\ open = {}
    /\ parked = NoJobs
    /\ quiet = FALSE

ReadRegistry ==
    /\ call = "none"
    /\ call' = "readMatrix"
    /\ open' = {t \in Target : Wanted(t)}
    /\ quiet' = (pc = "idle")
    /\ UNCHANGED <<vars, queue, parked>>

\* Mutant: what is verified is not left out.
ReadMatrix_Ignored ==
    /\ call = "readMatrix"
    /\ call' = "readState"
    /\ UNCHANGED <<vars, queue, open, parked, quiet>>

ReadMatrix ==
    /\ call = "readMatrix"
    /\ call' = "readState"
    /\ open' = {t \in open : ~IsVerified(t, Published)}
    /\ UNCHANGED <<vars, queue, parked, quiet>>

\* A matrix file that is neither empty nor a document ends the generator.
Abort ==
    /\ call = "readMatrix"
    /\ matrixJson = Torn
    /\ call' = "none"
    /\ open' = {}
    /\ UNCHANGED <<vars, queue, parked, quiet>>

\* A state file that is no document counts as an empty one.
ReadState ==
    /\ call = "readState"
    /\ call' = "compute"
    /\ parked' = StateOf(stateJson)
    /\ UNCHANGED <<vars, queue, open, quiet>>

\* Mutants: no failure is left out; a failure is, however old it is.
Rested_All == open
Rested_Young == {t \in open : parked[JobOfTarget(t)] = NoRow}

Rested == {t \in open : ~Resting(parked[JobOfTarget(t)])}

\* Mutant: the cap is applied before the failures are left out.
Compute_CapsFirst ==
    /\ call = "compute"
    /\ call' = "output"
    /\ open' = {t \in Capped(open) : ~Resting(parked[JobOfTarget(t)])}
    /\ parked' = NoJobs
    /\ UNCHANGED <<vars, queue, quiet>>

\* After the lists of software are there, the product is computed and written
\* out; failures are compared with the time it is by then.
Compute ==
    /\ call = "compute"
    /\ call' = "output"
    /\ open' = Capped(Rested)
    /\ parked' = NoJobs
    /\ UNCHANGED <<vars, queue, quiet>>

\* The generator has ended, and the daemon adds its output to what is pending.
TakeOver ==
    /\ call = "output"
    /\ queue' = queue \cup open
    /\ call' = "none"
    /\ open' = {}
    /\ UNCHANGED <<vars, parked, quiet>>

Generator == ReadRegistry \/ ReadMatrix \/ Abort \/ ReadState \/ Compute \/ TakeOver

-----------------------------------------------------------------------------

\* A test ends, with any outcome.
Finish(t, f, status) ==
    /\ t \in queue
    /\ ResultOf(t, status) \in Inputs
    /\ Deliver(f, ResultOf(t, status))
    /\ queue' = queue \ {t}
    /\ UNCHANGED <<generator, quiet>>

FinishTest(t) == \E f \in File, status \in ResultStatus : Finish(t, f, status)

\* update_ledger, beside everything else.
Update == Run /\ quiet' = FALSE /\ UNCHANGED <<queue, generator>>

Other ==
    /\ Surroundings
    /\ quiet' = (quiet /\ Tick)
    /\ UNCHANGED <<queue, generator>>

FarmStep ==
    \/ Update
    \/ Other
    \/ Generator
    \/ \E t \in Target : FinishTest(t)

Administer == Operator /\ quiet' = FALSE /\ UNCHANGED <<queue, generator>>

FarmNext == FarmStep \/ Administer

FarmSpec == FarmInit /\ [][FarmNext]_farmVars

-----------------------------------------------------------------------------
(***************************************************************************)
(* Properties.                                                             *)
(***************************************************************************)

Calls == {"none", "readMatrix", "readState", "compute", "output"}

\* The generator's variables keep their types, and it looks at no environment
\* but one for each chip.
FarmTypeOK ==
    /\ queue \subseteq Target /\ open \subseteq Target
    /\ call \in Calls /\ quiet \in BOOLEAN
    /\ parked \in StateTable
    /\ \A t, u \in open : t[1] = u[1] => t[2] = u[2]

\* No environment with a higher-sorting hash has rows in the entry of t.
Unshadowed(t) ==
    \A s \in Software : LET h == verified[<<t[1], VersionOf[t[2]], s>>]
                        IN  h = NoHash \/ h <= t[2]

\* Verified in the environment the target names.
IsDone(t) == verified[<<t[1], VersionOf[t[2]], t[3]>>] = t[2]

Exported == dbExists /\ behind = {}

\* A test is queued only if the tables, not just the files the generator
\* reads, call for it: with both exports up to date, a call beside which no
\* run, no change of the registry and no administrator was at work adds a
\* target to the queue only when no failure of its job is resting, and it is
\* not verified in the current environment.  The exception are combinations
\* that rows of a higher-sorting hash hide from the export
\* (NewestHashIsPublished): those are queued over and over.
QueuesOnlyWhatIsOpen ==
    [][quiet /\ Exported => \A t \in queue' \ queue :
          ~Resting(state[JobOfTarget(t)]) /\ (Unshadowed(t) => ~IsDone(t))]_farmVars

\* When the generator finds nothing more to do, nothing is left undone: with
\* both exports up to date, a call beside which nothing else was at work and
\* that returns no target leaves no wanted combination that is neither verified in the current
\* environment nor parked with a failure that rests.
NothingForgotten ==
    [][Compute /\ quiet /\ Exported /\ open' = {} =>
          \A t \in Target : Wanted(t) => IsDone(t) \/ Resting(state[JobOfTarget(t)])
      ]_farmVars

-----------------------------------------------------------------------------
(***************************************************************************)
(* Fairness.  The daemon updates the ledger when a full batch waits, never *)
(* for a part of one; the operating system schedules the script; the slots *)
(* finish every test.  The generator is called every hour, and a run takes *)
(* an instant: again and again a call begins and ends without meeting one. *)
(***************************************************************************)
BatchFull == Cardinality({f \in File : inbox[f] # NoFile}) >= Batch

DaemonStep == FarmStep /\ (pc = "idle" /\ pc' # "idle" => BatchFull)

FairFarmSpec ==
    /\ FarmInit /\ [][DaemonStep]_farmVars
    /\ WF_farmVars(Update /\ (pc = "idle" => BatchFull))
    /\ []<><<Generator /\ quiet /\ call' = "none">>_farmVars
    /\ \A p \in Chip \X Software :
          SF_farmVars(\E h \in Hash : FinishTest(<<p[1], h, p[2]>>))

\* Targets that are done but hidden in the matrix by rows of another hash.
Hidden(t) == Wanted(t) /\ IsDone(t) /\ ~Unshadowed(t)

\* As many hidden targets come before t as one call returns.
CrowdedOut(t) ==
    Cardinality({u \in Target : Hidden(u) /\ Rank[<<u[1], u[3]>>] < Rank[<<t[1], t[3]>>]})
        >= Cap

\* No combination is starved by the cap, by a batch that does not fill or by
\* calls that overlap runs: as long as the registry wants it, it eventually is
\* verified or public in the current environment, or its job rests after a
\* failure.  There are two exceptions.  A matrix that a crash left torn may
\* end every call.  And combinations that are done but hidden by rows of a
\* higher-sorting hash are returned by every call: once they fill the cap,
\* those that come after them wait for ever.
EveryTargetIsTested ==
    \A t \in Target :
        Wanted(t) ~> \/ ~Wanted(t)
                     \/ IsDone(t) \/ IsVerified(t, Published)
                     \/ Resting(state[JobOfTarget(t)])
                     \/ "matrix" \in behind
                     \/ CrowdedOut(t)

\* The generator finds again and again that nothing is left to test, once
\* there are no more failures, faults and changes of the registry, unless the
\* matrix was left behind or hides something.  It need not stay so: a call
\* that overlaps a run, or comes between a test and the full batch, queues the
\* combination once more.
FarmSettles ==
    <>[]("matrix" \notin behind /\ \A t \in Target : ~Hidden(t)) /\ <>[][FALSE]_reg
       => []<>(call = "output" /\ open = {})
=============================================================================
