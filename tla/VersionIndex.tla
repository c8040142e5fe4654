----------------------------- MODULE VersionIndex -----------------------------
(***************************************************************************)
(* The version index: .github/workflows/version-index.yml and              *)
(* generate_index.go, composed with the release.                           *)
(*                                                                         *)
(* When a run of the release ends, in whatever way, GitHub starts a job    *)
(* that lists all tags with the registry each of them names, the entries   *)
(* of registry.json and the published software in version_index.json, and  *)
(* commits that file to main.  Nothing keeps two jobs from overlapping,    *)
(* nor a job and a run of the release: both push to main.                  *)
(*                                                                         *)
(* Abstractions.  The time in generated_at is the number of the edition:   *)
(* two jobs do not write the file within the same second, and the line     *)
(* they both changed makes a rebase of one over the other fail.  Pages of  *)
(* a list and waits for the rate limit are parts of one request, which is  *)
(* answered or is not.  What the index shows of a release besides its name *)
(* is the registry of its tag, which stays, or nothing if that one file    *)
(* was not answered: the name is listed all the same.  A job that dies has *)
(* changed nothing that others read: it never takes its next step.         *)
(***************************************************************************)
EXTENDS Release

CONSTANTS
    Dispatched,  \* jobs that an operator or another repository starts
    Silences     \* sets of requests that may stay without an answer together

CONSTANTS NoJob, NoCopy

Job == Run \cup Dispatched

Request == {"tags"} \cup Source

Index == [edition : Nat, branch : Manifests, releases : SUBSET Version,
          software : SUBSET Source]

\* A job under way, with the index in its checkout, and one that has ended.
Working == [stage : {"checkedOut", "generated", "rebased"}, copy : Index, at : Nat]

Ended(stage) == [stage |-> stage, copy |-> NoCopy, at |-> 0]

ASSUME IndexAssumption ==
    /\ Dispatched \cap Run = {}
    /\ Silences \subseteq SUBSET Request
    /\ NoJob \notin Working \cup {Ended("done"), Ended("failed")}

VARIABLES
    index,  \* version_index.json on main
    jobs    \* the job of each run, and the dispatched ones

indexVars == <<index, jobs>>

-----------------------------------------------------------------------------
FirstIndex ==
    [edition |-> 0, branch |-> FirstTree.reg.entry,
     releases |-> {FirstTree.reg.version},
     software |-> FirstTree.reg.ecosystem]

IndexInit ==
    /\ Init
    /\ index = FirstIndex
    /\ jobs = [j \in Job |-> NoJob]

Stage(j, stage) == jobs[j] # NoJob /\ jobs[j].stage = stage

RunEnded(i) == runs[i] \in {Done, Failed}

\* Mutant: the job starts with the run and not after it.
CheckOut_OnPush(j) ==
    /\ jobs[j] = NoJob
    /\ j \in Run => runs[j] # NoRun
    /\ jobs' = [jobs EXCEPT ![j] =
          [stage |-> "checkedOut", at |-> seq,
           copy |-> [index EXCEPT !.branch = main.reg.entry]]]
    /\ UNCHANGED <<vars, index>>

\* GitHub starts the job on the head of main, for a failed run, too.
CheckOut(j) ==
    /\ jobs[j] = NoJob
    /\ j \in Run => RunEnded(j)
    /\ jobs' = [jobs EXCEPT ![j] =
          [stage |-> "checkedOut", at |-> seq,
           copy |-> [index EXCEPT !.branch = main.reg.entry]]]
    /\ UNCHANGED <<vars, index>>

\* A list that is not answered is written as an empty one.
Listed(down) == IF "tags" \in down THEN {} ELSE {t.name : t \in tags}

Software(down) == Source \ down

Generate(j) ==
    /\ Stage(j, "checkedOut")
    /\ \E down \in Silences :
          jobs' = [jobs EXCEPT ![j].stage = "generated",
                               ![j].copy.releases = Listed(down),
                               ![j].copy.software = Software(down)]
    /\ UNCHANGED <<vars, index>>

\* Mutant: the index has no line that always conflicts.
RebaseIndex_Blind(j) ==
    /\ Stage(j, "generated")
    /\ jobs' = [jobs EXCEPT ![j].stage = "rebased", ![j].at = seq]
    /\ UNCHANGED <<vars, index>>

RebaseIndex(j) ==
    /\ Stage(j, "generated")
    /\ index.edition = jobs[j].copy.edition
    /\ jobs' = [jobs EXCEPT ![j].stage = "rebased", ![j].at = seq]
    /\ UNCHANGED <<vars, index>>

\* Another job's index is on main already.
RebaseIndexFails(j) ==
    /\ Stage(j, "generated")
    /\ index.edition # jobs[j].copy.edition
    /\ jobs' = [jobs EXCEPT ![j] = Ended("failed")]
    /\ UNCHANGED <<vars, index>>

\* git push takes only a successor of the head.
PushIndex(j) ==
    /\ Stage(j, "rebased")
    /\ jobs[j].at = seq
    /\ Elsewhere
    /\ index' = [jobs[j].copy EXCEPT !.edition = @ + 1]
    /\ jobs' = [jobs EXCEPT ![j] = Ended("done")]

PushIndexRejected(j) ==
    /\ Stage(j, "rebased")
    /\ jobs[j].at # seq
    /\ jobs' = [jobs EXCEPT ![j] = Ended("failed")]
    /\ UNCHANGED <<vars, index>>

IndexStep(j) ==
    \/ CheckOut(j) \/ Generate(j) \/ RebaseIndex(j) \/ RebaseIndexFails(j)
    \/ PushIndex(j) \/ PushIndexRejected(j)

IndexNext ==
    \/ ReleaseStep /\ UNCHANGED indexVars
    \/ \E j \in Job : IndexStep(j)

IndexSpec == IndexInit /\ [][IndexNext]_<<vars, indexVars>>

-----------------------------------------------------------------------------
(***************************************************************************)
(* Properties.                                                             *)
(***************************************************************************)

\* However jobs overlap, a later index lists every release the one before
\* listed, unless no list of tags was answered at all.  No step says so: it
\* is the conflict on generated_at that keeps an older list from being put
\* on top of a newer one.
IndexOnlyGrows ==
    [][index'.releases # {} => index.releases \subseteq index'.releases]_<<vars, indexVars>>

\* release.md:151, "the index accurately reflects the newly minted tags": when
\* all runs have ended and none of their jobs has failed, the index shows
\* main's entries, and every tag unless the list of tags was not answered.
\* A dispatched job may still be under way, or have failed.
QuietIndexIsCurrent ==
    (\A i \in Run : runs[i] # NoRun => RunEnded(i) /\ jobs[i] = Ended("done"))
    => /\ index.branch = main.reg.entry
       /\ index.releases # {} => index.releases = {t.name : t \in tags}
=============================================================================
