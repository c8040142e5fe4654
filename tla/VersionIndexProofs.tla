-------------------------- MODULE VersionIndexProofs --------------------------
(***************************************************************************)
(* Proofs about VersionIndex.  An index job steps where other workflows    *)
(* may, so that the theorems of ReleaseProofs hold of the composition.     *)
(* What a job is about to push is judged while its edition is the one on   *)
(* main: a job that another one has overtaken will conflict.               *)
(***************************************************************************)
EXTENDS VersionIndex, ReleaseProofs

-----------------------------------------------------------------------------
(***************************************************************************)
(* The composition implements the release.                                 *)
(***************************************************************************)

LEMMA StepIsReleaseStep ==
    ASSUME [IndexNext]_<<vars, indexVars>>
    PROVE  [Next]_vars
<1>1. ASSUME NEW j \in Job, IndexStep(j)
      PROVE  Next \/ UNCHANGED vars
  BY <1>1 DEF IndexStep, CheckOut, Generate, RebaseIndex, RebaseIndexFails, PushIndex,
              PushIndexRejected, Next
<1> QED
  BY <1>1 DEF IndexNext, Next

\* Whatever the index jobs do, the release sees nothing but other commits on
\* main: its theorems hold of the composition.
LEMMA IndexImplementsRelease == IndexSpec => Spec
<1>1. IndexInit => Init
  BY DEF IndexInit
<1>2. [IndexNext]_<<vars, indexVars>> => [Next]_vars
  BY StepIsReleaseStep
<1> QED
  BY <1>1, <1>2, PTL DEF IndexSpec, Spec

-----------------------------------------------------------------------------
TagNames == {t.name : t \in tags}

\* What is known of a job under way.
JobInv(q, n, s, names) ==
    /\ q.copy.edition <= n.edition /\ q.at <= s /\ q.copy.releases \subseteq names
    /\ q.stage = "rebased" /\ q.at = s => q.copy.edition = n.edition
    /\ q.stage # "checkedOut" /\ q.copy.edition = n.edition /\ q.copy.releases # {}
          => n.releases \subseteq q.copy.releases

IndexInv ==
    /\ TypeOK
    /\ index \in Index /\ jobs \in [Job -> Working \cup {NoJob, Ended("done"), Ended("failed")}]
    /\ index.releases \subseteq TagNames
    /\ \A j \in Job : jobs[j] \in Working => JobInv(jobs[j], index, seq, TagNames)

\* Tags are only added.
LEMMA TagsGrow ==
    ASSUME ReleaseStep
    PROVE  TagNames \subseteq TagNames'
<1>1. tags \subseteq tags'
  BY DEF ReleaseStep, Push, Proceed, Die, Calculate, Build, BuildFails, Commit,
         NothingToCommit, Rebase, RebaseFails, PushMain, PushRejected, Tag
<1> QED
  BY <1>1 DEF TagNames

\* The number of the head never falls.
LEMMA SeqGrows ==
    ASSUME TypeOK, ReleaseStep
    PROVE  seq' \in Nat /\ seq <= seq'
<1>1. seq \in Nat
  BY DEF TypeOK
<1>2. seq' \in {seq, seq + 1}
  BY DEF ReleaseStep, Push, Proceed, Die, Calculate, Build, BuildFails, Commit,
         NothingToCommit, Rebase, RebaseFails, PushMain, PushRejected, Tag
<1> QED
  BY <1>1, <1>2

\* What a job under way holds.
LEMMA WorkingFields ==
    ASSUME NEW q \in Working
    PROVE  /\ q.copy \in Index /\ q.copy.edition \in Nat /\ q.at \in Nat
           /\ q.copy.releases \subseteq Version
BY DEF Working, Index

\* A step of the release leaves what is known of the jobs as it is.
LEMMA ReleaseKeepsJobs ==
    ASSUME IndexInv, ReleaseStep, UNCHANGED indexVars, TypeOK'
    PROVE  IndexInv'
<1>1. index' = index /\ jobs' = jobs /\ TagNames \subseteq TagNames'
  BY TagsGrow DEF indexVars
<1>2. seq \in Nat /\ seq' \in Nat /\ seq <= seq'
  BY SeqGrows DEF IndexInv, TypeOK
<1>3. ASSUME NEW j \in Job, jobs[j] \in Working
      PROVE  JobInv(jobs[j], index, seq', TagNames')
  <2>1. JobInv(jobs[j], index, seq, TagNames) /\ jobs[j].at \in Nat
    BY <1>3, WorkingFields DEF IndexInv
  <2> QED
    BY <1>1, <1>2, <2>1 DEF JobInv
<1> QED
  BY <1>1, <1>3 DEF IndexInv

\* A job's own step: the record that replaces its record is as good, or it
\* has ended without a push.
LEMMA OwnJobKeeps ==
    ASSUME IndexInv, UNCHANGED <<vars, index>>, NEW j \in Job,
           NEW q \in Working \cup {Ended("failed")},
           jobs' = [jobs EXCEPT ![j] = q], q \in Working => JobInv(q, index, seq, TagNames)
    PROVE  IndexInv'
<1>1. TypeOK' /\ seq' = seq /\ TagNames' = TagNames /\ index' = index
  BY DEF IndexInv, TypeOK, vars, TagNames
<1>2. jobs' \in [Job -> Working \cup {NoJob, Ended("done"), Ended("failed")}]
  BY DEF IndexInv
<1>3. \A k \in Job : jobs'[k] \in Working => JobInv(jobs'[k], index, seq, TagNames)
  BY DEF IndexInv
<1> QED
  BY <1>1, <1>2, <1>3 DEF IndexInv

\* An ended job is not under way.
LEMMA EndedIsNotWorking == \A s \in {"done", "failed"} : Ended(s) \notin Working
BY DEF Ended, Working

\* A job under way is Working.
LEMMA StageIsWorking ==
    ASSUME IndexInv, NEW j \in Job, NEW s \in {"checkedOut", "generated", "rebased"},
           Stage(j, s)
    PROVE  jobs[j] \in Working /\ jobs[j].stage = s /\ JobInv(jobs[j], index, seq, TagNames)
BY DEF IndexInv, Stage, Ended

\* Every step of a job keeps what is known of the jobs.
LEMMA IndexStepKeeps ==
    ASSUME IndexInv, NEW j \in Job, IndexStep(j)
    PROVE  IndexInv'
<1>1. TypeOK /\ index \in Index /\ seq \in Nat /\ main \in Tree
      /\ index.releases \subseteq TagNames /\ TagNames \subseteq Version
  BY DEF IndexInv, TypeOK, TagNames
<1>2. index.edition \in Nat /\ index.releases \subseteq Version /\ index.software \subseteq Source
      /\ main.reg.entry \in Manifests
  BY <1>1 DEF Index, Tree, Registry
<1>3. CASE CheckOut(j)
  <2> DEFINE q == [stage |-> "checkedOut", at |-> seq,
                   copy |-> [index EXCEPT !.branch = main.reg.entry]]
  <2>1. q \in Working /\ JobInv(q, index, seq, TagNames)
    BY <1>1, <1>2 DEF Working, Index, JobInv
  <2>2. jobs' = [jobs EXCEPT ![j] = q] /\ UNCHANGED <<vars, index>>
    BY <1>3 DEF CheckOut
  <2> HIDE DEF q
  <2> QED
    BY <2>1, <2>2, OwnJobKeeps
<1>4. CASE Generate(j)
  <2>1. PICK down \in Silences :
          jobs' = [jobs EXCEPT ![j].stage = "generated", ![j].copy.releases = Listed(down),
                               ![j].copy.software = Software(down)]
    BY <1>4 DEF Generate
  <2>2. jobs[j] \in Working /\ JobInv(jobs[j], index, seq, TagNames) /\ jobs[j].stage = "checkedOut"
    BY <1>4, StageIsWorking DEF Generate
  <2>3. Listed(down) \in {{}, TagNames} /\ Software(down) \subseteq Source
    BY DEF Listed, Software, TagNames
  <2> DEFINE q == [jobs[j] EXCEPT !.stage = "generated", !.copy.releases = Listed(down),
                                  !.copy.software = Software(down)]
  <2>4. q \in Working
    BY <1>1, <2>2, <2>3 DEF Working, Index
  <2>5. q.copy.edition = jobs[j].copy.edition /\ q.at = jobs[j].at
        /\ q.stage = "generated" /\ q.copy.releases = Listed(down)
    BY <2>2 DEF Working, Index
  <2>6. jobs' = [jobs EXCEPT ![j] = q]
    BY <2>1 DEF IndexInv
  <2> HIDE DEF q
  <2>7. JobInv(q, index, seq, TagNames)
    BY <1>1, <2>2, <2>3, <2>5 DEF JobInv
  <2> QED
    BY <1>4, <2>4, <2>6, <2>7, OwnJobKeeps DEF Generate
<1>5. CASE RebaseIndex(j)
  <2>1. jobs[j] \in Working /\ JobInv(jobs[j], index, seq, TagNames) /\ jobs[j].stage = "generated"
        /\ index.edition = jobs[j].copy.edition
    BY <1>5, StageIsWorking DEF RebaseIndex
  <2> DEFINE q == [jobs[j] EXCEPT !.stage = "rebased", !.at = seq]
  <2>2. q \in Working /\ q.copy = jobs[j].copy /\ q.at = seq /\ q.stage = "rebased"
    BY <1>1, <2>1 DEF Working
  <2>3. jobs' = [jobs EXCEPT ![j] = q]
    BY <1>5 DEF RebaseIndex, IndexInv
  <2> HIDE DEF q
  <2>4. JobInv(q, index, seq, TagNames)
    BY <1>1, <1>2, <2>1, <2>2 DEF JobInv
  <2> QED
    BY <1>5, <2>2, <2>3, <2>4, OwnJobKeeps DEF RebaseIndex
<1>6. CASE RebaseIndexFails(j) \/ PushIndexRejected(j)
  BY <1>6, EndedIsNotWorking, OwnJobKeeps DEF RebaseIndexFails, PushIndexRejected
<1>7. CASE PushIndex(j)
  <2>1. jobs[j] \in Working /\ JobInv(jobs[j], index, seq, TagNames) /\ jobs[j].stage = "rebased"
        /\ jobs[j].at = seq
    BY <1>7, StageIsWorking DEF PushIndex
  <2>2. TypeOK' /\ seq' = seq + 1 /\ TagNames' = TagNames
    BY <1>1, <1>7 DEF PushIndex, Elsewhere, TypeOK, TagNames
  <2>3. jobs[j].copy \in Index /\ jobs[j].copy.edition = index.edition
    BY <2>1, WorkingFields DEF JobInv
  <2>4. /\ index' \in Index /\ index'.edition = index.edition + 1
        /\ index'.releases = jobs[j].copy.releases
    BY <1>2, <1>7, <2>3 DEF PushIndex, Index
  <2>5. jobs' = [jobs EXCEPT ![j] = Ended("done")]
    BY <1>7 DEF PushIndex
  <2>6. ASSUME NEW k \in Job, jobs'[k] \in Working
        PROVE  JobInv(jobs'[k], index', seq', TagNames')
    <3>1. jobs'[k] = jobs[k] /\ JobInv(jobs[k], index, seq, TagNames)
      BY <2>5, <2>6, EndedIsNotWorking DEF IndexInv
    <3>2. jobs[k].copy.edition \in Nat /\ jobs[k].at \in Nat
      BY <2>6, <3>1, WorkingFields
    <3> QED
      BY <1>1, <1>2, <2>2, <2>4, <3>1, <3>2 DEF JobInv
  <2>7. index'.releases \subseteq TagNames
    BY <2>1, <2>4 DEF JobInv
  <2> QED
    BY <2>2, <2>4, <2>5, <2>6, <2>7 DEF IndexInv
<1> QED
  BY <1>3, <1>4, <1>5, <1>6, <1>7 DEF IndexStep

\* The invariant, of every step of the composition.
LEMMA IndexInvInductive ==
    ASSUME IndexInv, [IndexNext]_<<vars, indexVars>>
    PROVE  IndexInv'
<1>1. CASE ReleaseStep /\ UNCHANGED indexVars
  <2>1. TypeOK'
    BY <1>1, PushType, ProceedType DEF ReleaseStep, IndexInv
  <2> QED
    BY <1>1, <2>1, ReleaseKeepsJobs
<1>2. ASSUME NEW j \in Job, IndexStep(j)
      PROVE  IndexInv'
  BY <1>2, IndexStepKeeps
<1>3. CASE UNCHANGED <<vars, indexVars>>
  BY <1>3 DEF IndexInv, TypeOK, TagNames, vars, indexVars
<1> QED
  BY <1>1, <1>2, <1>3 DEF IndexNext

\* The first index lists the first tag, and no job is under way.
LEMMA IndexInitInv == IndexInit => IndexInv
<1> SUFFICES ASSUME IndexInit PROVE IndexInv
  OBVIOUS
<1>1. TypeOK
  BY FoldersAssumption DEF IndexInit, Init, TypeOK, Tree, Registry, Manifests, Idle
<1>2. FirstTree.reg.version \in Version /\ FirstTree.reg.entry \in Manifests
      /\ FirstTree.reg.ecosystem \subseteq Source
  BY FoldersAssumption DEF Tree, Registry
<1>3. index \in Index /\ index.releases = {FirstTree.reg.version}
  BY <1>2 DEF IndexInit, FirstIndex, Index
<1>4. TagNames = {FirstTree.reg.version}
  BY DEF IndexInit, Init, TagNames
<1>5. jobs \in [Job -> Working \cup {NoJob, Ended("done"), Ended("failed")}]
      /\ \A j \in Job : jobs[j] \notin Working
  BY IndexAssumption DEF IndexInit
<1> QED
  BY <1>1, <1>3, <1>4, <1>5 DEF IndexInv

\* A push of the index lists no less than the index it replaces.
LEMMA PushGrows ==
    ASSUME IndexInv, [IndexNext]_<<vars, indexVars>>
    PROVE  index'.releases # {} => index.releases \subseteq index'.releases
<1>1. ASSUME NEW j \in Job, PushIndex(j)
      PROVE  index'.releases # {} => index.releases \subseteq index'.releases
  <2>1. jobs[j] \in Working /\ JobInv(jobs[j], index, seq, TagNames)
        /\ jobs[j].stage = "rebased" /\ jobs[j].at = seq
    BY <1>1, StageIsWorking DEF PushIndex
  <2>2. index'.releases = jobs[j].copy.releases
    BY <1>1, <2>1, WorkingFields DEF PushIndex, Index
  <2> QED
    BY <2>1, <2>2 DEF JobInv
<1>2. index' = index \/ \E j \in Job : PushIndex(j)
  BY DEF IndexNext, IndexStep, CheckOut, Generate, RebaseIndex, RebaseIndexFails,
         PushIndexRejected, indexVars
<1> QED
  BY <1>1, <1>2

\* However many jobs overlap, dispatched ones included, no index drops a
\* release that the one before it lists, unless no tags were answered.
THEOREM IndexGrows == IndexSpec => IndexOnlyGrows
<1>1. IndexInv /\ [IndexNext]_<<vars, indexVars>> => IndexInv'
  BY IndexInvInductive
<1>2. IndexInv /\ [IndexNext]_<<vars, indexVars>> =>
        [index'.releases # {} => index.releases \subseteq index'.releases]_<<vars, indexVars>>
  BY PushGrows
<1> QED
  BY <1>1, <1>2, IndexInitInv, PTL DEF IndexSpec, IndexOnlyGrows

-----------------------------------------------------------------------------
(***************************************************************************)
(* A quiet index is current.  While some run has not ended, or its job is  *)
(* not done, another index is still to come: it is Pending.  What the      *)
(* index, or a copy that would be pushed onto it, shows is current unless  *)
(* a run is pending, and for a copy one other than its own.                *)
(***************************************************************************)
Pending(k) == runs[k] # NoRun /\ ~(RunEnded(k) /\ jobs[k] = Ended("done"))

IsCurrent(branch, releases) ==
    branch = main.reg.entry /\ (releases # {} => releases = TagNames)

\* The tags of a copy count once they are listed.
CopyIsCurrent(q) ==
    /\ q.copy.branch = main.reg.entry
    /\ q.stage # "checkedOut" => IsCurrent(q.copy.branch, q.copy.releases)

CurrentInv ==
    /\ IndexInv
    /\ \A i \in Run : jobs[i] # NoJob => RunEnded(i)
    /\ (\E k \in Run : Pending(k)) \/ IsCurrent(index.branch, index.releases)
    /\ \A j \in Job : jobs[j] \in Working /\ jobs[j].copy.edition = index.edition =>
          (\E k \in Run \ {j} : Pending(k)) \/ CopyIsCurrent(jobs[j])

\* A step of run i changes no other run, and leaves it started.
LEMMA ProceedRuns ==
    ASSUME TypeOK, NEW i \in Run, Proceed(i) \/ Die(i)
    PROVE  \E v \in RunState \cup {Done, Failed} : runs' = [runs EXCEPT ![i] = v]
<1>1. runs[i] \notin Idle
  BY DEF Proceed, Die, Calculate, Build, BuildFails, Commit, NothingToCommit, Rebase,
         RebaseFails, PushMain, PushRejected, Tag, At, Active
<1>2. CASE Calculate(i)
  <2>1. \E q : Becomes(i, q)
    BY <1>1, <1>2, CalculateEffect
  <2> QED
    BY <2>1 DEF Becomes
<1>3. CASE Build(i)
  <2>1. \E q : Becomes(i, q)
    BY <1>1, <1>3, BuildEffect
  <2> QED
    BY <2>1 DEF Becomes
<1>4. CASE Commit(i)
  <2>1. \E q : Becomes(i, q)
    BY <1>1, <1>4, CommitEffect
  <2> QED
    BY <2>1 DEF Becomes
<1>5. CASE Rebase(i)
  <2>1. \E q : Becomes(i, q)
    BY <1>1, <1>5, RebaseEffect
  <2> QED
    BY <2>1 DEF Becomes
<1>6. CASE PushMain(i)
  <2>1. \E q : Becomes(i, q)
    BY <1>1, <1>6, PushMainEffect
  <2> QED
    BY <2>1 DEF Becomes
<1>7. CASE BuildFails(i) \/ NothingToCommit(i) \/ RebaseFails(i) \/ PushRejected(i)
           \/ Tag(i) \/ Die(i)
  BY <1>7 DEF BuildFails, NothingToCommit, RebaseFails, PushRejected, Tag, Die, Fails
<1> QED
  BY <1>2, <1>3, <1>4, <1>5, <1>6, <1>7 DEF Proceed

\* A step of a run: the run is pending before and after it, and its job has
\* not started.
LEMMA RunStepCurrent ==
    ASSUME CurrentInv, IndexInv', NEW i \in Run, Proceed(i) \/ Die(i), UNCHANGED indexVars
    PROVE  CurrentInv'
<1>1. PICK v \in RunState \cup {Done, Failed} : runs' = [runs EXCEPT ![i] = v]
  BY ProceedRuns DEF CurrentInv, IndexInv
<1>2. ~RunEnded(i)
  BY DEF Proceed, Die, Calculate, Build, BuildFails, Commit, NothingToCommit, Rebase,
         RebaseFails, PushMain, PushRejected, Tag, At, Active, Idle, RunEnded
<1>3. jobs[i] = NoJob /\ jobs' = jobs /\ index' = index
  BY <1>2 DEF CurrentInv, indexVars
<1>4. runs \in [Run -> RunState \cup Idle]
  BY DEF CurrentInv, IndexInv, TypeOK
<1>5. Pending(i)'
  BY <1>1, <1>3, <1>4, RunAssumption, IndexAssumption DEF Pending
<1>6. \A k \in Run : jobs'[k] # NoJob => RunEnded(k)'
  BY <1>1, <1>3, <1>4 DEF CurrentInv, RunEnded
<1>7. \A j \in Job : jobs'[j] \in Working => j # i
  BY <1>3, IndexAssumption
<1> QED
  BY <1>5, <1>6, <1>7 DEF CurrentInv

\* A push starts a run, whose job has not started, or changes nothing the
\* index shows.
LEMMA PushCurrent ==
    ASSUME CurrentInv, IndexInv', NEW e \in Pushes, Push(e), UNCHANGED indexVars
    PROVE  CurrentInv'
<1>1. main'.reg = main.reg /\ tags' = tags /\ jobs' = jobs /\ index' = index
  BY TreeAfterType DEF Push, CurrentInv, IndexInv, TypeOK, indexVars
<1>2. CASE runs' = runs
  BY <1>1, <1>2 DEF CurrentInv, Pending, RunEnded, IsCurrent, CopyIsCurrent, TagNames
<1>3. CASE runs' # runs
  <2>0. PICK p : p = pushes + 1
    OBVIOUS
  <2>1. runs' = [runs EXCEPT ![p] = runs'[p]] /\ Triggers(e)
    BY <1>3, <2>0 DEF Push, CurrentInv, IndexInv, TypeOK
  <2>2. p \in Run /\ runs[p] = NoRun /\ runs \in [Run -> RunState \cup Idle]
    BY <2>0, FoldersAssumption DEF Push, CurrentInv, IndexInv, TypeOK, Run
  <2>3. jobs[p] = NoJob
    BY <2>2, RunAssumption DEF CurrentInv, RunEnded
  <2>4. runs'[p] # NoRun
    BY <1>3, <2>1, <2>2
  <2>5. Pending(p)'
    BY <1>1, <2>3, <2>4, IndexAssumption DEF Pending
  <2>6. \A k \in Run : jobs'[k] # NoJob => RunEnded(k)'
    BY <1>1, <2>1, <2>2, <2>3 DEF CurrentInv, RunEnded
  <2>7. \A j \in Job : jobs'[j] \in Working => j # p
    BY <1>1, <2>3, IndexAssumption
  <2> QED
    BY <2>2, <2>5, <2>6, <2>7 DEF CurrentInv
<1> QED
  BY <1>2, <1>3

\* A job that steps without a push: whoever was pending still is.
LEMMA OwnJobCurrent ==
    ASSUME CurrentInv, IndexInv', UNCHANGED <<vars, index>>, NEW j \in Job,
           NEW q \in Working \cup {Ended("failed")}, jobs' = [jobs EXCEPT ![j] = q],
           j \in Run => RunEnded(j),
           q \in Working /\ q.copy.edition = index.edition =>
              (\E k \in Run \ {j} : Pending(k)) \/ CopyIsCurrent(q)
    PROVE  CurrentInv'
<1>1. main' = main /\ tags' = tags /\ runs' = runs /\ index' = index
  BY DEF vars
<1>2. q # Ended("done")
  BY EndedIsNotWorking DEF Ended
<1>3. jobs \in [Job -> Working \cup {NoJob, Ended("done"), Ended("failed")}]
      /\ Run \subseteq Job
  BY DEF CurrentInv, IndexInv, Job
<1>4. \A k \in Run : Pending(k) => Pending(k)'
  BY <1>1, <1>2, <1>3 DEF Pending, RunEnded
<1>5. \A k \in Run : jobs'[k] # NoJob => RunEnded(k)'
  BY <1>1, <1>3 DEF CurrentInv, RunEnded
<1>6. (\E k \in Run : Pending(k)') \/ IsCurrent(index.branch, index.releases)'
  BY <1>1, <1>4 DEF CurrentInv, IsCurrent, TagNames
<1>7. \A r : CopyIsCurrent(r) => CopyIsCurrent(r)'
  BY <1>1 DEF CopyIsCurrent, IsCurrent, TagNames
<1>8. \A i \in Job : jobs'[i] \in Working /\ jobs'[i].copy.edition = index.edition =>
        (\E k \in Run \ {i} : Pending(k)) \/ CopyIsCurrent(jobs'[i])
  BY <1>2, <1>3, EndedIsNotWorking DEF CurrentInv
<1> QED
  BY <1>1, <1>4, <1>5, <1>6, <1>7, <1>8 DEF CurrentInv

\* Every step of a job.
LEMMA JobStepCurrent ==
    ASSUME CurrentInv, IndexInv', NEW j \in Job, IndexStep(j)
    PROVE  CurrentInv'
<1>1. IndexInv /\ index \in Index /\ index.edition \in Nat
  BY DEF CurrentInv, IndexInv, Index
<1>2. ASSUME NEW s \in {"checkedOut", "generated", "rebased"}, Stage(j, s)
      PROVE  /\ jobs[j] \in Working /\ jobs[j].stage = s /\ JobInv(jobs[j], index, seq, TagNames)
             /\ j \in Run => RunEnded(j)
             /\ jobs[j].copy.edition = index.edition =>
                  (\E k \in Run \ {j} : Pending(k)) \/ CopyIsCurrent(jobs[j])
  BY <1>1, <1>2, StageIsWorking DEF CurrentInv, Stage
<1>3. CASE CheckOut(j)
  <2> DEFINE q == [stage |-> "checkedOut", at |-> seq,
                   copy |-> [index EXCEPT !.branch = main.reg.entry]]
  <2>1. jobs' = [jobs EXCEPT ![j] = q] /\ UNCHANGED <<vars, index>> /\ (j \in Run => RunEnded(j))
    BY <1>3 DEF CheckOut
  <2>2. q \in Working
    BY <1>1 DEF Working, Index, IndexInv, TypeOK, Tree, Registry
  <2>3. CopyIsCurrent(q)
    BY <1>1 DEF CopyIsCurrent, Index
  <2> HIDE DEF q
  <2> QED
    BY <2>1, <2>2, <2>3, OwnJobCurrent
<1>4. CASE Generate(j)
  <2>1. PICK down \in Silences :
          jobs' = [jobs EXCEPT ![j].stage = "generated", ![j].copy.releases = Listed(down),
                               ![j].copy.software = Software(down)]
    BY <1>4 DEF Generate
  <2>2. Stage(j, "checkedOut")
    BY <1>4 DEF Generate
  <2>3. Listed(down) \in {{}, TagNames} /\ Software(down) \subseteq Source
        /\ TagNames \subseteq Version
    BY <1>1 DEF Listed, Software, TagNames, IndexInv, TypeOK
  <2> DEFINE q == [jobs[j] EXCEPT !.stage = "generated", !.copy.releases = Listed(down),
                                  !.copy.software = Software(down)]
  <2>4. q \in Working
    BY <1>2, <2>2, <2>3 DEF Working, Index
  <2>5. q.copy.edition = jobs[j].copy.edition /\ q.copy.branch = jobs[j].copy.branch
        /\ q.copy.releases = Listed(down)
    BY <1>2, <2>2 DEF Working, Index
  <2>6. jobs' = [jobs EXCEPT ![j] = q]
    <3>1. jobs \in [Job -> Working \cup {NoJob, Ended("done"), Ended("failed")}]
      BY <1>1 DEF IndexInv
    <3> QED
      BY ONLY <2>1, <3>1, j \in Job
  <2> HIDE DEF q
  <2>7. CopyIsCurrent(jobs[j]) => CopyIsCurrent(q)
    BY <2>3, <2>5 DEF CopyIsCurrent, IsCurrent
  <2> QED
    BY <1>2, <1>4, <2>2, <2>4, <2>5, <2>6, <2>7, OwnJobCurrent DEF Generate
<1>5. CASE RebaseIndex(j)
  <2>1. Stage(j, "generated") /\ UNCHANGED <<vars, index>>
    BY <1>5 DEF RebaseIndex
  <2> DEFINE q == [jobs[j] EXCEPT !.stage = "rebased", !.at = seq]
  <2>2. q \in Working /\ q.copy = jobs[j].copy
    BY <1>1, <1>2, <2>1 DEF Working, IndexInv, TypeOK
  <2>3. jobs' = [jobs EXCEPT ![j] = q]
    BY <1>1, <1>5 DEF RebaseIndex, IndexInv
  <2> HIDE DEF q
  <2>4. CopyIsCurrent(jobs[j]) => CopyIsCurrent(q)
    BY <1>2, <2>1, <2>2 DEF CopyIsCurrent
  <2> QED
    BY <1>2, <2>1, <2>2, <2>3, <2>4, OwnJobCurrent
<1>6. CASE RebaseIndexFails(j) \/ PushIndexRejected(j)
  <2>1. /\ jobs' = [jobs EXCEPT ![j] = Ended("failed")] /\ UNCHANGED <<vars, index>>
        /\ j \in Run => RunEnded(j)
    BY <1>2, <1>6 DEF RebaseIndexFails, PushIndexRejected
  <2> QED
    BY <2>1, EndedIsNotWorking, OwnJobCurrent
<1>7. CASE PushIndex(j)
  <2>1. Stage(j, "rebased") /\ jobs[j].at = seq /\ jobs' = [jobs EXCEPT ![j] = Ended("done")]
        /\ main' = main /\ runs' = runs /\ tags' = tags
        /\ index' = [jobs[j].copy EXCEPT !.edition = @ + 1]
    BY <1>7 DEF PushIndex, Elsewhere
  <2>2. jobs[j].copy.edition = index.edition
    BY <1>2, <2>1 DEF JobInv
  <2>3. /\ index'.edition = index.edition + 1 /\ index'.branch = jobs[j].copy.branch
        /\ index'.releases = jobs[j].copy.releases
    BY <1>2, <2>1, <2>2, WorkingFields DEF Index
  <2>4. jobs \in [Job -> Working \cup {NoJob, Ended("done"), Ended("failed")}]
        /\ Run \subseteq Job
    BY <1>1 DEF IndexInv, Job
  <2>5. \A k \in Run \ {j} : Pending(k) => Pending(k)'
    BY <2>1, <2>4 DEF Pending, RunEnded
  <2>6. CopyIsCurrent(jobs[j]) => IsCurrent(index.branch, index.releases)'
    BY <1>2, <2>1, <2>3 DEF CopyIsCurrent, IsCurrent, TagNames
  <2>7. (\E k \in Run : Pending(k)') \/ IsCurrent(index.branch, index.releases)'
    BY <1>2, <2>1, <2>2, <2>5, <2>6
  <2>8. ASSUME NEW i \in Job, jobs'[i] \in Working
        PROVE  jobs'[i].copy.edition # index'.edition
    <3>1. jobs'[i] = jobs[i] /\ JobInv(jobs[i], index, seq, TagNames)
      BY <1>1, <2>1, <2>4, <2>8, EndedIsNotWorking DEF IndexInv
    <3>2. jobs[i].copy.edition \in Nat
      BY <2>8, <3>1, WorkingFields
    <3> QED
      BY <1>1, <2>3, <3>1, <3>2 DEF JobInv
  <2>9. \A k \in Run : jobs'[k] # NoJob => RunEnded(k)'
    BY <1>2, <2>1, <2>4 DEF CurrentInv, RunEnded
  <2> QED
    BY <2>7, <2>8, <2>9 DEF CurrentInv
<1> QED
  BY <1>3, <1>4, <1>5, <1>6, <1>7 DEF IndexStep

\* Every step of the composition.
LEMMA CurrentInvInductive ==
    ASSUME CurrentInv, [IndexNext]_<<vars, indexVars>>
    PROVE  CurrentInv'
<1>1. IndexInv'
  BY IndexInvInductive DEF CurrentInv
<1>2. CASE ReleaseStep /\ UNCHANGED indexVars
  BY <1>1, <1>2, RunStepCurrent, PushCurrent DEF ReleaseStep
<1>3. ASSUME NEW j \in Job, IndexStep(j)
      PROVE  CurrentInv'
  BY <1>1, <1>3, JobStepCurrent
<1>4. CASE UNCHANGED <<vars, indexVars>>
  BY <1>1, <1>4 DEF CurrentInv, Pending, RunEnded, IsCurrent, CopyIsCurrent, TagNames,
                    vars, indexVars
<1> QED
  BY <1>2, <1>3, <1>4 DEF IndexNext

LEMMA CurrentInitInv == IndexInit => CurrentInv
<1> SUFFICES ASSUME IndexInit PROVE CurrentInv
  OBVIOUS
<1>1. IndexInv
  BY IndexInitInv
<1>2. \A j \in Job : jobs[j] = NoJob
  BY DEF IndexInit
<1>3. IsCurrent(index.branch, index.releases)
  BY DEF IndexInit, Init, FirstIndex, IsCurrent, TagNames
<1> QED
  BY <1>1, <1>2, <1>3, IndexAssumption DEF CurrentInv, Job

\* When every run has ended and its job is done, the index shows main's
\* entries and every tag, whatever other jobs were dispatched and whichever
\* of them failed.
THEOREM QuietIndex == IndexSpec => []QuietIndexIsCurrent
<1>1. CurrentInv /\ [IndexNext]_<<vars, indexVars>> => CurrentInv'
  BY CurrentInvInductive
<1>2. CurrentInv => QuietIndexIsCurrent
  BY DEF CurrentInv, QuietIndexIsCurrent, Pending, IsCurrent, TagNames
<1> QED
  BY <1>1, <1>2, CurrentInitInv, PTL DEF IndexSpec

\* What is proved of the release on its own holds of it beside any number of
\* index jobs.
THEOREM ReleaseBesideIndex ==
    IndexSpec => /\ []TypeOK /\ NothingRegresses /\ []HighestBumpWins
                 /\ []QuietMainIsReleased /\ []TagsInOrder
                 /\ [][pushes' = pushes => KeepsSources(main, main')]_vars
BY IndexImplementsRelease, TypeCorrect, NeverRegresses, HighestAlwaysWins, QuietMain,
   TagsAreInOrder, ReleasesKeepSources, PTL DEF NothingRegresses
=============================================================================
