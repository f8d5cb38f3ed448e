-------------------------- MODULE PromptLab_proofs --------------------------
(***************************************************************************)
(* For any prompts, cases, jobs, edits and crashes: one version at most is *)
(* in use, no job is open without its coroutine, what is in production was *)
(* tested, and what is released was evaluated on the present gold cases.   *)
(***************************************************************************)
EXTENDS PromptLab, FiniteSetTheorems, TLAPS

USE LabAssumption

-----------------------------------------------------------------------------
(* Type correctness. *)

LEMMA BenchmarkType ==
  ASSUME TypeOK
  PROVE  Benchmark \in Stamped
  BY DEF TypeOK, Benchmark, Stamped

LEMMA NoJobType == NoJob \in Job
  BY DEF NoJob, Job, Stamped

LEMMA GoneType ==
  ASSUME NEW e \in Job
  PROVE  Gone(e) \in Job /\ Gone(e).row = e.row /\ Gone(e).pc = "over" /\ Gone(e).type = e.type
<1> DEFINE base == [NoJob EXCEPT !.type = e.type, !.row = e.row]
           judged == [base EXCEPT !.prompt = e.prompt, !.passed = TRUE]
           complete == [base EXCEPT !.prompt = e.prompt, !.passed = TRUE, !.snapshot = e.snapshot, !.reads = e.reads]
<1>1. base \in Job /\ base.row = e.row /\ base.pc = "over" /\ base.type = e.type
  BY NoJobType DEF Job, NoJob
<1>2. judged \in Job /\ judged.row = e.row /\ judged.pc = "over" /\ judged.type = e.type
  BY <1>1 DEF Job
<1>3. complete \in Job /\ complete.row = e.row /\ complete.pc = "over" /\ complete.type = e.type
  BY <1>1 DEF Job
<1>4. Gone(e) \in {base, judged, complete}
  BY DEF Gone
<1> QED
  BY <1>1, <1>2, <1>3, <1>4

LEMMA RowType ==
  ASSUME NEW e \in Job, NEW r \in Ended
  PROVE  LET f == [Gone(e) EXCEPT !.row = r]
         IN f \in Job /\ f.row = r /\ f.pc = "over" /\ f.type = e.type
  BY GoneType DEF Job, Ended

LEMMA FailedType ==
  ASSUME NEW e \in Job
  PROVE  /\ Failed(e) \in Job
         /\ Failed(e).row = IF e.row = "none" THEN "none" ELSE "FAILED"
         /\ Failed(e).pc = "over" /\ Failed(e).type = e.type
<1>1. CASE e.row = "none"
  BY <1>1, GoneType DEF Failed
<1>2. CASE e.row # "none"
  BY <1>2, RowType DEF Failed, Ended
<1> QED
  BY <1>1, <1>2

-----------------------------------------------------------------------------
(***************************************************************************)
(* The inductive invariant.  What an evaluation has depends on where it    *)
(* is: only a job that can still complete ends, and one that has completed *)
(* is not open while its coroutine finishes.                               *)
(***************************************************************************)
OpenRow == {"QUEUED", "RUNNING"}

Shaped(e) ==
    /\ (e.row = "none") = (e.type \in {"none", "inline"})
    /\ e.pc # "over" => e.type # "none"
    /\ e.pc \in {"scheduled", "baseline", "candidate", "judging"} =>
          e.type = "benchmark" \/ e.prompt \in Versions
    /\ e.pc \in {"baseline", "judging"} => e.type # "benchmark"
    /\ e.pc = "ending" \/ e.asked => e.type \in {"prompt", "benchmark"}
    /\ e.pc = "finishing" => e.row \notin OpenRow

JobsInv ==
    /\ job \in [Jobs -> Job]
    /\ \A j \in Jobs : Shaped(job[j])
    /\ OpenJobRuns

OneActive == \A p, q \in Active : p = q

LabInv == TypeOK /\ JobsInv /\ OneActive

Status == {"none", "DRAFT", "VALIDATED", "FAILED", "ACTIVE", "ARCHIVED"}

VersionsInv == status \in [Versions -> Status] /\ OneActive

\* Everything but the jobs and the versions keeps its type.
RestType ==
    /\ run \in [Versions -> {"none", "pass", "fail"}]
    /\ gold \in [Cases -> [live : BOOLEAN, stamp : 0..MaxEdits]]
    /\ edits \in 0..MaxEdits
    /\ request \in Release
    /\ released \in Release
    /\ seeding \in BOOLEAN /\ up \in BOOLEAN /\ crashes \in 0..MaxCrashes

LEMMA LabParts == LabInv <=> RestType /\ JobsInv /\ VersionsInv
  BY DEF LabInv, TypeOK, JobsInv, RestType, Shaped, VersionsInv, Status

LEMMA InitInv == Init => LabInv
<1> SUFFICES ASSUME Init PROVE LabInv
  OBVIOUS
<1>1. RestType
  <2>1. NoRequest \in Release
    BY DEF NoRequest, Release, Stamped
  <2>2. run \in [Versions -> {"none", "pass", "fail"}]
    BY DEF Init
  <2>3. gold \in [Cases -> [live : BOOLEAN, stamp : 0..MaxEdits]]
    BY DEF Init
  <2>4. edits \in 0..MaxEdits /\ crashes \in 0..MaxCrashes
    BY LabAssumption DEF Init, LabAssumption
  <2>5. seeding \in BOOLEAN /\ up \in BOOLEAN
    BY DEF Init
  <2> QED
    BY <2>1, <2>2, <2>3, <2>4, <2>5 DEF Init, RestType
<1>2. JobsInv
  BY NoJobType DEF Init, JobsInv, Shaped, OpenJobRuns, NoJob, OpenRow
<1>3. VersionsInv
  BY DEF Init, VersionsInv, OneActive, Active, Status
<1> QED
  BY <1>1, <1>2, <1>3, LabParts

-----------------------------------------------------------------------------
(* The jobs. *)

LEMMA OneJobChanges ==
  ASSUME JobsInv, NEW j \in Jobs, NEW e \in Job,
         Shaped(e), e.row \in OpenRow => e.pc # "over",
         job' = [job EXCEPT ![j] = e], up' = up
  PROVE  JobsInv'
<1>1. job' \in [Jobs -> Job]
  BY DEF JobsInv
<1>2. \A k \in Jobs : Shaped(job'[k])
  BY DEF JobsInv
<1>3. OpenJobRuns'
  BY DEF JobsInv, OpenJobRuns, OpenRow
<1> QED
  BY <1>1, <1>2, <1>3 DEF JobsInv

\* Gone and Failed leave no open row, or the coroutine is on.
LEMMA GoneShaped ==
  ASSUME NEW e \in Job, Shaped(e)
  PROVE  Shaped(Gone(e)) /\ Shaped(Failed(e))
<1>1. ~Gone(e).asked /\ ~Failed(e).asked
  BY DEF Gone, Failed, NoJob
<1> QED
  BY <1>1, GoneType, FailedType DEF Shaped
-----------------------------------------------------------------------------
(* Each step of an evaluation changes one job to a shaped one. *)

\* How a job changes in each of these steps; the row stays open only as long as
\* the coroutine is on.
JobStep(j) ==
    \E e \in Job : /\ Shaped(e) /\ (e.row \in OpenRow => e.pc # "over")
                   /\ Becomes(j, e)

LEMMA JobStepInv ==
  ASSUME JobsInv, NEW j \in Jobs, JobStep(j), UNCHANGED up
  PROVE  JobsInv'
  BY OneJobChanges DEF JobStep, Becomes

LEMMA CreateStep ==
  ASSUME LabInv, NEW j \in Jobs, NEW type \in {"prompt", "benchmark"}, NEW p \in Versions \cup {None},
         type = "prompt" => p \in Versions,
         CreateJob(j, type, p)
  PROVE  JobStep(j)
<1> DEFINE e == [NoJob EXCEPT !.type = type, !.row = "QUEUED", !.pc = "scheduled",
                              !.prompt = p, !.snapshot = Snapshot]
<1>1. Snapshot \in Stamped
  BY BenchmarkType DEF LabInv, Snapshot
<1>2. e \in Job
  BY <1>1, NoJobType DEF Job
<1>3. e.type = type /\ e.row = "QUEUED" /\ e.pc = "scheduled" /\ e.prompt = p /\ ~e.asked
  BY DEF NoJob
<1>4. Shaped(e)
  BY <1>3 DEF Shaped
<1> QED
  BY <1>2, <1>3, <1>4 DEF CreateJob, JobStep

LEMMA InlineStep ==
  ASSUME LabInv, NEW j \in Jobs, NEW p \in Versions, EvaluateInline(j, p)
  PROVE  JobStep(j)
<1> DEFINE e == [NoJob EXCEPT !.type = "inline", !.pc = "scheduled", !.prompt = p]
<1>1. e \in Job
  BY NoJobType DEF Job
<1>2. e.type = "inline" /\ e.row = "none" /\ e.pc = "scheduled" /\ e.prompt = p /\ ~e.asked
  BY DEF NoJob
<1>3. Shaped(e)
  BY <1>2 DEF Shaped
<1> QED
  BY <1>1, <1>2, <1>3 DEF EvaluateInline, JobStep, OpenRow

LEMMA StartStep ==
  ASSUME LabInv, NEW j \in Jobs, Start(j)
  PROVE  JobStep(j)
<1> DEFINE b == IF job[j].type = "inline" THEN CHOOSE p \in Active : TRUE ELSE None
           l == IF job[j].type = "benchmark" THEN "none" ELSE status[job[j].prompt]
           r == IF job[j].row = "QUEUED" THEN "RUNNING" ELSE job[j].row
           label == IF job[j].type = "benchmark" THEN "candidate" ELSE "baseline"
           bd == job[j].prompt # None /\ run[job[j].prompt] # "none"
           e == [job[j] EXCEPT !.row = r, !.pc = label, !.base = b, !.loaded = l, !.bound = bd]
<1>1. job[j] \in Job /\ Shaped(job[j]) /\ job[j].pc = "scheduled"
  BY DEF LabInv, JobsInv, Start, At
<1>2. b \in Versions \cup {None}
  BY <1>1 DEF Start, Active, Shaped
<1>3. l \in {"none", "DRAFT", "VALIDATED", "FAILED", "ACTIVE", "ARCHIVED"}
  BY <1>1 DEF LabInv, TypeOK, Shaped
<1>4. bd \in BOOLEAN
  OBVIOUS
<1>5. r \in {"none", "QUEUED", "RUNNING"} \cup Ended /\ (r = "none" <=> job[j].row = "none")
  BY <1>1 DEF Job
<1>6. Becomes(j, e)
  BY DEF Start
<1>7. label \in {"candidate", "baseline"} /\ (label = "baseline" => job[j].type # "benchmark")
  OBVIOUS
<1> HIDE DEF b, l, r, label, bd
<1>8. e \in Job
  <2> DEFINE f == [job[j] EXCEPT !.row = r, !.pc = label]
  <2>1. f \in Job
    BY <1>1, <1>5, <1>7 DEF Job
  <2>2. [f EXCEPT !.base = b, !.loaded = l, !.bound = bd] \in Job
    BY <2>1, <1>2, <1>3, <1>4 DEF Job
  <2>3. e = [f EXCEPT !.base = b, !.loaded = l, !.bound = bd]
    BY <1>1 DEF Job
  <2> QED
    BY <2>2, <2>3
<1>9. e.row = r /\ e.pc = label /\ e.type = job[j].type /\ e.prompt = job[j].prompt /\ e.asked = job[j].asked
  BY <1>1 DEF Job
<1>10. Shaped(e) /\ e.pc # "over"
  BY <1>1, <1>5, <1>7, <1>9 DEF Shaped
<1> QED
  BY <1>6, <1>8, <1>10 DEF JobStep

LEMMA ReadType ==
  ASSUME TypeOK, NEW e \in Job
  PROVE  Read(e) \in SUBSET Stamped
  BY BenchmarkType DEF Read, Job

LEMMA BaselineStep ==
  ASSUME LabInv, NEW j \in Jobs, EvaluateBaseline(j)
  PROVE  JobStep(j)
<1> DEFINE b == IF Benchmark = {} THEN None ELSE job[j].base
           e == [job[j] EXCEPT !.pc = "candidate", !.reads = Read(job[j]), !.base = b]
<1>1. job[j] \in Job /\ Shaped(job[j]) /\ job[j].pc = "baseline"
  BY DEF LabInv, JobsInv, EvaluateBaseline, At
<1>2. Read(job[j]) \in SUBSET Stamped
  BY <1>1, ReadType DEF LabInv
<1>3. b \in Versions \cup {None}
  BY <1>1 DEF Job
<1>4. e \in Job
  BY <1>1, <1>2, <1>3 DEF Job
<1>5. /\ e.pc = "candidate" /\ e.row = job[j].row /\ e.type = job[j].type
      /\ e.prompt = job[j].prompt /\ e.asked = job[j].asked
  BY <1>1 DEF Job
<1>6. Shaped(e) /\ e.pc # "over"
  BY <1>1, <1>5 DEF Shaped
<1>7. Becomes(j, e)
  BY DEF EvaluateBaseline
<1> HIDE DEF e
<1> QED
  BY <1>4, <1>6, <1>7 DEF JobStep

LEMMA CandidateStep ==
  ASSUME LabInv, NEW j \in Jobs, EvaluateCandidate(j)
  PROVE  JobStep(j)
<1> DEFINE label == IF job[j].type = "benchmark" THEN "ending" ELSE "judging"
           e(passed, ok) == [job[j] EXCEPT !.pc = label, !.reads = Read(job[j]), !.base = None,
                                           !.passed = passed, !.ok = ok]
<1>1. job[j] \in Job /\ Shaped(job[j]) /\ job[j].pc = "candidate"
  BY DEF LabInv, JobsInv, EvaluateCandidate, At
<1>2. Read(job[j]) \in SUBSET Stamped
  BY <1>1, ReadType DEF LabInv
<1>3. ASSUME NEW passed \in BOOLEAN, NEW ok \in {"none", "pass", "fail"}
      PROVE  /\ e(passed, ok) \in Job /\ Shaped(e(passed, ok))
             /\ e(passed, ok).pc # "over"
  <2>1. e(passed, ok) \in Job
    <3>1. label \in {"ending", "judging"}
      OBVIOUS
    <3> HIDE DEF label
    <3> DEFINE f == [job[j] EXCEPT !.pc = label, !.reads = Read(job[j]), !.base = None]
    <3>2. f \in Job
      BY <1>1, <1>2, <3>1 DEF Job
    <3>3. [f EXCEPT !.passed = passed, !.ok = ok] \in Job
      BY <3>2 DEF Job
    <3>4. e(passed, ok) = [f EXCEPT !.passed = passed, !.ok = ok]
      BY <1>1 DEF Job
    <3> QED
      BY <3>3, <3>4
  <2>2. /\ e(passed, ok).pc = label /\ e(passed, ok).row = job[j].row
        /\ e(passed, ok).type = job[j].type /\ e(passed, ok).prompt = job[j].prompt
        /\ e(passed, ok).asked = job[j].asked
    BY <1>1 DEF Job
  <2>3. Shaped(e(passed, ok))
    BY <1>1, <2>2 DEF Shaped
  <2> QED
    BY <2>1, <2>2, <2>3
<1>4. PICK passed \in BOOLEAN, ok \in {"none", "pass", "fail"} : Becomes(j, e(passed, ok))
  BY DEF EvaluateCandidate
<1> QED
  BY <1>3, <1>4 DEF JobStep

LEMMA JudgeStep ==
  ASSUME LabInv, NEW j \in Jobs, Judge(j)
  PROVE  JobStep(j)
<1> DEFINE label == IF job[j].type = "inline" THEN "finishing" ELSE "ending"
           e == [job[j] EXCEPT !.pc = label]
<1>1. job[j] \in Job /\ Shaped(job[j]) /\ job[j].pc = "judging"
  BY DEF LabInv, JobsInv, Judge, At
<1>2. e \in Job /\ e.pc = label /\ e.row = job[j].row /\ e.type = job[j].type /\ e.asked = job[j].asked
  BY <1>1 DEF Job
<1>3. job[j].type \in {"none", "prompt", "benchmark", "inline"}
  BY <1>1 DEF Job
<1>4. Shaped(e)
  BY <1>1, <1>2, <1>3 DEF Shaped, OpenRow
<1>5. Becomes(j, e)
  BY DEF Judge
<1>6. e.pc # "over"
  BY <1>2
<1> HIDE DEF e
<1> QED
  BY <1>2, <1>4, <1>5, <1>6 DEF JobStep

LEMMA CompleteStep ==
  ASSUME LabInv, NEW j \in Jobs, Complete(j)
  PROVE  JobStep(j)
<1> DEFINE e == [job[j] EXCEPT !.row = "COMPLETED", !.pc = "finishing"]
<1>1. job[j] \in Job /\ Shaped(job[j]) /\ job[j].pc = "ending"
  BY DEF LabInv, JobsInv, Complete, At
<1>2. e \in Job /\ e.pc = "finishing" /\ e.row = "COMPLETED" /\ e.type = job[j].type /\ e.asked = job[j].asked
  BY <1>1 DEF Job, Ended
<1>3. Shaped(e)
  BY <1>1, <1>2 DEF Shaped, OpenRow
<1> QED
  BY <1>2, <1>3 DEF Complete, JobStep

LEMMA EndStep ==
  ASSUME LabInv, NEW j \in Jobs, Finish(j) \/ EvaluationFails(j)
  PROVE  JobStep(j)
<1>1. job[j] \in Job /\ Shaped(job[j])
  BY DEF LabInv, JobsInv
<1>2. CASE Finish(j)
  BY <1>1, <1>2, GoneType, GoneShaped DEF Finish, At, JobStep, Shaped
<1>3. CASE EvaluationFails(j)
  BY <1>1, <1>3, FailedType, GoneShaped DEF EvaluationFails, JobStep, OpenRow
<1> QED
  BY <1>2, <1>3

LEMMA CancelStep ==
  ASSUME LabInv, NEW j \in Jobs, AskCancel(j) \/ Cancelled(j)
  PROVE  JobStep(j)
<1>1. job[j] \in Job /\ Shaped(job[j]) /\ (up /\ job[j].row \in OpenRow => job[j].pc # "over")
  BY DEF LabInv, JobsInv, OpenJobRuns, OpenRow
<1>2. CASE AskCancel(j)
  <2> DEFINE e == [job[j] EXCEPT !.asked = TRUE]
  <2>1. e \in Job /\ e.pc = job[j].pc /\ e.row = job[j].row /\ e.type = job[j].type /\ e.prompt = job[j].prompt
    BY <1>1 DEF Job
  <2>2. job[j].type \in {"none", "prompt", "benchmark", "inline"}
    BY <1>1 DEF Job
  <2>3. Shaped(e)
    BY <1>1, <1>2, <2>1, <2>2 DEF Shaped, AskCancel
  <2>4. Becomes(j, e)
    BY <1>2 DEF AskCancel
  <2> QED
    BY <1>1, <1>2, <2>1, <2>3, <2>4 DEF AskCancel, JobStep
<1>3. CASE Cancelled(j)
  <2> DEFINE e == [Gone(job[j]) EXCEPT !.row = "CANCELLED"]
  <2>1. e \in Job /\ e.pc = "over" /\ e.row = "CANCELLED" /\ e.type = job[j].type
    BY <1>1, RowType DEF Ended
  <2>2. ~e.asked
    BY DEF Gone, NoJob
  <2>3. job[j].type \in {"prompt", "benchmark"}
    BY <1>1, <1>3 DEF Cancelled, Shaped
  <2>4. Shaped(e)
    BY <2>1, <2>2, <2>3 DEF Shaped
  <2> QED
    BY <1>3, <2>1, <2>4 DEF Cancelled, JobStep, OpenRow
<1> QED
  BY <1>2, <1>3

-----------------------------------------------------------------------------
(* The process dies and starts again. *)

LEMMA CrashJobs ==
  ASSUME LabInv, Crash
  PROVE  JobsInv'
<1>1. \A j \in Jobs : job[j] \in Job /\ Shaped(job[j])
  BY DEF LabInv, JobsInv
<1>2. job' = [j \in Jobs |-> Gone(job[j])] /\ ~up'
  BY DEF Crash
<1>3. \A j \in Jobs : Gone(job[j]) \in Job /\ Shaped(Gone(job[j]))
  BY <1>1, GoneType, GoneShaped
<1> QED
  BY <1>2, <1>3 DEF JobsInv, OpenJobRuns

LEMMA RestartJobs ==
  ASSUME LabInv, Restart
  PROVE  JobsInv'
<1> DEFINE e(j) == IF Interrupted(j) THEN [job[j] EXCEPT !.row = "FAILED"] ELSE job[j]
<1>1. job' = [j \in Jobs |-> e(j)]
  BY DEF Restart
<1>2. ASSUME NEW j \in Jobs
      PROVE  e(j) \in Job /\ Shaped(e(j)) /\ e(j).row \notin OpenRow
  <2>1. job[j] \in Job /\ Shaped(job[j])
    BY DEF LabInv, JobsInv
  <2>2. CASE Interrupted(j)
    <3> DEFINE f == [job[j] EXCEPT !.row = "FAILED"]
    <3>1. /\ f \in Job /\ f.row = "FAILED" /\ f.type = job[j].type /\ f.pc = job[j].pc
          /\ f.prompt = job[j].prompt /\ f.asked = job[j].asked
      BY <2>1 DEF Job, Ended
    <3>2. job[j].row # "none"
      BY <2>2 DEF Interrupted
    <3>3. Shaped(f)
      BY <2>1, <3>1, <3>2 DEF Shaped, OpenRow
    <3>4. e(j) = f
      BY <2>2
    <3> QED
      BY <3>1, <3>3, <3>4 DEF OpenRow
  <2>3. CASE ~Interrupted(j)
    BY <2>1, <2>3 DEF Interrupted, OpenRow
  <2> QED
    BY <2>2, <2>3
<1> HIDE DEF e
<1> QED
  BY <1>1, <1>2 DEF JobsInv, OpenJobRuns, OpenRow

-----------------------------------------------------------------------------
(* The versions: nothing but an activation makes one active, and it archives *)
(* the others.                                                               *)

LEMMA SwitchVersions ==
  ASSUME VersionsInv, NEW p \in Versions, SwitchTo(p)
  PROVE  VersionsInv'
  BY DEF VersionsInv, SwitchTo, OneActive, Active, Status

LEMMA WriteVersions ==
  ASSUME VersionsInv, NEW p \in Versions, NEW s \in Status \ {"ACTIVE"},
         status' = [status EXCEPT ![p] = s] \/ status' = status
  PROVE  VersionsInv'
  BY DEF VersionsInv, OneActive, Active, Status

\* The prompt of an evaluation that is judged.
LEMMA JudgedPrompt ==
  ASSUME LabInv, NEW j \in Jobs, Judge(j)
  PROVE  job[j].prompt \in Versions /\ job[j] \in Job
  BY DEF LabInv, JobsInv, Judge, At, Shaped

LEMMA JudgeVersions ==
  ASSUME LabInv, VersionsInv, NEW j \in Jobs, Judge(j)
  PROVE  VersionsInv'
<1> DEFINE p == job[j].prompt
           verdict == IF job[j].passed THEN "VALIDATED" ELSE "FAILED"
<1>1. p \in Versions
  BY JudgedPrompt
<1>2. status' = [status EXCEPT ![p] = IF job[j].loaded = verdict THEN @ ELSE verdict]
  BY DEF Judge
<1>3. verdict \in Status \ {"ACTIVE"}
  BY DEF Status
<1>4. status' = [status EXCEPT ![p] = verdict] \/ status' = status
  BY <1>1, <1>2 DEF VersionsInv
<1> HIDE DEF p, verdict
<1> QED
  BY <1>1, <1>3, <1>4, WriteVersions

\* One request at a time, for a version.
LEMMA CommitVersions ==
  ASSUME LabInv, VersionsInv, CommitRequest
  PROVE  VersionsInv'
<1>1. request.prompt # None => request.prompt \in Versions
  BY DEF LabInv, TypeOK, Release
<1>2. CASE request.prompt # None
  BY <1>1, <1>2, SwitchVersions DEF CommitRequest
<1>3. CASE request.prompt = None
  BY <1>3 DEF CommitRequest, VersionsInv, OneActive, Active
<1> QED
  BY <1>2, <1>3

LEMMA InstallVersions ==
  ASSUME VersionsInv, InstallBuiltin
  PROVE  VersionsInv'
<1>1. CASE status[Builtin] = "ACTIVE"
  BY <1>1 DEF InstallBuiltin, VersionsInv, OneActive, Active
<1>2. CASE status[Builtin] # "ACTIVE"
  BY <1>2, SwitchVersions DEF InstallBuiltin, Versions
<1> QED
  BY <1>1, <1>2

-----------------------------------------------------------------------------
(* The rest. *)

LEMMA RestSame ==
  ASSUME RestType, UNCHANGED <<run, goldVars, request, released, seeding, up, crashes>>
  PROVE  RestType'
  BY DEF RestType, goldVars

LEMMA EditRest ==
  ASSUME RestType, NEW c \in Cases, NEW live \in BOOLEAN, EditGold(c, live)
  PROVE  RestType'
<1>1. edits + 1 \in 0..MaxEdits
  BY LabAssumption DEF LabAssumption, RestType, EditGold
<1>2. edits' \in 0..MaxEdits
  BY <1>1 DEF EditGold
<1>3. [live |-> live, stamp |-> edits + 1] \in [live : BOOLEAN, stamp : 0..MaxEdits]
  BY <1>1
<1>4. gold' \in [Cases -> [live : BOOLEAN, stamp : 0..MaxEdits]]
  BY <1>3 DEF RestType, EditGold
<1> QED
  BY <1>2, <1>4 DEF RestType, EditGold, promptVars

LEMMA CandidateRest ==
  ASSUME RestType, JobsInv, NEW j \in Jobs, EvaluateCandidate(j)
  PROVE  RestType'
<1>1. job[j].base \in Versions \cup {None}
  BY DEF JobsInv, Job
<1>2. run' \in [Versions -> {"none", "pass", "fail"}]
  <2>1. CASE job[j].base \notin {None, job[j].prompt}
    <3>1. PICK ok \in {"pass", "fail"} : run' = [run EXCEPT ![job[j].base] = ok]
      BY <2>1 DEF EvaluateCandidate
    <3> QED
      BY <3>1 DEF RestType
  <2>2. CASE job[j].base \in {None, job[j].prompt}
    BY <2>2 DEF EvaluateCandidate, RestType
  <2> QED
    BY <2>1, <2>2
<1>3. UNCHANGED <<goldVars, request, released, seeding, up, crashes>>
  BY DEF EvaluateCandidate
<1> QED
  BY <1>2, <1>3 DEF RestType, goldVars

LEMMA JudgeRest ==
  ASSUME LabInv, RestType, NEW j \in Jobs, Judge(j)
  PROVE  RestType'
<1> DEFINE p == job[j].prompt
           bare == job[j].ok = "none" /\ ~job[j].bound
<1>1. job[j].ok \in {"none", "pass", "fail"}
  BY JudgedPrompt DEF Job
<1>2. run' = [run EXCEPT ![p] = IF bare THEN @ ELSE job[j].ok]
  BY DEF Judge
<1>3. p \in Versions
  BY JudgedPrompt
<1> HIDE DEF p, bare
<1>4. run' \in [Versions -> {"none", "pass", "fail"}]
  BY <1>1, <1>2, <1>3 DEF RestType
<1>5. UNCHANGED <<goldVars, request, released, seeding, up, crashes>>
  BY DEF Judge
<1> QED
  BY <1>4, <1>5 DEF RestType, goldVars

LEMMA ReadRest ==
  ASSUME LabInv, RestType,
         \/ \E p \in Versions : ReadActivate(p) \/ \E j \in Jobs : ReadPublish(p, j)
         \/ \E j \in Jobs : ReadRelease(j)
  PROVE  RestType'
<1>1. Benchmark \in Stamped /\ {} \in Stamped
  BY BenchmarkType DEF LabInv, Stamped
<1>2. request' \in Release
  BY <1>1 DEF ReadActivate, ReadPublish, ReadRelease, Release
<1>3. UNCHANGED <<run, goldVars, released, seeding, up, crashes>>
  BY DEF ReadActivate, ReadPublish, ReadRelease, promptVars
<1> QED
  BY <1>2, <1>3 DEF RestType, goldVars

LEMMA NoRequestType == NoRequest \in Release
  BY DEF NoRequest, Release, Stamped

LEMMA CommitRest ==
  ASSUME RestType, CommitRequest
  PROVE  RestType'
  BY NoRequestType DEF RestType, CommitRequest, goldVars

LEMMA ProcessRest ==
  ASSUME RestType, Crash \/ Restart
  PROVE  RestType'
<1>1. CASE Crash
  <2>1. crashes' \in 0..MaxCrashes
    BY <1>1, LabAssumption DEF LabAssumption, RestType, Crash
  <2>2. /\ ~up' /\ request' = NoRequest /\ ~seeding'
        /\ UNCHANGED <<run, gold, edits, released>>
    BY <1>1 DEF Crash, promptVars, goldVars
  <2>3. up' \in BOOLEAN /\ seeding' \in BOOLEAN
    BY <1>1 DEF Crash
  <2> QED
    BY <2>1, <2>2, <2>3, NoRequestType DEF RestType
<1>2. CASE Restart
  <2>1. up' \in BOOLEAN
    BY <1>2 DEF Restart
  <2> QED
    BY <1>2, <2>1 DEF Restart, RestType, promptVars, goldVars
<1> QED
  BY <1>1, <1>2

LEMMA SeedRest ==
  ASSUME RestType, FindNoneActive \/ InstallBuiltin
  PROVE  RestType'
<1>1. seeding' \in BOOLEAN
  BY DEF FindNoneActive, InstallBuiltin
<1>2. UNCHANGED <<run, goldVars, request, released, up, crashes>>
  BY DEF FindNoneActive, InstallBuiltin, promptVars
<1> QED
  BY <1>1, <1>2 DEF RestType, goldVars

-----------------------------------------------------------------------------
(* A step of Next. *)

LEMMA VersionsSame ==
  ASSUME VersionsInv, UNCHANGED status
  PROVE  VersionsInv'
  BY DEF VersionsInv, OneActive, Active

LEMMA JobsSame ==
  ASSUME JobsInv, UNCHANGED <<job, up>>
  PROVE  JobsInv'
  BY DEF JobsInv, OpenJobRuns

LEMMA NextInv == LabInv /\ [Next]_vars => LabInv'
<1> SUFFICES ASSUME LabInv, [Next]_vars PROVE RestType' /\ JobsInv' /\ VersionsInv'
  BY LabParts DEF LabInv, TypeOK, JobsInv, RestType, Shaped, VersionsInv, Status, OneActive, OpenJobRuns
<1> USE LabParts
<1>1. ASSUME NEW p \in Prompts, CreateCandidate(p)
      PROVE  RestType' /\ JobsInv' /\ VersionsInv'
  <2>1. VersionsInv'
    BY <1>1, WriteVersions DEF CreateCandidate, Versions, Status
  <2> QED
    BY <1>1, <2>1, RestSame, JobsSame DEF CreateCandidate
<1>2. ASSUME \/ \E p \in Versions : ReadActivate(p) \/ \E j \in Jobs : ReadPublish(p, j)
             \/ \E j \in Jobs : ReadRelease(j)
      PROVE  RestType' /\ JobsInv' /\ VersionsInv'
  <2>1. UNCHANGED <<job, up, status>>
    BY <1>2 DEF ReadActivate, ReadPublish, ReadRelease, promptVars
  <2> QED
    BY <1>2, <2>1, ReadRest, JobsSame, VersionsSame
<1>3. ASSUME NEW j \in Jobs, CreateJob(j, "benchmark", None)
      PROVE  RestType' /\ JobsInv' /\ VersionsInv'
  <2>1. JobStep(j)
    BY <1>3, CreateStep
  <2> QED
    BY <1>3, <2>1, JobStepInv, RestSame, VersionsSame DEF CreateJob, promptVars
<1>4. ASSUME NEW j \in Jobs, NEW p \in Versions, CreateJob(j, "prompt", p) \/ EvaluateInline(j, p)
      PROVE  RestType' /\ JobsInv' /\ VersionsInv'
  <2>1. JobStep(j)
    BY <1>4, CreateStep, InlineStep
  <2> QED
    BY <1>4, <2>1, JobStepInv, RestSame, VersionsSame DEF CreateJob, EvaluateInline, promptVars
<1>5. ASSUME NEW j \in Jobs, EvaluateCandidate(j)
      PROVE  RestType' /\ JobsInv' /\ VersionsInv'
  <2>1. JobStep(j)
    BY <1>5, CandidateStep
  <2>2. UNCHANGED <<status, up>>
    BY <1>5 DEF EvaluateCandidate
  <2> QED
    BY <1>5, <2>1, <2>2, JobStepInv, CandidateRest, VersionsSame
<1>6. ASSUME NEW j \in Jobs, Judge(j)
      PROVE  RestType' /\ JobsInv' /\ VersionsInv'
  <2>1. JobStep(j)
    BY <1>6, JudgeStep
  <2>2. UNCHANGED up
    BY <1>6 DEF Judge
  <2> QED
    BY <1>6, <2>1, <2>2, JobStepInv, JudgeRest, JudgeVersions
<1>7. ASSUME NEW j \in Jobs,
             \/ Start(j) \/ EvaluateBaseline(j) \/ Complete(j) \/ Finish(j) \/ Cancelled(j)
             \/ EvaluationFails(j) \/ AskCancel(j)
      PROVE  RestType' /\ JobsInv' /\ VersionsInv'
  <2>1. JobStep(j)
    BY <1>7, StartStep, BaselineStep, CompleteStep, EndStep, CancelStep
  <2>2. UNCHANGED <<promptVars, goldVars, request, released, seeding, up, crashes>>
    BY <1>7 DEF Start, EvaluateBaseline, Complete, Finish, Cancelled, EvaluationFails, AskCancel
  <2>3. UNCHANGED <<status, run, up>>
    BY <2>2 DEF promptVars
  <2> QED
    BY <2>1, <2>2, <2>3, JobStepInv, RestSame, VersionsSame
<1>8. ASSUME NEW c \in Cases, NEW live \in BOOLEAN, EditGold(c, live)
      PROVE  RestType' /\ JobsInv' /\ VersionsInv'
  BY <1>8, EditRest, JobsSame, VersionsSame DEF EditGold, promptVars
<1>9. ASSUME FindNoneActive \/ InstallBuiltin
      PROVE  RestType' /\ JobsInv' /\ VersionsInv'
  <2>1. VersionsInv'
    BY <1>9, InstallVersions, VersionsSame DEF FindNoneActive, promptVars
  <2>2. UNCHANGED <<job, up>>
    BY <1>9 DEF FindNoneActive, InstallBuiltin
  <2> QED
    BY <1>9, <2>1, <2>2, SeedRest, JobsSame
<1>10. ASSUME CommitRequest
       PROVE  RestType' /\ JobsInv' /\ VersionsInv'
  <2>1. UNCHANGED <<job, up>>
    BY <1>10 DEF CommitRequest
  <2> QED
    BY <1>10, <2>1, CommitVersions, CommitRest, JobsSame
<1>11. ASSUME Crash \/ Restart
       PROVE  RestType' /\ JobsInv' /\ VersionsInv'
  <2>1. UNCHANGED status
    BY <1>11 DEF Crash, Restart, promptVars
  <2> QED
    BY <1>11, <2>1, CrashJobs, RestartJobs, ProcessRest, VersionsSame
<1>12. ASSUME UNCHANGED vars
       PROVE  RestType' /\ JobsInv' /\ VersionsInv'
  <2>1. UNCHANGED <<status, run, job, up, goldVars, request, released, seeding, crashes>>
    BY <1>12 DEF vars, promptVars
  <2> QED
    BY <2>1, RestSame, JobsSame, VersionsSame
<1> QED
  BY <1>1, <1>2, <1>3, <1>4, <1>5, <1>6, <1>7, <1>8, <1>9, <1>10, <1>11, <1>12 DEF Next, Evaluate

-----------------------------------------------------------------------------
(* The inductive invariant holds, and what follows from it. *)
THEOREM LabInvHolds == Spec => []LabInv
  BY InitInv, NextInv, PTL DEF Spec

(***************************************************************************)
(* Type correctness: an evaluation inside a request never gets a row of    *)
(* admin_jobs, whatever fails or is cancelled around it.                   *)
(***************************************************************************)
THEOREM PromptTypeCorrect == Spec => []TypeOK
<1>1. LabInv => TypeOK
  BY DEF LabInv
<1> QED
  BY <1>1, LabInvHolds, PTL

(***************************************************************************)
(* At most one version is in use: late verdicts, switches and the          *)
(* installation of the built-in prompt never leave two of them active,     *)
(* however many prompts, evaluations and deaths of the process there are.  *)
(***************************************************************************)
THEOREM OnePromptInUse == Spec => []OneInUse
<1>1. LabInv => OneInUse
  <2> SUFFICES ASSUME LabInv PROVE Cardinality(Active) <= 1
    BY DEF OneInUse
  <2>1. CASE Active = {}
    BY <2>1, FS_EmptySet
  <2>2. CASE Active # {}
    <3>1. PICK p \in Active : TRUE
      BY <2>2
    <3>2. Active = {p}
      BY <3>1 DEF LabInv, OneActive
    <3> QED
      BY <3>2, FS_Singleton
  <2> QED
    BY <2>1, <2>2
<1> QED
  BY <1>1, LabInvHolds, PTL

(***************************************************************************)
(* While the service runs, every open job has the coroutine that will end  *)
(* it: a job that was open when the process died is closed at the start.   *)
(***************************************************************************)
THEOREM OpenJobsRun == Spec => []OpenJobRuns
<1>1. LabInv => OpenJobRuns
  BY DEF LabInv, JobsInv
<1> QED
  BY <1>1, LabInvHolds, PTL

-----------------------------------------------------------------------------
(***************************************************************************)
(* What evaluations have found out.  A verdict that was passed stays, with *)
(* its prompt; and what was read of a case whose snapshot is still the     *)
(* case's present answer is that answer, since every edit has a new date.  *)
(***************************************************************************)
Proved(e) == e.passed /\ e.pc \in {"ending", "finishing", "over"}

Tested(p) == \E j \in Jobs : Proved(job[j]) /\ job[j].prompt = p

\* A version in production was a candidate with a good verdict before, and so was
\* the one that a request is about to switch to.
ProductionInv ==
    /\ \A p \in Prompts : status[p] \in {"VALIDATED", "ACTIVE", "ARCHIVED"} => Tested(p)
    /\ request.prompt \in Prompts => Tested(request.prompt)

Grounded(e) ==
    /\ e.row = "COMPLETED" => e.pc \in {"finishing", "over"}
    /\ e.type = "benchmark" => e.prompt = None
    /\ \A s \in e.snapshot : s[2] <= edits
    /\ \A read \in e.reads : e.snapshot \cap Benchmark \subseteq read

\* What a release was checked against still stands.
Justified(r) ==
    r.job # None =>
        /\ Proved(job[r.job]) /\ job[r.job].prompt = r.prompt
        /\ \A read \in job[r.job].reads : r.seen \subseteq read

JobsGrounded ==
    /\ \A j \in Jobs : Grounded(job[j])
    /\ \A c \in Cases : gold[c].stamp <= edits

EvidenceInv ==
    /\ JobsGrounded
    /\ Justified(request) /\ Justified(released)
    /\ released.job = None => released = NoRequest

\* A step keeps a verdict, with its prompt, and adds nothing to what it read.
Kept(e, f) ==
    Proved(e) => Proved(f) /\ f.prompt = e.prompt /\ f.reads \subseteq e.reads

\* Whatever the row becomes: what is gone keeps its verdict.
LEMMA GoneKept ==
  ASSUME NEW e \in Job, Grounded(e), NEW r
  PROVE  LET f == [Gone(e) EXCEPT !.row = r]
         IN Grounded(f) /\ Kept(e, f) /\ Grounded(Gone(e)) /\ Kept(e, Gone(e))
<1> DEFINE base == [NoJob EXCEPT !.type = e.type, !.row = e.row]
           judged == [base EXCEPT !.prompt = e.prompt, !.passed = TRUE]
           complete == [base EXCEPT !.prompt = e.prompt, !.passed = TRUE, !.snapshot = e.snapshot, !.reads = e.reads]
           g == Gone(e)
           f == [g EXCEPT !.row = r]
<1>1. /\ g.pc = "over" /\ g.type = e.type /\ g.prompt \in {None, e.prompt}
      /\ (g.snapshot = {} /\ g.reads = {}) \/ (g.snapshot = e.snapshot /\ g.reads = e.reads)
      /\ Proved(e) => g.passed /\ g.prompt = e.prompt
  <2>1. CASE g = base
    BY <2>1 DEF Gone, NoJob, Proved
  <2>2. CASE g = judged
    BY <2>2 DEF NoJob
  <2>3. CASE g = complete
    BY <2>3 DEF NoJob
  <2> QED
    BY <2>1, <2>2, <2>3 DEF Gone
<1>2. /\ f.pc = "over" /\ f.type = g.type /\ f.prompt = g.prompt /\ f.passed = g.passed
      /\ f.snapshot = g.snapshot /\ f.reads = g.reads
  BY GoneType DEF Job
<1> HIDE DEF f, g
<1>3. Grounded(g) /\ Kept(e, g)
  BY <1>1 DEF Grounded, Kept, Proved
<1>4. Grounded(f) /\ Kept(e, f)
  BY <1>1, <1>2 DEF Grounded, Kept, Proved
<1> QED
  BY <1>3, <1>4 DEF f, g

-----------------------------------------------------------------------------
(* Each step of an evaluation. *)

Advance(j) == \E f : Becomes(j, f) /\ Grounded(f) /\ Kept(job[j], f)

LEMMA CreateAdvances ==
  ASSUME LabInv, EvidenceInv, NEW j \in Jobs, NEW type \in {"prompt", "benchmark"},
         NEW p \in Versions \cup {None}, type = "benchmark" => p = None,
         CreateJob(j, type, p)
  PROVE  Advance(j)
<1> DEFINE f == [NoJob EXCEPT !.type = type, !.row = "QUEUED", !.pc = "scheduled",
                              !.prompt = p, !.snapshot = Snapshot]
<1>1. \A s \in Snapshot : s[2] <= edits
  BY DEF Snapshot, Benchmark, EvidenceInv, JobsGrounded
<1>2. f.row = "QUEUED" /\ f.type = type /\ f.prompt = p /\ f.snapshot = Snapshot /\ f.reads = {}
  BY DEF NoJob
<1>3. ~Proved(job[j])
  BY DEF CreateJob, Proved, NoJob
<1>4. Becomes(j, f)
  BY DEF CreateJob
<1> HIDE DEF f
<1> QED
  BY <1>1, <1>2, <1>3, <1>4 DEF Advance, Grounded, Kept

LEMMA InlineAdvances ==
  ASSUME NEW j \in Jobs, NEW p \in Versions, EvaluateInline(j, p)
  PROVE  Advance(j)
<1> DEFINE f == [NoJob EXCEPT !.type = "inline", !.pc = "scheduled", !.prompt = p]
<1>1. f.row = "none" /\ f.type = "inline" /\ f.snapshot = {} /\ f.reads = {}
  BY DEF NoJob
<1>2. ~Proved(job[j])
  BY DEF EvaluateInline, Proved, NoJob
<1>3. Becomes(j, f)
  BY DEF EvaluateInline
<1> HIDE DEF f
<1> QED
  BY <1>1, <1>2, <1>3 DEF Advance, Grounded, Kept

LEMMA StartAdvances ==
  ASSUME LabInv, EvidenceInv, NEW j \in Jobs, Start(j)
  PROVE  Advance(j)
<1>1. job[j] \in Job /\ Grounded(job[j]) /\ job[j].pc = "scheduled"
  BY DEF LabInv, JobsInv, EvidenceInv, JobsGrounded, Start, At
<1> DEFINE b == IF job[j].type = "inline" THEN CHOOSE p \in Active : TRUE ELSE None
           l == IF job[j].type = "benchmark" THEN "none" ELSE status[job[j].prompt]
           r == IF job[j].row = "QUEUED" THEN "RUNNING" ELSE job[j].row
           label == IF job[j].type = "benchmark" THEN "candidate" ELSE "baseline"
           bd == job[j].prompt # None /\ run[job[j].prompt] # "none"
           f == [job[j] EXCEPT !.row = r, !.pc = label, !.base = b, !.loaded = l, !.bound = bd]
<1>2. Becomes(j, f)
  BY DEF Start
<1>3. r = "COMPLETED" => job[j].row = "COMPLETED"
  OBVIOUS
<1> HIDE DEF r, label, b, l, bd
<1>4. /\ f.row = r /\ f.type = job[j].type /\ f.prompt = job[j].prompt
      /\ f.snapshot = job[j].snapshot /\ f.reads = job[j].reads
  BY <1>1 DEF Job
<1> HIDE DEF f
<1> QED
  BY <1>1, <1>2, <1>3, <1>4 DEF Advance, Grounded, Kept, Proved

\* What is read is what the cases say now.
LEMMA ReadsPresent ==
  ASSUME NEW e \in Job, Grounded(e)
  PROVE  \A read \in Read(e) : e.snapshot \cap Benchmark \subseteq read
  BY DEF Read, Grounded

LEMMA BaselineAdvances ==
  ASSUME LabInv, EvidenceInv, NEW j \in Jobs, EvaluateBaseline(j)
  PROVE  Advance(j)
<1>1. job[j] \in Job /\ Grounded(job[j]) /\ job[j].pc = "baseline"
  BY DEF LabInv, JobsInv, EvidenceInv, JobsGrounded, EvaluateBaseline, At
<1> DEFINE b == IF Benchmark = {} THEN None ELSE job[j].base
           f == [job[j] EXCEPT !.pc = "candidate", !.reads = Read(job[j]), !.base = b]
<1>2. /\ f.row = job[j].row /\ f.type = job[j].type /\ f.prompt = job[j].prompt
      /\ f.snapshot = job[j].snapshot /\ f.reads = Read(job[j])
  BY <1>1 DEF Job
<1>3. Becomes(j, f)
  BY DEF EvaluateBaseline
<1> HIDE DEF f
<1> QED
  BY <1>1, <1>2, <1>3, ReadsPresent DEF Advance, Grounded, Kept, Proved

LEMMA CandidateAdvances ==
  ASSUME LabInv, EvidenceInv, NEW j \in Jobs, EvaluateCandidate(j)
  PROVE  Advance(j)
<1>1. job[j] \in Job /\ Grounded(job[j]) /\ job[j].pc = "candidate"
  BY DEF LabInv, JobsInv, EvidenceInv, JobsGrounded, EvaluateCandidate, At
<1>2. PICK label, passed, ok :
        Becomes(j, [job[j] EXCEPT !.pc = label, !.reads = Read(job[j]), !.base = None,
                                  !.passed = passed, !.ok = ok])
  BY DEF EvaluateCandidate
<1> DEFINE f == [job[j] EXCEPT !.pc = label, !.reads = Read(job[j]), !.base = None,
                               !.passed = passed, !.ok = ok]
<1>3. /\ f.row = job[j].row /\ f.type = job[j].type /\ f.prompt = job[j].prompt
      /\ f.snapshot = job[j].snapshot /\ f.reads = Read(job[j])
  BY <1>1 DEF Job
<1>4. Becomes(j, f)
  BY <1>2
<1> HIDE DEF f
<1> QED
  BY <1>1, <1>3, <1>4, ReadsPresent DEF Advance, Grounded, Kept, Proved

LEMMA JudgeAdvances ==
  ASSUME LabInv, EvidenceInv, NEW j \in Jobs, Judge(j)
  PROVE  Advance(j)
<1>1. job[j] \in Job /\ Grounded(job[j]) /\ job[j].pc = "judging"
  BY DEF LabInv, JobsInv, EvidenceInv, JobsGrounded, Judge, At
<1> DEFINE label == IF job[j].type = "inline" THEN "finishing" ELSE "ending"
           f == [job[j] EXCEPT !.pc = label]
<1>2. /\ f.row = job[j].row /\ f.type = job[j].type /\ f.prompt = job[j].prompt
      /\ f.snapshot = job[j].snapshot /\ f.reads = job[j].reads
  BY <1>1 DEF Job
<1>3. Becomes(j, f)
  BY DEF Judge
<1> HIDE DEF f
<1> QED
  BY <1>1, <1>2, <1>3 DEF Advance, Grounded, Kept, Proved

LEMMA CompleteAdvances ==
  ASSUME LabInv, EvidenceInv, NEW j \in Jobs, Complete(j)
  PROVE  Advance(j)
<1>1. job[j] \in Job /\ Grounded(job[j])
  BY DEF LabInv, JobsInv, EvidenceInv, JobsGrounded
<1> DEFINE f == [job[j] EXCEPT !.row = "COMPLETED", !.pc = "finishing"]
<1>2. /\ f.pc = "finishing" /\ f.type = job[j].type /\ f.prompt = job[j].prompt
      /\ f.passed = job[j].passed /\ f.snapshot = job[j].snapshot /\ f.reads = job[j].reads
  BY <1>1 DEF Job
<1>3. Becomes(j, f)
  BY DEF Complete
<1> HIDE DEF f
<1> QED
  BY <1>1, <1>2, <1>3 DEF Advance, Grounded, Kept, Proved

LEMMA AskAdvances ==
  ASSUME LabInv, EvidenceInv, NEW j \in Jobs, AskCancel(j)
  PROVE  Advance(j)
<1>1. job[j] \in Job /\ Grounded(job[j])
  BY DEF LabInv, JobsInv, EvidenceInv, JobsGrounded
<1> DEFINE f == [job[j] EXCEPT !.asked = TRUE]
<1>2. /\ f.pc = job[j].pc /\ f.row = job[j].row /\ f.type = job[j].type /\ f.prompt = job[j].prompt
      /\ f.passed = job[j].passed /\ f.snapshot = job[j].snapshot /\ f.reads = job[j].reads
  BY <1>1 DEF Job
<1>3. Becomes(j, f)
  BY DEF AskCancel
<1> HIDE DEF f
<1> QED
  BY <1>1, <1>2, <1>3 DEF Advance, Grounded, Kept, Proved

LEMMA EndAdvances ==
  ASSUME LabInv, EvidenceInv, NEW j \in Jobs, Finish(j) \/ EvaluationFails(j) \/ Cancelled(j)
  PROVE  Advance(j)
<1>1. job[j] \in Job /\ Grounded(job[j])
  BY DEF LabInv, JobsInv, EvidenceInv, JobsGrounded
<1>2. CASE Finish(j)
  BY <1>1, <1>2, GoneKept DEF Finish, Advance
<1>3. CASE EvaluationFails(j)
  BY <1>1, <1>3, GoneKept DEF EvaluationFails, Failed, Advance
<1>4. CASE Cancelled(j)
  BY <1>1, <1>4, GoneKept DEF Cancelled, Advance
<1> QED
  BY <1>2, <1>3, <1>4

-----------------------------------------------------------------------------
(* What a step does to all evaluations. *)

\* Every evaluation is grounded as far as the present cases go, and keeps its verdict.
AllAdvance ==
    \A k \in Jobs : /\ (Grounded(job[k]) => Grounded(job'[k]))
                    /\ Kept(job[k], job'[k])

LEMMA AdvanceAll ==
  ASSUME LabInv, NEW j \in Jobs, Advance(j)
  PROVE  AllAdvance
<1>1. PICK f : Becomes(j, f) /\ Grounded(f) /\ Kept(job[j], f)
  BY DEF Advance
<1>2. job'[j] = f /\ \A k \in Jobs \ {j} : job'[k] = job[k]
  BY <1>1 DEF Becomes, LabInv, JobsInv
<1> QED
  BY <1>1, <1>2 DEF AllAdvance, Kept

LEMMA AdvanceSame ==
  ASSUME UNCHANGED job
  PROVE  AllAdvance
  BY DEF AllAdvance, Kept

LEMMA ProcessAdvances ==
  ASSUME LabInv, EvidenceInv, Crash \/ Restart
  PROVE  AllAdvance
<1> SUFFICES ASSUME NEW k \in Jobs
             PROVE  (Grounded(job[k]) => Grounded(job'[k])) /\ Kept(job[k], job'[k])
  BY DEF AllAdvance
<1>1. job[k] \in Job /\ Grounded(job[k])
  BY DEF LabInv, JobsInv, EvidenceInv, JobsGrounded
<1>2. CASE Crash
  BY <1>1, <1>2, GoneKept DEF Crash
<1>3. CASE Restart
  <2> DEFINE f == [job[k] EXCEPT !.row = "FAILED"]
  <2>1. /\ f.pc = job[k].pc /\ f.row = "FAILED" /\ f.type = job[k].type /\ f.prompt = job[k].prompt
        /\ f.passed = job[k].passed /\ f.snapshot = job[k].snapshot /\ f.reads = job[k].reads
    BY <1>1 DEF Job
  <2>2. job'[k] \in {f, job[k]}
    BY <1>3 DEF Restart
  <2> HIDE DEF f
  <2> QED
    BY <1>1, <2>1, <2>2 DEF Grounded, Kept, Proved
<1> QED
  BY <1>2, <1>3

LEMMA NextAdvances ==
  ASSUME LabInv, EvidenceInv, [Next]_vars
  PROVE  AllAdvance
<1>1. ASSUME NEW j \in Jobs,
             \/ CreateJob(j, "benchmark", None)
             \/ \E p \in Versions : CreateJob(j, "prompt", p) \/ EvaluateInline(j, p)
             \/ Evaluate(j) \/ EvaluationFails(j) \/ AskCancel(j)
      PROVE  AllAdvance
  <2>1. CASE CreateJob(j, "benchmark", None)
    BY <2>1, CreateAdvances, AdvanceAll
  <2>2. CASE \E p \in Versions : CreateJob(j, "prompt", p)
    BY <2>2, CreateAdvances, AdvanceAll
  <2>3. CASE \E p \in Versions : EvaluateInline(j, p)
    BY <2>3, InlineAdvances, AdvanceAll
  <2>4. CASE Evaluate(j) \/ EvaluationFails(j) \/ AskCancel(j)
    BY <2>4, StartAdvances, BaselineAdvances, CandidateAdvances, JudgeAdvances, CompleteAdvances,
       AskAdvances, EndAdvances, AdvanceAll DEF Evaluate
  <2> QED
    BY <1>1, <2>1, <2>2, <2>3, <2>4
<1>2. CASE Crash \/ Restart
  BY <1>2, ProcessAdvances
<1>3. CASE UNCHANGED vars
  BY <1>3, AdvanceSame DEF vars
<1>4. ASSUME NEW p \in Versions, NEW j \in Jobs, ReadPublish(p, j)
      PROVE  AllAdvance
  BY <1>4, AdvanceSame DEF ReadPublish
<1>5. ASSUME NEW p \in Versions, ReadActivate(p)
      PROVE  AllAdvance
  BY <1>5, AdvanceSame DEF ReadActivate
<1>6. ASSUME NEW j \in Jobs, ReadRelease(j)
      PROVE  AllAdvance
  BY <1>6, AdvanceSame DEF ReadRelease
<1>7. CASE \/ \E p \in Prompts : CreateCandidate(p)
           \/ \E c \in Cases, live \in BOOLEAN : EditGold(c, live)
           \/ FindNoneActive \/ InstallBuiltin \/ CommitRequest
  BY <1>7, AdvanceSame DEF CreateCandidate, EditGold, FindNoneActive, InstallBuiltin, CommitRequest
<1> QED
  BY <1>1, <1>2, <1>3, <1>4, <1>5, <1>6, <1>7 DEF Next

-----------------------------------------------------------------------------
(* The cases: an edit gives a case a date that no snapshot has. *)

LEMMA CasesKeepGrounds ==
  ASSUME LabInv, EvidenceInv, [Next]_vars
  PROVE  JobsGrounded'
<1>1. CASE UNCHANGED <<gold, edits>>
  <2>1. Benchmark' = Benchmark
    BY <1>1 DEF Benchmark
  <2>2. ASSUME NEW k \in Jobs PROVE Grounded(job[k])'
    <3>1. Grounded(job'[k])
      BY NextAdvances DEF AllAdvance, EvidenceInv, JobsGrounded
    <3> QED
      BY <1>1, <2>1, <3>1 DEF Grounded
  <2> QED
    BY <1>1, <2>2 DEF JobsGrounded, EvidenceInv
<1>2. ASSUME NEW c \in Cases, NEW live \in BOOLEAN, EditGold(c, live)
      PROVE  JobsGrounded'
  <2>1. gold \in [Cases -> [live : BOOLEAN, stamp : 0..MaxEdits]] /\ edits \in Nat
    BY LabAssumption DEF LabAssumption, LabInv, TypeOK
  <2>2. gold' = [gold EXCEPT ![c] = [live |-> live, stamp |-> edits + 1]] /\ edits' = edits + 1 /\ job' = job
    BY <1>2 DEF EditGold
  <2>3. \A s \in Benchmark' : s \in Benchmark \/ s[2] = edits + 1
    BY <2>1, <2>2 DEF Benchmark
  <2>4. ASSUME NEW k \in Jobs PROVE Grounded(job[k])'
    <3>1. Grounded(job[k]) /\ job[k] \in Job
      BY DEF EvidenceInv, JobsGrounded, LabInv, JobsInv
    <3>2. \A s \in job[k].snapshot : s[2] \in Nat
      BY <3>1 DEF Job, Stamped
    <3>3. \A s \in job[k].snapshot : s[2] <= edits + 1 /\ s[2] # edits + 1
      BY <2>1, <3>1, <3>2 DEF Grounded
    <3>4. job[k].snapshot \cap Benchmark' \subseteq job[k].snapshot \cap Benchmark
      BY <2>3, <3>3
    <3> QED
      BY <2>2, <3>1, <3>3, <3>4 DEF Grounded
  <2>5. ASSUME NEW d \in Cases PROVE gold'[d].stamp <= edits'
    <3>1. gold[d].stamp <= edits /\ gold[d].stamp \in Nat
      BY <2>1, LabAssumption DEF LabAssumption, EvidenceInv, JobsGrounded
    <3> QED
      BY <2>1, <2>2, <3>1
  <2> QED
    BY <2>4, <2>5 DEF JobsGrounded
<1>3. \/ UNCHANGED <<gold, edits>>
      \/ \E c \in Cases, live \in BOOLEAN : EditGold(c, live)
  <2> USE DEF goldVars
  <2>1. ASSUME NEW j \in Jobs, Evaluate(j) PROVE UNCHANGED <<gold, edits>>
    BY <2>1 DEF Evaluate, Start, EvaluateBaseline, EvaluateCandidate, Judge, Complete, Finish, Cancelled
  <2>2. ASSUME NEW j \in Jobs, NEW p \in Versions \cup {None},
               \/ CreateJob(j, "benchmark", None) \/ CreateJob(j, "prompt", p) \/ EvaluateInline(j, p)
               \/ EvaluationFails(j) \/ AskCancel(j)
               \/ ReadPublish(p, j) \/ ReadRelease(j)
        PROVE  UNCHANGED <<gold, edits>>
    BY <2>2 DEF CreateJob, EvaluateInline, EvaluationFails, AskCancel, ReadPublish, ReadRelease
  <2>3. ASSUME NEW p \in Versions, ReadActivate(p) PROVE UNCHANGED <<gold, edits>>
    BY <2>3 DEF ReadActivate
  <2>4. CASE \/ \E p \in Prompts : CreateCandidate(p)
             \/ FindNoneActive \/ InstallBuiltin \/ CommitRequest \/ Crash \/ Restart
    BY <2>4 DEF CreateCandidate, FindNoneActive, InstallBuiltin, CommitRequest, Crash, Restart
  <2>5. CASE UNCHANGED vars
    BY <2>5 DEF vars
  <2> QED
    BY <2>1, <2>2, <2>3, <2>4, <2>5 DEF Next
<1> QED
  BY <1>1, <1>2, <1>3

-----------------------------------------------------------------------------
(* Releases: a request sees an evaluation that has ended, and what is        *)
(* released is what a request has seen.                                      *)

LEMMA JustifiedStays ==
  ASSUME AllAdvance, NEW r \in Release, Justified(r)
  PROVE  Justified(r)'
  BY DEF AllAdvance, Justified, Kept, Release

LEMMA NoRequestJustified == NoRequest.job = None /\ Justified(NoRequest)
  BY DEF Justified, NoRequest

\* The snapshot is what the cases are now, and so each part read at least that.
LEMMA ReadJustified ==
  ASSUME LabInv, EvidenceInv, NEW j \in Jobs, NEW p \in Versions \cup {None},
         job[j].row = "COMPLETED", job[j].prompt = p, job[j].passed, job[j].snapshot = Snapshot
  PROVE  Justified([job |-> j, prompt |-> p, seen |-> Benchmark])
<1>1. Grounded(job[j])
  BY DEF EvidenceInv, JobsGrounded
<1>2. Proved(job[j])
  BY <1>1 DEF Grounded, Proved
<1>3. \A read \in job[j].reads : Benchmark \subseteq read
  BY <1>1 DEF Grounded, Snapshot
<1> QED
  BY <1>2, <1>3 DEF Justified

LEMMA RequestMoves ==
  ASSUME LabInv, EvidenceInv, [Next]_vars
  PROVE  \/ request' = request /\ released' = released
         \/ request' = NoRequest /\ released' \in {request, released}
               /\ (released' = request => request.job # None \/ released = request)
         \/ /\ released' = released /\ Justified(request')
            /\ request'.prompt \in Prompts => status[request'.prompt] \in {"VALIDATED", "ARCHIVED"}
            /\ UNCHANGED <<status, job>>
<1>1. ASSUME NEW p \in Versions, ReadActivate(p)
      PROVE  /\ released' = released /\ Justified(request')
             /\ request'.prompt \in Prompts => status[request'.prompt] \in {"VALIDATED", "ARCHIVED"}
             /\ UNCHANGED <<status, job>>
  BY <1>1 DEF ReadActivate, MayActivate, Justified, promptVars
<1>2. ASSUME NEW p \in Versions, NEW j \in Jobs, ReadPublish(p, j)
      PROVE  /\ released' = released /\ Justified(request')
             /\ request'.prompt \in Prompts => status[request'.prompt] \in {"VALIDATED", "ARCHIVED"}
             /\ UNCHANGED <<status, job>>
  BY <1>2, ReadJustified DEF ReadPublish, promptVars
<1>3. ASSUME NEW j \in Jobs, ReadRelease(j)
      PROVE  /\ released' = released /\ Justified(request')
             /\ request'.prompt \in Prompts => status[request'.prompt] \in {"VALIDATED", "ARCHIVED"}
             /\ UNCHANGED <<status, job>>
  <2>1. job[j].prompt = None
    BY <1>3 DEF ReadRelease, EvidenceInv, JobsGrounded, Grounded
  <2>2. Justified([job |-> j, prompt |-> None, seen |-> Benchmark])
    BY <1>3, <2>1, ReadJustified DEF ReadRelease
  <2>3. None \notin Prompts
    BY LabAssumption DEF LabAssumption
  <2> QED
    BY <1>3, <2>2, <2>3 DEF ReadRelease, promptVars
<1>4. CASE CommitRequest
  BY <1>4 DEF CommitRequest
<1>5. CASE Crash
  BY <1>5 DEF Crash
<1>6. ASSUME NEW j \in Jobs, Evaluate(j)
      PROVE  request' = request /\ released' = released
  BY <1>6 DEF Evaluate, Start, EvaluateBaseline, EvaluateCandidate, Judge, Complete, Finish, Cancelled
<1>7. ASSUME NEW j \in Jobs, NEW p \in Versions \cup {None},
             \/ CreateJob(j, "benchmark", None) \/ CreateJob(j, "prompt", p) \/ EvaluateInline(j, p)
             \/ EvaluationFails(j) \/ AskCancel(j)
      PROVE  request' = request /\ released' = released
  BY <1>7 DEF CreateJob, EvaluateInline, EvaluationFails, AskCancel
<1>8. CASE \/ \E p \in Prompts : CreateCandidate(p)
           \/ \E c \in Cases, live \in BOOLEAN : EditGold(c, live)
           \/ FindNoneActive \/ InstallBuiltin \/ Restart
  BY <1>8 DEF CreateCandidate, EditGold, FindNoneActive, InstallBuiltin, Restart
<1>9. CASE UNCHANGED vars
  BY <1>9 DEF vars
<1> QED
  BY <1>1, <1>2, <1>3, <1>4, <1>5, <1>6, <1>7, <1>8, <1>9 DEF Next

LEMMA NextEvidence ==
  ASSUME LabInv, EvidenceInv, [Next]_vars
  PROVE  EvidenceInv'
<1>1. AllAdvance /\ JobsGrounded'
  BY NextAdvances, CasesKeepGrounds
<1>2. request \in Release /\ released \in Release
  BY DEF LabInv, TypeOK
<1>3. Justified(request)' /\ Justified(released)' /\ (released.job = None => released = NoRequest)'
  <2>1. CASE request' = request /\ released' = released
    BY <1>1, <1>2, <2>1, JustifiedStays DEF EvidenceInv, Justified
  <2>2. CASE /\ request' = NoRequest /\ released' \in {request, released}
             /\ (released' = request => request.job # None \/ released = request)
    <3>1. \A r \in Release : Justified(r) => (r.job # None =>
             /\ Proved(job'[r.job]) /\ job'[r.job].prompt = r.prompt
             /\ \A read \in job'[r.job].reads : r.seen \subseteq read)
      BY <1>1, JustifiedStays DEF Justified
    <3>2. Justified(released)'
      BY <1>2, <2>2, <3>1 DEF EvidenceInv, Justified
    <3>3. Justified(request)'
      BY <2>2, NoRequestJustified DEF Justified
    <3> QED
      BY <2>2, <3>2, <3>3 DEF EvidenceInv
  <2>3. CASE released' = released /\ Justified(request') /\ UNCHANGED job
    BY <1>1, <1>2, <2>3, JustifiedStays DEF EvidenceInv, Justified
  <2> QED
    BY <2>1, <2>2, <2>3, RequestMoves
<1> QED
  BY <1>1, <1>3 DEF EvidenceInv

-----------------------------------------------------------------------------
(* Production. *)

LEMMA TestedStays ==
  ASSUME AllAdvance, NEW p, Tested(p)
  PROVE  Tested(p)'
  BY DEF AllAdvance, Tested, Kept

InProduction(s) == s \in {"VALIDATED", "ACTIVE", "ARCHIVED"}

LEMMA SwitchProduction ==
  ASSUME LabInv, NEW p \in Versions, SwitchTo(p), NEW q \in Prompts, InProduction(status'[q])
  PROVE  InProduction(status[q]) \/ p = q
  BY DEF LabInv, TypeOK, SwitchTo, InProduction, Versions

\* A version joins these by its verdict or by the switch to it.
LEMMA StatusMoves ==
  ASSUME LabInv, [Next]_vars, NEW p \in Prompts, InProduction(status'[p])
  PROVE  \/ InProduction(status[p])
         \/ request.prompt = p
         \/ \E j \in Jobs : Proved(job'[j]) /\ job'[j].prompt = p
<1> USE DEF promptVars
<1>0. p \in Versions /\ p # Builtin
  BY LabAssumption DEF LabAssumption, Versions
<1>1. ASSUME NEW q \in Prompts, CreateCandidate(q)
      PROVE  InProduction(status[p])
  BY <1>1 DEF CreateCandidate, LabInv, TypeOK, InProduction, Versions
<1>2. CASE InstallBuiltin
  BY <1>0, <1>2, SwitchProduction DEF InstallBuiltin, Versions
<1>3. CASE CommitRequest
  <2>1. request.prompt # None => request.prompt \in Versions
    BY DEF LabInv, TypeOK, Release
  <2> QED
    BY <1>3, <2>1, SwitchProduction DEF CommitRequest
<1>4. ASSUME NEW j \in Jobs, Judge(j)
      PROVE  \/ InProduction(status[p])
             \/ \E k \in Jobs : Proved(job'[k]) /\ job'[k].prompt = p
  <2> DEFINE label == IF job[j].type = "inline" THEN "finishing" ELSE "ending"
             f == [job[j] EXCEPT !.pc = label]
             verdict == IF job[j].passed THEN "VALIDATED" ELSE "FAILED"
  <2>1. job[j].prompt \in Versions /\ job[j] \in Job
    BY <1>4, JudgedPrompt
  <2>2. f.pc = label /\ f.passed = job[j].passed /\ f.prompt = job[j].prompt
    BY <2>1 DEF Job
  <2>3. job'[j] = f
    BY <1>4 DEF Judge, Becomes, LabInv, JobsInv
  <2>4. status' = [status EXCEPT ![job[j].prompt] = IF job[j].loaded = verdict THEN @ ELSE verdict]
    BY <1>4 DEF Judge
  <2>5. label \in {"ending", "finishing"}
    OBVIOUS
  <2>6. job[j].passed \/ verdict = "FAILED"
    OBVIOUS
  <2> HIDE DEF f, label, verdict
  <2>7. CASE job[j].passed /\ job[j].prompt = p
    BY <2>2, <2>3, <2>5, <2>7 DEF Proved
  <2>8. CASE ~(job[j].passed /\ job[j].prompt = p)
    BY <1>0, <2>1, <2>4, <2>6, <2>8 DEF InProduction, LabInv, TypeOK
  <2> QED
    BY <2>7, <2>8
<1>5. ASSUME NEW j \in Jobs, Evaluate(j), ~Judge(j)
      PROVE  status' = status
  BY <1>5 DEF Evaluate, Start, EvaluateBaseline, EvaluateCandidate, Complete, Finish, Cancelled
<1>6. ASSUME NEW j \in Jobs, NEW q \in Versions \cup {None},
             \/ CreateJob(j, "benchmark", None) \/ CreateJob(j, "prompt", q) \/ EvaluateInline(j, q)
             \/ EvaluationFails(j) \/ AskCancel(j)
             \/ ReadPublish(q, j) \/ ReadRelease(j)
      PROVE  status' = status
  BY <1>6 DEF CreateJob, EvaluateInline, EvaluationFails, AskCancel, ReadPublish, ReadRelease
<1>7. ASSUME NEW q \in Versions, ReadActivate(q)
      PROVE  status' = status
  BY <1>7 DEF ReadActivate
<1>8. CASE \/ \E c \in Cases, live \in BOOLEAN : EditGold(c, live)
           \/ FindNoneActive \/ Crash \/ Restart
  BY <1>8 DEF EditGold, FindNoneActive, Crash, Restart
<1>9. CASE UNCHANGED vars
  BY <1>9 DEF vars
<1> QED
  BY <1>1, <1>2, <1>3, <1>4, <1>5, <1>6, <1>7, <1>8, <1>9 DEF Next

LEMMA NextProduction ==
  ASSUME LabInv, EvidenceInv, ProductionInv, [Next]_vars
  PROVE  ProductionInv'
<1>1. AllAdvance
  BY NextAdvances
<1>2. ASSUME NEW p \in Prompts, InProduction(status'[p])
      PROVE  Tested(p)'
  <2>1. CASE InProduction(status[p]) \/ request.prompt = p
    BY <1>1, <2>1, TestedStays DEF ProductionInv, InProduction
  <2>2. CASE \E j \in Jobs : Proved(job'[j]) /\ job'[j].prompt = p
    BY <2>2 DEF Tested
  <2> QED
    BY <1>2, <2>1, <2>2, StatusMoves
<1>3. ASSUME NEW q \in Prompts, request'.prompt = q
      PROVE  Tested(q)'
  <2>1. CASE request' = request
    BY <1>1, <1>3, <2>1, TestedStays DEF ProductionInv
  <2>2. CASE request' = NoRequest
    BY <1>3, <2>2, LabAssumption DEF LabAssumption, NoRequest
  <2>3. CASE status[q] \in {"VALIDATED", "ARCHIVED"}
    BY <1>1, <2>3, TestedStays DEF ProductionInv
  <2> QED
    BY <1>3, <2>1, <2>2, <2>3, RequestMoves
<1>4. request'.prompt \in Prompts => \E j \in Jobs : Proved(job'[j]) /\ job'[j].prompt = request'.prompt
  BY <1>3 DEF Tested
<1>5. \A p \in Prompts : InProduction(status'[p]) => \E j \in Jobs : Proved(job'[j]) /\ job'[j].prompt = p
  BY <1>2 DEF Tested
<1> QED
  BY <1>4, <1>5 DEF ProductionInv, InProduction, Tested

LEMMA InitEvidence == Init => EvidenceInv /\ ProductionInv
<1> SUFFICES ASSUME Init PROVE EvidenceInv /\ ProductionInv
  OBVIOUS
<1>1. JobsGrounded
  BY DEF Init, JobsGrounded, Grounded, NoJob
<1>2. ProductionInv
  BY LabAssumption DEF LabAssumption, Init, ProductionInv, NoRequest, Versions
<1> QED
  BY <1>1, <1>2, NoRequestJustified DEF Init, EvidenceInv

(***************************************************************************)
(* What is released was evaluated, passed, and its evaluation read every   *)
(* case in force at the release with the answer it has then.               *)
(***************************************************************************)
THEOREM ReleaseWasEvaluated == Spec => []ReleasedAsEvaluated
<1>1. LabInv /\ EvidenceInv => ReleasedAsEvaluated
  BY DEF EvidenceInv, Justified, Proved, ReleasedAsEvaluated
<1> QED
  BY <1>1, InitEvidence, NextEvidence, LabInvHolds, PTL DEF Spec

(***************************************************************************)
(* No version is in production, or kept for a rollback, that no evaluation *)
(* passed: not by a late verdict, nor by a request that checked before.    *)
(***************************************************************************)
THEOREM ProductionIsTested == Spec => []ProductionWasTested
<1>1. ProductionInv => ProductionWasTested
  BY DEF ProductionInv, ProductionWasTested, Tested, Proved
<1> QED
  BY <1>1, InitEvidence, NextEvidence, NextProduction, LabInvHolds, PTL DEF Spec
=============================================================================
