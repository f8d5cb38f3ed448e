----------------------------- MODULE PromptLab ------------------------------
(***************************************************************************)
(* How a prompt gets into production: candidates are saved, background     *)
(* jobs (or one long request) evaluate them against the confirmed gold     *)
(* cases beside the version in use, and an administrator activates or      *)
(* publishes one.  Gold cases are edited meanwhile, jobs are cancelled,    *)
(* and the API process may die.                                            *)
(*                                                                         *)
(* The transactions that switch production do not overlap: with two        *)
(* administrators they could, and both prompts would stay active.  Every   *)
(* thing else interleaves.  The verdict of the model is a free choice.     *)
(***************************************************************************)
EXTENDS Naturals, FiniteSets

CONSTANTS
    Prompts,        \* candidates that can be saved: a bound of the model
    Builtin,        \* the version builtin-v1
    Cases,          \* gold cases
    Jobs,           \* evaluations, by a job or by a request: a bound of the model
    None,
    MaxEdits,       \* bound of the model: edits of gold cases
    MaxCrashes      \* bound of the model: deaths of the API process

ASSUME LabAssumption ==
    /\ Builtin \notin Prompts /\ None \notin Prompts \cup {Builtin} \cup Jobs
    /\ MaxEdits \in Nat /\ MaxCrashes \in Nat

VARIABLES
    status,     \* prompt_versions.status
    run,        \* can_release of the evaluation run bound to a prompt
    gold,       \* for each case: confirmed and active, and its updated_at
    edits,
    job,        \* the evaluations with their admin_jobs row
    request,    \* the activate, publish or release request between read and commit
    released,   \* the last of system_versions: what was released, and what the request saw
    seeding,    \* a handler that found no active version is about to install builtin-v1
    up,         \* the API process is running
    crashes

promptVars == <<status, run>>
goldVars == <<gold, edits>>
vars == <<promptVars, goldVars, job, request, released, seeding, up, crashes>>

Versions == Prompts \cup {Builtin}
Stamped == SUBSET (Cases \X (0..MaxEdits))
Ended == {"COMPLETED", "FAILED", "CANCELLED"}

\* row is admin_jobs.status; a request that evaluates ("inline") has none.
\* snapshot: benchmark_snapshot; reads: what the evaluation really loaded.
\* loaded, bound: the candidate's status, and whether it has a run, in the session;
\* base: the version in use, for its baseline run; passed: no_regression and
\* can_release; ok: can_release of the run that will be bound to the candidate.
Job == [type : {"none", "prompt", "benchmark", "inline"},
        row : {"none", "QUEUED", "RUNNING"} \cup Ended,
        pc : {"over", "scheduled", "baseline", "candidate", "judging", "ending", "finishing"},
        asked : BOOLEAN,
        prompt : Versions \cup {None}, base : Versions \cup {None},
        loaded : {"none", "DRAFT", "VALIDATED", "FAILED", "ACTIVE", "ARCHIVED"}, bound : BOOLEAN,
        snapshot : Stamped, reads : SUBSET Stamped,
        passed : BOOLEAN, ok : {"none", "pass", "fail"}]
NoJob == [type |-> "none", row |-> "none", pc |-> "over", asked |-> FALSE,
          prompt |-> None, base |-> None, loaded |-> "none", bound |-> FALSE,
          snapshot |-> {}, reads |-> {}, passed |-> FALSE, ok |-> "none"]

Release == [job : Jobs \cup {None}, prompt : Versions \cup {None}, seen : Stamped]
NoRequest == [job |-> None, prompt |-> None, seen |-> {}]

TypeOK ==
    /\ status \in [Versions -> {"none", "DRAFT", "VALIDATED", "FAILED", "ACTIVE", "ARCHIVED"}]
    /\ run \in [Versions -> {"none", "pass", "fail"}]
    /\ gold \in [Cases -> [live : BOOLEAN, stamp : 0..MaxEdits]]
    /\ edits \in 0..MaxEdits
    /\ job \in [Jobs -> Job]
    /\ \A j \in Jobs : (job[j].row = "none") = (job[j].type \in {"none", "inline"})
    /\ request \in Release
    /\ released \in Release
    /\ seeding \in BOOLEAN /\ up \in BOOLEAN /\ crashes \in 0..MaxCrashes

Init ==
    /\ status = [p \in Versions |-> IF p = Builtin THEN "ACTIVE" ELSE "none"]
    /\ run = [p \in Versions |-> "none"]
    /\ gold = [c \in Cases |-> [live |-> TRUE, stamp |-> 0]]
    /\ edits = 0
    /\ job = [j \in Jobs |-> NoJob]
    /\ request = NoRequest
    /\ released = NoRequest
    /\ seeding = FALSE /\ up = TRUE /\ crashes = 0

\* What is left of an evaluation when its coroutine and its session are gone: the
\* row, the verdict if it passed and was committed, the result if the job completed.
Gone(e) ==
    LET base == [NoJob EXCEPT !.type = e.type, !.row = e.row] IN
    IF ~e.passed \/ e.pc \in {"candidate", "judging"} THEN base
    ELSE IF e.row = "COMPLETED"
         THEN [base EXCEPT !.prompt = e.prompt, !.passed = TRUE, !.snapshot = e.snapshot, !.reads = e.reads]
         ELSE [base EXCEPT !.prompt = e.prompt, !.passed = TRUE]

\* AdminJobService.fail, for an evaluation that has a row
Failed(e) == IF e.row = "none" THEN Gone(e) ELSE [Gone(e) EXCEPT !.row = "FAILED"]

-----------------------------------------------------------------------------
Active == {p \in Versions : status[p] = "ACTIVE"}

\* The confirmed and active cases with their updated_at.
Benchmark == {<<c, gold[c].stamp>> : c \in {d \in Cases : gold[d].live}}

\* Mutant: the snapshot has the cases' ids only.
SnapshotWithoutDates == {<<c, 0>> : c \in {d \in Cases : gold[d].live}}

\* benchmark_snapshot
Snapshot == Benchmark

\* Mutant: the other active versions stay active.
SwitchKeepingOthers(p) == status' = [status EXCEPT ![p] = "ACTIVE"]

\* PromptService.activate: the other active versions are archived.
SwitchTo(p) ==
    status' = [q \in Versions |->
                 IF q = p THEN "ACTIVE" ELSE IF status[q] = "ACTIVE" THEN "ARCHIVED" ELSE status[q]]

\* create_prompt_candidate, and finalize_prompt_job for a generated one.
CreateCandidate(p) ==
    /\ up /\ status[p] = "none" /\ Active # {}
    /\ status' = [status EXCEPT ![p] = "DRAFT"]
    /\ UNCHANGED <<run, goldVars, job, request, released, seeding, up, crashes>>

\* _ensure_prompt_seed: it finds no active version, and installs builtin-v1 in a
\* later transaction whatever is active by then.
FindNoneActive ==
    /\ up /\ Active = {} /\ ~seeding
    /\ seeding' = TRUE
    /\ UNCHANGED <<promptVars, goldVars, job, request, released, up, crashes>>

InstallBuiltin ==
    /\ up /\ seeding
    /\ seeding' = FALSE
    /\ IF status[Builtin] = "ACTIVE" THEN UNCHANGED status ELSE SwitchTo(Builtin)
    /\ UNCHANGED <<run, goldVars, job, request, released, up, crashes>>

\* update_benchmark: an answer that changes takes the case out, a confirmation
\* puts it in, other edits leave it; updated_at changes each time.
EditGold(c, live) ==
    /\ up /\ edits < MaxEdits
    /\ edits' = edits + 1
    /\ gold' = [gold EXCEPT ![c] = [live |-> live, stamp |-> edits + 1]]
    /\ UNCHANGED <<promptVars, job, request, released, seeding, up, crashes>>

-----------------------------------------------------------------------------
(* Evaluations: AdminJobService with _run_regression_job, and evaluate_prompt_candidate. *)

Becomes(j, e) == job' = [job EXCEPT ![j] = e]

\* create_prompt_evaluation_job, create_benchmark_evaluation_job
CreateJob(j, type, p) ==
    /\ up /\ job[j] = NoJob
    /\ p # None => status[p] # "none"
    /\ Becomes(j, [NoJob EXCEPT !.type = type, !.row = "QUEUED", !.pc = "scheduled",
                                !.prompt = p, !.snapshot = Snapshot])
    /\ UNCHANGED <<promptVars, goldVars, request, released, seeding, up, crashes>>

\* evaluate_prompt_candidate
EvaluateInline(j, p) ==
    /\ up /\ job[j] = NoJob /\ status[p] # "none"
    /\ Becomes(j, [NoJob EXCEPT !.type = "inline", !.pc = "scheduled", !.prompt = p])
    /\ UNCHANGED <<promptVars, goldVars, request, released, seeding, up, crashes>>

At(j, label) == up /\ job[j].pc = label

\* It loads the candidate and the version in use; a benchmark job has neither, and
\* only the inline evaluation writes to the version in use.
Start(j) ==
    /\ At(j, "scheduled")
    /\ job[j].type # "benchmark" => Active # {}
    /\ LET e == job[j]
       IN Becomes(j, [e EXCEPT !.row = IF e.row = "QUEUED" THEN "RUNNING" ELSE e.row,
                               !.pc = IF e.type = "benchmark" THEN "candidate" ELSE "baseline",
                               !.base = IF e.type = "inline" THEN CHOOSE p \in Active : TRUE ELSE None,
                               !.loaded = IF e.type = "benchmark" THEN "none" ELSE status[e.prompt],
                               !.bound = e.prompt # None /\ run[e.prompt] # "none"])
    /\ UNCHANGED <<promptVars, goldVars, request, released, seeding, up, crashes>>

\* What a job has loaded; nobody releases on an inline evaluation.
Read(e) == IF e.type = "inline" THEN e.reads ELSE e.reads \cup {Benchmark}

\* The baseline: the version in use on the cases as they are now.  Without cases
\* there is no run to bind to it.
EvaluateBaseline(j) ==
    /\ At(j, "baseline")
    /\ Becomes(j, [job[j] EXCEPT !.pc = "candidate", !.reads = Read(job[j]),
                                 !.base = IF Benchmark = {} THEN None ELSE job[j].base])
    /\ UNCHANGED <<promptVars, goldVars, request, released, seeding, up, crashes>>

\* build_ab_comparison, and the gates of the other evaluations: they pass nothing
\* without cases, nor a run that cannot be released.
Gates(ok) == Benchmark # {} /\ ok # "fail"

\* The candidate (the version in use, for a benchmark job) on the cases as they
\* are now.
\* The commit of the run carries what the inline evaluation assigned to the
\* version in use: its baseline run (the assignment of "ACTIVE" changes nothing).
EvaluateCandidate(j) ==
    /\ At(j, "candidate")
    /\ \E passed \in BOOLEAN, ok \in {"none", "pass", "fail"} :
          /\ (ok = "none") = (Benchmark = {} \/ job[j].type = "benchmark")
          /\ passed => Gates(ok)
          /\ Becomes(j, [job[j] EXCEPT !.pc = IF job[j].type = "benchmark" THEN "ending" ELSE "judging",
                                       !.reads = Read(job[j]), !.base = None, !.passed = passed, !.ok = ok])
    /\ IF job[j].base \notin {None, job[j].prompt}
       THEN \E ok \in {"pass", "fail"} : run' = [run EXCEPT ![job[j].base] = ok]
       ELSE UNCHANGED run
    /\ UNCHANGED <<status, goldVars, request, released, seeding, up, crashes>>

\* The verdict is committed to the candidate as it was loaded: a status, or a
\* missing run, equal to the loaded one is not written.
Judge(j) ==
    /\ At(j, "judging")
    /\ LET p == job[j].prompt
           verdict == IF job[j].passed THEN "VALIDATED" ELSE "FAILED"
       IN /\ run' = [run EXCEPT ![p] = IF job[j].ok = "none" /\ ~job[j].bound THEN @ ELSE job[j].ok]
          /\ status' = [status EXCEPT ![p] = IF job[j].loaded = verdict THEN @ ELSE verdict]
    /\ Becomes(j, [job[j] EXCEPT !.pc = IF job[j].type = "inline" THEN "finishing" ELSE "ending"])
    /\ UNCHANGED <<goldVars, request, released, seeding, up, crashes>>

Complete(j) ==
    /\ At(j, "ending")
    /\ Becomes(j, [job[j] EXCEPT !.row = "COMPLETED", !.pc = "finishing"])
    /\ UNCHANGED <<promptVars, goldVars, request, released, seeding, up, crashes>>

\* After the commit of COMPLETED the coroutine is alive until its refresh returns.
Finish(j) ==
    /\ At(j, "finishing")
    /\ Becomes(j, Gone(job[j]))
    /\ UNCHANGED <<promptVars, goldVars, request, released, seeding, up, crashes>>

\* The model or the database fails; the refresh after the commit can fail too.
EvaluationFails(j) ==
    /\ up /\ job[j].pc # "over"
    /\ Becomes(j, Failed(job[j]))
    /\ UNCHANGED <<promptVars, goldVars, request, released, seeding, up, crashes>>

-----------------------------------------------------------------------------
(* Cancellation: cancel_admin_job commits cancel_requested, and then cancels the task. *)
AskCancel(j) ==
    /\ up /\ job[j].row \in {"QUEUED", "RUNNING"} /\ ~job[j].asked
    /\ Becomes(j, [job[j] EXCEPT !.asked = TRUE])
    /\ UNCHANGED <<promptVars, goldVars, request, released, seeding, up, crashes>>

\* _run_guarded on CancelledError, which may come long after the request has
\* read the row, or on the JobCancelled of check_cancelled.
Cancelled(j) ==
    /\ up /\ job[j].asked /\ job[j].pc # "over"
    /\ Becomes(j, [Gone(job[j]) EXCEPT !.row = "CANCELLED"])
    /\ UNCHANGED <<promptVars, goldVars, request, released, seeding, up, crashes>>

-----------------------------------------------------------------------------
(* Switching production. *)

\* Mutant: any evaluated version will do.
MayActivateEvaluated(p) == run[p] # "none" /\ status[p] # "ACTIVE"

\* activate_prompt_version: an archived version needs only a run of its own.
MayActivate(p) ==
    \/ status[p] = "VALIDATED" /\ run[p] = "pass"
    \/ status[p] = "ARCHIVED" /\ run[p] # "none"

ReadActivate(p) ==
    /\ up /\ request = NoRequest
    /\ MayActivate(p)
    /\ request' = [job |-> None, prompt |-> p, seen |-> {}]
    /\ UNCHANGED <<promptVars, goldVars, job, released, seeding, up, crashes>>

\* publish_prompt_version
ReadPublish(p, j) ==
    /\ up /\ request = NoRequest
    /\ job[j].type = "prompt" /\ job[j].row = "COMPLETED" /\ job[j].prompt = p
    /\ job[j].passed
    /\ job[j].snapshot = Snapshot
    /\ status[p] = "VALIDATED" /\ run[p] = "pass"
    /\ request' = [job |-> j, prompt |-> p, seen |-> Benchmark]
    /\ UNCHANGED <<promptVars, goldVars, job, released, seeding, up, crashes>>

\* release_new_version bound to a completed job; it switches nothing.
ReadRelease(j) ==
    /\ up /\ request = NoRequest
    /\ job[j].type = "benchmark" /\ job[j].row = "COMPLETED"
    /\ job[j].snapshot = Snapshot
    /\ job[j].passed
    /\ request' = [job |-> j, prompt |-> None, seen |-> Benchmark]
    /\ UNCHANGED <<promptVars, goldVars, job, released, seeding, up, crashes>>

CommitRequest ==
    /\ up /\ request # NoRequest
    /\ IF request.prompt # None THEN SwitchTo(request.prompt) ELSE UNCHANGED status
    /\ released' = IF request.job # None THEN request ELSE released
    /\ request' = NoRequest
    /\ UNCHANGED <<run, goldVars, job, seeding, up, crashes>>

-----------------------------------------------------------------------------
Crash ==
    /\ up /\ crashes < MaxCrashes
    /\ crashes' = crashes + 1
    /\ up' = FALSE
    /\ job' = [j \in Jobs |-> Gone(job[j])]
    /\ request' = NoRequest /\ seeding' = FALSE
    /\ UNCHANGED <<promptVars, goldVars, released>>

\* Mutant: only the jobs that had started.
InterruptedRunning(j) == job[j].row = "RUNNING"

\* lifespan: mark_interrupted_jobs
Interrupted(j) == job[j].row \in {"QUEUED", "RUNNING"}

Restart ==
    /\ ~up
    /\ up' = TRUE
    /\ job' = [j \in Jobs |->
                 IF Interrupted(j) THEN [job[j] EXCEPT !.row = "FAILED"] ELSE job[j]]
    /\ UNCHANGED <<promptVars, goldVars, request, released, seeding, crashes>>

-----------------------------------------------------------------------------
Evaluate(j) ==
    \/ Start(j) \/ EvaluateBaseline(j) \/ EvaluateCandidate(j) \/ Judge(j)
    \/ Complete(j) \/ Finish(j) \/ Cancelled(j)

Next ==
    \/ \E p \in Prompts : CreateCandidate(p)
    \/ \E p \in Versions : ReadActivate(p) \/ \E j \in Jobs : ReadPublish(p, j)
    \/ \E j \in Jobs :
          \/ CreateJob(j, "benchmark", None)
          \/ \E p \in Versions : CreateJob(j, "prompt", p) \/ EvaluateInline(j, p)
          \/ Evaluate(j) \/ EvaluationFails(j) \/ AskCancel(j) \/ ReadRelease(j)
    \/ \E c \in Cases, live \in BOOLEAN : EditGold(c, live)
    \/ FindNoneActive \/ InstallBuiltin
    \/ CommitRequest
    \/ Crash \/ Restart

Spec == Init /\ [][Next]_vars

-----------------------------------------------------------------------------
(***************************************************************************)
(* What is released is the prompt that was evaluated, and it passed, in    *)
(* each part of its evaluation, every gold case that is in force when the  *)
(* request checks, with the answers the cases have then; although cases    *)
(* are edited while the evaluation reads them part by part.  (It may have  *)
(* been evaluated on more: a case that joins and leaves meanwhile leaves   *)
(* no trace in the snapshot.)                                              *)
(***************************************************************************)
ReleasedAsEvaluated ==
    released # NoRequest =>
        /\ \A read \in job[released.job].reads : released.seen \subseteq read
        /\ job[released.job].passed
        /\ job[released.job].prompt = released.prompt

\* A prompt gets into production, and stays available for a rollback, only when
\* some evaluation found it no worse than the version in use.
ProductionWasTested ==
    \A p \in Prompts :
        status[p] \in {"ACTIVE", "ARCHIVED"} => \E j \in Jobs : job[j].prompt = p /\ job[j].passed

\* Extraction finds at most one version in production: a late verdict never brings
\* back a version that was replaced, and an installation of the built-in one that
\* was decided on an old read replaces what was activated since.
OneInUse == Cardinality(Active) <= 1

\* While the service runs, no job is open without the coroutine that will end it,
\* whenever the process died.
OpenJobRuns == up => \A j \in Jobs : job[j].row \in {"QUEUED", "RUNNING"} => job[j].pc # "over"

\* What a comment in the code requires: the version in use stays ACTIVE until
\* another one replaces it.
InUseUntilReplaced ==
    [][\A p \in Versions : status[p] = "ACTIVE" /\ status'[p] # "ACTIVE" =>
          \E q \in Versions : status'[q] = "ACTIVE"]_vars
=============================================================================
