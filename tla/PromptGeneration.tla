-------------------------- MODULE PromptGeneration --------------------------
(***************************************************************************)
(* How the model is asked for the rules of the next prompt: background     *)
(* jobs that send it accepted feedbacks, or the cases that an evaluation   *)
(* got wrong, and wait for an answer; an administrator who makes a         *)
(* candidate of the rules; and the older request that does both at once.   *)
(* Gold cases are edited, and the version in use is switched, meanwhile.   *)
(* How candidates are evaluated and activated is in PromptLab; here an     *)
(* evaluation leaves its comparison, and any candidate may be activated.   *)
(***************************************************************************)
EXTENDS GoldSet

CONSTANTS
    Jobs,           \* admin_jobs, and inline requests: a bound of the model
    Candidates,     \* prompt versions that can be saved: a bound of the model
    Builtin,        \* the version builtin-v1
    Admins          \* finalising requests in flight: a bound of the model

GenerationConstants ==
    /\ Feedbacks \cap Cases = {}
    /\ Builtin \notin Candidates /\ None \notin Jobs \cup Candidates \cup {Builtin}

VARIABLES
    inUse,      \* the version PromptService.get_active finds
    madeBy,     \* for each version: the job or request it was saved for
    job,
    finalize    \* for each administrator: the finalize_prompt_job request

generationVars == <<inUse, madeBy, job, finalize>>
vars == <<goldVars, generationVars>>

Versions == Candidates \cup {Builtin}
Evidence == SUBSET (Feedbacks \cup Cases)
Generating == {"generation", "refinement"}

\* feedbacks: the ids in input_payload; source: evaluation_job_id; parent: the version
\* the rules are for; rows, wrong: the cases in the comparison of an evaluation, and
\* those with a wrong field; secret: holdout_only_failure; evidence: result["evidence"];
\* sent: what the model was sent (history); related: related_entity_id.
Job == [type : {"none", "evaluation", "inline"} \cup Generating,
        row : {"none", "QUEUED", "RUNNING", "COMPLETED", "FAILED", "CANCELLED"},
        pc : {"over", "scheduled", "baseline", "candidate", "recording", "asking",
              "streaming", "merging", "retrying", "validating"},
        feedbacks : SUBSET Feedbacks, source : Jobs \cup {None}, parent : Versions \cup {None},
        rows : SUBSET Cases, wrong : SUBSET Cases, secret : BOOLEAN,
        loaded : Evidence, evidence : Evidence, sent : Evidence,
        related : Versions \cup {None}]
NoJob == [type |-> "none", row |-> "none", pc |-> "over", feedbacks |-> {}, source |-> None,
          parent |-> None, rows |-> {}, wrong |-> {}, secret |-> FALSE,
          loaded |-> {}, evidence |-> {}, sent |-> {}, related |-> None]
NoFinalize == [job |-> None, version |-> None]

TypeOK ==
    /\ GoldTypeOK
    /\ inUse \in Versions
    /\ madeBy \in [Candidates -> Jobs \cup {None}]
    /\ job \in [Jobs -> Job]
    /\ finalize \in [Admins -> [job : Jobs \cup {None}, version : Versions \cup {None}]]

Init ==
    /\ GoldInit
    /\ inUse = Builtin
    /\ madeBy = [v \in Candidates |-> None]
    /\ job = [j \in Jobs |-> NoJob]
    /\ finalize = [a \in Admins |-> NoFinalize]

Becomes(j, record) == job' = [job EXCEPT ![j] = record]
At(j, label) == job[j].pc = label
Unsaved == {v \in Candidates : madeBy[v] = None}

Activate(v) ==
    /\ v \notin Unsaved /\ v # inUse
    /\ inUse' = v
    /\ UNCHANGED <<goldVars, madeBy, job, finalize>>

-----------------------------------------------------------------------------
(* A PROMPT_EVALUATION job: the comparison keeps the training cases only. *)

CreateEvaluation(j, v) ==
    /\ job[j] = NoJob /\ v \notin Unsaved
    /\ Becomes(j, [NoJob EXCEPT !.type = "evaluation", !.row = "QUEUED", !.pc = "baseline", !.parent = v])
    /\ UNCHANGED <<goldVars, inUse, madeBy, finalize>>

EvaluateBaseline(j) ==
    /\ At(j, "baseline")
    /\ Becomes(j, [job[j] EXCEPT !.row = "RUNNING", !.pc = "candidate", !.rows = Selected("TRAIN", None)])
    /\ UNCHANGED <<goldVars, inUse, madeBy, finalize>>

\* build_ab_comparison over the cases of either run, and holdout_only_failure
EvaluateCandidate(j) ==
    /\ At(j, "candidate")
    /\ LET rows == job[j].rows \cup Selected("TRAIN", None)
       IN \E wrong \in SUBSET rows, secret \in BOOLEAN :
             Becomes(j, [job[j] EXCEPT !.row = "COMPLETED", !.pc = "over", !.rows = rows,
                                       !.wrong = wrong, !.secret = secret])
    /\ UNCHANGED <<goldVars, inUse, madeBy, finalize>>

-----------------------------------------------------------------------------
(* _run_prompt_generation_job and _run_prompt_refinement_job *)

\* create_prompt_optimization_job: some of the selected feedbacks are accepted.
CreateGeneration(j, F) ==
    /\ job[j] = NoJob /\ F \cap accepted # {}
    /\ Becomes(j, [NoJob EXCEPT !.type = "generation", !.row = "QUEUED", !.pc = "scheduled", !.feedbacks = F])
    /\ UNCHANGED <<goldVars, inUse, madeBy, finalize>>

\* create_prompt_refinement_job: every selected feedback is accepted, and more than
\* the holdout cases failed.
CreateRefinement(j, source, F) ==
    /\ job[j] = NoJob /\ F \subseteq accepted
    /\ job[source].type = "evaluation" /\ job[source].row = "COMPLETED"
    /\ ~job[source].secret
    /\ Becomes(j, [NoJob EXCEPT !.type = "refinement", !.row = "QUEUED", !.pc = "scheduled",
                                !.feedbacks = F, !.source = source])
    /\ UNCHANGED <<goldVars, inUse, madeBy, finalize>>

\* The cases with wrong fields, or all of them when the evaluation was perfect.
CasesOf(evaluation) == IF evaluation.wrong # {} THEN evaluation.wrong ELSE evaluation.rows

\* The parent of new rules is the version in use, or the one that was evaluated.
Load(j) ==
    /\ At(j, "scheduled")
    /\ LET selected == job[j].feedbacks \cap accepted IN
       IF job[j].type = "generation"
       THEN Becomes(j, [job[j] EXCEPT !.row = "RUNNING", !.pc = "recording",
                                      !.parent = inUse, !.loaded = selected])
       ELSE LET evaluation == job[job[j].source] IN
            Becomes(j, [job[j] EXCEPT !.row = "RUNNING", !.pc = "recording", !.parent = evaluation.parent,
                                      !.loaded = selected \cup CasesOf(evaluation)])
    /\ UNCHANGED <<goldVars, inUse, madeBy, finalize>>

\* The evidence is committed to the row before the model is asked.
Record(j) ==
    /\ At(j, "recording")
    /\ Becomes(j, [job[j] EXCEPT !.pc = "asking", !.evidence = job[j].loaded])
    /\ UNCHANGED <<goldVars, inUse, madeBy, finalize>>

\* _collect_prompt_model_response: stream_llm
Ask(j) ==
    /\ At(j, "asking")
    /\ job[j].type # "inline"
    /\ Becomes(j, [job[j] EXCEPT !.pc = "streaming", !.sent = job[j].loaded])
    /\ UNCHANGED <<goldVars, inUse, madeBy, finalize>>

\* The stream brought a text; or nothing, or it timed out.
StreamEnds(j) ==
    /\ At(j, "streaming")
    /\ \E pc \in {"validating", "merging"} : Becomes(j, [job[j] EXCEPT !.pc = pc])
    /\ UNCHANGED <<goldVars, inUse, madeBy, finalize>>

\* Mutant: the diagnostics replace the result.
MergedReplacing(evidence) == {}

\* _merge_job_result: what the result keeps when diagnostics are added
Merged(evidence) == evidence

MergeDiagnostics(j) ==
    /\ At(j, "merging")
    /\ Becomes(j, [job[j] EXCEPT !.pc = "retrying", !.evidence = Merged(@)])
    /\ UNCHANGED <<goldVars, inUse, madeBy, finalize>>

\* call_llm brought a text; its diagnostics are merged as well.
RetryEnds(j) ==
    /\ At(j, "retrying")
    /\ Becomes(j, [job[j] EXCEPT !.pc = "validating", !.evidence = Merged(@)])
    /\ UNCHANGED <<goldVars, inUse, madeBy, finalize>>

\* The rules name sources in the evidence.
Complete(j) ==
    /\ At(j, "validating")
    /\ Becomes(j, [job[j] EXCEPT !.row = "COMPLETED", !.pc = "over", !.evidence = job[j].loaded])
    /\ UNCHANGED <<goldVars, inUse, madeBy, finalize>>

\* An error, an empty answer, rules without a source, a cancellation, or the death of
\* the process followed by mark_interrupted_jobs.
JobFails(j) ==
    /\ ~At(j, "over") /\ job[j].row # "none"
    /\ \E row \in {"FAILED", "CANCELLED"} : Becomes(j, [job[j] EXCEPT !.row = row, !.pc = "over"])
    /\ UNCHANGED <<goldVars, inUse, madeBy, finalize>>

-----------------------------------------------------------------------------
(* optimize_prompt_with_model: no job, and no feedback selected means all of them. *)
AskInline(j, F) ==
    /\ job[j] = NoJob
    /\ LET evidence == IF F = {} THEN accepted ELSE F \cap accepted
       IN /\ evidence # {}
          /\ Becomes(j, [NoJob EXCEPT !.type = "inline", !.pc = "asking", !.feedbacks = F,
                                      !.parent = inUse, !.loaded = evidence, !.sent = evidence])
    /\ UNCHANGED <<goldVars, inUse, madeBy, finalize>>

SaveInline(j, v) ==
    /\ At(j, "asking") /\ job[j].type = "inline"
    /\ v \in Unsaved
    /\ madeBy' = [madeBy EXCEPT ![v] = j]
    /\ Becomes(j, [job[j] EXCEPT !.pc = "over"])
    /\ UNCHANGED <<goldVars, inUse, finalize>>

InlineFails(j) ==
    /\ At(j, "asking") /\ job[j].type = "inline"
    /\ Becomes(j, [job[j] EXCEPT !.pc = "over"])
    /\ UNCHANGED <<goldVars, inUse, madeBy, finalize>>

-----------------------------------------------------------------------------
(* finalize_prompt_job: the candidate and related_entity_id are two commits. *)

ReadFinalize(a, j) ==
    /\ finalize[a] = NoFinalize
    /\ job[j].type \in Generating /\ job[j].row = "COMPLETED" /\ job[j].related = None
    /\ job[j].type = "generation" => job[j].parent = inUse
    /\ finalize' = [finalize EXCEPT ![a].job = j]
    /\ UNCHANGED <<goldVars, inUse, madeBy, job>>

SaveCandidate(a, v) ==
    /\ finalize[a].job # None /\ finalize[a].version = None
    /\ v \in Unsaved
    /\ madeBy' = [madeBy EXCEPT ![v] = finalize[a].job]
    /\ finalize' = [finalize EXCEPT ![a].version = v]
    /\ UNCHANGED <<goldVars, inUse, job>>

RelateCandidate(a) ==
    /\ finalize[a].version # None
    /\ Becomes(finalize[a].job, [job[finalize[a].job] EXCEPT !.related = finalize[a].version])
    /\ finalize' = [finalize EXCEPT ![a] = NoFinalize]
    /\ UNCHANGED <<goldVars, inUse, madeBy>>

\* A refusal, an error, or the death of the process: also between the commits
FinalizeEnds(a) ==
    /\ finalize[a] # NoFinalize
    /\ finalize' = [finalize EXCEPT ![a] = NoFinalize]
    /\ UNCHANGED <<goldVars, inUse, madeBy, job>>

-----------------------------------------------------------------------------
Next ==
    \/ GoldNext /\ UNCHANGED generationVars
    \/ \E v \in Versions : Activate(v) \/ \E j \in Jobs : CreateEvaluation(j, v)
    \/ \E j \in Jobs :
          \/ \E F \in SUBSET Feedbacks :
                \/ CreateGeneration(j, F) \/ AskInline(j, F)
                \/ \E source \in Jobs : CreateRefinement(j, source, F)
          \/ EvaluateBaseline(j) \/ EvaluateCandidate(j)
          \/ Load(j) \/ Record(j) \/ Ask(j) \/ StreamEnds(j) \/ MergeDiagnostics(j)
          \/ RetryEnds(j) \/ Complete(j) \/ JobFails(j) \/ InlineFails(j)
          \/ \E v \in Candidates : SaveInline(j, v)
    \/ \E a \in Admins :
          \/ \E j \in Jobs : ReadFinalize(a, j)
          \/ \E v \in Candidates : SaveCandidate(a, v)
          \/ RelateCandidate(a) \/ FinalizeEnds(a)

Spec == Init /\ [][Next]_vars

-----------------------------------------------------------------------------
\* Whatever a job sent to the model is on its row, for the administrator to see,
\* wherever the job stopped: although the row's result is written again and again,
\* by the compatibility retry too.
SentIsOnRecord ==
    \A j \in Jobs : job[j].row # "none" => job[j].sent \subseteq job[j].evidence

\* What the holdout cases in force hold: their answers, also where these came from.
Holdout ==
    LET secret == {c \in Cases : InForce(c) /\ gold[c].role = "HOLDOUT"}
    IN secret \cup {gold[c].from : c \in {d \in secret : gold[d].own}}

\* What the console says of the roles: the model is never shown the answer of a
\* holdout case; at least, not while it is one.
HoldoutHidden ==
    [][\A j \in Jobs : (job'[j].sent \ job[j].sent) \cap Holdout = {}]_vars
=============================================================================
