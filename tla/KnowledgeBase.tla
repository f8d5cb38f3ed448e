---------------------------- MODULE KnowledgeBase ---------------------------
(***************************************************************************)
(* The few-shot examples: drafts made by an administrator or from a        *)
(* feedback, validated by an evaluation that takes minutes, enabled, and   *)
(* then added to the prompts of extractions.  Updates of an example        *)
(* overlap each other and the evaluations: each reads the row, and later   *)
(* commits the columns it changed with respect to what it read.            *)
(***************************************************************************)
EXTENDS GoldSet

CONSTANTS
    Examples,   \* rows of few_shot_examples: a bound of the model
    Trials,     \* evaluations at the same time, by a request or by a job: a bound of the model
    Requests,   \* updates in flight at the same time: a bound of the model
    Tenants,
    Owner       \* the tenant of each feedback

KnowledgeConstants ==
    /\ Owner \in [Feedbacks -> Tenants]
    /\ None \notin Examples \cup Tenants

VARIABLES
    example,    \* few_shot_examples
    trial,      \* the evaluations of examples
    update      \* the requests of update_few_shot between their read and their commit

exampleVars == <<example, trial, update>>
vars == <<goldVars, exampleVars>>

\* from: feedback_id; scope: source_tenant_id; content: whose document the text was
\* taken from; passed: an evaluation of the row passed, on cases of each role (history).
Row == [status : {"none", "DRAFT", "VALIDATED", "FAILED", "ACTIVE", "deleted"}, active : BOOLEAN,
        from : Feedbacks \cup {None}, scope : Tenants \cup {None},
        content : Tenants \cup {None}, passed : BOOLEAN]
NoRow == [status |-> "none", active |-> FALSE, from |-> None, scope |-> None,
          content |-> None, passed |-> FALSE]

Draft == [NoRow EXCEPT !.status = "DRAFT"]

Stored(e) == example[e].status \notin {"none", "deleted"}

Trial == [example : Examples \cup {None}, loaded : {"none", "DRAFT", "VALIDATED", "FAILED", "ACTIVE"},
          wasActive : BOOLEAN, stage : {"none", "train", "holdout", "judge"},
          ok : BOOLEAN, parts : SUBSET Roles]

\* loaded and wasActive: lifecycle_status and is_active as they were read; parts: the
\* roles of which there were cases (history).
NoTrial == [example |-> None, loaded |-> "none", wasActive |-> FALSE,
            stage |-> "none", ok |-> FALSE, parts |-> {}]
NoUpdate == [example |-> None, loaded |-> "none", wasActive |-> FALSE]

TypeOK ==
    /\ GoldTypeOK
    /\ example \in [Examples -> Row]
    /\ trial \in [Trials -> Trial]
    /\ update \in [Requests -> [example : Examples \cup {None},
                                loaded : {"none", "DRAFT", "VALIDATED", "FAILED", "ACTIVE"}, wasActive : BOOLEAN]]

NoExamples ==
    /\ example = [e \in Examples |-> NoRow]
    /\ trial = [t \in Trials |-> NoTrial]
    /\ update = [r \in Requests |-> NoUpdate]

Init == GoldInit /\ NoExamples

-----------------------------------------------------------------------------
Save(e, row) == example[e] = NoRow /\ example' = [example EXCEPT ![e] = row]

\* create_few_shot: for every tenant.
CreateExample(e) ==
    /\ Save(e, Draft)
    /\ UNCHANGED <<goldVars, trial, update>>

\* accept_feedback with create_few_shot: for the tenant of the feedback.
AcceptWithExample(f, C, e) ==
    /\ AcceptFeedback(f, C)
    /\ Save(e, [Draft EXCEPT !.from = f, !.scope = Owner[f], !.content = Owner[f]])
    /\ UNCHANGED <<trial, update>>

\* update_few_shot reads the row
ReadExample(r, e) ==
    /\ update[r] = NoUpdate /\ Stored(e)
    /\ update' = [update EXCEPT ![r] = [example |-> e, loaded |-> example[e].status,
                                        wasActive |-> example[e].active]]
    /\ UNCHANGED <<goldVars, example, trial>>

Answer(r) == update' = [update EXCEPT ![r] = NoUpdate]

\* Mutant: the new candidate is for every tenant.
CandidateOfForAll(e) == [Draft EXCEPT !.content = example[e].content]

\* The candidate that a change of an example in use is saved as.  It has the tenant
\* of its parent, and not its feedback.
CandidateOf(e) == [Draft EXCEPT !.scope = example[e].scope, !.content = example[e].content]

\* A change of an example that was in use when it was read becomes a candidate.
SaveAsCandidate(r, new) ==
    LET e == update[r].example IN
    /\ e # None /\ update[r].wasActive
    /\ Save(new, CandidateOf(e))
    /\ Answer(r)
    /\ UNCHANGED <<goldVars, trial>>

\* Mutant: only a failed example may not be enabled.
EnableableUnlessFailed(loaded) == loaded # "FAILED"

Enableable(loaded) == loaded \in {"VALIDATED", "ACTIVE"}

\* The other changes: of the text of an example that was not in use (the row keeps
\* its status), of is_active, or of both.  A column equal to what was read is not
\* written, and a row deleted meanwhile is an error.
CommitExample(r, enable) ==
    LET e == update[r].example IN
    /\ e # None
    /\ enable \in {"kept", "no"} \/ Enableable(update[r].loaded)
    /\ Stored(e)
    /\ example' = [example EXCEPT
                     ![e].active = IF enable = "kept" \/ (enable = "yes") = update[r].wasActive THEN @
                                   ELSE enable = "yes",
                     ![e].status = IF enable = "yes" /\ update[r].loaded # "ACTIVE" THEN "ACTIVE" ELSE @]
    /\ Answer(r)
    /\ UNCHANGED <<goldVars, trial>>

\* A refusal (409), an error, or the death of the process
RequestEnds(r) ==
    /\ update[r] # NoUpdate
    /\ Answer(r)
    /\ UNCHANGED <<goldVars, example, trial>>

\* delete_few_shot
DeleteExample(e) ==
    /\ Stored(e)
    /\ example' = [example EXCEPT ![e].status = "deleted", ![e].active = FALSE]
    /\ UNCHANGED <<goldVars, trial, update>>

-----------------------------------------------------------------------------
(* evaluate_few_shot, and the FEW_SHOT_EVALUATION branch of _run_regression_job *)

Proceed(t, record) == trial' = [trial EXCEPT ![t] = record]

StartTrial(t, e) ==
    /\ trial[t] = NoTrial /\ Stored(e)
    /\ Proceed(t, [example |-> e, loaded |-> example[e].status, wasActive |-> example[e].active,
                   stage |-> "train", ok |-> TRUE, parts |-> {}])
    /\ UNCHANGED <<goldVars, example, update>>

\* can_release of one part, whatever the model answers: never without cases.
Passes(cases, ok) == cases # {} /\ ok

\* _run_layered_evaluation: one part, on the cases as they are when it starts
RunPart(t, stage, role, next) ==
    /\ trial[t].stage = stage
    /\ LET cases == Selected(role, example[trial[t].example].from)
       IN \E ok \in BOOLEAN :
             Proceed(t, [trial[t] EXCEPT !.stage = next, !.ok = @ /\ Passes(cases, ok),
                                         !.parts = IF cases = {} THEN @ ELSE @ \cup {role}])
    /\ UNCHANGED <<goldVars, example, update>>

RunTrain(t) == RunPart(t, "train", "TRAIN", "holdout")
RunHoldout(t) == RunPart(t, "holdout", "HOLDOUT", "judge")

Over(t) == Proceed(t, NoTrial)

\* The verdict, and is_active = False: columns that equal what was read are not
\* written, so an example enabled meanwhile stays enabled.
Verdict(t) ==
    LET e == trial[t].example
        verdict == IF trial[t].ok THEN "VALIDATED" ELSE "FAILED"
    IN
    /\ trial[t].stage = "judge" /\ Stored(e)
    /\ example' = [example EXCEPT
                     ![e].status = IF verdict = trial[t].loaded THEN @ ELSE verdict,
                     ![e].active = IF trial[t].wasActive THEN FALSE ELSE @,
                     ![e].passed = @ \/ (trial[t].ok /\ trial[t].parts = Roles)]
    /\ Over(t)
    /\ UNCHANGED <<goldVars, update>>

\* The model or the database fails, the job is cancelled, the process dies, or the
\* row is gone when the verdict is written.
TrialFails(t) ==
    /\ trial[t].stage \in {"train", "holdout", "judge"}
    /\ Over(t)
    /\ UNCHANGED <<goldVars, example, update>>

-----------------------------------------------------------------------------
Next ==
    \/ GoldNext /\ UNCHANGED exampleVars
    \/ \E e \in Examples : CreateExample(e) \/ DeleteExample(e)
    \/ \E f \in Feedbacks, C \in SUBSET Cases, e \in Examples :
          Cardinality(C) <= 1 /\ AcceptWithExample(f, C, e)
    \/ \E r \in Requests :
          \/ \E e \in Examples : ReadExample(r, e) \/ SaveAsCandidate(r, e)
          \/ \E enable \in {"kept", "yes", "no"} : CommitExample(r, enable)
          \/ RequestEnds(r)
    \/ \E t \in Trials :
          \/ \E e \in Examples : StartTrial(t, e)
          \/ RunTrain(t) \/ RunHoldout(t) \/ Verdict(t) \/ TrialFails(t)

Spec == Init /\ [][Next]_vars

-----------------------------------------------------------------------------
\* get_active_examples, for an extraction of the tenant
InUse(t) ==
    {e \in Examples : /\ example[e].active /\ example[e].status = "ACTIVE"
                      /\ example[e].scope \in {None, t}}

\* No example reaches an extraction unless an evaluation of that very row passed,
\* on training and on holdout cases; however updates, deletions and late verdicts
\* interleave, and although a verdict that arrives late does not disable a row
\* that was enabled after the evaluation read it.
UsedWasValidated == \A t \in Tenants : \A e \in InUse(t) : example[e].passed

\* The text of a tenant's document is never put into the prompt of another tenant,
\* through any chain of candidates that were edited from the example it came in.
ContentStaysWithTenant ==
    \A t \in Tenants : \A e \in InUse(t) : example[e].content \in {None, t}
=============================================================================
