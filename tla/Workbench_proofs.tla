--------------------------- MODULE Workbench_proofs --------------------------
(***************************************************************************)
(* The users of the gold set, for any constants: an example in use was     *)
(* validated and keeps to the tenant it came from, and what a generation   *)
(* job sent to the model is on its row.                                    *)
(***************************************************************************)
EXTENDS MCWorkbench, TLAPS

-----------------------------------------------------------------------------
(***************************************************************************)
(* KnowledgeBase.  That a row passed is never taken back, so that the      *)
(* status which an update has read justifies what it commits later, in     *)
(* whatever order verdicts, updates and deletions come.                    *)
(***************************************************************************)
BaseType ==
    /\ example \in [Examples -> Base!Row]
    /\ trial \in [Trials -> Base!Trial]
    /\ update \in [Requests -> [example : Examples \cup {None},
                                loaded : {"none", "DRAFT", "VALIDATED", "FAILED", "ACTIVE"},
                                wasActive : BOOLEAN]]

\* What a row may say of itself
Honest(row) ==
    /\ row.status \in {"VALIDATED", "ACTIVE"} => row.passed
    /\ row.content \in {None, row.scope}

\* A trial that is still good has seen cases of the roles that it has run.
RolesSeen ==
    \A t \in Trials :
        trial[t].ok => /\ trial[t].stage \in {"holdout", "judge"} => "TRAIN" \in trial[t].parts
                       /\ trial[t].stage = "judge" => "HOLDOUT" \in trial[t].parts

\* An update that read VALIDATED or ACTIVE read a row that passed.
ReadPassed ==
    \A r \in Requests :
        Base!Enableable(update[r].loaded) /\ update[r].example # None =>
            example[update[r].example].passed

BaseInv == BaseType /\ (\A e \in Examples : Honest(example[e])) /\ RolesSeen /\ ReadPassed

LEMMA InitBase == Base!Init => BaseInv
<1> SUFFICES ASSUME Base!Init PROVE BaseInv
  OBVIOUS
<1>1. /\ example = [e \in Examples |-> Base!NoRow]
      /\ trial = [t \in Trials |-> Base!NoTrial]
      /\ update = [r \in Requests |-> Base!NoUpdate]
  BY DEF Base!Init, Base!NoExamples
<1>2. Base!NoRow \in Base!Row /\ Honest(Base!NoRow)
  BY DEF Base!NoRow, Base!Row, Honest
<1>3. Base!NoTrial \in Base!Trial /\ ~Base!NoTrial.ok
  BY DEF Base!NoTrial, Base!Trial, Base!Roles
<1>4. BaseType /\ RolesSeen
  BY <1>1, <1>2, <1>3 DEF BaseType, Base!NoUpdate, RolesSeen
<1>5. ReadPassed
  BY <1>1 DEF ReadPassed, Base!NoUpdate, Base!Enableable
<1> QED
  BY <1>1, <1>2, <1>4, <1>5 DEF BaseInv

\* One row is written, and it does not lose that it passed.
LEMMA RowChanges ==
  ASSUME BaseInv, NEW e, NEW row, e \in Examples => row \in Base!Row /\ Honest(row),
         example' = [example EXCEPT ![e] = row],
         e \in Examples /\ example[e].passed => row.passed,
         \/ UNCHANGED trial
         \/ \E t \in Trials : trial' = [trial EXCEPT ![t] = Base!NoTrial],
         \/ UNCHANGED update
         \/ \E r \in Requests : update' = [update EXCEPT ![r] = Base!NoUpdate]
  PROVE  BaseInv'
<1>1. \A x \in Examples : example'[x] = IF x = e THEN row ELSE example[x]
  BY DEF BaseInv, BaseType
<1>2. Base!NoTrial \in Base!Trial /\ ~Base!NoTrial.ok
  BY DEF Base!NoTrial, Base!Trial, Base!Roles
<1>3. trial' \in [Trials -> Base!Trial] /\ RolesSeen'
  BY <1>2 DEF BaseInv, BaseType, RolesSeen
<1>4. Base!NoUpdate \in [example : Examples \cup {None},
                         loaded : {"none", "DRAFT", "VALIDATED", "FAILED", "ACTIVE"},
                         wasActive : BOOLEAN]
  BY DEF Base!NoUpdate
<1>8. \A r \in Requests : update'[r] \in {update[r], Base!NoUpdate}
  BY DEF BaseInv, BaseType
<1>9. update' \in [Requests -> [example : Examples \cup {None},
                                loaded : {"none", "DRAFT", "VALIDATED", "FAILED", "ACTIVE"},
                                wasActive : BOOLEAN]]
  BY <1>4 DEF BaseInv, BaseType
<1>5. ReadPassed'
  BY <1>1, <1>8 DEF BaseInv, BaseType, ReadPassed, Base!NoUpdate, Base!Enableable
<1>6. example' \in [Examples -> Base!Row]
  BY DEF BaseInv, BaseType
<1>7. \A x \in Examples : Honest(example'[x])
  BY <1>1 DEF BaseInv
<1> QED
  BY <1>3, <1>5, <1>6, <1>7, <1>9 DEF BaseInv, BaseType, Honest

LEMMA RowSaved ==
  ASSUME BaseInv, NEW e \in Examples, NEW row \in Base!Row, Honest(row), Base!Save(e, row),
         UNCHANGED trial,
         \/ UNCHANGED update
         \/ \E r \in Requests : update' = [update EXCEPT ![r] = Base!NoUpdate]
  PROVE  BaseInv'
<1>1. ~example[e].passed /\ example' = [example EXCEPT ![e] = row]
  BY DEF Base!Save, Base!NoRow
<1> QED
  BY <1>1, RowChanges

LEMMA RequestsKeep ==
  ASSUME Base!KnowledgeConstants, BaseInv,
         \/ \E e \in Examples : Base!CreateExample(e) \/ Base!DeleteExample(e)
         \/ \E f \in Feedbacks, C \in SUBSET Cases, e \in Examples : Base!AcceptWithExample(f, C, e)
         \/ \E r \in Requests :
               \/ \E e \in Examples : Base!ReadExample(r, e) \/ Base!SaveAsCandidate(r, e)
               \/ \E enable \in {"kept", "yes", "no"} : Base!CommitExample(r, enable)
               \/ Base!RequestEnds(r)
  PROVE  BaseInv'
<1>1. ASSUME NEW e \in Examples, Base!CreateExample(e)
      PROVE  BaseInv'
  <2>1. Base!Draft \in Base!Row /\ Honest(Base!Draft)
    BY DEF Base!Draft, Base!NoRow, Base!Row, Honest
  <2> QED
    BY <1>1, <2>1, RowSaved DEF Base!CreateExample
<1>2. ASSUME NEW e \in Examples, Base!DeleteExample(e)
      PROVE  BaseInv'
  <2> DEFINE row == [example[e] EXCEPT !.status = "deleted", !.active = FALSE]
  <2>1. example' = [example EXCEPT ![e] = row]
    BY <1>2 DEF Base!DeleteExample
  <2>2. example[e] \in Base!Row /\ Honest(example[e])
    BY DEF BaseInv, BaseType
  <2>3. row \in Base!Row /\ Honest(row) /\ row.passed = example[e].passed
    BY <2>2 DEF Base!Row, Honest
  <2> HIDE DEF row
  <2> QED
    BY <1>2, <2>1, <2>3, RowChanges DEF Base!DeleteExample
<1>3. ASSUME NEW f \in Feedbacks, NEW C \in SUBSET Cases, NEW e \in Examples,
             Base!AcceptWithExample(f, C, e)
      PROVE  BaseInv'
  <2> DEFINE row == [Base!Draft EXCEPT !.from = f, !.scope = Owner[f], !.content = Owner[f]]
  <2>1. Owner[f] \in Tenants
    BY DEF Base!KnowledgeConstants
  <2>2. row \in Base!Row /\ Honest(row)
    BY <2>1 DEF Base!Draft, Base!NoRow, Base!Row, Honest
  <2>3. Base!Save(e, row) /\ UNCHANGED <<trial, update>>
    BY <1>3 DEF Base!AcceptWithExample
  <2> HIDE DEF row
  <2> QED
    BY <2>2, <2>3, RowSaved
<1>4. ASSUME NEW r \in Requests, NEW e \in Examples, Base!ReadExample(r, e)
      PROVE  BaseInv'
  <2> DEFINE read == [example |-> e, loaded |-> example[e].status, wasActive |-> example[e].active]
  <2>1. example[e] \in Base!Row /\ Honest(example[e]) /\ Base!Stored(e)
    BY <1>4 DEF BaseInv, BaseType, Base!ReadExample
  <2>2. /\ read \in [example : Examples \cup {None},
                     loaded : {"none", "DRAFT", "VALIDATED", "FAILED", "ACTIVE"}, wasActive : BOOLEAN]
        /\ read.example = e /\ (Base!Enableable(read.loaded) => example[e].passed)
    BY <2>1 DEF Base!Row, Base!Stored, Honest, Base!Enableable
  <2>3. update' = [update EXCEPT ![r] = read] /\ UNCHANGED <<example, trial>>
    BY <1>4 DEF Base!ReadExample
  <2> HIDE DEF read
  <2>4. BaseType'
    BY <2>2, <2>3 DEF BaseInv, BaseType
  <2>5. ReadPassed'
    BY <2>2, <2>3 DEF BaseInv, BaseType, ReadPassed
  <2> QED
    BY <2>3, <2>4, <2>5 DEF BaseInv, RolesSeen, Honest
<1>5. ASSUME NEW r \in Requests, NEW new \in Examples, Base!SaveAsCandidate(r, new)
      PROVE  BaseInv'
  <2> DEFINE e == update[r].example
  <2>1. e \in Examples
    BY <1>5 DEF Base!SaveAsCandidate, BaseInv, BaseType
  <2>2. example[e] \in Base!Row /\ Honest(example[e])
    BY <2>1 DEF BaseInv, BaseType
  <2>3. Base!CandidateOf(e) \in Base!Row /\ Honest(Base!CandidateOf(e))
    BY <2>2 DEF Base!CandidateOf, Base!Draft, Base!NoRow, Base!Row, Honest
  <2>5. /\ Base!Save(new, Base!CandidateOf(e)) /\ UNCHANGED trial
        /\ update' = [update EXCEPT ![r] = Base!NoUpdate]
    BY <1>5 DEF Base!SaveAsCandidate, Base!Answer
  <2> HIDE DEF e
  <2> QED
    BY <2>3, <2>5, RowSaved
<1>6. ASSUME NEW r \in Requests, NEW enable \in {"kept", "yes", "no"}, Base!CommitExample(r, enable)
      PROVE  BaseInv'
  <2> DEFINE e == update[r].example
             active == IF enable = "kept" \/ (enable = "yes") = update[r].wasActive
                       THEN example[e].active ELSE enable = "yes"
             status == IF enable = "yes" /\ update[r].loaded # "ACTIVE" THEN "ACTIVE" ELSE example[e].status
             row == [example[e] EXCEPT !.active = active, !.status = status]
  <2>1. e \in Examples
    BY <1>6 DEF Base!CommitExample, BaseInv, BaseType
  <2>2. example[e] \in Base!Row /\ Honest(example[e])
    BY <2>1 DEF BaseInv, BaseType
  <2>3. example' = [example EXCEPT ![e] = row]
    BY <1>6, <2>1 DEF Base!CommitExample
  <2>4. active \in BOOLEAN
    BY <2>2 DEF Base!Row
  <2>5. /\ status \in {example[e].status, "ACTIVE"}
        /\ status # example[e].status => example[e].passed
    BY <1>6, <2>1 DEF Base!CommitExample, BaseInv, ReadPassed
  <2>6. /\ UNCHANGED trial /\ update' = [update EXCEPT ![r] = Base!NoUpdate]
    BY <1>6 DEF Base!CommitExample, Base!Answer
  <2> HIDE DEF e, active, status
  <2>7. row \in Base!Row /\ Honest(row) /\ row.passed = example[e].passed
    BY <2>2, <2>4, <2>5 DEF Base!Row, Honest
  <2> HIDE DEF row
  <2> QED
    BY <2>3, <2>6, <2>7, RowChanges
<1>7. ASSUME NEW r \in Requests, Base!RequestEnds(r)
      PROVE  BaseInv'
  <2>1. UNCHANGED <<example, trial>> /\ update' = [update EXCEPT ![r] = Base!NoUpdate]
    BY <1>7 DEF Base!RequestEnds, Base!Answer
  <2>2. Base!NoUpdate.loaded = "none"
    BY DEF Base!NoUpdate
  <2> QED
    BY <2>1, <2>2 DEF BaseInv, BaseType, ReadPassed, RolesSeen, Honest, Base!NoUpdate, Base!Enableable
<1> QED
  BY <1>1, <1>2, <1>3, <1>4, <1>5, <1>6, <1>7

\* A part of an evaluation that is still good afterwards had cases.
LEMMA PartKeeps ==
  ASSUME BaseInv, NEW t \in Trials, NEW stage, NEW role \in Base!Roles, NEW next,
         \/ stage = "train" /\ role = "TRAIN" /\ next = "holdout"
         \/ stage = "holdout" /\ role = "HOLDOUT" /\ next = "judge",
         Base!RunPart(t, stage, role, next)
  PROVE  BaseInv'
<1> DEFINE cases == Base!Selected(role, example[trial[t].example].from)
           parts == IF cases = {} THEN trial[t].parts ELSE trial[t].parts \cup {role}
<1>1. PICK ok \in BOOLEAN :
         trial' = [trial EXCEPT ![t] = [trial[t] EXCEPT !.stage = next, 
                                            !.ok = trial[t].ok /\ Base!Passes(cases, ok), !.parts = parts]]
  BY DEF Base!RunPart, Base!Proceed
<1> DEFINE good == trial[t].ok /\ Base!Passes(cases, ok)
           e == [trial[t] EXCEPT !.stage = next, !.ok = good, !.parts = parts]
<1>2. trial[t] \in Base!Trial /\ trial[t].stage = stage
  BY DEF BaseInv, BaseType, Base!RunPart
<1>3. good \in BOOLEAN /\ (good => trial[t].ok /\ role \in parts) /\ trial[t].parts \subseteq parts
  BY <1>2 DEF Base!Passes, Base!Trial
<1>4. parts \subseteq Base!Roles
  BY <1>2 DEF Base!Trial
<1> HIDE DEF good, parts
<1>5. /\ e \in Base!Trial /\ e.stage = next /\ e.ok = good /\ e.parts = parts
  BY <1>2, <1>3, <1>4 DEF Base!Trial
<1>6. trial' = [trial EXCEPT ![t] = e]
  BY <1>1 DEF good
<1> HIDE DEF e
<1>7. BaseType'
  BY <1>5, <1>6 DEF BaseInv, BaseType, Base!RunPart
<1>8. \A x \in Trials : trial'[x] = IF x = t THEN e ELSE trial[x]
  BY <1>6 DEF BaseInv, BaseType
<1>9. RolesSeen'
  BY <1>2, <1>3, <1>5, <1>8 DEF BaseInv, RolesSeen
<1> QED
  BY <1>7, <1>9 DEF BaseInv, ReadPassed, Honest, Base!RunPart

LEMMA TrialsKeep ==
  ASSUME BaseInv, NEW t \in Trials,
         \/ \E e \in Examples : Base!StartTrial(t, e)
         \/ Base!RunTrain(t) \/ Base!RunHoldout(t) \/ Base!Verdict(t) \/ Base!TrialFails(t)
  PROVE  BaseInv'
<1>1. ASSUME NEW e \in Examples, Base!StartTrial(t, e)
      PROVE  BaseInv'
  <2> DEFINE started == [example |-> e, loaded |-> example[e].status, wasActive |-> example[e].active,
                         stage |-> "train", ok |-> TRUE, parts |-> {}]
  <2>1. started \in Base!Trial /\ started.stage = "train"
    BY <1>1 DEF BaseInv, BaseType, Base!StartTrial, Base!Stored, Base!Trial, Base!Row, Base!Roles
  <2>2. trial' = [trial EXCEPT ![t] = started] /\ UNCHANGED <<example, update>>
    BY <1>1 DEF Base!StartTrial, Base!Proceed
  <2> HIDE DEF started
  <2> QED
    BY <2>1, <2>2 DEF BaseInv, BaseType, RolesSeen, ReadPassed, Honest
<1>2. CASE Base!RunTrain(t) \/ Base!RunHoldout(t)
  BY <1>2, PartKeeps DEF Base!RunTrain, Base!RunHoldout, Base!Roles
<1>3. CASE Base!Verdict(t)
  <2> DEFINE e == trial[t].example
             verdict == IF trial[t].ok THEN "VALIDATED" ELSE "FAILED"
             status == IF verdict = trial[t].loaded THEN example[e].status ELSE verdict
             active == IF trial[t].wasActive THEN FALSE ELSE example[e].active
             passed == example[e].passed \/ (trial[t].ok /\ trial[t].parts = Base!Roles)
             row == [example[e] EXCEPT !.status = status, !.active = active, !.passed = passed]
  <2>1. example' = [example EXCEPT ![e] = row]
    BY <1>3 DEF Base!Verdict
  <2>2. trial[t] \in Base!Trial
    BY DEF BaseInv, BaseType
  <2>3. trial[t].ok => trial[t].parts = Base!Roles
    BY <1>3, <2>2 DEF Base!Verdict, BaseInv, RolesSeen, Base!Trial, Base!Roles
  <2>4. UNCHANGED update /\ trial' = [trial EXCEPT ![t] = Base!NoTrial]
    BY <1>3 DEF Base!Verdict, Base!Over, Base!Proceed
  <2>5. ASSUME e \in Examples
        PROVE  row \in Base!Row /\ Honest(row) /\ (example[e].passed => row.passed)
    <3>1. example[e] \in Base!Row /\ Honest(example[e])
      BY <2>5 DEF BaseInv, BaseType
    <3>2. /\ status \in {example[e].status, "VALIDATED", "FAILED"}
          /\ status = "VALIDATED" => status = example[e].status \/ trial[t].ok
      OBVIOUS
    <3>3. active \in BOOLEAN /\ passed \in BOOLEAN
      BY <3>1 DEF Base!Row
    <3>4. /\ example[e].passed => passed
          /\ trial[t].ok => passed
      BY <2>3
    <3> HIDE DEF e, verdict, status, active, passed
    <3> QED
      BY <3>1, <3>2, <3>3, <3>4 DEF Base!Row, Honest
  <2> HIDE DEF row
  <2> QED
    BY <2>1, <2>4, <2>5, RowChanges
<1>4. CASE Base!TrialFails(t)
  <2>1. trial' = [trial EXCEPT ![t] = Base!NoTrial] /\ UNCHANGED <<example, update>>
    BY <1>4 DEF Base!TrialFails, Base!Over, Base!Proceed
  <2>2. Base!NoTrial \in Base!Trial /\ ~Base!NoTrial.ok
    BY DEF Base!NoTrial, Base!Trial, Base!Roles
  <2> QED
    BY <2>1, <2>2 DEF BaseInv, BaseType, RolesSeen, ReadPassed, Honest
<1> QED
  BY <1>1, <1>2, <1>3, <1>4

LEMMA NextBase ==
  ASSUME Base!KnowledgeConstants
  PROVE  BaseInv /\ [Base!Next]_(Base!vars) => BaseInv'
<1> SUFFICES ASSUME BaseInv, [Base!Next]_(Base!vars)
             PROVE  BaseInv'
  OBVIOUS
<1>1. CASE UNCHANGED Base!exampleVars
  BY <1>1 DEF Base!exampleVars, BaseInv, BaseType, RolesSeen, ReadPassed, Honest
<1>2. CASE Base!Next
  BY <1>1, <1>2, RequestsKeep, TrialsKeep DEF Base!Next
<1> QED
  BY <1>1, <1>2 DEF Base!vars

LEMMA BaseInvariant ==
  ASSUME Base!KnowledgeConstants
  PROVE  Base!Spec => []BaseInv
  BY InitBase, NextBase, PTL DEF Base!Spec

(***************************************************************************)
(* No example is added to a prompt unless an evaluation of that row passed *)
(* on training and on holdout cases: whatever updates, deletions and       *)
(* evaluations overlap (update_few_shot, evaluate_few_shot).               *)
(***************************************************************************)
THEOREM UsedExamplesPassed ==
  ASSUME Base!KnowledgeConstants
  PROVE  Base!Spec => []UsedWasValidated
<1>1. BaseInv => UsedWasValidated
  BY DEF BaseInv, Honest, UsedWasValidated, Base!UsedWasValidated, Base!InUse
<1> QED
  BY <1>1, BaseInvariant, PTL

(***************************************************************************)
(* The text of one tenant's document never gets into a prompt for another, *)
(* through however many candidates it is edited (CandidateOf,              *)
(* get_active_examples).                                                   *)
(***************************************************************************)
THEOREM ExamplesKeepToTenant ==
  ASSUME Base!KnowledgeConstants
  PROVE  Base!Spec => []ContentStaysWithTenant
<1>1. BaseInv => ContentStaysWithTenant
  BY DEF BaseInv, Honest, ContentStaysWithTenant, Base!ContentStaysWithTenant, Base!InUse
<1> QED
  BY <1>1, BaseInvariant, PTL

-----------------------------------------------------------------------------
(***************************************************************************)
(* PromptGeneration.  From the commit of the evidence until the job is     *)
(* over, the row's evidence is what the job has loaded, and nothing else   *)
(* is sent.                                                                *)
(***************************************************************************)
LabType ==
    /\ labAccepted \subseteq LabFeedbacks
    /\ inUse \in Lab!Versions
    /\ job \in [Jobs -> Lab!Job]
    /\ finalize \in [Admins -> [job : Jobs \cup {None}, version : Lab!Versions \cup {None}]]

Recorded(r) ==
    /\ r.row = "none" => r.pc = "over" \/ (r.type = "inline" /\ r.pc = "asking")
    /\ r.row = "none" <=> r.type \in {"none", "inline"}
    /\ r.pc = "scheduled" /\ r.type # "generation" => r.source \in Jobs
    /\ r.row # "none" =>
          /\ r.sent \subseteq r.evidence /\ r.sent \subseteq r.loaded
          /\ r.pc \in {"scheduled", "baseline", "candidate", "recording", "asking"} => r.sent = {}
          /\ r.pc \in {"asking", "streaming", "merging", "retrying", "validating"} => r.evidence = r.loaded

LabInv == LabType /\ \A j \in Jobs : Recorded(job[j])

LEMMA InitLab == Lab!Init => LabInv
<1> SUFFICES ASSUME Lab!Init PROVE LabInv
  OBVIOUS
<1>1. Lab!NoJob \in Lab!Job /\ Recorded(Lab!NoJob)
  BY DEF Lab!NoJob, Lab!Job, Lab!Evidence, Lab!Generating, Recorded
<1>2. Lab!NoFinalize \in [job : Jobs \cup {None}, version : Lab!Versions \cup {None}]
  BY DEF Lab!NoFinalize
<1> QED
  BY <1>1, <1>2 DEF Lab!Init, Lab!GoldInit, LabInv, LabType, Lab!Versions

LEMMA JobMoves ==
  ASSUME LabInv, NEW j, NEW e, j \in Jobs => e \in Lab!Job /\ Recorded(e),
         job' = [job EXCEPT ![j] = e], UNCHANGED <<labAccepted, inUse>>,
         finalize' \in [Admins -> [job : Jobs \cup {None}, version : Lab!Versions \cup {None}]]
  PROVE  LabInv'
<1>1. job' \in [Jobs -> Lab!Job] /\ \A i \in Jobs : job'[i] = IF i = j THEN e ELSE job[i]
  BY DEF LabInv, LabType
<1>2. \A i \in Jobs : Recorded(job'[i])
  BY <1>1 DEF LabInv
<1> QED
  BY <1>1, <1>2 DEF LabInv, LabType, Recorded

LEMMA TypedJob ==
  ASSUME LabInv, NEW j \in Jobs
  PROVE  /\ job[j] \in Lab!Job /\ Recorded(job[j])
         /\ finalize \in [Admins -> [job : Jobs \cup {None}, version : Lab!Versions \cup {None}]]
  BY DEF LabInv, LabType

\* A row that is inserted
LEMMA JobCreated ==
  ASSUME LabInv, NEW j \in Jobs,
         \/ \E v \in Lab!Versions : Lab!CreateEvaluation(j, v)
         \/ \E F \in SUBSET LabFeedbacks :
               \/ Lab!CreateGeneration(j, F) \/ Lab!AskInline(j, F)
               \/ \E source \in Jobs : Lab!CreateRefinement(j, source, F)
  PROVE  LabInv'
<1>0. UNCHANGED <<labAccepted, inUse, finalize>>
  BY DEF Lab!CreateEvaluation, Lab!CreateGeneration, Lab!AskInline, Lab!CreateRefinement, Lab!goldVars
<1>f. finalize' \in [Admins -> [job : Jobs \cup {None}, version : Lab!Versions \cup {None}]]
  BY <1>0, TypedJob
<1>1. ASSUME NEW v \in Lab!Versions, Lab!CreateEvaluation(j, v)
      PROVE  LabInv'
  <2> DEFINE e == [Lab!NoJob EXCEPT !.type = "evaluation", !.row = "QUEUED", !.pc = "baseline", !.parent = v]
  <2>1. job' = [job EXCEPT ![j] = e]
    BY <1>1 DEF Lab!CreateEvaluation, Lab!Becomes
  <2>2. e \in Lab!Job /\ Recorded(e)
    BY DEF Lab!NoJob, Lab!Job, Lab!Evidence, Recorded
  <2> HIDE DEF e
  <2> QED
    BY <1>0, <1>f, <2>1, <2>2, JobMoves
<1>2. ASSUME NEW F \in SUBSET LabFeedbacks, Lab!CreateGeneration(j, F)
      PROVE  LabInv'
  <2> DEFINE e == [Lab!NoJob EXCEPT !.type = "generation", !.row = "QUEUED", !.pc = "scheduled",
                                  !.feedbacks = F]
  <2>1. job' = [job EXCEPT ![j] = e]
    BY <1>2 DEF Lab!CreateGeneration, Lab!Becomes
  <2>2. e \in Lab!Job /\ Recorded(e)
    BY DEF Lab!NoJob, Lab!Job, Lab!Evidence, Lab!Generating, Recorded
  <2> HIDE DEF e
  <2> QED
    BY <1>0, <1>f, <2>1, <2>2, JobMoves
<1>3. ASSUME NEW F \in SUBSET LabFeedbacks, NEW source \in Jobs, Lab!CreateRefinement(j, source, F)
      PROVE  LabInv'
  <2> DEFINE e == [Lab!NoJob EXCEPT !.type = "refinement", !.row = "QUEUED", !.pc = "scheduled",
                                  !.feedbacks = F, !.source = source]
  <2>1. job' = [job EXCEPT ![j] = e]
    BY <1>3 DEF Lab!CreateRefinement, Lab!Becomes
  <2>2. e \in Lab!Job /\ Recorded(e)
    BY DEF Lab!NoJob, Lab!Job, Lab!Evidence, Lab!Generating, Recorded
  <2> HIDE DEF e
  <2> QED
    BY <1>0, <1>f, <2>1, <2>2, JobMoves
<1>4. ASSUME NEW F \in SUBSET LabFeedbacks, Lab!AskInline(j, F)
      PROVE  LabInv'
  <2> DEFINE evidence == IF F = {} THEN labAccepted ELSE F \cap labAccepted
             e == [Lab!NoJob EXCEPT !.type = "inline", !.pc = "asking", !.feedbacks = F, !.parent = inUse,
                                  !.loaded = evidence, !.sent = evidence]
  <2>1. job' = [job EXCEPT ![j] = e]
    BY <1>4 DEF Lab!AskInline, Lab!Becomes
  <2>2. evidence \in Lab!Evidence /\ inUse \in Lab!Versions
    BY DEF LabInv, LabType, Lab!Evidence
  <2> HIDE DEF evidence
  <2>3. e \in Lab!Job /\ Recorded(e)
    BY <2>2 DEF Lab!NoJob, Lab!Job, Lab!Evidence, Recorded
  <2> HIDE DEF e
  <2> QED
    BY <1>0, <1>f, <2>1, <2>3, JobMoves
<1> QED
  BY <1>1, <1>2, <1>3, <1>4

\* The steps that change where a job is and what its row has, and nothing it was sent.
LEMMA JobAdvances ==
  ASSUME LabInv, NEW j \in Jobs,
         \/ Lab!EvaluateBaseline(j) \/ Lab!EvaluateCandidate(j)
         \/ Lab!StreamEnds(j) \/ Lab!JobFails(j) \/ Lab!InlineFails(j)
         \/ \E v \in Candidates : Lab!SaveInline(j, v)
  PROVE  LabInv'
<1> DEFINE r == job[j]
<1>0. /\ r \in Lab!Job /\ Recorded(r) /\ UNCHANGED <<labAccepted, inUse>>
      /\ finalize' \in [Admins -> [job : Jobs \cup {None}, version : Lab!Versions \cup {None}]]
  BY TypedJob DEF Lab!EvaluateBaseline, Lab!EvaluateCandidate, Lab!StreamEnds, Lab!JobFails,
     Lab!InlineFails, Lab!SaveInline, Lab!goldVars
<1>s. Lab!Selected("TRAIN", None) \subseteq LabCases
  BY DEF Lab!Selected
<1>1. CASE Lab!EvaluateBaseline(j)
  <2> DEFINE e == [r EXCEPT !.row = "RUNNING", !.pc = "candidate", !.rows = Lab!Selected("TRAIN", None)]
  <2>1. job' = [job EXCEPT ![j] = e] /\ r.pc = "baseline"
    BY <1>1 DEF Lab!EvaluateBaseline, Lab!Becomes, Lab!At
  <2>2. e \in Lab!Job /\ Recorded(e)
    BY <1>0, <1>s, <2>1 DEF Lab!Job, Recorded
  <2> HIDE DEF e
  <2> QED
    BY <1>0, <2>1, <2>2, JobMoves
<1>2. CASE Lab!EvaluateCandidate(j)
  <2> DEFINE rows == r.rows \cup Lab!Selected("TRAIN", None)
  <2>1. PICK wrong \in SUBSET rows, secret \in BOOLEAN :
           job' = [job EXCEPT ![j] = [r EXCEPT !.row = "COMPLETED", !.pc = "over", !.rows = rows,
                                               !.wrong = wrong, !.secret = secret]]
    BY <1>2 DEF Lab!EvaluateCandidate, Lab!Becomes
  <2> DEFINE e == [r EXCEPT !.row = "COMPLETED", !.pc = "over", !.rows = rows,
                            !.wrong = wrong, !.secret = secret]
  <2>2. r.pc = "candidate" /\ rows \subseteq LabCases /\ wrong \subseteq LabCases
    BY <1>0, <1>2, <1>s DEF Lab!EvaluateCandidate, Lab!At, Lab!Job
  <2>3. e \in Lab!Job /\ Recorded(e)
    BY <1>0, <2>2 DEF Lab!Job, Recorded
  <2> HIDE DEF e
  <2> QED
    BY <1>0, <2>1, <2>3, JobMoves DEF e
<1>3. CASE Lab!StreamEnds(j)
  <2>1. PICK pc \in {"validating", "merging"} : job' = [job EXCEPT ![j] = [r EXCEPT !.pc = pc]]
    BY <1>3 DEF Lab!StreamEnds, Lab!Becomes
  <2> DEFINE e == [r EXCEPT !.pc = pc]
  <2>2. r.pc = "streaming"
    BY <1>3 DEF Lab!StreamEnds, Lab!At
  <2>3. e \in Lab!Job /\ Recorded(e)
    BY <1>0, <2>2 DEF Lab!Job, Recorded
  <2> QED
    BY <1>0, <2>1, <2>3, JobMoves
<1>4. CASE Lab!JobFails(j)
  <2>1. PICK row \in {"FAILED", "CANCELLED"} : job' = [job EXCEPT ![j] = [r EXCEPT !.row = row, !.pc = "over"]]
    BY <1>4 DEF Lab!JobFails, Lab!Becomes
  <2> DEFINE e == [r EXCEPT !.row = row, !.pc = "over"]
  <2>2. r.row # "none"
    BY <1>4 DEF Lab!JobFails
  <2>3. e \in Lab!Job /\ Recorded(e)
    BY <1>0, <2>2 DEF Lab!Job, Recorded
  <2> QED
    BY <1>0, <2>1, <2>3, JobMoves
<1>5. CASE Lab!InlineFails(j) \/ \E v \in Candidates : Lab!SaveInline(j, v)
  <2> DEFINE e == [r EXCEPT !.pc = "over"]
  <2>1. job' = [job EXCEPT ![j] = e]
    BY <1>5 DEF Lab!InlineFails, Lab!SaveInline, Lab!Becomes
  <2>2. e \in Lab!Job /\ Recorded(e)
    BY <1>0 DEF Lab!Job, Recorded
  <2> QED
    BY <1>0, <2>1, <2>2, JobMoves
<1> QED
  BY <1>1, <1>2, <1>3, <1>4, <1>5

\* The steps that load, record and send the evidence.
LEMMA EvidenceMoves ==
  ASSUME LabInv, NEW j \in Jobs,
         \/ Lab!Load(j) \/ Lab!Record(j) \/ Lab!Ask(j) \/ Lab!MergeDiagnostics(j)
         \/ Lab!RetryEnds(j) \/ Lab!Complete(j)
  PROVE  LabInv'
<1> DEFINE r == job[j]
<1>0. /\ r \in Lab!Job /\ Recorded(r) /\ UNCHANGED <<labAccepted, inUse>>
      /\ finalize' \in [Admins -> [job : Jobs \cup {None}, version : Lab!Versions \cup {None}]]
  BY TypedJob DEF Lab!Load, Lab!Record, Lab!Ask, Lab!MergeDiagnostics, Lab!RetryEnds,
     Lab!Complete, Lab!goldVars
<1>1. CASE Lab!Load(j)
  <2> DEFINE selected == r.feedbacks \cap labAccepted
             from == job[r.source]
  <2>1. r.pc = "scheduled"
    BY <1>1 DEF Lab!Load, Lab!At
  <2>2. PICK parent \in Lab!Versions \cup {None}, loaded \in Lab!Evidence :
           job' = [job EXCEPT ![j] = [r EXCEPT !.row = "RUNNING", !.pc = "recording",
                                               !.parent = parent, !.loaded = loaded]]
    <3>1. selected \in Lab!Evidence /\ inUse \in Lab!Versions
      BY DEF LabInv, LabType, Lab!Evidence
    <3>2. CASE r.type = "generation"
      BY <1>1, <3>1, <3>2 DEF Lab!Load, Lab!Becomes
    <3>3. CASE r.type # "generation"
      <4>1. r.source \in Jobs
        BY <1>0, <2>1, <3>3 DEF Recorded
      <4>2. from \in Lab!Job
        BY <4>1, TypedJob
      <4>3. from.parent \in Lab!Versions \cup {None} /\ Lab!CasesOf(from) \subseteq LabCases
        BY <4>2 DEF Lab!Job, Lab!CasesOf
      <4>4. selected \cup Lab!CasesOf(from) \in Lab!Evidence
        BY <3>1, <4>3 DEF Lab!Evidence
      <4> QED
        BY <1>1, <3>3, <4>3, <4>4 DEF Lab!Load, Lab!Becomes
    <3> QED
      BY <3>2, <3>3
  <2> DEFINE e == [r EXCEPT !.row = "RUNNING", !.pc = "recording", !.parent = parent, !.loaded = loaded]
  <2>3. r.row # "none" /\ r.sent = {} /\ r.type \notin {"none", "inline"}
    BY <1>0, <2>1 DEF Recorded
  <2>4. e \in Lab!Job
    BY <1>0 DEF Lab!Job
  <2>5. Recorded(e)
    BY <1>0, <2>3 DEF Lab!Job, Recorded
  <2> HIDE DEF e
  <2> QED
    BY <1>0, <2>2, <2>4, <2>5, JobMoves DEF e
<1>2. CASE Lab!Record(j)
  <2> DEFINE e == [r EXCEPT !.pc = "asking", !.evidence = r.loaded]
  <2>1. job' = [job EXCEPT ![j] = e] /\ r.pc = "recording"
    BY <1>2 DEF Lab!Record, Lab!Becomes, Lab!At
  <2>2. e \in Lab!Job /\ Recorded(e)
    BY <1>0, <2>1 DEF Lab!Job, Recorded
  <2> HIDE DEF e
  <2> QED
    BY <1>0, <2>1, <2>2, JobMoves
<1>3. CASE Lab!Ask(j)
  <2> DEFINE e == [r EXCEPT !.pc = "streaming", !.sent = r.loaded]
  <2>1. job' = [job EXCEPT ![j] = e] /\ r.pc = "asking"
    BY <1>3 DEF Lab!Ask, Lab!Becomes, Lab!At
  <2>2. r.row # "none" /\ r.evidence = r.loaded
    BY <1>0, <1>3, <2>1 DEF Lab!Ask, Lab!Job, Lab!Generating, Recorded
  <2>3. e \in Lab!Job
    BY <1>0 DEF Lab!Job
  <2>4. Recorded(e)
    BY <1>0, <2>2 DEF Lab!Job, Recorded
  <2> HIDE DEF e
  <2> QED
    BY <1>0, <2>1, <2>3, <2>4, JobMoves
<1>4. CASE Lab!MergeDiagnostics(j) \/ Lab!RetryEnds(j) \/ Lab!Complete(j)
  <2>1. /\ r.row # "none" /\ r.type \notin {"none", "inline"} /\ r.evidence = r.loaded
        /\ r.sent \subseteq r.loaded
    BY <1>0, <1>4 DEF Lab!MergeDiagnostics, Lab!RetryEnds, Lab!Complete, Lab!At, Recorded
  <2>2. PICK pc \in {"retrying", "validating", "over"}, row \in {r.row, "COMPLETED"} :
           job' = [job EXCEPT ![j] = [r EXCEPT !.pc = pc, !.row = row, !.evidence = r.loaded]]
    <3>1. \A pc : [r EXCEPT !.pc = pc, !.evidence = r.evidence]
                  = [r EXCEPT !.pc = pc, !.row = r.row, !.evidence = r.loaded]
      BY <1>0, <2>1 DEF Lab!Job
    <3>2. CASE Lab!MergeDiagnostics(j)
      BY <3>1, <3>2 DEF Lab!MergeDiagnostics, Lab!Becomes, Lab!Merged
    <3>3. CASE Lab!RetryEnds(j)
      BY <3>1, <3>3 DEF Lab!RetryEnds, Lab!Becomes, Lab!Merged
    <3>4. CASE Lab!Complete(j)
      BY <3>4 DEF Lab!Complete, Lab!Becomes
    <3> QED
      BY <1>4, <3>2, <3>3, <3>4
  <2> DEFINE e == [r EXCEPT !.pc = pc, !.row = row, !.evidence = r.loaded]
  <2>3. e \in Lab!Job
    BY <1>0 DEF Lab!Job
  <2>4. Recorded(e)
    BY <1>0, <2>1 DEF Lab!Job, Recorded
  <2> HIDE DEF e
  <2> QED
    BY <1>0, <2>2, <2>3, <2>4, JobMoves DEF e
<1> QED
  BY <1>1, <1>2, <1>3, <1>4

\* The requests that finalise a job write related_entity_id, and no evidence.
LEMMA FinalizeKeeps ==
  ASSUME LabInv, NEW a \in Admins,
         \/ \E j \in Jobs : Lab!ReadFinalize(a, j)
         \/ \E v \in Candidates : Lab!SaveCandidate(a, v)
         \/ Lab!RelateCandidate(a) \/ Lab!FinalizeEnds(a)
  PROVE  LabInv'
<1>0. UNCHANGED <<labAccepted, inUse>>
  BY DEF Lab!ReadFinalize, Lab!SaveCandidate, Lab!RelateCandidate, Lab!FinalizeEnds, Lab!goldVars
<1>1. finalize \in [Admins -> [job : Jobs \cup {None}, version : Lab!Versions \cup {None}]]
  BY DEF LabInv, LabType
<1>2. Lab!NoFinalize \in [job : Jobs \cup {None}, version : Lab!Versions \cup {None}]
  BY DEF Lab!NoFinalize
<1>3. finalize' \in [Admins -> [job : Jobs \cup {None}, version : Lab!Versions \cup {None}]]
  <2>1. CASE \E j \in Jobs : Lab!ReadFinalize(a, j)
    BY <1>1, <2>1 DEF Lab!ReadFinalize
  <2>2. CASE \E v \in Candidates : Lab!SaveCandidate(a, v)
    BY <1>1, <2>2 DEF Lab!SaveCandidate, Lab!Versions
  <2>3. CASE Lab!RelateCandidate(a) \/ Lab!FinalizeEnds(a)
    BY <1>1, <1>2, <2>3 DEF Lab!RelateCandidate, Lab!FinalizeEnds
  <2> QED
    BY <2>1, <2>2, <2>3
<1>4. CASE UNCHANGED job
  BY <1>0, <1>3, <1>4 DEF LabInv, LabType, Recorded
<1>5. CASE Lab!RelateCandidate(a)
  <2> DEFINE j == finalize[a].job
             v == finalize[a].version
             e == [job[j] EXCEPT !.related = v]
  <2>1. job' = [job EXCEPT ![j] = e]
    BY <1>5 DEF Lab!RelateCandidate, Lab!Becomes
  <2>2. v \in Lab!Versions \cup {None}
    BY <1>1
  <2> HIDE DEF j, v
  <2>3. ASSUME j \in Jobs
        PROVE  e \in Lab!Job /\ Recorded(e)
    <3>1. job[j] \in Lab!Job /\ Recorded(job[j])
      BY <2>3, TypedJob
    <3> QED
      BY <2>2, <3>1 DEF Lab!Job, Recorded
  <2> HIDE DEF e
  <2> QED
    BY <1>0, <1>3, <2>1, <2>3, JobMoves
<1> QED
  BY <1>4, <1>5 DEF Lab!ReadFinalize, Lab!SaveCandidate, Lab!FinalizeEnds

LEMMA NextLab == LabInv /\ [Lab!Next]_(Lab!vars) => LabInv'
<1> SUFFICES ASSUME LabInv, [Lab!Next]_(Lab!vars)
             PROVE  LabInv'
  OBVIOUS
<1>1. ASSUME labAccepted' \subseteq LabFeedbacks, inUse' \in Lab!Versions, UNCHANGED <<job, finalize>>
      PROVE  LabInv'
  BY <1>1 DEF LabInv, LabType, Recorded
<1>2. CASE Lab!GoldNext /\ UNCHANGED Lab!generationVars
  <2>1. labAccepted' \subseteq LabFeedbacks
    BY <1>2 DEF Lab!GoldNext, Lab!AcceptFeedback, Lab!UpdateCase, Lab!ImportCase, LabInv, LabType
  <2> QED
    BY <1>1, <1>2, <2>1 DEF Lab!generationVars, LabInv, LabType
<1>3. ASSUME NEW v \in Lab!Versions, Lab!Activate(v)
      PROVE  LabInv'
  BY <1>1, <1>3 DEF Lab!Activate, Lab!goldVars, LabInv, LabType
<1>4. CASE UNCHANGED Lab!vars
  BY <1>1, <1>4 DEF Lab!vars, Lab!goldVars, Lab!generationVars, LabInv, LabType
<1>5. CASE \E j \in Jobs : \/ \E v \in Lab!Versions : Lab!CreateEvaluation(j, v)
                           \/ \E F \in SUBSET LabFeedbacks :
                                 \/ Lab!CreateGeneration(j, F) \/ Lab!AskInline(j, F)
                                 \/ \E source \in Jobs : Lab!CreateRefinement(j, source, F)
  BY <1>5, JobCreated
<1>6. CASE \E j \in Jobs : \/ Lab!EvaluateBaseline(j) \/ Lab!EvaluateCandidate(j)
                           \/ Lab!StreamEnds(j) \/ Lab!JobFails(j) \/ Lab!InlineFails(j)
                           \/ \E v \in Candidates : Lab!SaveInline(j, v)
  BY <1>6, JobAdvances
<1>7. CASE \E j \in Jobs : \/ Lab!Load(j) \/ Lab!Record(j) \/ Lab!Ask(j) \/ Lab!MergeDiagnostics(j)
                           \/ Lab!RetryEnds(j) \/ Lab!Complete(j)
  BY <1>7, EvidenceMoves
<1>8. CASE \E a \in Admins : \/ \E j \in Jobs : Lab!ReadFinalize(a, j)
                             \/ \E v \in Candidates : Lab!SaveCandidate(a, v)
                             \/ Lab!RelateCandidate(a) \/ Lab!FinalizeEnds(a)
  BY <1>8, FinalizeKeeps
<1> QED
  BY <1>2, <1>3, <1>4, <1>5, <1>6, <1>7, <1>8 DEF Lab!Next

(***************************************************************************)
(* Whatever a generation or refinement job sent to the model is on its     *)
(* row, however its diagnostics are merged and wherever it stopped         *)
(* (_run_prompt_generation_job, _merge_job_result).                        *)
(***************************************************************************)
THEOREM EvidenceIsOnRecord == Lab!Spec => []SentIsOnRecord
<1>1. LabInv => SentIsOnRecord
  BY DEF LabInv, Recorded, SentIsOnRecord, Lab!SentIsOnRecord
<1> QED
  BY <1>1, InitLab, NextLab, PTL DEF Lab!Spec
=============================================================================
