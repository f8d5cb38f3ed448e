----------------------------- MODULE MCWorkbench ----------------------------
(***************************************************************************)
(* The two users of the gold set side by side: a behaviour is one of the   *)
(* examples or one of the generation jobs, each with a gold set of its     *)
(* own, since neither writes what the other reads.                         *)
(***************************************************************************)
EXTENDS TLC

CONSTANTS None, Feedbacks, Cases, Examples, Trials, Requests, Tenants, Owner,
          LabFeedbacks, LabCases, Jobs, Candidates, Builtin, Admins,
          f2, f3, c1, c2, t1

OwnerOfFeedback == [f \in Feedbacks |-> t1]

Symmetry == Permutations(Examples)

VARIABLES part,
          accepted, gold, example, trial, update,
          labAccepted, labGold, inUse, madeBy, job, finalize

baseVars == <<accepted, gold, example, trial, update>>
labVars == <<labAccepted, labGold, inUse, madeBy, job, finalize>>

Base == INSTANCE KnowledgeBase
Lab == INSTANCE PromptGeneration WITH Feedbacks <- LabFeedbacks, Cases <- LabCases,
                                 accepted <- labAccepted, gold <- labGold

ASSUME Base!GoldConstants /\ Base!KnowledgeConstants
ASSUME Lab!GoldConstants /\ Lab!GenerationConstants

\* The examples start beside two confirmed cases, both of feedbacks whose
\* answers were corrected: from an empty gold set they take nine steps.
Confirmed(f, r) == [exists |-> TRUE, from |-> f, own |-> FALSE, role |-> r,
                    complete |-> TRUE, confirmed |-> TRUE, active |-> TRUE]

Init ==
    /\ part \in {"examples", "generation"}
    /\ Lab!Init
    /\ Base!NoExamples
    /\ accepted = {f2, f3}
    /\ gold = (c1 :> Confirmed(f2, "TRAIN") @@ c2 :> Confirmed(f3, "HOLDOUT"))

\* A bound of the model: the training case stays as it is.
Next ==
    \/ part = "examples" /\ Base!Next /\ gold'[c1] = gold[c1] /\ UNCHANGED <<part, labVars>>
    \/ part = "generation" /\ Lab!Next /\ UNCHANGED <<part, baseVars>>

Spec == Init /\ [][Next]_<<part, baseVars, labVars>>

\* The types of both
TypeOK == Base!TypeOK /\ Lab!TypeOK

\* See KnowledgeBase: what extractions use was validated.
UsedWasValidated == Base!UsedWasValidated

\* See KnowledgeBase: no tenant's text in the prompt of another.
ContentStaysWithTenant == Base!ContentStaysWithTenant

\* See PromptGeneration: what the model was sent is on the job's row.
SentIsOnRecord == Lab!SentIsOnRecord
=============================================================================
