------------------------------ MODULE GoldSet -------------------------------
(***************************************************************************)
(* The gold cases: imported by an administrator or made from an accepted   *)
(* feedback, edited, confirmed, and selected for an evaluation by their    *)
(* role.  Modules about what the cases are used for extend this one.       *)
(***************************************************************************)
EXTENDS Naturals, FiniteSets

CONSTANTS
    Feedbacks,
    Cases,
    None

GoldConstants == None \notin Feedbacks \cup Cases

VARIABLES
    accepted,   \* the feedbacks that are ACCEPTED (or later RESOLVED)
    gold        \* benchmark_cases

goldVars == <<accepted, gold>>

Roles == {"TRAIN", "HOLDOUT"}

\* from: feedback_id; own: ground_truth is still the feedback's corrected result.
Case == [exists : BOOLEAN, from : Feedbacks \cup {None}, own : BOOLEAN, role : Roles,
         complete : BOOLEAN, confirmed : BOOLEAN, active : BOOLEAN]
NoCase == [exists |-> FALSE, from |-> None, own |-> FALSE, role |-> "TRAIN",
           complete |-> FALSE, confirmed |-> FALSE, active |-> FALSE]
NewCase == [NoCase EXCEPT !.exists = TRUE]

GoldTypeOK ==
    /\ accepted \in SUBSET Feedbacks
    /\ gold \in [Cases -> Case]

GoldInit ==
    /\ accepted = {}
    /\ gold = [c \in Cases |-> NoCase]

-----------------------------------------------------------------------------
\* accept_feedback: a draft with the customer's corrected result, if asked for.
AcceptFeedback(f, C) ==
    /\ f \notin accepted
    /\ accepted' = accepted \cup {f}
    /\ \A c \in C : ~gold[c].exists
    /\ \E complete \in BOOLEAN :
          gold' = [c \in Cases |->
                     IF c \in C THEN [NewCase EXCEPT !.from = f, !.own = TRUE, !.complete = complete]
                     ELSE gold[c]]

\* import_benchmark: a complete answer, as a draft of either role.
ImportCase(c, role) ==
    /\ ~gold[c].exists
    /\ gold' = [gold EXCEPT ![c] = [NewCase EXCEPT !.role = role, !.complete = TRUE]]
    /\ UNCHANGED accepted

\* What an update may carry: a field left out is "kept".
Updates == [role : Roles \cup {"kept"}, answer : {"kept", "complete", "partial"},
            active : {"kept", "yes", "no"}, verdict : {"kept", "DRAFT", "VERIFIED"}]

\* A new answer takes the case out until it is confirmed again.
Rewritten(g, u) ==
    IF u.answer = "kept" THEN g
    ELSE [g EXCEPT !.complete = (u.answer = "complete"), !.own = FALSE,
                   !.confirmed = FALSE, !.active = FALSE]

\* The conditions under which update_benchmark refuses with 409, on the row with
\* the new answer: enabling what is not confirmed, confirming what is incomplete.
Refused(g, u) ==
    \/ u.answer = "kept" /\ u.active = "yes" /\ ~g.confirmed
    \/ u.verdict = "VERIFIED" /\ ~g.complete

Updated(g, u) ==
    LET enabled == [g EXCEPT !.role = IF u.role = "kept" THEN @ ELSE u.role,
                             !.active = IF u.active = "kept" THEN @
                                        ELSE u.active = "yes" /\ u.answer = "kept"]
    IN IF u.verdict = "kept" THEN enabled
       ELSE [enabled EXCEPT !.confirmed = (u.verdict = "VERIFIED"), !.active = (u.verdict = "VERIFIED")]

\* update_benchmark, read and commit in one step: updates of one case that overlap
\* are left out.
UpdateCase(c) ==
    /\ gold[c].exists
    /\ \E g \in {Updated(Rewritten(gold[c], u), u) :
                    u \in {v \in Updates : ~Refused(Rewritten(gold[c], v), v)}} :
          gold' = [gold EXCEPT ![c] = g]
    /\ UNCHANGED accepted

GoldNext ==
    \/ \E f \in Feedbacks, C \in SUBSET Cases : Cardinality(C) <= 1 /\ AcceptFeedback(f, C)
    \/ \E c \in Cases : UpdateCase(c) \/ \E role \in Roles : ImportCase(c, role)

-----------------------------------------------------------------------------
InForce(c) == gold[c].active /\ gold[c].confirmed

\* run_benchmark_evaluation: the complete cases in force of the role.  The SQL
\* inequality with the excluded feedback also drops the cases without a feedback.
Selected(role, excluded) ==
    {c \in Cases : /\ InForce(c) /\ gold[c].complete
                   /\ gold[c].role = role
                   /\ excluded # None => gold[c].from \notin {None, excluded}}
=============================================================================
