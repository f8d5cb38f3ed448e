----------------------------- MODULE MCRequests -----------------------------
(***************************************************************************)
(* Four groups of HTTP handlers side by side: a behaviour is one of the    *)
(* submissions, of the feedback reviews, of the registrations or of the    *)
(* sessions.  They share rows only where one module models both sides, so  *)
(* that their interleavings add nothing.                                   *)
(***************************************************************************)
EXTENDS Submission, FeedbackReview, Onboarding, Access

VARIABLE part

vars == <<part, submissionVars, feedbackVars, onboardingVars, accessVars>>

ASSUME SubmissionConstants /\ FeedbackConstants
ASSUME OnboardingConstants /\ AccessConstants

\* Only the part that moves chooses its inputs.
OthersFixed ==
    /\ part # "submission" => balance = InitBalance /\ \A r \in Requests : kind[r] = "async" /\ keyed[r]
    /\ part # "feedback" => \A a \in Reviewers : wants[a] = "keep"
    /\ part # "onboarding" =>
          \E name \in Names, email \in Emails :
              asks = [r \in Openings |-> [by |-> "customer", name |-> name, email |-> email]]

Init ==
    /\ part \in {"submission", "feedback", "onboarding", "access"}
    /\ SubmissionInit /\ FeedbackInit /\ OnboardingInit /\ AccessInit
    /\ OthersFixed

Next ==
    \/ /\ part = "submission" /\ SubmissionNext
       /\ UNCHANGED <<part, feedbackVars, onboardingVars, accessVars>>
    \/ /\ part = "feedback" /\ FeedbackNext
       /\ UNCHANGED <<part, submissionVars, onboardingVars, accessVars>>
    \/ /\ part = "onboarding" /\ OnboardingNext
       /\ UNCHANGED <<part, submissionVars, feedbackVars, accessVars>>
    \/ /\ part = "access" /\ AccessNext
       /\ UNCHANGED <<part, submissionVars, feedbackVars, onboardingVars>>

\* The fairness of the parts, where they move
Fairness ==
    /\ \A s \in Submitters : WF_feedbackVars(part = "feedback" /\ Submit(s))
    /\ \A a \in Reviewers : WF_feedbackVars(part = "feedback" /\ Review(a))
    /\ \A s \in Submitters, a \in Reviewers :
           WF_feedbackVars(part = "feedback" /\ ResolveDeadlock(s, a))
    /\ WF_accessVars(part = "access" /\ Tick)

Spec == Init /\ [][Next]_vars /\ Fairness
=============================================================================
