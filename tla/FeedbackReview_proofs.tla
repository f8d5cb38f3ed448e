----------------------- MODULE FeedbackReview_proofs -----------------------
(***************************************************************************)
(* For any number of submissions and reviews of one task: decision, refund *)
(* and drafts are one unit, and a decision stands.                         *)
(***************************************************************************)
EXTENDS FeedbackReview, TLAPS

Types ==
    /\ taskRow \in [status : {"OPEN", "FAILED", "SUCCESS"}, charged : BOOLEAN, attempt : Nat]
    /\ refunds \in 0..1
    /\ row \in [status : {"NONE", "PENDING", "REJECTED"} \cup Reviewed,
                correction : Corrections \cup {None}, about : Nat,
                refunded : BOOLEAN, version : Versions \cup {None}]
    /\ DOMAIN drafts = {"benchmark", "few-shot"}
    /\ session \in [Handlers -> Session]
    /\ taskLock \in Submitters \cup {None}
    /\ rowLock \in Reviewers \cup {None}

\* A transaction has the lock of its kind, and nobody else has it.
Locks ==
    /\ \A s \in Submitters : /\ taskLock = s <=> session[s].pc \in {"locked", "writing"}
                             /\ session[s].pc # "reviewing"
    /\ \A a \in Reviewers : /\ rowLock = a <=> session[a].pc = "reviewing"
                            /\ session[a].pc \notin {"locked", "writing"}

\* What a submission loaded is still so, except that a PENDING row may be decided on:
\* this is why only the lock on the task and the columns of the UPDATE protect it.
Loaded ==
    \A s \in Submitters : session[s].pc = "writing" =>
        /\ session[s].seen = "NONE" => row.status = "NONE"
        /\ session[s].seen = "REJECTED" => row.status = "REJECTED"
        /\ session[s].seen = "PENDING" => row.status # "NONE"

\* A review is about a PENDING row.
UnderReview == rowLock # None => row.status = "PENDING"

\* An open task is not charged, so that a charge stays.
OpenIsFree == taskRow.status = "OPEN" => ~taskRow.charged

IInv == Types /\ Locks /\ Loaded /\ UnderReview /\ OpenIsFree /\ ReviewIsOneUnit

-----------------------------------------------------------------------------
LEMMA InitInvariant ==
  ASSUME FeedbackConstants, FeedbackInit
  PROVE  IInv
<1> USE DEF FeedbackInit, NoRow, Reviewed, Session
<1>1. Types
  BY DEF Types
<1>2. Locks
  BY DEF FeedbackConstants, Locks, Handlers
<1>3. Loaded /\ UnderReview /\ OpenIsFree
  BY DEF Loaded, UnderReview, OpenIsFree, Handlers
<1>4. ReviewIsOneUnit
  BY DEF ReviewIsOneUnit
<1> QED
  BY <1>1, <1>2, <1>3, <1>4 DEF IInv

\* The task's own steps
LEMMA TaskStep ==
  ASSUME FeedbackConstants, IInv, Retry \/ \E success \in BOOLEAN : EndAttempt(success)
  PROVE  IInv'
<1> USE DEF IInv, Types
<1>1. CASE Retry
  BY <1>1 DEF Retry, Locks, Loaded, UnderReview, OpenIsFree, ReviewIsOneUnit
<1>2. ASSUME NEW success \in BOOLEAN, EndAttempt(success)
      PROVE  IInv'
  BY <1>2 DEF EndAttempt, Locks, Loaded, UnderReview, OpenIsFree, ReviewIsOneUnit
<1> QED
  BY <1>1, <1>2

\* A release leaves the status of a row that is not accepted alone.
LEMMA ReleaseStep ==
  ASSUME FeedbackConstants, IInv, NEW v \in Versions, Release(v)
  PROVE  IInv'
<1> USE DEF IInv, Types, Release, Reviewed
<1>1. Types'
  OBVIOUS
<1>2. Locks' /\ OpenIsFree'
  BY DEF Locks, OpenIsFree
<1>3. Loaded' /\ UnderReview'
  BY DEF Loaded, UnderReview
<1>4. ReviewIsOneUnit'
  BY DEF ReviewIsOneUnit
<1> QED
  BY <1>1, <1>2, <1>3, <1>4

LEMMA SubmitStep ==
  ASSUME FeedbackConstants, IInv, NEW s \in Submitters, Submit(s)
  PROVE  IInv'
<1> USE DEF IInv, Types, MoveTo, Session, Handlers
<1>1. s \in Handlers /\ s # None /\ s \notin Reviewers
  BY DEF FeedbackConstants
<1>2. CASE LockTask(s)
  <2>1. Types'
    BY <1>1, <1>2 DEF LockTask
  <2>2. Locks'
    BY <1>1, <1>2 DEF LockTask, Locks, FeedbackConstants
  <2>3. Loaded' /\ UnderReview' /\ OpenIsFree' /\ ReviewIsOneUnit'
    BY <1>1, <1>2 DEF LockTask, Loaded, UnderReview, OpenIsFree, ReviewIsOneUnit
  <2> QED
    BY <2>1, <2>2, <2>3
<1>3. CASE LoadRow(s)
  <2>1. Types'
    BY <1>1, <1>3 DEF LoadRow, Reviewed
  <2>2. Locks'
    BY <1>1, <1>3 DEF LoadRow, Locks
  <2>3. Loaded' /\ UnderReview' /\ OpenIsFree' /\ ReviewIsOneUnit'
    BY <1>1, <1>3 DEF LoadRow, Loaded, UnderReview, OpenIsFree, ReviewIsOneUnit
  <2> QED
    BY <2>1, <2>2, <2>3
<1>4. CASE RefuseReviewed(s)
  <2>1. Types'
    BY <1>1, <1>4 DEF RefuseReviewed
  <2>2. Locks'
    BY <1>1, <1>4 DEF RefuseReviewed, Locks, FeedbackConstants
  <2>3. Loaded' /\ UnderReview' /\ OpenIsFree' /\ ReviewIsOneUnit'
    BY <1>1, <1>4 DEF RefuseReviewed, Loaded, UnderReview, OpenIsFree, ReviewIsOneUnit
  <2> QED
    BY <2>1, <2>2, <2>3
<1>5. CASE CommitSubmission(s)
  <2>1. PICK c \in Corrections :
            row' = [row EXCEPT !.correction = c, !.about = taskRow.attempt,
                               !.status = IF session[s].seen = "PENDING" THEN @ ELSE "PENDING"]
    BY <1>5 DEF CommitSubmission
  <2>2. /\ session[s].pc = "writing" /\ taskLock = s /\ taskLock' = None
        /\ session' = [session EXCEPT ![s].pc = "done"]
        /\ UNCHANGED <<taskRow, refunds, drafts, rowLock>>
    BY <1>1, <1>5 DEF CommitSubmission, Locks
  <2>3. Types'
    BY <1>1, <2>1, <2>2
  <2>4. Locks'
    BY <1>1, <2>2 DEF Locks, FeedbackConstants
  <2>5. \A t \in Submitters \ {s} : session[t].pc # "writing"
    BY <2>2 DEF Locks
  <2>6. Loaded'
    BY <1>1, <2>2, <2>5 DEF Loaded
  <2>7. UnderReview'
    BY <1>5, <2>1, <2>2 DEF CommitSubmission, UnderReview, Loaded
  <2>8. OpenIsFree' /\ ReviewIsOneUnit'
    BY <2>1, <2>2 DEF OpenIsFree, ReviewIsOneUnit, Loaded, Reviewed
  <2> QED
    BY <2>3, <2>4, <2>6, <2>7, <2>8
<1> QED
  BY <1>2, <1>3, <1>4, <1>5 DEF Submit

LEMMA ReviewStep ==
  ASSUME FeedbackConstants, IInv, NEW a \in Reviewers, Review(a)
  PROVE  IInv'
<1> USE DEF IInv, Types, MoveTo, Session, Handlers
<1>1. a \in Handlers /\ a # None /\ a \notin Submitters
  BY DEF FeedbackConstants
<1>2. CASE LockRow(a)
  <2>1. Types'
    BY <1>1, <1>2 DEF LockRow
  <2>2. Locks'
    BY <1>1, <1>2 DEF LockRow, Locks, FeedbackConstants
  <2>3. Loaded' /\ UnderReview' /\ OpenIsFree' /\ ReviewIsOneUnit'
    BY <1>1, <1>2 DEF LockRow, Loaded, UnderReview, OpenIsFree, ReviewIsOneUnit
  <2> QED
    BY <2>1, <2>2, <2>3
<1>3. ASSUME session[a].pc = "reviewing", session' = [session EXCEPT ![a].pc = "done"],
             rowLock' = None, UNCHANGED taskLock, row'.status # "NONE"
      PROVE  Locks' /\ Loaded' /\ UnderReview'
  <2>1. rowLock = a /\ row.status = "PENDING"
    BY <1>1, <1>3 DEF Locks, UnderReview
  <2>2. Locks'
    BY <1>1, <1>3, <2>1 DEF Locks, FeedbackConstants
  <2>3. Loaded'
    BY <1>1, <1>3, <2>1 DEF Loaded
  <2>4. UnderReview'
    BY <1>3 DEF UnderReview
  <2> QED
    BY <2>2, <2>3, <2>4
<1>4. session[a].pc = "reviewing" => row.status = "PENDING" /\ ~row.refunded
                                     /\ \A d \in DOMAIN drafts : drafts[d] = None
  BY <1>1 DEF Locks, UnderReview, ReviewIsOneUnit, Reviewed
<1>5. CASE Reject(a)
  <2>1. Types' /\ row'.status = "REJECTED"
    BY <1>1, <1>5 DEF Reject
  <2>2. OpenIsFree' /\ ReviewIsOneUnit'
    BY <1>4, <1>5 DEF Reject, OpenIsFree, ReviewIsOneUnit
  <2> QED
    BY <1>3, <1>5, <2>1, <2>2 DEF Reject
<1>6. ASSUME NEW ticked, Accept(a, ticked)
      PROVE  IInv'
  <2>1. refunds = 0 /\ refunds' = IF RefundDue(a) THEN 1 ELSE 0
    BY <1>4, <1>6 DEF Accept, ReviewIsOneUnit
  <2> DEFINE value == row.refunded \/ RefundDue(a) \/ (wants[a] = "refund" /\ refunds > 0)
  <2>2. /\ row' = [row EXCEPT !.status = "ACCEPTED", !.refunded = value]
        /\ value \in BOOLEAN
    BY <1>6 DEF Accept
  <2>3. value <=> RefundDue(a)
    BY <1>4, <1>6, <2>1 DEF Accept
  <2> HIDE DEF value
  <2>4. RefundDue(a) \in BOOLEAN /\ (RefundDue(a) => taskRow.charged)
    BY DEF RefundDue
  <2>5. DOMAIN drafts' = DOMAIN drafts
    BY <1>6 DEF Accept
  <2>6. Types'
    <3>1. session' = [session EXCEPT ![a].pc = "done"] /\ rowLock' = None /\ UNCHANGED <<taskRow, taskLock>>
      BY <1>6 DEF Accept
    <3>2. refunds' \in 0..1
      BY <2>1
    <3>3. row' \in [status : {"NONE", "PENDING", "REJECTED"} \cup Reviewed,
                   correction : Corrections \cup {None}, about : Nat,
                   refunded : BOOLEAN, version : Versions \cup {None}]
      BY <2>2 DEF Reviewed
    <3>4. session' \in [Handlers -> Session]
      BY <1>1, <3>1
    <3> QED
      BY <2>5, <3>1, <3>2, <3>3, <3>4
  <2>7. row'.status = "ACCEPTED" /\ (row'.refunded <=> RefundDue(a))
    BY <2>2, <2>3
  <2>8. OpenIsFree' /\ ReviewIsOneUnit'
    <3>1. taskRow' = taskRow
      BY <1>6 DEF Accept
    <3>2. (row'.refunded <=> refunds' = 1) /\ (row'.refunded => taskRow'.charged)
      BY <2>1, <2>4, <2>7, <3>1
    <3> QED
      BY <2>7, <3>1, <3>2 DEF OpenIsFree, ReviewIsOneUnit, Reviewed
  <2> QED
    BY <1>3, <1>6, <2>6, <2>7, <2>8 DEF Accept
<1> QED
  BY <1>2, <1>5, <1>6 DEF Review

\* The rollback gives back the locks.
LEMMA AbortStep ==
  ASSUME FeedbackConstants, IInv, NEW q \in Handlers, Abort(q)
  PROVE  IInv'
<1> USE DEF IInv, Types, MoveTo, Session, Handlers, Abort
<1>1. Types'
  OBVIOUS
<1>2. Locks'
  <2>1. CASE q \in Submitters
    <3>1. taskLock = q /\ rowLock # q
      BY <2>1 DEF Locks, FeedbackConstants
    <3> QED
      BY <2>1, <3>1 DEF Locks, FeedbackConstants
  <2>2. CASE q \in Reviewers
    <3>1. rowLock = q /\ taskLock # q
      BY <2>2 DEF Locks, FeedbackConstants
    <3> QED
      BY <2>2, <3>1 DEF Locks, FeedbackConstants
  <2> QED
    BY <2>1, <2>2
<1>3. Loaded' /\ UnderReview' /\ OpenIsFree' /\ ReviewIsOneUnit'
  BY DEF Loaded, UnderReview, OpenIsFree, ReviewIsOneUnit
<1> QED
  BY <1>1, <1>2, <1>3

LEMMA StutterStep ==
  ASSUME IInv, UNCHANGED feedbackVars
  PROVE  IInv'
  BY DEF feedbackVars, IInv, Types, Locks, Loaded, UnderReview, OpenIsFree, ReviewIsOneUnit

LEMMA NextInvariant ==
  ASSUME FeedbackConstants, IInv, [FeedbackNext]_feedbackVars
  PROVE  IInv'
  BY TaskStep, ReleaseStep, SubmitStep, ReviewStep, AbortStep, StutterStep
     DEF FeedbackNext, ResolveDeadlock, Handlers

LEMMA Invariant ==
  ASSUME FeedbackConstants
  PROVE  FeedbackSpec => []IInv
  BY InitInvariant, NextInvariant, PTL DEF FeedbackSpec

-----------------------------------------------------------------------------
(***************************************************************************)
(* The ledger has a refund exactly if the row says so, and a refund or     *)
(* drafts only with an accepted feedback (accept_feedback).                *)
(***************************************************************************)
THEOREM OneUnit ==
  ASSUME FeedbackConstants
  PROVE  FeedbackSpec => []ReviewIsOneUnit
<1>1. IInv => ReviewIsOneUnit
  BY DEF IInv
<1> QED
  BY <1>1, Invariant, PTL

\* What a step may do to the row.
LEMMA RowSteps ==
  ASSUME FeedbackConstants, IInv, [FeedbackNext]_feedbackVars
  PROVE  /\ row.status \in Reviewed => row'.status \in Reviewed
         /\ row.status = "RESOLVED" => row'.status = "RESOLVED" /\ row'.version = row.version
         /\ rowLock # None /\ rowLock' = rowLock => row' = row
<1> USE DEF IInv, Types, Reviewed
<1>1. ASSUME NEW s \in Submitters, CommitSubmission(s)
      PROVE  /\ row.status \in Reviewed => row'.status = row.status
             /\ row'.version = row.version
             /\ rowLock # None => FALSE
  <2>1. session[s] \in Session
    BY DEF Handlers
  <2>2. /\ rowLock = None \/ session[s].seen = "NONE"
        /\ session[s].pc = "writing"
    BY <1>1 DEF CommitSubmission
  <2>3. PICK c \in Corrections :
            row' = [row EXCEPT !.correction = c, !.about = taskRow.attempt,
                               !.status = IF session[s].seen = "PENDING" THEN @ ELSE "PENDING"]
    BY <1>1 DEF CommitSubmission
  <2> QED
    BY <2>1, <2>2, <2>3 DEF Loaded, UnderReview, Session
<1>2. ASSUME NEW a \in Reviewers,
             Reject(a) \/ \E ticked \in SUBSET DOMAIN drafts : Accept(a, ticked)
      PROVE  row.status = "PENDING" /\ rowLock # None /\ rowLock' = None
  <2>1. session[a].pc = "reviewing" /\ rowLock' = None
    BY <1>2 DEF Reject, Accept
  <2> QED
    BY <2>1 DEF Locks, UnderReview, FeedbackConstants
<1>3. ASSUME NEW v \in Versions, Release(v)
      PROVE  /\ row.status \in Reviewed => row'.status = "RESOLVED"
             /\ row.status # "ACCEPTED" => row' = row
             /\ rowLock # None => row' = row
  BY <1>3 DEF Release, UnderReview
<1>4. \/ row' = row
      \/ \E s \in Submitters : CommitSubmission(s)
      \/ \E a \in Reviewers : Reject(a) \/ \E ticked \in SUBSET DOMAIN drafts : Accept(a, ticked)
      \/ \E v \in Versions : Release(v)
  BY DEF FeedbackNext, feedbackVars, EndAttempt, Retry, Submit, LockTask, LoadRow, RefuseReviewed, Review, LockRow,
         ResolveDeadlock, Abort
<1> QED
  BY <1>1, <1>2, <1>3, <1>4

(***************************************************************************)
(* Submissions, reviews and releases never take back a decision, although  *)
(* submit_task_feedback reads the row without a lock.                      *)
(***************************************************************************)
THEOREM DecisionIsFinal ==
  ASSUME FeedbackConstants
  PROVE  FeedbackSpec => DecisionStands
  BY Invariant, RowSteps, PTL DEF FeedbackSpec, DecisionStands

\* What a reviewer decides on does not change meanwhile (SELECT ... FOR UPDATE).
THEOREM ReviewSeesOneRow ==
  ASSUME FeedbackConstants
  PROVE  FeedbackSpec => UnderReviewUnchanged
  BY Invariant, RowSteps, PTL DEF FeedbackSpec, UnderReviewUnchanged
=============================================================================
