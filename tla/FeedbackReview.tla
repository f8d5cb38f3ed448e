--------------------------- MODULE FeedbackReview --------------------------
(***************************************************************************)
(* The feedback on one task: customers submit corrections, reviewers       *)
(* accept (with a refund and drafts for regression) or reject them, a      *)
(* release archives what was accepted, while the task itself may still be  *)
(* retried.  Requests are database transactions on PostgreSQL: SELECT ...  *)
(* FOR UPDATE and UPDATE lock a row until the transaction ends.  The rows  *)
(* of different tasks share only the account, which TenantAccount models.  *)
(***************************************************************************)
EXTENDS Naturals, FiniteSets

CONSTANTS
    Submitters,     \* requests to submit_task_feedback
    Reviewers,      \* requests to accept_feedback or reject_feedback
    Corrections,
    Versions,       \* version tags
    None,
    MaxAttempts     \* bound of the model: attempts at the task

FeedbackConstants ==
    /\ Submitters \cap Reviewers = {}
    /\ None \notin Submitters \cup Reviewers \cup Corrections \cup Versions
    /\ MaxAttempts \in Nat \ {0}

VARIABLES
    taskRow,       \* its status, whether it is charged, and the attempt that ended last
    refunds,    \* REFUND entries of the task in the ledger
    row,        \* the task_feedbacks row
    drafts,     \* what the benchmark case and the few-shot example made from it say
    tags,       \* released versions
    wants,      \* what a reviewer asks for: accept with auto_refund or without, reject
    session,    \* the transaction of each request
    taskLock, rowLock   \* who holds the locks on the two rows

feedbackVars == <<taskRow, refunds, row, drafts, tags, wants, session, taskLock, rowLock>>

Handlers == Submitters \cup Reviewers
Reviewed == {"ACCEPTED", "RESOLVED"}

\* about: the attempt whose result the correction was compared with.
Row == [status : {"NONE", "PENDING", "REJECTED"} \cup Reviewed,
        correction : Corrections \cup {None}, about : 0..MaxAttempts,
        refunded : BOOLEAN, version : Versions \cup {None}]
NoRow == [status |-> "NONE", correction |-> None, about |-> 0,
          refunded |-> FALSE, version |-> None]

\* seen: the status of the row when the submission loaded it.
Session == [pc : {"idle", "locked", "writing", "reviewing", "done"}, seen : {"NONE", "PENDING", "REJECTED"}]

FeedbackTypeOK ==
    /\ taskRow \in [status : {"OPEN", "FAILED", "SUCCESS"}, charged : BOOLEAN, attempt : 0..MaxAttempts]
    /\ refunds \in 0..1
    /\ row \in Row
    /\ drafts \in [{"benchmark", "few-shot"} -> Corrections \cup {None}]
    /\ tags \subseteq Versions
    /\ wants \in [Reviewers -> {"refund", "keep", "reject"}]
    /\ session \in [Handlers -> Session]
    /\ taskLock \in Submitters \cup {None}
    /\ rowLock \in Reviewers \cup {None}

FeedbackInit ==
    /\ taskRow = [status |-> "OPEN", charged |-> FALSE, attempt |-> 0]
    /\ refunds = 0
    /\ row = NoRow
    /\ drafts = [d \in {"benchmark", "few-shot"} |-> None]
    /\ tags = {}
    /\ wants \in [Reviewers -> {"refund", "keep", "reject"}]
    /\ session = [q \in Handlers |-> [pc |-> "idle", seen |-> "NONE"]]
    /\ taskLock = None /\ rowLock = None

-----------------------------------------------------------------------------
MoveTo(q, label) == session' = [session EXCEPT ![q].pc = label]

(***************************************************************************)
(* Variants that no specification uses: each is a definition below with    *)
(* one step of the code changed.                                           *)
(***************************************************************************)
\* The task is read without FOR UPDATE.
ReadTask(s) ==
    /\ session[s].pc = "idle"
    /\ taskRow.status # "OPEN"
    /\ MoveTo(s, "locked")
    /\ UNCHANGED <<taskRow, refunds, row, drafts, tags, wants, taskLock, rowLock>>

\* The UPDATE writes every column.
CommitEveryColumn(s) ==
    /\ session[s].pc = "writing"
    /\ session[s].seen = "NONE" \/ rowLock = None
    /\ \E c \in Corrections :
          row' = [row EXCEPT !.correction = c, !.about = taskRow.attempt, !.status = "PENDING"]
    /\ taskLock' = None
    /\ MoveTo(s, "done")
    /\ UNCHANGED <<taskRow, refunds, drafts, tags, wants, rowLock>>

\* The early return for a reviewed row leaves its transaction open.
LockRowForGood(a) ==
    /\ session[a].pc = "idle"
    /\ row.status # "NONE" /\ rowLock = None
    /\ rowLock' = a
    /\ MoveTo(a, IF row.status = "PENDING" THEN "reviewing" ELSE "done")
    /\ UNCHANGED <<taskRow, refunds, row, drafts, tags, wants, taskLock>>

\* A release archives what is archived already.
ReleaseAgain(v) ==
    /\ v \notin tags
    /\ tags' = tags \cup {v}
    /\ row' = IF row.status \in Reviewed THEN [row EXCEPT !.status = "RESOLVED", !.version = v] ELSE row
    /\ UNCHANGED <<taskRow, refunds, drafts, wants, session, taskLock, rowLock>>

-----------------------------------------------------------------------------
(***************************************************************************)
(* The task.                                                               *)
(***************************************************************************)
EndAttempt(success) ==
    /\ taskRow.status = "OPEN" /\ taskLock = None
    /\ taskRow' = [status |-> IF success THEN "SUCCESS" ELSE "FAILED",
                charged |-> success, attempt |-> taskRow.attempt + 1]
    /\ UNCHANGED <<refunds, row, drafts, tags, wants, session, taskLock, rowLock>>

Retry ==
    /\ taskRow.status = "FAILED" /\ ~taskRow.charged /\ taskLock = None
    /\ taskRow.attempt < MaxAttempts
    /\ taskRow' = [taskRow EXCEPT !.status = "OPEN"]
    /\ UNCHANGED <<refunds, row, drafts, tags, wants, session, taskLock, rowLock>>

-----------------------------------------------------------------------------
(***************************************************************************)
(* A submission locks the task and loads the feedback row without a lock.  *)
(***************************************************************************)
LockTask(s) ==
    /\ session[s].pc = "idle"
    /\ taskRow.status # "OPEN" /\ taskLock = None
    /\ taskLock' = s
    /\ MoveTo(s, "locked")
    /\ UNCHANGED <<taskRow, refunds, row, drafts, tags, wants, rowLock>>

LoadRow(s) ==
    /\ session[s].pc = "locked"
    /\ row.status \notin Reviewed
    /\ session' = [session EXCEPT ![s] = [pc |-> "writing", seen |-> row.status]]
    /\ UNCHANGED <<taskRow, refunds, row, drafts, tags, wants, taskLock, rowLock>>

\* The feedback has been accepted: 400.
RefuseReviewed(s) ==
    /\ session[s].pc = "locked"
    /\ row.status \in Reviewed
    /\ taskLock' = None
    /\ MoveTo(s, "done")
    /\ UNCHANGED <<taskRow, refunds, row, drafts, tags, wants, rowLock>>

(***************************************************************************)
(* INSERT, or an UPDATE that waits for the row's lock; then the commit.    *)
(* The UPDATE names the columns that differ from the row as it was loaded: *)
(* the new contents always, the status only if REJECTED was loaded.        *)
(***************************************************************************)
CommitSubmission(s) ==
    /\ session[s].pc = "writing"
    /\ session[s].seen = "NONE" \/ rowLock = None
    /\ \E c \in Corrections :
          row' = [row EXCEPT !.correction = c, !.about = taskRow.attempt,
                             !.status = IF session[s].seen = "PENDING" THEN @ ELSE "PENDING"]
    /\ taskLock' = None
    /\ MoveTo(s, "done")
    /\ UNCHANGED <<taskRow, refunds, drafts, tags, wants, rowLock>>

-----------------------------------------------------------------------------
(***************************************************************************)
(* A review locks the row; one that is not PENDING is left as it is.       *)
(***************************************************************************)
LockRow(a) ==
    /\ session[a].pc = "idle"
    /\ row.status # "NONE" /\ rowLock = None
    /\ IF row.status = "PENDING"
       THEN rowLock' = a /\ MoveTo(a, "reviewing")
       ELSE MoveTo(a, "done") /\ UNCHANGED rowLock
    /\ UNCHANGED <<taskRow, refunds, row, drafts, tags, wants, taskLock>>

\* refund_task_deduction: no REFUND entry yet, and a charge.
RefundDue(a) == wants[a] = "refund" /\ ~row.refunded /\ refunds = 0 /\ taskRow.charged

\* The REFUND entry refers to the task, so that its INSERT waits for a submission.
Blocked(a) == RefundDue(a) /\ taskLock # None

\* The decision, the refund and the drafts that the reviewer ticked, in one commit.
Accept(a, ticked) ==
    /\ session[a].pc = "reviewing" /\ wants[a] # "reject"
    /\ ~Blocked(a)
    /\ row' = [row EXCEPT !.status = "ACCEPTED",
                          !.refunded = @ \/ RefundDue(a) \/ (wants[a] = "refund" /\ refunds > 0)]
    /\ refunds' = IF RefundDue(a) THEN refunds + 1 ELSE refunds
    /\ drafts' = [d \in DOMAIN drafts |-> IF d \in ticked THEN row.correction ELSE drafts[d]]
    /\ rowLock' = None
    /\ MoveTo(a, "done")
    /\ UNCHANGED <<taskRow, tags, wants, taskLock>>

Reject(a) ==
    /\ session[a].pc = "reviewing" /\ wants[a] = "reject"
    /\ row' = [row EXCEPT !.status = "REJECTED"]
    /\ rowLock' = None
    /\ MoveTo(a, "done")
    /\ UNCHANGED <<taskRow, refunds, drafts, tags, wants, taskLock>>

-----------------------------------------------------------------------------
(***************************************************************************)
(* A submission waits for a reviewer's row lock and this reviewer for the  *)
(* submission's task lock: PostgreSQL aborts one of them.                  *)
(***************************************************************************)
Deadlocked(s, a) ==
    /\ session[s].pc = "writing" /\ session[s].seen # "NONE"
    /\ rowLock = a /\ Blocked(a) /\ taskLock = s

\* The transaction is rolled back: nothing of it remains.
Abort(q) ==
    /\ session[q].pc \in {"locked", "writing", "reviewing"}
    /\ taskLock' = IF taskLock = q THEN None ELSE taskLock
    /\ rowLock' = IF rowLock = q THEN None ELSE rowLock
    /\ MoveTo(q, "done")
    /\ UNCHANGED <<taskRow, refunds, row, drafts, tags, wants>>

ResolveDeadlock(s, a) == Deadlocked(s, a) /\ (Abort(s) \/ Abort(a))

\* release_new_version, once the regression has passed.
Release(v) ==
    /\ v \notin tags
    /\ tags' = tags \cup {v}
    /\ row' = IF row.status = "ACCEPTED" THEN [row EXCEPT !.status = "RESOLVED", !.version = v] ELSE row
    /\ UNCHANGED <<taskRow, refunds, drafts, wants, session, taskLock, rowLock>>

Submit(s) == LockTask(s) \/ LoadRow(s) \/ RefuseReviewed(s) \/ CommitSubmission(s)
Review(a) ==
    \/ LockRow(a) \/ Reject(a)
    \/ \E ticked \in SUBSET DOMAIN drafts : Accept(a, ticked)

FeedbackNext ==
    \/ \E success \in BOOLEAN : EndAttempt(success)
    \/ Retry
    \/ \E s \in Submitters : Submit(s)
    \/ \E a \in Reviewers : Review(a)
    \/ \E q \in Handlers : Abort(q)
    \/ \E s \in Submitters, a \in Reviewers : ResolveDeadlock(s, a)
    \/ \E v \in Versions : Release(v)

(***************************************************************************)
(* Requests go on, and PostgreSQL resolves a deadlock; nothing says that   *)
(* a task is retried or a version released.                                *)
(***************************************************************************)
FeedbackFairness ==
    /\ \A s \in Submitters : WF_feedbackVars(Submit(s))
    /\ \A a \in Reviewers : WF_feedbackVars(Review(a))
    /\ \A s \in Submitters, a \in Reviewers : WF_feedbackVars(ResolveDeadlock(s, a))

FeedbackSpec == FeedbackInit /\ [][FeedbackNext]_feedbackVars /\ FeedbackFairness

-----------------------------------------------------------------------------
(***************************************************************************)
(* The decision, its refund and its drafts are one unit, whatever          *)
(* submissions run beside it: the ledger has a refund exactly if the row   *)
(* says so, only of a charged task, and only an accepted row has a refund  *)
(* or drafts.                                                              *)
(***************************************************************************)
ReviewIsOneUnit ==
    /\ row.refunded <=> refunds = 1
    /\ row.refunded => taskRow.charged
    /\ row.refunded \/ (\E d \in DOMAIN drafts : drafts[d] # None) => row.status \in Reviewed

\* An accepted feedback never becomes pending or rejected again, and the version
\* that resolved it never changes.
DecisionStands ==
    [][/\ row.status \in Reviewed => row'.status \in Reviewed
       /\ row.status = "RESOLVED" => row'.status = "RESOLVED" /\ row'.version = row.version]_feedbackVars

\* While a reviewer decides, nobody else changes the row.
UnderReviewUnchanged == [][rowLock # None /\ rowLock' = rowLock => row' = row]_feedbackVars

(***************************************************************************)
(* A request that has begun ends: the locks on the task and on its         *)
(* feedback, which submissions and reviews take in opposite orders, never  *)
(* leave one waiting for ever.                                             *)
(***************************************************************************)
RequestsEnd ==
    \A q \in Handlers : session[q].pc \in {"locked", "writing", "reviewing"} ~> session[q].pc = "done"
=============================================================================
