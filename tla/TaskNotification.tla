------------------------- MODULE TaskNotification --------------------------
(***************************************************************************)
(* How the customer learns of the outcome of one task: the attempt that    *)
(* settled it publishes a webhook job, webhook workers read the task and   *)
(* post it to the callback URL, and callback_status records how that went. *)
(* TASK_QUEUE_MODE is celery, the task has a callback_url, and one attempt *)
(* at a time settles it (what happens otherwise is in TaskSettlement).     *)
(***************************************************************************)
EXTENDS Naturals, FiniteSets

CONSTANTS
    Jobs,           \* webhook messages that can be in use at once: a bound of the model
    MaxRetries,     \* bound of the model: admin retries of the failed task
    MaxCrashes,     \* bound of the model: killed attempts and webhook workers
    MaxPosts        \* settings.WEBHOOK_MAX_RETRIES

NotificationConstants ==
    MaxRetries \in Nat /\ MaxCrashes \in Nat /\ MaxPosts \in Nat \ {0}

VARIABLES
    status,     \* email_tasks.status, PENDING and PROCESSING being "OPEN"
    callback,   \* email_tasks.callback_status
    round,      \* how often the task has been retried
    attempt,    \* for each round: what the attempt that settled it still does
    job,        \* the webhook messages, with the worker that has one
    told,       \* what the customer's server received: outcomes with their round
    crashes

vars == <<status, callback, round, attempt, job, told, crashes>>

Rounds == 0..MaxRetries
Outcome == {"SUCCESS", "FAILED"}
Callback == {"PENDING"} \cup Outcome

\* loaded is the callback_status in the attempt's session.
Attempt == [pc : {"none", "charged", "completing", "completed", "failing", "failed"},
            loaded : Callback]
\* says and of: the outcome in the payload and its round.
Job == [pc : {"unused", "queued", "reading", "posting", "delivered", "undelivered", "acking"},
        says : Outcome \cup {"OPEN"}, of : Rounds, posts : 0..MaxPosts]
NoJob == [pc |-> "unused", says |-> "OPEN", of |-> 0, posts |-> 0]

TypeOK ==
    /\ status \in Outcome \cup {"OPEN"}
    /\ callback \in Callback
    /\ round \in Rounds
    /\ attempt \in [Rounds -> Attempt]
    /\ job \in [Jobs -> Job]
    /\ told \subseteq [says : Outcome, of : Rounds]
    /\ crashes \in 0..MaxCrashes

Init ==
    /\ status = "OPEN" /\ callback = "PENDING" /\ round = 0
    /\ attempt = [r \in Rounds |-> [pc |-> "none", loaded |-> "PENDING"]]
    /\ job = [j \in Jobs |-> NoJob]
    /\ told = {}
    /\ crashes = 0

-----------------------------------------------------------------------------
(* The attempt: process_task once it settles the task. *)

Go(r, pc) == attempt' = [attempt EXCEPT ![r].pc = pc]
Reload(r, pc) == attempt' = [attempt EXCEPT ![r] = [pc |-> pc, loaded |-> callback]]

\* SUCCESS and the charge are committed.
Succeed ==
    /\ status = "OPEN"
    /\ status' = "SUCCESS"
    /\ Go(round, "charged")
    /\ UNCHANGED <<callback, round, job, told, crashes>>

\* db.refresh
Refresh(r) ==
    /\ attempt[r].pc = "charged"
    /\ Reload(r, "completing")
    /\ UNCHANGED <<status, callback, round, job, told, crashes>>

\* The except clause commits FAILED in a session that has just read the row.
Fail ==
    /\ status = "OPEN"
    /\ status' = "FAILED"
    /\ Reload(round, "failing")
    /\ UNCHANGED <<callback, round, job, told, crashes>>

\* _mark_timeout, or a claimed task whose tenant is inactive: FAILED is
\* committed and nothing follows.
FailSilently ==
    /\ status = "OPEN"
    /\ status' = "FAILED"
    /\ UNCHANGED <<callback, round, attempt, job, told, crashes>>

\* dispatch_webhook publishes the task's id.
Dispatch(r) ==
    /\ attempt[r].pc \in {"completing", "failing"}
    /\ \E j \in Jobs :
          /\ job[j] = NoJob
          /\ job' = [job EXCEPT ![j].pc = "queued"]
    /\ Go(r, IF attempt[r].pc = "completing" THEN "completed" ELSE "failed")
    /\ UNCHANGED <<status, callback, round, told, crashes>>

\* Mutant: an UPDATE statement instead of the ORM's changed attribute.
RecordDispatchBlindly(r) ==
    /\ attempt[r].pc \in {"completed", "failed"}
    /\ callback' = "PENDING"
    /\ Go(r, "none")
    /\ UNCHANGED <<status, round, job, told, crashes>>

\* The ORM writes "PENDING" only if it differs from what the session loaded.
RecordDispatch(r) ==
    /\ attempt[r].pc \in {"completed", "failed"}
    /\ callback' = IF attempt[r].loaded = "PENDING" THEN callback ELSE "PENDING"
    /\ Go(r, "none")
    /\ UNCHANGED <<status, round, job, told, crashes>>

\* The broker or the database refuses: after a success callback_status is
\* written, after a failure the exception leaves process_task.
DispatchFails(r) ==
    /\ attempt[r].pc \notin {"none", "charged"}
    /\ crashes < MaxCrashes
    /\ crashes' = crashes + 1
    /\ callback' = IF attempt[r].pc \in {"completing", "completed"} THEN "FAILED" ELSE callback
    /\ Go(r, "none")
    /\ UNCHANGED <<status, round, job, told>>

\* The worker is killed, or the attempt is cancelled by its timeout.
AttemptDies(r) ==
    /\ attempt[r].pc # "none"
    /\ crashes < MaxCrashes
    /\ crashes' = crashes + 1
    /\ Go(r, "none")
    /\ UNCHANGED <<status, callback, round, job, told>>

\* retry_task, for a failed task
Retry ==
    /\ status = "FAILED"
    /\ round < MaxRetries
    /\ status' = "OPEN" /\ callback' = "PENDING" /\ round' = round + 1
    /\ UNCHANGED <<attempt, job, told, crashes>>

-----------------------------------------------------------------------------
(* A webhook worker: deliver_task_webhook. *)

Take(j) ==
    /\ job[j].pc = "queued"
    /\ job' = [job EXCEPT ![j] = [NoJob EXCEPT !.pc = "reading"]]
    /\ UNCHANGED <<status, callback, round, attempt, told, crashes>>

\* A task that is open again needs no notification.
ReadTask(j) ==
    /\ job[j].pc = "reading"
    /\ job' = [job EXCEPT ![j] = IF status = "OPEN"
                                 THEN [@ EXCEPT !.pc = "acking"]
                                 ELSE [@ EXCEPT !.pc = "posting", !.says = status, !.of = round]]
    /\ UNCHANGED <<status, callback, round, attempt, told, crashes>>

\* The tenant has no usable API key.
NoKey(j) ==
    /\ job[j].pc = "reading" /\ status # "OPEN"
    /\ callback' = "FAILED"
    /\ job' = [job EXCEPT ![j].pc = "acking"]
    /\ UNCHANGED <<status, round, attempt, told, crashes>>

\* One POST: answered with 2xx, received but answered otherwise or too late,
\* or not received.
Post(j, heard, ok) ==
    /\ job[j].pc = "posting"
    /\ ok => heard
    /\ told' = IF heard THEN told \cup {[says |-> job[j].says, of |-> job[j].of]} ELSE told
    /\ job' = [job EXCEPT ![j] = [@ EXCEPT
                  !.posts = job[j].posts + 1,
                  !.pc = CASE ok -> "delivered"
                           [] ~ok /\ job[j].posts + 1 < MaxPosts -> "posting"
                           [] OTHER -> "undelivered"]]
    /\ UNCHANGED <<status, callback, round, attempt, crashes>>

\* The callback URL is not, or no longer, a public address.
Refuse(j) ==
    /\ job[j].pc = "posting"
    /\ job' = [job EXCEPT ![j].pc = "undelivered"]
    /\ UNCHANGED <<status, callback, round, attempt, told, crashes>>

\* Mutant: having posted counts as having delivered.
RecordPosted(j) ==
    /\ job[j].pc \in {"delivered", "undelivered"}
    /\ callback' = IF job[j].posts > 0 THEN "SUCCESS" ELSE "FAILED"
    /\ job' = [job EXCEPT ![j].pc = "acking"]
    /\ UNCHANGED <<status, round, attempt, told, crashes>>

Record(j) ==
    /\ job[j].pc \in {"delivered", "undelivered"}
    /\ callback' = IF job[j].pc = "delivered" THEN "SUCCESS" ELSE "FAILED"
    /\ job' = [job EXCEPT ![j].pc = "acking"]
    /\ UNCHANGED <<status, round, attempt, told, crashes>>

Acknowledge(j) ==
    /\ job[j].pc = "acking"
    /\ job' = [job EXCEPT ![j] = NoJob]
    /\ UNCHANGED <<status, callback, round, attempt, told, crashes>>

\* The worker is killed; the message was acknowledged late and comes back.
Kill(j) ==
    /\ job[j].pc \notin {"unused", "queued"}
    /\ crashes < MaxCrashes
    /\ crashes' = crashes + 1
    /\ job' = [job EXCEPT ![j] = [NoJob EXCEPT !.pc = "queued"]]
    /\ UNCHANGED <<status, callback, round, attempt, told>>

\* Waiting behind slow customers, a message outlives the visibility timeout.
DeliverAgain(j) ==
    /\ job[j].pc \notin {"unused", "queued"}
    /\ crashes < MaxCrashes
    /\ crashes' = crashes + 1
    /\ \E k \in Jobs : job[k] = NoJob /\ job' = [job EXCEPT ![k].pc = "queued"]
    /\ UNCHANGED <<status, callback, round, attempt, told>>

-----------------------------------------------------------------------------
Announce(r) == Refresh(r) \/ Dispatch(r) \/ RecordDispatch(r)

Deliver(j) ==
    \/ Take(j) \/ ReadTask(j) \/ NoKey(j) \/ Refuse(j) \/ Record(j) \/ Acknowledge(j)
    \/ \E heard, ok \in BOOLEAN : Post(j, heard, ok)

Next ==
    \/ Succeed \/ Fail \/ FailSilently \/ Retry
    \/ \E r \in Rounds : Announce(r) \/ DispatchFails(r) \/ AttemptDies(r)
    \/ \E j \in Jobs : Deliver(j) \/ Kill(j) \/ DeliverAgain(j)

\* The attempt goes on and webhook workers take what is queued.  Nothing says
\* that the customer's server answers.
Fairness ==
    /\ \A r \in Rounds : WF_vars(Announce(r))
    /\ \A j \in Jobs : WF_vars(Deliver(j))

Spec == Init /\ [][Next]_vars /\ Fairness

-----------------------------------------------------------------------------
Told(outcome, r) == [says |-> outcome, of |-> r] \in told

(***************************************************************************)
(* callback_status says SUCCESS only when the customer has received the    *)
(* outcome that the task has.  (After an admin retry a late webhook worker *)
(* of the first round may still write it: the UPDATE has no condition.)    *)
(***************************************************************************)
CallbackTruthful == round = 0 /\ callback = "SUCCESS" => Told(status, 0)

\* Once an outcome's webhook is published, callback_status comes to rest, unless
\* the task is retried.
CallbackSettles ==
    (attempt[0].pc \in {"completed", "failed"}) ~> [](callback # "PENDING" \/ round > 0)
=============================================================================
