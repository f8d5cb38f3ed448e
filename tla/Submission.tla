---------------------------- MODULE Submission -----------------------------
(***************************************************************************)
(* The three submission endpoints of one tenant (asynchronous JSON, file   *)
(* upload, synchronous) as concurrent requests: idempotency key, queue     *)
(* capacity, uploaded files, the hold, the row and the answer.  A task is  *)
(* known by the request that created it; the unit price is 1.              *)
(***************************************************************************)
EXTENDS Integers, FiniteSets

CONSTANTS
    Requests,
    NoTask,
    MaxPending,    \* settings.MAX_TENANT_PENDING_TASKS
    InitBalance,   \* bound of the model: what the tenant has at first
    MaxFaults      \* bound of the model: killed requests and failed commits

SubmissionConstants ==
    /\ IsFiniteSet(Requests) /\ NoTask \notin Requests
    /\ MaxPending \in Nat \ {0} /\ InitBalance \in Nat /\ MaxFaults \in Nat

VARIABLES
    kind,       \* the endpoint a request calls
    keyed,      \* it carries the tenant's Idempotency-Key (one key is in use)
    pc,
    target,     \* the task the request has created or found
    answer,     \* what the caller is told
    files,      \* files of the request are on the disk
    task,       \* the row the request created
    balance, reserved,
    faults

requestVars == <<pc, target, answer>>
submissionVars == <<kind, keyed, requestVars, files, task, balance, reserved, faults>>

Kinds == {"async", "upload", "sync"}
PC == {"lookup", "capacity", "saving", "insert", "conflict", "enqueue", "waiting", "done"}
\* "accepted" and "result" name the task in target, "unavailable" too (503, 504).
Answer == {"none", "refused", "error", "accepted", "unavailable", "result", "killed"}

SubmissionTypeOK ==
    /\ kind \in [Requests -> Kinds]
    /\ keyed \in [Requests -> BOOLEAN]
    /\ pc \in [Requests -> PC]
    /\ target \in [Requests -> Requests \cup {NoTask}]
    /\ answer \in [Requests -> Answer]
    /\ files \in [Requests -> BOOLEAN]
    /\ task \in [Requests -> {"none", "open", "closed"}]
    /\ balance \in 0..InitBalance /\ reserved \in 0..InitBalance
    /\ faults \in 0..MaxFaults

SubmissionInit ==
    /\ kind \in [Requests -> Kinds]
    /\ keyed \in [Requests -> BOOLEAN]
    /\ pc = [r \in Requests |-> "lookup"]
    /\ target = [r \in Requests |-> NoTask]
    /\ answer = [r \in Requests |-> "none"]
    /\ files = [r \in Requests |-> FALSE]
    /\ task = [r \in Requests |-> "none"]
    /\ balance \in 0..InitBalance /\ reserved = 0
    /\ faults = 0

-----------------------------------------------------------------------------
OpenTasks == {t \in Requests : task[t] = "open"}

\* find_idempotent_task
Existing(r) == {t \in Requests : task[t] # "none" /\ keyed[t] /\ keyed[r]}

Goto(r, label) == pc' = [pc EXCEPT ![r] = label]

Finish(r, what) ==
    /\ answer' = [answer EXCEPT ![r] = what]
    /\ Goto(r, "done")

\* The request's files are unlinked.
Unlink(r) == files' = [files EXCEPT ![r] = FALSE]

(***************************************************************************)
(* Variants that no specification uses: each is a definition below with    *)
(* one step of the code changed.                                           *)
(***************************************************************************)
\* The unique index is missing: only the earlier look-up stops a duplicate.
InsertUnchecked(r) ==
    /\ pc[r] = "insert"
    /\ balance - reserved >= 1
    /\ reserved' = reserved + 1
    /\ task' = [task EXCEPT ![r] = "open"]
    /\ target' = [target EXCEPT ![r] = r]
    /\ Goto(r, "enqueue")
    /\ UNCHANGED <<kind, keyed, answer, files, balance, faults>>

\* The reservation is committed before the row is inserted.
InsertConflictsHeld(r) ==
    /\ pc[r] = "insert"
    /\ balance - reserved >= 1
    /\ Existing(r) # {}
    /\ Unlink(r)
    /\ reserved' = reserved + 1
    /\ Goto(r, "conflict")
    /\ UNCHANGED <<kind, keyed, target, answer, task, balance, faults>>

\* The files of a request that the balance does not cover are forgotten.
ReservationFailsUncleaned(r) ==
    /\ pc[r] = "insert"
    /\ balance - reserved < 1
    /\ Finish(r, "refused")
    /\ UNCHANGED <<kind, keyed, target, files, task, balance, reserved, faults>>

-----------------------------------------------------------------------------
\* The request goes on with an existing task: the asynchronous endpoints name it
\* at once, the synchronous one waits for it.
Adopt(r, t) ==
    /\ target' = [target EXCEPT ![r] = t]
    /\ IF kind[r] = "sync"
       THEN /\ Goto(r, IF task[t] = "open" THEN "enqueue" ELSE "waiting")
            /\ UNCHANGED answer
       ELSE Finish(r, "accepted")

-----------------------------------------------------------------------------
Lookup(r) ==
    /\ pc[r] = "lookup"
    /\ \/ \E t \in Existing(r) : Adopt(r, t)
       \/ Existing(r) = {} /\ Goto(r, "capacity") /\ UNCHANGED <<target, answer>>
    /\ UNCHANGED <<kind, keyed, files, task, balance, reserved, faults>>

\* enforce_queue_capacity; an upload also needs a balance before its body is read.
EnforceCapacity(r) ==
    /\ pc[r] = "capacity"
    /\ IF Cardinality(OpenTasks) >= MaxPending \/ (kind[r] = "upload" /\ balance - reserved < 1)
       THEN Finish(r, "refused")
       ELSE Goto(r, IF kind[r] = "upload" THEN "saving" ELSE "insert") /\ UNCHANGED answer
    /\ UNCHANGED <<kind, keyed, target, files, task, balance, reserved, faults>>

\* The callback URL, the subject, or the files' number and types are refused;
\* the synchronous endpoint checks none of these.
RefuseInput(r) ==
    /\ kind[r] # "sync"
    /\ pc[r] \in {"capacity", "saving"}
    /\ ~files[r]
    /\ Finish(r, "refused")
    /\ UNCHANGED <<kind, keyed, target, files, task, balance, reserved, faults>>

WriteFile(r) ==
    /\ pc[r] = "saving" /\ ~files[r]
    /\ files' = [files EXCEPT ![r] = TRUE]
    /\ UNCHANGED <<kind, keyed, requestVars, task, balance, reserved, faults>>

\* A file is too large, or the disk is full: what was written is removed.
SavingFails(r) ==
    /\ pc[r] = "saving" /\ files[r]
    /\ Unlink(r)
    /\ Finish(r, "refused")
    /\ UNCHANGED <<kind, keyed, target, task, balance, reserved, faults>>

FilesSaved(r) ==
    /\ pc[r] = "saving" /\ files[r]
    /\ Goto(r, "insert")
    /\ UNCHANGED <<kind, keyed, target, answer, files, task, balance, reserved, faults>>

\* reserve_or_raise and the INSERT are one transaction, which holds the tenant's
\* row from the reservation on.
Insert(r) ==
    /\ pc[r] = "insert"
    /\ balance - reserved >= 1
    /\ Existing(r) = {}
    /\ reserved' = reserved + 1
    /\ task' = [task EXCEPT ![r] = "open"]
    /\ target' = [target EXCEPT ![r] = r]
    /\ Goto(r, "enqueue")
    /\ UNCHANGED <<kind, keyed, answer, files, balance, faults>>

ReservationFails(r) ==
    /\ pc[r] = "insert"
    /\ balance - reserved < 1
    /\ Unlink(r)
    /\ Finish(r, "refused")
    /\ UNCHANGED <<kind, keyed, target, task, balance, reserved, faults>>

\* The unique index refuses the row: the hold is rolled back with it.
InsertConflicts(r) ==
    /\ pc[r] = "insert"
    /\ balance - reserved >= 1
    /\ Existing(r) # {}
    /\ Unlink(r)
    /\ Goto(r, "conflict")
    /\ UNCHANGED <<kind, keyed, target, answer, task, balance, reserved, faults>>

\* The JSON endpoints read tenant.id of a session they have just rolled back; the
\* rollback expired it, and the read can raise instead.
ResolveConflict(r) ==
    /\ pc[r] = "conflict"
    /\ \/ \E t \in Existing(r) : Adopt(r, t)
       \/ kind[r] # "upload" /\ Finish(r, "error") /\ UNCHANGED target
    /\ UNCHANGED <<kind, keyed, files, task, balance, reserved, faults>>

\* The commit fails for another reason.
InsertFails(r) ==
    /\ pc[r] = "insert"
    /\ faults < MaxFaults
    /\ faults' = faults + 1
    /\ Unlink(r)
    /\ Finish(r, "error")
    /\ UNCHANGED <<kind, keyed, target, task, balance, reserved>>

\* The row is committed but cannot be read back: the request fails, and an upload
\* treats this as a failed insert and removes the files of the committed task.
RefreshFails(r) ==
    /\ pc[r] = "enqueue" /\ target[r] = r
    /\ faults < MaxFaults
    /\ faults' = faults + 1
    /\ Unlink(r)
    /\ Finish(r, "error")
    /\ UNCHANGED <<kind, keyed, target, task, balance, reserved>>

Enqueue(r) ==
    /\ pc[r] = "enqueue"
    /\ IF kind[r] = "sync"
       THEN Goto(r, "waiting") /\ UNCHANGED answer
       ELSE Finish(r, "accepted")
    /\ UNCHANGED <<kind, keyed, target, files, task, balance, reserved, faults>>

\* 503: the task is saved, the queue is not available.
EnqueueFails(r) ==
    /\ pc[r] = "enqueue"
    /\ Finish(r, "unavailable")
    /\ UNCHANGED <<kind, keyed, target, files, task, balance, reserved, faults>>

\* The synchronous endpoint polls the task until its deadline.
Wait(r) ==
    /\ pc[r] = "waiting"
    /\ Finish(r, IF task[target[r]] = "closed" THEN "result" ELSE "unavailable")
    /\ UNCHANGED <<kind, keyed, target, files, task, balance, reserved, faults>>

\* The API process dies or the request is cancelled; an open transaction is
\* rolled back, files stay.
Killed(r) ==
    /\ pc[r] # "done"
    /\ faults < MaxFaults
    /\ faults' = faults + 1
    /\ Finish(r, "killed")
    /\ UNCHANGED <<kind, keyed, target, files, task, balance, reserved>>

\* A worker settles a task: a success costs 1, a failure releases the hold.
Settle(t, success) ==
    /\ task[t] = "open"
    /\ task' = [task EXCEPT ![t] = "closed"]
    /\ reserved' = reserved - 1
    /\ balance' = IF success THEN balance - 1 ELSE balance
    /\ UNCHANGED <<kind, keyed, requestVars, files, faults>>

Handle(r) ==
    \/ Lookup(r) \/ EnforceCapacity(r) \/ RefuseInput(r)
    \/ WriteFile(r) \/ SavingFails(r) \/ FilesSaved(r)
    \/ Insert(r) \/ ReservationFails(r) \/ InsertConflicts(r) \/ ResolveConflict(r)
    \/ InsertFails(r) \/ RefreshFails(r)
    \/ Enqueue(r) \/ EnqueueFails(r) \/ Wait(r) \/ Killed(r)

SubmissionNext == \E r \in Requests : Handle(r) \/ \E success \in BOOLEAN : Settle(r, success)

SubmissionSpec == SubmissionInit /\ [][SubmissionNext]_submissionVars

-----------------------------------------------------------------------------
Told(r) == answer[r] \in {"accepted", "unavailable", "result"}

(***************************************************************************)
(* Requests that carry the same key are told of one and the same task,     *)
(* however they interleave, and whichever endpoint they call.              *)
(***************************************************************************)
SameKeySameTask ==
    \A r, s \in Requests : keyed[r] /\ keyed[s] /\ Told(r) /\ Told(s) => target[r] = target[s]

\* The tenant's holds are those of its open tasks: no refused, conflicting or
\* killed request leaves one behind.
HoldPerOpenTask == reserved = Cardinality(OpenTasks)

(***************************************************************************)
(* A request that is over left files exactly if it created a task: a task  *)
(* never loses its files to the clean-up of a conflict, and a refused,     *)
(* conflicting or failed upload cleans up.  Two requests are exempt: a     *)
(* killed one cleans nothing up, and one that was answered with an error   *)
(* after its commit has removed the files of its task (RefreshFails).      *)
(***************************************************************************)
FilesFollowTasks ==
    \A r \in Requests : kind[r] = "upload" =>
        /\ task[r] # "none" /\ answer[r] # "error" => files[r]
        /\ pc[r] = "done" /\ task[r] = "none" /\ answer[r] # "killed" => ~files[r]
=============================================================================
