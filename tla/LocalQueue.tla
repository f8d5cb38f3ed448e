----------------------------- MODULE LocalQueue -----------------------------
(***************************************************************************)
(* The in-process queue: TASK_QUEUE_MODE = local, or the fallback of the   *)
(* Celery adapter after a refused publication.  Workers are coroutines of  *)
(* the API process; a claim, a settlement and the handler of a timeout are *)
(* one transaction each (their statements interleave in TaskSettlement).   *)
(***************************************************************************)
EXTENDS Naturals, Sequences, FiniteSets

CONSTANTS
    Tasks,
    Tenants,
    TenantOf,
    Workers,        \* settings.WORKER_CONCURRENCY of them
    Limit,          \* max_concurrency of a tenant
    Other,          \* an attempt in another process
    None,
    MaxDeaths,      \* bound of the model: crashes and shutdowns
    MaxRetries      \* bound of the model: admin retries

LocalConstants ==
    /\ TenantOf \in [Tasks -> Tenants] /\ IsFiniteSet(Tasks) /\ IsFiniteSet(Workers)
    /\ Limit \in Nat \ {0} /\ MaxDeaths \in Nat /\ MaxRetries \in Nat
    /\ {None, Other} \cap (Workers \cup Tasks) = {} /\ None # Other

VARIABLES
    env,        \* "alone"; "faulty": the database fails at times; "shared": others run tasks
    task,       \* email_tasks
    posting,    \* how many requests have committed the task and not enqueued it yet
    phase,      \* of TaskQueueManager: "down", "reset", "enqueue", "spawn", "running", "stopped"
    queue,
    count,      \* _active_tenant_counts
    worker,
    deaths,
    retries

localVars == <<env, task, posting, phase, queue, count, worker, deaths, retries>>

Open == {"PENDING", "PROCESSING"}
Row == [status : Open \cup {"none", "SUCCESS", "FAILED"}, owner : Workers \cup {Other, None},
        leased : BOOLEAN, reserved : BOOLEAN, charged : BOOLEAN]
Holding == {"claim", "extract", "notify", "cancelled", "timedOut"}
Worker == [pc : Holding \cup {"gone", "idle", "stopping"}, task : Tasks \cup {None}]

LocalTypeOK ==
    /\ env \in {"alone", "faulty", "shared"}
    /\ task \in [Tasks -> Row]
    /\ posting \in [Tasks -> 0..(MaxRetries + 1)]
    /\ phase \in {"down", "reset", "enqueue", "spawn", "running", "stopped"}
    /\ queue \in Seq(Tasks)
    /\ count \in [Tenants -> 0..Cardinality(Workers)]
    /\ worker \in [Workers -> Worker]
    /\ deaths \in 0..MaxDeaths
    /\ retries \in 0..MaxRetries

NoRow == [status |-> "none", owner |-> None, leased |-> FALSE, reserved |-> FALSE, charged |-> FALSE]
At(w, pc) == worker[w].pc = pc
Goes(w, pc) == worker' = [worker EXCEPT ![w].pc = pc]
Idle(pc) == [pc |-> pc, task |-> None]
Nobody == [w \in Workers |-> Idle("gone")]
Writes(t, row) == task' = [task EXCEPT ![t] = row]

LocalInit ==
    /\ env \in {"alone", "faulty", "shared"}
    /\ task = [t \in Tasks |-> NoRow]
    /\ posting = [t \in Tasks |-> 0]
    /\ phase = "down" /\ queue = <<>>
    /\ count = [k \in Tenants |-> 0]
    /\ worker = Nobody
    /\ deaths = 0 /\ retries = 0

-----------------------------------------------------------------------------
(* The API: submissions, and retries of failed tasks.  In fallback mode a  *)
(* request commits before the queue runs, and its refused publication      *)
(* starts the queue.                                                       *)

Reserved(row) == [row EXCEPT !.status = "PENDING", !.reserved = TRUE, !.owner = None, !.leased = FALSE]

Submit(t) ==
    /\ task[t].status = "none"
    /\ Writes(t, Reserved(task[t]))
    /\ posting' = [posting EXCEPT ![t] = @ + 1]
    /\ UNCHANGED <<env, phase, queue, count, worker, deaths, retries>>

Retry(t) ==
    /\ task[t].status = "FAILED" /\ retries < MaxRetries
    /\ Writes(t, Reserved(task[t]))
    /\ posting' = [posting EXCEPT ![t] = @ + 1]
    /\ retries' = retries + 1
    /\ UNCHANGED <<env, phase, queue, count, worker, deaths>>

Enqueue(t) ==
    /\ posting[t] > 0 /\ phase = "running"
    /\ queue' = Append(queue, t)
    /\ posting' = [posting EXCEPT ![t] = @ - 1]
    /\ UNCHANGED <<env, task, phase, count, worker, deaths, retries>>

-----------------------------------------------------------------------------
(* start: rows back to PENDING, with their leases; then all PENDING rows   *)
(* enqueued; then the workers.                                             *)

Start ==
    /\ phase = "down"
    /\ phase' = "reset"
    /\ UNCHANGED <<env, task, posting, queue, count, worker, deaths, retries>>

Reset ==
    /\ phase = "reset"
    /\ task' = [t \in Tasks |-> IF task[t].status = "PROCESSING" THEN [task[t] EXCEPT !.status = "PENDING"]
                                ELSE task[t]]
    /\ phase' = "enqueue"
    /\ UNCHANGED <<env, posting, queue, count, worker, deaths, retries>>

\* Mutant: the tasks that other attempts are recorded for are left to them.
RecoverableUnowned == {t \in Tasks : task[t].status = "PENDING" /\ task[t].owner = None}

Recoverable == {t \in Tasks : task[t].status = "PENDING"}

Recover ==
    /\ phase = "enqueue"
    /\ \E order \in [1..Cardinality(Recoverable) -> Recoverable] :
          /\ {order[i] : i \in DOMAIN order} = Recoverable
          /\ queue' = queue \o order
    /\ phase' = "spawn"
    /\ UNCHANGED <<env, task, posting, count, worker, deaths, retries>>

\* An error of the recovery is logged, and the workers start all the same.
RecoveryFails ==
    /\ env = "faulty" /\ phase \in {"reset", "enqueue"}
    /\ phase' = "spawn"
    /\ UNCHANGED <<env, task, posting, queue, count, worker, deaths, retries>>

Spawn ==
    /\ phase = "spawn"
    /\ worker' = [w \in Workers |-> Idle("idle")]
    /\ phase' = "running"
    /\ UNCHANGED <<env, task, posting, queue, count, deaths, retries>>

-----------------------------------------------------------------------------
(* _worker_loop.  The limit is read between taking an item and deciding on *)
(* it; the decision itself, with the counter, is made without an await.    *)

\* Mutant: one more than the limit.
BusyBeyond(k) == count[k] > Limit

Busy(k) == count[k] >= Limit

NextItem(w) == At(w, "idle") /\ phase = "running" /\ queue # <<>>

\* An item of a busy tenant goes to the back of the queue.
Requeue(w) ==
    /\ NextItem(w) /\ Busy(TenantOf[Head(queue)])
    /\ queue' = Append(Tail(queue), Head(queue))
    /\ UNCHANGED <<env, task, posting, phase, count, worker, deaths, retries>>

Admit(w) ==
    /\ NextItem(w) /\ ~Busy(TenantOf[Head(queue)])
    /\ queue' = Tail(queue)
    /\ count' = [count EXCEPT ![TenantOf[Head(queue)]] = @ + 1]
    /\ worker' = [worker EXCEPT ![w] = [pc |-> "claim", task |-> Head(queue)]]
    /\ UNCHANGED <<env, task, posting, phase, deaths, retries>>

\* The finally clause
Leave(w, pc) ==
    /\ count' = [count EXCEPT ![TenantOf[worker[w].task]] = @ - 1]
    /\ worker' = [worker EXCEPT ![w] = Idle(pc)]

Claimable(t) ==
    \/ task[t].status = "PENDING"
    \/ task[t].status = "PROCESSING" /\ ~task[t].leased

ClaimedBy(t, owner) == [task[t] EXCEPT !.status = "PROCESSING", !.owner = owner, !.leased = TRUE]
Settled(t, status) == [task[t] EXCEPT !.status = status, !.owner = None, !.leased = FALSE,
                                      !.reserved = FALSE, !.charged = (status = "SUCCESS")]

Claim(w) ==
    LET t == worker[w].task IN
    /\ At(w, "claim") /\ Claimable(t)
    /\ Writes(t, ClaimedBy(t, w))
    /\ Goes(w, "extract")
    /\ UNCHANGED <<env, posting, phase, queue, count, deaths, retries>>

\* An inactive tenant: the claim is followed at once by FAILED.
ClaimInactive(w) ==
    LET t == worker[w].task IN
    /\ At(w, "claim") /\ Claimable(t)
    /\ Writes(t, Settled(t, "FAILED"))
    /\ Leave(w, "idle")
    /\ UNCHANGED <<env, posting, phase, queue, deaths, retries>>

\* Claimed by another attempt, or settled
NotClaimable(w) ==
    /\ At(w, "claim") /\ ~Claimable(worker[w].task)
    /\ Leave(w, "idle")
    /\ UNCHANGED <<env, task, posting, phase, queue, deaths, retries>>

\* A success needs the status and the lease, a failure only the lease.
MaySettle(t, owner, status) ==
    task[t].owner = owner /\ (status = "SUCCESS" => task[t].status = "PROCESSING")

Settle(w) ==
    LET t == worker[w].task IN
    /\ At(w, "extract")
    /\ \E status \in {"SUCCESS", "FAILED"} :
          IF MaySettle(t, w, status)
          THEN Writes(t, Settled(t, status)) /\ Goes(w, "notify") /\ UNCHANGED count
          ELSE Leave(w, "idle") /\ UNCHANGED task
    /\ UNCHANGED <<env, posting, phase, queue, deaths, retries>>

\* The webhook is sent by the attempt itself.
Notified(w) ==
    /\ At(w, "notify")
    /\ Leave(w, "idle")
    /\ UNCHANGED <<env, task, posting, phase, queue, deaths, retries>>

\* wait_for cancels process_task, whose handler returns the task, unless the
\* cancellation came before its try statement; when all is over, FAILED is written.
TimeOut(w) ==
    /\ worker[w].pc \in {"claim", "extract", "notify"}
    /\ \E pc \in {"cancelled", "timedOut"} : Goes(w, pc)
    /\ UNCHANGED <<env, task, posting, phase, queue, count, deaths, retries>>

ReturnedBy(t, w) ==
    IF task[t].status = "PROCESSING" /\ task[t].owner = w
    THEN [task[t] EXCEPT !.status = "PENDING", !.owner = None, !.leased = FALSE]
    ELSE task[t]

ReturnTask(w) ==
    /\ At(w, "cancelled")
    /\ Writes(worker[w].task, ReturnedBy(worker[w].task, w))
    /\ Goes(w, "timedOut")
    /\ UNCHANGED <<env, posting, phase, queue, count, deaths, retries>>

\* Mutant: the UPDATE has no condition on the status.
TimedOutBlindly(t) == [task[t] EXCEPT !.reserved = FALSE, !.status = "FAILED"]

\* The hold is released in any case; owner and lease stay.
TimedOut(t) ==
    [task[t] EXCEPT !.reserved = FALSE, !.status = IF @ \in Open THEN "FAILED" ELSE @]

FailByTimeout(w) ==
    /\ At(w, "timedOut")
    /\ Writes(worker[w].task, TimedOut(worker[w].task))
    /\ Leave(w, "idle")
    /\ UNCHANGED <<env, posting, phase, queue, deaths, retries>>

\* An error inside process_task is logged and the item is gone; one in the handler of
\* the timeout, or in the loop itself, ends the coroutine.
Error(w) ==
    /\ env = "faulty" /\ worker[w].pc \in Holding
    /\ Leave(w, IF worker[w].pc \in {"cancelled", "timedOut"} THEN "gone" ELSE "idle")
    /\ UNCHANGED <<env, task, posting, phase, queue, deaths, retries>>

-----------------------------------------------------------------------------
(* stop cancels the workers; what they hold and what is queued is only in memory. *)

Stop ==
    /\ phase = "running" /\ deaths < MaxDeaths
    /\ phase' = "stopped" /\ deaths' = deaths + 1
    /\ worker' = [w \in Workers |-> IF At(w, "extract") \/ At(w, "notify")
                                    THEN [worker[w] EXCEPT !.pc = "stopping"]
                                    ELSE Idle("gone")]
    /\ count' = [k \in Tenants |->
                   Cardinality({w \in Workers : worker[w].pc \in {"extract", "notify"}
                                                /\ TenantOf[worker[w].task] = k})]
    /\ UNCHANGED <<env, task, posting, queue, retries>>

ReturnOnStop(w) ==
    /\ At(w, "stopping")
    /\ Writes(worker[w].task, ReturnedBy(worker[w].task, w))
    /\ Leave(w, "gone")
    /\ UNCHANGED <<env, posting, phase, queue, deaths, retries>>

ProcessEnds ==
    /\ phase' = "down" /\ queue' = <<>> /\ posting' = [t \in Tasks |-> 0]
    /\ count' = [k \in Tenants |-> 0] /\ worker' = Nobody
    /\ UNCHANGED <<env, task, retries>>

Exit ==
    /\ phase = "stopped" /\ \A w \in Workers : At(w, "gone")
    /\ ProcessEnds
    /\ UNCHANGED deaths

Crash ==
    /\ deaths < MaxDeaths /\ phase # "down"
    /\ deaths' = deaths + 1
    /\ ProcessEnds

-----------------------------------------------------------------------------
(* Attempts of other processes: Celery workers that this queue falls back from *)

OtherClaims(t) ==
    /\ env = "shared" /\ Claimable(t)
    /\ Writes(t, ClaimedBy(t, Other))
    /\ UNCHANGED <<env, posting, phase, queue, count, worker, deaths, retries>>

OtherSettles(t) ==
    /\ env = "shared"
    /\ \E status \in {"SUCCESS", "FAILED"} : MaySettle(t, Other, status) /\ Writes(t, Settled(t, status))
    /\ UNCHANGED <<env, posting, phase, queue, count, worker, deaths, retries>>

ExpireLease(t) ==
    /\ task[t].leased
    /\ Writes(t, [task[t] EXCEPT !.leased = FALSE])
    /\ UNCHANGED <<env, posting, phase, queue, count, worker, deaths, retries>>

-----------------------------------------------------------------------------
Begin == Start \/ Reset \/ Recover \/ Spawn
Work(w) ==
    \/ Requeue(w) \/ Admit(w) \/ Claim(w) \/ ClaimInactive(w) \/ NotClaimable(w)
    \/ Settle(w) \/ Notified(w) \/ ReturnTask(w) \/ FailByTimeout(w) \/ ReturnOnStop(w)

LocalNext ==
    \/ \E t \in Tasks :
          Submit(t) \/ Retry(t) \/ Enqueue(t) \/ OtherClaims(t) \/ OtherSettles(t) \/ ExpireLease(t)
    \/ Begin \/ RecoveryFails \/ Stop \/ Exit \/ Crash
    \/ \E w \in Workers : Work(w) \/ TimeOut(w) \/ Error(w)

\* The process is started again, requests go on, and so do the coroutines: every
\* attempt ends, by its timeout at the latest.
LocalFairness ==
    /\ WF_localVars(Begin) /\ WF_localVars(Exit)
    /\ \A t \in Tasks : WF_localVars(Enqueue(t))
    /\ \A w \in Workers : WF_localVars(Work(w))

LocalSpec == LocalInit /\ [][LocalNext]_localVars /\ LocalFairness

-----------------------------------------------------------------------------
\* What is running for a tenant is what its counter says and within its limit,
\* through crashes, stops, timeouts and errors at any point of the loop.
CountedWithinLimit ==
    \A k \in Tenants :
        LET running == {w \in Workers : worker[w].pc \in Holding \cup {"stopping"}
                                        /\ TenantOf[worker[w].task] = k}
        IN count[k] = Cardinality(running) /\ count[k] <= Limit

\* Money follows the status, whoever wrote it last: an attempt, the handler of its
\* timeout, another process, a recovery or an admin.
MoneyFollowsStatus ==
    \A t \in Tasks : /\ task[t].charged <=> task[t].status = "SUCCESS"
                     /\ task[t].reserved <=> task[t].status \in Open

\* While the database answers and no other process takes tasks, every open task
\* settles, although the queue is in memory only and tasks may be queued twice.
OpenTasksSettle ==
    \A t \in Tasks : (env = "alone" /\ task[t].status \in Open) ~> (task[t].status \notin Open)
=============================================================================
