---------------------------- MODULE TaskDelivery ---------------------------
(***************************************************************************)
(* How a committed task reaches a worker and is finished: the publishing   *)
(* API request, the Redis broker, the Celery workers with the tenant's     *)
(* concurrency slots, and the recovery sweep that Celery Beat starts.      *)
(* One tenant; money is the matter of TaskSettlement.                      *)
(*                                                                         *)
(* A message carries a Celery request id, which redeliveries and self.retry *)
(* keep: it is the name of the message that was published first.  The      *)
(* default settings are assumed, under which a lease and a slot outlive    *)
(* the attempt that took them (the hard time limit kills it first).        *)
(***************************************************************************)
EXTENDS Naturals, FiniteSets

CONSTANTS
    Tasks,
    Workers,      \* Celery worker processes
    Messages,     \* messages that can be in use at once: a bound of the model
    NoTask, NoMessage,
    Limit,        \* tenant concurrency: _get_task_context's limit
    MaxCrashes,   \* bound of the model: killed workers and lost sweeps
    MaxLosses,    \* bound of the model: messages Redis loses
    MaxCopies     \* bound of the model: messages delivered again while in use

ASSUME DeliveryAssumption ==
    /\ NoTask \notin Tasks /\ NoMessage \notin Messages
    /\ Limit \in Nat \ {0} /\ MaxCrashes \in Nat /\ MaxLosses \in Nat /\ MaxCopies \in Nat

VARIABLES
    status,      \* email_tasks.status; SUCCESS and FAILED are "SETTLED" here
    owner,       \* lease_owner
    leaseLive,   \* lease_expires_at is in the future
    dispatched,  \* last_dispatched_at: NULL, recent, or older than the stale limit
    active,      \* tenants.is_active
    request,     \* the API request that created the task and still publishes it
    payload,     \* the task a message carries, NoTask when the id is not in use
    id,          \* its request id
    place,       \* where it is
    slots,       \* members of the tenant's ZSET that have not expired
    handling,    \* the message a worker has
    pc,          \* where the worker is in process_email_task
    swept,       \* tasks the running sweep has marked and not yet published
    crashes, losses, copies

rowVars == <<status, owner, leaseLive, dispatched>>
brokerVars == <<payload, id, place>>
workerVars == <<handling, pc>>
faultVars == <<crashes, losses, copies>>
vars == <<rowVars, active, request, brokerVars, slots, workerVars, swept, faultVars>>

Open == {"PENDING", "PROCESSING"}
Idle == {"idle"}
Place == {"unused", "queued", "delayed", "unacked"}
PC == Idle \cup {"starting", "admitted", "claiming", "running", "expiring", "releasing", "acking"}

TypeOK ==
    /\ status \in [Tasks -> {"ABSENT", "SETTLED"} \cup Open]
    /\ owner \in [Tasks -> Messages \cup {NoMessage}]
    /\ leaseLive \in [Tasks -> BOOLEAN]
    /\ dispatched \in [Tasks -> {"never", "recent", "stale"}]
    /\ active \in BOOLEAN
    /\ request \in [Tasks -> {"none", "publishing", "marking"}]
    /\ payload \in [Messages -> Tasks \cup {NoTask}]
    /\ id \in [Messages -> Messages \cup {NoMessage}]
    /\ place \in [Messages -> Place]
    /\ slots \subseteq Messages
    /\ handling \in [Workers -> Messages \cup {NoMessage}]
    /\ pc \in [Workers -> PC]
    /\ swept \subseteq Tasks
    /\ crashes \in 0..MaxCrashes /\ losses \in 0..MaxLosses /\ copies \in 0..MaxCopies

Init ==
    /\ status = [t \in Tasks |-> "ABSENT"]
    /\ owner = [t \in Tasks |-> NoMessage]
    /\ leaseLive = [t \in Tasks |-> FALSE]
    /\ dispatched = [t \in Tasks |-> "never"]
    /\ active = TRUE
    /\ request = [t \in Tasks |-> "none"]
    /\ payload = [m \in Messages |-> NoTask]
    /\ id = [m \in Messages |-> NoMessage]
    /\ place = [m \in Messages |-> "unused"]
    /\ slots = {}
    /\ handling = [w \in Workers |-> NoMessage]
    /\ pc = [w \in Workers |-> "idle"]
    /\ swept = {}
    /\ crashes = 0 /\ losses = 0 /\ copies = 0

-----------------------------------------------------------------------------
LeaseExpired(t) == owner[t] = NoMessage \/ ~leaseLive[t]

Handled(m) == \E w \in Workers : handling[w] = m

\* self.request.id: the slot's token and the lease_owner of the worker's attempt.
RequestId(w) == id[handling[w]]

\* The worker is inside _run_with_timeout or about to leave it.
InFlight(w) == pc[w] \in {"claiming", "running", "expiring", "releasing"}

\* The worker's attempt runs under request id r.
RunsUnder(w, r) == InFlight(w) /\ RequestId(w) = r

\* Nothing remembers m.
Fresh(m) ==
    /\ place[m] = "unused"
    /\ m \notin slots
    /\ \A n \in Messages : id[n] # m
    /\ \A t \in Tasks : owner[t] # m

\* apply_async
Publish(t) ==
    \E m \in Messages :
        /\ Fresh(m)
        /\ payload' = [payload EXCEPT ![m] = t]
        /\ id' = [id EXCEPT ![m] = m]
        /\ place' = [place EXCEPT ![m] = "queued"]

Goto(w, label) == pc' = [pc EXCEPT ![w] = label]

\* The message is acknowledged, or a worker gives it up.
LetGo(w) ==
    /\ handling' = [handling EXCEPT ![w] = NoMessage]
    /\ Goto(w, "idle")

Discard(m) ==
    /\ payload' = [payload EXCEPT ![m] = NoTask]
    /\ id' = [id EXCEPT ![m] = NoMessage]
    /\ place' = [place EXCEPT ![m] = "unused"]

-----------------------------------------------------------------------------
(* The API process. *)

\* The task is committed; the request goes on to enqueue it.
Submit(t) ==
    /\ status[t] = "ABSENT" /\ active
    /\ status' = [status EXCEPT ![t] = "PENDING"]
    /\ request' = [request EXCEPT ![t] = "publishing"]
    /\ UNCHANGED <<owner, leaseLive, dispatched, active, brokerVars, slots, workerVars, swept, faultVars>>

PublishTask(t) ==
    /\ request[t] = "publishing"
    /\ Publish(t)
    /\ request' = [request EXCEPT ![t] = "marking"]
    /\ UNCHANGED <<rowVars, active, slots, workerVars, swept, faultVars>>

MarkDispatched(t) ==
    /\ request[t] = "marking"
    /\ dispatched' = [dispatched EXCEPT ![t] = IF status[t] = "PENDING" THEN "recent" ELSE @]
    /\ request' = [request EXCEPT ![t] = "none"]
    /\ UNCHANGED <<status, owner, leaseLive, active, brokerVars, slots, workerVars, swept, faultVars>>

\* The broker cannot be reached (503, the task is saved), the database refuses
\* the mark, or the API process dies.
EnqueueFails(t) ==
    /\ request[t] # "none"
    /\ request' = [request EXCEPT ![t] = "none"]
    /\ UNCHANGED <<rowVars, active, brokerVars, slots, workerVars, swept, faultVars>>

ChangeTenantStatus ==
    /\ active' = ~active
    /\ UNCHANGED <<rowVars, request, brokerVars, slots, workerVars, swept, faultVars>>

-----------------------------------------------------------------------------
(* A worker running process_email_task.  acks_late: the message stays with  *)
(* the broker until the task function has returned.                         *)

Take(w, m) ==
    /\ pc[w] = "idle" /\ place[m] = "queued"
    /\ place' = [place EXCEPT ![m] = "unacked"]
    /\ handling' = [handling EXCEPT ![w] = m]
    /\ Goto(w, "starting")
    /\ UNCHANGED <<rowVars, active, request, payload, id, slots, swept, faultVars>>

\* _get_task_context: a settled task and an inactive tenant's task need nothing.
ReadContext(w) ==
    /\ pc[w] = "starting"
    /\ Goto(w, IF status[payload[handling[w]]] \in Open /\ active THEN "admitted" ELSE "acking")
    /\ UNCHANGED <<rowVars, active, request, brokerVars, slots, handling, swept, faultVars>>

\* Mutant: the ZSET's size is compared with <=.
AcquireSlotBeyond(w) ==
    /\ pc[w] = "admitted"
    /\ RequestId(w) \in slots \/ Cardinality(slots) <= Limit
    /\ slots' = slots \cup {RequestId(w)}
    /\ Goto(w, "claiming")
    /\ UNCHANGED <<rowVars, active, request, brokerVars, handling, swept, faultVars>>

\* ACQUIRE_SEMAPHORE runs as one Lua script.
AcquireSlot(w) ==
    /\ pc[w] = "admitted"
    /\ RequestId(w) \in slots \/ Cardinality(slots) < Limit
    /\ slots' = slots \cup {RequestId(w)}
    /\ Goto(w, "claiming")
    /\ UNCHANGED <<rowVars, active, request, brokerVars, handling, swept, faultVars>>

\* No slot: self.retry with a countdown, under the same request id.
RetryLater(w) ==
    /\ pc[w] = "admitted"
    /\ RequestId(w) \notin slots /\ Cardinality(slots) >= Limit
    /\ place' = [place EXCEPT ![handling[w]] = "delayed"]
    /\ LetGo(w)
    /\ UNCHANGED <<rowVars, active, request, payload, id, slots, swept, faultVars>>

CountdownOver(m) ==
    /\ place[m] = "delayed"
    /\ place' = [place EXCEPT ![m] = "queued"]
    /\ UNCHANGED <<rowVars, active, request, payload, id, slots, workerVars, swept, faultVars>>

\* Mutant: the claim forgets the lease of a PROCESSING task.
ClaimAnyOpen(w) ==
    LET t == payload[handling[w]] IN
    /\ pc[w] = "claiming"
    /\ IF status[t] \in Open
       THEN /\ status' = [status EXCEPT ![t] = "PROCESSING"]
            /\ owner' = [owner EXCEPT ![t] = RequestId(w)]
            /\ leaseLive' = [leaseLive EXCEPT ![t] = TRUE]
            /\ Goto(w, "running")
       ELSE Goto(w, "releasing") /\ UNCHANGED <<status, owner, leaseLive>>
    /\ UNCHANGED <<dispatched, active, request, brokerVars, slots, handling, swept, faultVars>>

Claim(w) ==
    LET t == payload[handling[w]] IN
    /\ pc[w] = "claiming"
    /\ IF status[t] = "PENDING" \/ (status[t] = "PROCESSING" /\ LeaseExpired(t))
       THEN /\ status' = [status EXCEPT ![t] = "PROCESSING"]
            /\ owner' = [owner EXCEPT ![t] = RequestId(w)]
            /\ leaseLive' = [leaseLive EXCEPT ![t] = TRUE]
            /\ Goto(w, "running")
       ELSE Goto(w, "releasing") /\ UNCHANGED <<status, owner, leaseLive>>
    /\ UNCHANGED <<dispatched, active, request, brokerVars, slots, handling, swept, faultVars>>

\* process_task ends with SUCCESS or FAILED, if it still has the lease.
Finish(w) ==
    LET t == payload[handling[w]] IN
    /\ pc[w] = "running"
    /\ IF status[t] = "PROCESSING" /\ owner[t] = RequestId(w)
       THEN /\ status' = [status EXCEPT ![t] = "SETTLED"]
            /\ owner' = [owner EXCEPT ![t] = NoMessage]
       ELSE UNCHANGED <<status, owner>>
    /\ Goto(w, "releasing")
    /\ UNCHANGED <<leaseLive, dispatched, active, request, brokerVars, slots, handling, swept, faultVars>>

\* TASK_TIMEOUT_SECONDS: the CancelledError handler returns the task to the
\* queue without publishing it ...
TimeOut(w) ==
    LET t == payload[handling[w]] IN
    /\ pc[w] = "running"
    /\ IF status[t] = "PROCESSING" /\ owner[t] = RequestId(w)
       THEN /\ status' = [status EXCEPT ![t] = "PENDING"]
            /\ owner' = [owner EXCEPT ![t] = NoMessage]
            /\ dispatched' = [dispatched EXCEPT ![t] = "never"]
       ELSE UNCHANGED <<status, owner, dispatched>>
    /\ Goto(w, "expiring")
    /\ UNCHANGED <<leaseLive, active, request, brokerVars, slots, handling, swept, faultVars>>

\* ... and _mark_timeout fails it if it is unfinished.
MarkTimeout(w) ==
    LET t == payload[handling[w]] IN
    /\ pc[w] = "expiring"
    /\ IF status[t] \in Open
       THEN /\ status' = [status EXCEPT ![t] = "SETTLED"]
            /\ owner' = [owner EXCEPT ![t] = NoMessage]
       ELSE UNCHANGED <<status, owner>>
    /\ Goto(w, "releasing")
    /\ UNCHANGED <<leaseLive, dispatched, active, request, brokerVars, slots, handling, swept, faultVars>>

\* process_task or _mark_timeout raised (a lost database connection): the
\* finally clause still runs, and Celery acknowledges the failed task.
AttemptFails(w) ==
    /\ pc[w] \in {"claiming", "running", "expiring"}
    /\ crashes < MaxCrashes
    /\ crashes' = crashes + 1
    /\ Goto(w, "releasing")
    /\ UNCHANGED <<rowVars, active, request, brokerVars, slots, handling, swept, losses, copies>>

\* RELEASE_SEMAPHORE
ReleaseSlot(w) ==
    /\ pc[w] = "releasing"
    /\ slots' = slots \ {RequestId(w)}
    /\ Goto(w, "acking")
    /\ UNCHANGED <<rowVars, active, request, brokerVars, handling, swept, faultVars>>

Acknowledge(w) ==
    /\ pc[w] = "acking"
    /\ Discard(handling[w])
    /\ LetGo(w)
    /\ UNCHANGED <<rowVars, active, request, slots, swept, faultVars>>

\* The worker process is killed: by the hard time limit, the kernel or a
\* deployment.  Its slot and its lease stay behind.
Kill(w) ==
    /\ pc[w] # "idle"
    /\ crashes < MaxCrashes
    /\ crashes' = crashes + 1
    /\ LetGo(w)
    /\ UNCHANGED <<rowVars, active, request, brokerVars, slots, swept, losses, copies>>

-----------------------------------------------------------------------------
(* The broker and time. *)

\* reject_on_worker_lost, or the visibility timeout when the whole host is gone.
Redeliver(m) ==
    /\ place[m] = "unacked" /\ ~Handled(m)
    /\ place' = [place EXCEPT ![m] = "queued"]
    /\ UNCHANGED <<rowVars, active, request, payload, id, slots, workerVars, swept, faultVars>>

\* A message that has waited in a worker's memory, for its countdown or for a
\* free process, longer than the visibility timeout is delivered once more.
DeliverAgain(m) ==
    /\ place[m] \in {"delayed", "unacked"}
    /\ copies < MaxCopies
    /\ copies' = copies + 1
    /\ \E n \in Messages :
          /\ Fresh(n)
          /\ payload' = [payload EXCEPT ![n] = payload[m]]
          /\ id' = [id EXCEPT ![n] = id[m]]
          /\ place' = [place EXCEPT ![n] = "queued"]
    /\ UNCHANGED <<rowVars, active, request, slots, workerVars, swept, crashes, losses>>

\* Redis restarts without its last writes.
LoseMessage(m) ==
    /\ place[m] \in {"queued", "delayed"}
    /\ losses < MaxLosses
    /\ losses' = losses + 1
    /\ Discard(m)
    /\ UNCHANGED <<rowVars, active, request, slots, workerVars, swept, crashes, copies>>

\* Mutant: the slots are a counter, as before the sorted set.
ExpireSlotNever(m) == m \in slots /\ FALSE /\ UNCHANGED vars

\* The score of a member passes: no attempt runs under that id any more.
ExpireSlot(m) ==
    /\ m \in slots
    /\ ~\E w \in Workers : RunsUnder(w, m)
    /\ slots' = slots \ {m}
    /\ UNCHANGED <<rowVars, active, request, brokerVars, workerVars, swept, faultVars>>

ExpireLease(t) ==
    /\ owner[t] # NoMessage /\ leaseLive[t]
    /\ ~\E w \in Workers : RunsUnder(w, owner[t])
    /\ leaseLive' = [leaseLive EXCEPT ![t] = FALSE]
    /\ UNCHANGED <<status, owner, dispatched, active, request, brokerVars, slots, workerVars, swept, faultVars>>

\* TASK_DISPATCH_STALE_SECONDS pass.
AgeDispatch(t) ==
    /\ dispatched[t] = "recent"
    /\ dispatched' = [dispatched EXCEPT ![t] = "stale"]
    /\ UNCHANGED <<status, owner, leaseLive, active, request, brokerVars, slots, workerVars, swept, faultVars>>

-----------------------------------------------------------------------------
(* recover_stale_tasks. *)

\* _prepare_recovery_batch is one transaction; the batch limit is taken to be
\* larger than Tasks.
Orphans == {t \in Tasks : status[t] = "PROCESSING" /\ LeaseExpired(t)}
\* Mutant: last_dispatched_at < :before without IS NULL.
CandidatesWithDate ==
    {t \in Tasks : (status[t] = "PENDING" \/ t \in Orphans) /\ dispatched[t] = "stale"}

Candidates ==
    {t \in Tasks : (status[t] = "PENDING" \/ t \in Orphans) /\ dispatched[t] # "recent"}

Sweep ==
    /\ swept = {}
    /\ Orphans \cup Candidates # {}
    /\ status' = [t \in Tasks |-> IF t \in Orphans THEN "PENDING" ELSE status[t]]
    /\ owner' = [t \in Tasks |-> IF t \in Orphans THEN NoMessage ELSE owner[t]]
    /\ dispatched' = [t \in Tasks |-> IF t \in Candidates THEN "recent" ELSE dispatched[t]]
    /\ swept' = Candidates
    /\ UNCHANGED <<leaseLive, active, request, brokerVars, slots, workerVars, faultVars>>

PublishSwept(t) ==
    /\ t \in swept
    /\ Publish(t)
    /\ swept' = swept \ {t}
    /\ UNCHANGED <<rowVars, active, request, slots, workerVars, faultVars>>

\* The process running the sweep dies with tasks marked and not published.
SweepDies ==
    /\ swept # {}
    /\ crashes < MaxCrashes
    /\ crashes' = crashes + 1
    /\ swept' = {}
    /\ UNCHANGED <<rowVars, active, request, brokerVars, slots, workerVars, losses, copies>>

-----------------------------------------------------------------------------
Work(w) ==
    \/ ReadContext(w) \/ AcquireSlot(w) \/ RetryLater(w) \/ Claim(w)
    \/ Finish(w) \/ TimeOut(w) \/ MarkTimeout(w) \/ ReleaseSlot(w) \/ Acknowledge(w)

Next ==
    \/ \E t \in Tasks :
          \/ Submit(t) \/ PublishTask(t) \/ MarkDispatched(t) \/ EnqueueFails(t)
          \/ ExpireLease(t) \/ AgeDispatch(t) \/ PublishSwept(t)
    \/ \E w \in Workers : Work(w) \/ AttemptFails(w) \/ Kill(w) \/ \E m \in Messages : Take(w, m)
    \/ \E m \in Messages : CountdownOver(m) \/ Redeliver(m) \/ DeliverAgain(m) \/ LoseMessage(m) \/ ExpireSlot(m)
    \/ ChangeTenantStatus
    \/ Sweep
    \/ SweepDies

(***************************************************************************)
(* Workers go on, Beat keeps starting the sweep, time passes, and Redis    *)
(* hands out its queue in order, so a message that is queued again and     *)
(* again is taken in the end.  Nothing forces the API request to publish,  *)
(* a tenant to stay active, or an attempt to meet its deadline.            *)
(***************************************************************************)
Fairness ==
    /\ \A w \in Workers : WF_vars(Work(w))
    /\ \A m \in Messages :
          /\ SF_vars(\E w \in Workers : Take(w, m))
          /\ WF_vars(CountdownOver(m)) /\ WF_vars(Redeliver(m)) /\ WF_vars(ExpireSlot(m))
    /\ \A t \in Tasks :
          WF_vars(ExpireLease(t)) /\ WF_vars(AgeDispatch(t)) /\ SF_vars(PublishSwept(t))
    /\ WF_vars(Sweep)

Spec == Init /\ [][Next]_vars /\ Fairness

-----------------------------------------------------------------------------
(***************************************************************************)
(* The tenant's concurrency limit bounds the attempts that really run, not *)
(* just the members of the ZSET, through crashes and redeliveries.         *)
(***************************************************************************)
RunningWithinLimit == Cardinality({w \in Workers : pc[w] = "running"}) <= Limit

\* The same while every message is delivered to one worker at a time.
WithinLimitUnlessCopied == copies = 0 => RunningWithinLimit

\* Two workers never run the same task at the same time: the second would call
\* the model for nothing.
OneRunner ==
    \A v, w \in Workers :
        pc[v] = "running" /\ pc[w] = "running" /\ payload[handling[v]] = payload[handling[w]]
            => v = w

(***************************************************************************)
(* No committed task is lost: whatever crashes, refused publications and   *)
(* lost messages happen, a task of a tenant that stays active is settled.  *)
(***************************************************************************)
EveryTaskSettles ==
    <>[]active => \A t \in Tasks : (status[t] # "ABSENT") ~> (status[t] = "SETTLED")

\* A slot that a dead worker left behind becomes free again.
SlotsComeBack == \A m \in Messages : (m \in slots) ~> (m \notin slots)
=============================================================================
