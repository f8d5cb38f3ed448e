------------------------ MODULE TaskDelivery_proofs ------------------------
(***************************************************************************)
(* For any tasks, workers, messages, limit and number of faults: a task is *)
(* run by one worker at a time.  The argument: a worker has a message that *)
(* nobody else has (OneHandler), a running worker's task is settled or     *)
(* leased to its request id (RunnerOwns), and a lease is given up only     *)
(* when nothing runs under it.  The request id alone would not do, because *)
(* two deliveries of one message share it; while there is only one, each   *)
(* attempt has a slot of its own, and the slots are within the limit.      *)
(***************************************************************************)
EXTENDS TaskDelivery, FunctionTheorems, FiniteSetTheorems, TLAPS

USE DeliveryAssumption

\* A message that is in use has a task and a request id.
InUse == \A m \in Messages : place[m] # "unused" => payload[m] \in Tasks /\ id[m] \in Messages

\* A busy worker has a message, which the broker knows to be unacknowledged.
WorkersHold ==
    \A w \in Workers :
        /\ pc[w] = "idle" => handling[w] = NoMessage
        /\ pc[w] # "idle" => handling[w] \in Messages /\ place[handling[w]] = "unacked"

OneHandler ==
    \A v, w \in Workers : handling[v] = handling[w] /\ handling[v] # NoMessage => v = w

BrokerInv == InUse /\ WorkersHold /\ OneHandler

TaskOf(w) == payload[handling[w]]

Leased(w) ==
    /\ status[TaskOf(w)] = "PROCESSING"
    /\ owner[TaskOf(w)] = RequestId(w)
    /\ leaseLive[TaskOf(w)]

\* A running worker has its task's lease, unless the task was settled under it.
RunnerOwns ==
    \A w \in Workers : pc[w] = "running" => status[TaskOf(w)] = "SETTLED" \/ Leased(w)

DeliveryInv == TypeOK /\ BrokerInv /\ RunnerOwns /\ OneRunner

-----------------------------------------------------------------------------
(* Type correctness. *)

\* What a busy worker has.
LEMMA BusyWorker ==
  ASSUME TypeOK, BrokerInv, NEW w \in Workers, pc[w] # "idle"
  PROVE  /\ handling[w] \in Messages
         /\ place[handling[w]] = "unacked"
         /\ TaskOf(w) \in Tasks
         /\ RequestId(w) \in Messages
  BY DEF BrokerInv, InUse, WorkersHold, TaskOf, RequestId

LEMMA PublishType ==
  ASSUME TypeOK, NEW t \in Tasks, Publish(t)
  PROVE  /\ payload' \in [Messages -> Tasks \cup {NoTask}]
         /\ id' \in [Messages -> Messages \cup {NoMessage}]
         /\ place' \in [Messages -> Place]
  BY DEF TypeOK, Publish, Place

LEMMA TypeStep ==
  ASSUME TypeOK, BrokerInv, [Next]_vars
  PROVE  TypeOK'
<1> USE DEF TypeOK, Open, Idle, Place, PC, rowVars, brokerVars, workerVars, faultVars
<1>1. ASSUME NEW t \in Tasks, Submit(t) \/ MarkDispatched(t) \/ EnqueueFails(t)
      PROVE  TypeOK'
  BY <1>1 DEF Submit, MarkDispatched, EnqueueFails
<1>2. ASSUME NEW t \in Tasks, PublishTask(t) \/ PublishSwept(t)
      PROVE  TypeOK'
  <2>1. Publish(t)
    BY <1>2 DEF PublishTask, PublishSwept
  <2> QED
    BY <1>2, <2>1, PublishType DEF PublishTask, PublishSwept
<1>3. ASSUME NEW t \in Tasks, ExpireLease(t) \/ AgeDispatch(t)
      PROVE  TypeOK'
  BY <1>3 DEF ExpireLease, AgeDispatch
<1>4. ASSUME NEW w \in Workers, Work(w)
      PROVE  TypeOK'
  <2>1. /\ handling[w] \in Messages /\ TaskOf(w) \in Tasks /\ RequestId(w) \in Messages
        /\ TaskOf(w) = payload[handling[w]]
    BY <1>4, BusyWorker DEF Work, ReadContext, AcquireSlot, RetryLater, Claim, Finish,
       TimeOut, MarkTimeout, ReleaseSlot, Acknowledge, TaskOf
  <2>2. CASE ReadContext(w) \/ RetryLater(w) \/ ReleaseSlot(w)
    BY <2>1, <2>2 DEF ReadContext, RetryLater, ReleaseSlot, Goto, LetGo
  <2>3. CASE AcquireSlot(w)
    BY <2>1, <2>3 DEF AcquireSlot, Goto
  <2>4. CASE Claim(w)
    <3>1. \/ /\ status' = [status EXCEPT ![TaskOf(w)] = "PROCESSING"]
             /\ owner' = [owner EXCEPT ![TaskOf(w)] = RequestId(w)]
             /\ leaseLive' = [leaseLive EXCEPT ![TaskOf(w)] = TRUE]
             /\ Goto(w, "running")
          \/ Goto(w, "releasing") /\ UNCHANGED <<status, owner, leaseLive>>
      BY <2>4 DEF Claim, TaskOf
    <3>2. UNCHANGED <<dispatched, active, request, brokerVars, slots, handling, swept, faultVars>>
      BY <2>4 DEF Claim
    <3>3. /\ status' \in [Tasks -> {"ABSENT", "SETTLED"} \cup Open]
          /\ owner' \in [Tasks -> Messages \cup {NoMessage}]
      BY <2>1, <3>1
    <3>5. leaseLive' \in [Tasks -> BOOLEAN]
      <4>1. CASE leaseLive' = [leaseLive EXCEPT ![TaskOf(w)] = TRUE]
        BY <2>1, <4>1
      <4> QED
        BY <3>1, <4>1
    <3>4. pc' \in [Workers -> PC]
      BY <3>1 DEF Goto
    <3> QED
      BY <3>2, <3>3, <3>4, <3>5
  <2>5. CASE Finish(w) \/ MarkTimeout(w)
    BY <2>1, <2>5 DEF Finish, MarkTimeout, Goto
  <2>6. CASE TimeOut(w)
    BY <2>1, <2>6 DEF TimeOut, Goto
  <2>7. CASE Acknowledge(w)
    BY <2>1, <2>7 DEF Acknowledge, Discard, LetGo, Goto
  <2> QED
    BY <1>4, <2>2, <2>3, <2>4, <2>5, <2>6, <2>7 DEF Work
<1>5. ASSUME NEW w \in Workers, AttemptFails(w) \/ Kill(w)
      PROVE  TypeOK'
  BY <1>5 DEF AttemptFails, Kill, Goto, LetGo
<1>6. ASSUME NEW w \in Workers, NEW m \in Messages, Take(w, m)
      PROVE  TypeOK'
  BY <1>6 DEF Take, Goto
<1>7. ASSUME NEW m \in Messages, CountdownOver(m) \/ Redeliver(m) \/ LoseMessage(m) \/ ExpireSlot(m)
      PROVE  TypeOK'
  BY <1>7 DEF CountdownOver, Redeliver, LoseMessage, ExpireSlot, Discard
<1>8. ASSUME NEW m \in Messages, DeliverAgain(m)
      PROVE  TypeOK'
  BY <1>8 DEF DeliverAgain
<1>9. CASE ChangeTenantStatus
  <2>1. active' \in BOOLEAN
    BY <1>9, Zenon DEF ChangeTenantStatus
  <2> QED
    BY <1>9, <2>1 DEF ChangeTenantStatus
<1>12. CASE SweepDies
  BY <1>12 DEF SweepDies
<1>10. CASE Sweep
  BY <1>10 DEF Sweep, Candidates, Orphans
<1>11. CASE UNCHANGED vars
  BY <1>11 DEF vars
<1> QED
  BY <1>1, <1>2, <1>3, <1>4, <1>5, <1>6, <1>7, <1>8, <1>9, <1>10, <1>11, <1>12 DEF Next

-----------------------------------------------------------------------------
(* Messages and workers. *)

\* A message that was published or copied took an unused place.
LEMMA NewMessage ==
  ASSUME TypeOK, BrokerInv, UNCHANGED workerVars,
         NEW n \in Messages, place[n] = "unused", NEW t \in Tasks, NEW r \in Messages,
         payload' = [payload EXCEPT ![n] = t],
         id' = [id EXCEPT ![n] = r],
         place' = [place EXCEPT ![n] = "queued"]
  PROVE  BrokerInv'
  BY DEF TypeOK, BrokerInv, InUse, WorkersHold, OneHandler, workerVars

LEMMA BrokerStep ==
  ASSUME TypeOK, BrokerInv, [Next]_vars
  PROVE  BrokerInv'
<1> USE DEF BrokerInv, InUse, WorkersHold, OneHandler, TypeOK, brokerVars, workerVars
<1>1. ASSUME NEW t \in Tasks,
             \/ Submit(t) \/ MarkDispatched(t) \/ EnqueueFails(t)
             \/ ExpireLease(t) \/ AgeDispatch(t)
      PROVE  BrokerInv'
  BY <1>1 DEF Submit, MarkDispatched, EnqueueFails, ExpireLease, AgeDispatch
<1>2. ASSUME NEW t \in Tasks, PublishTask(t) \/ PublishSwept(t)
      PROVE  BrokerInv'
  <2>1. PICK n \in Messages :
           /\ place[n] = "unused"
           /\ payload' = [payload EXCEPT ![n] = t]
           /\ id' = [id EXCEPT ![n] = n]
           /\ place' = [place EXCEPT ![n] = "queued"]
    BY <1>2 DEF PublishTask, PublishSwept, Publish, Fresh
  <2> QED
    BY <1>2, <2>1, NewMessage DEF PublishTask, PublishSwept
<1>3. ASSUME NEW w \in Workers, Work(w)
      PROVE  BrokerInv'
  <2>1. CASE ReadContext(w) \/ AcquireSlot(w) \/ ReleaseSlot(w)
    BY <2>1 DEF ReadContext, AcquireSlot, ReleaseSlot, Goto
  <2>2. CASE Claim(w) \/ Finish(w) \/ TimeOut(w) \/ MarkTimeout(w)
    <3>1. /\ pc[w] # "idle"
          /\ \E label \in {"running", "releasing", "expiring"} : Goto(w, label)
          /\ UNCHANGED <<brokerVars, handling>>
      BY <2>2 DEF Claim, Finish, TimeOut, MarkTimeout
    <3> QED
      BY <3>1 DEF Goto
  <2>3. CASE RetryLater(w)
    BY <2>3 DEF RetryLater, LetGo, Goto
  <2>4. CASE Acknowledge(w)
    BY <2>4 DEF Acknowledge, Discard, LetGo, Goto
  <2> QED
    BY <1>3, <2>1, <2>2, <2>3, <2>4 DEF Work
<1>4. ASSUME NEW w \in Workers, AttemptFails(w) \/ Kill(w)
      PROVE  BrokerInv'
  BY <1>4 DEF AttemptFails, Kill, LetGo, Goto
<1>5. ASSUME NEW w \in Workers, NEW m \in Messages, Take(w, m)
      PROVE  BrokerInv'
  BY <1>5 DEF Take, Goto
<1>6. ASSUME NEW m \in Messages, CountdownOver(m) \/ Redeliver(m) \/ LoseMessage(m) \/ ExpireSlot(m)
      PROVE  BrokerInv'
  BY <1>6 DEF CountdownOver, Redeliver, LoseMessage, ExpireSlot, Discard, Handled
<1>7. ASSUME NEW m \in Messages, DeliverAgain(m)
      PROVE  BrokerInv'
  <2>1. payload[m] \in Tasks /\ id[m] \in Messages
    BY <1>7 DEF DeliverAgain
  <2>2. PICK n \in Messages :
           /\ place[n] = "unused"
           /\ payload' = [payload EXCEPT ![n] = payload[m]]
           /\ id' = [id EXCEPT ![n] = id[m]]
           /\ place' = [place EXCEPT ![n] = "queued"]
    BY <1>7 DEF DeliverAgain, Fresh
  <2> QED
    BY <1>7, <2>1, <2>2, NewMessage DEF DeliverAgain
<1>8. CASE ChangeTenantStatus \/ Sweep \/ SweepDies \/ UNCHANGED vars
  BY <1>8 DEF ChangeTenantStatus, Sweep, SweepDies, vars
<1> QED
  BY <1>1, <1>2, <1>3, <1>4, <1>5, <1>6, <1>7, <1>8 DEF Next

-----------------------------------------------------------------------------
(* Running workers. *)

\* A running worker that keeps its message keeps its task and its request id.
LEMMA SameAttempt ==
  ASSUME TypeOK, BrokerInv, [Next]_vars, NEW w \in Workers,
         pc[w] # "idle", pc'[w] # "idle"
  PROVE  handling'[w] = handling[w] /\ TaskOf(w)' = TaskOf(w) /\ RequestId(w)' = RequestId(w)
<1> USE DEF BrokerInv, InUse, WorkersHold, OneHandler, TypeOK, brokerVars, workerVars, TaskOf, RequestId
<1>1. ASSUME NEW t \in Tasks,
             \/ Submit(t) \/ MarkDispatched(t) \/ EnqueueFails(t)
             \/ ExpireLease(t) \/ AgeDispatch(t)
      PROVE  UNCHANGED <<brokerVars, workerVars>>
  BY <1>1 DEF Submit, MarkDispatched, EnqueueFails, ExpireLease, AgeDispatch
<1>2. ASSUME NEW t \in Tasks, PublishTask(t) \/ PublishSwept(t)
      PROVE  /\ UNCHANGED workerVars
             /\ UNCHANGED <<payload[handling[w]], id[handling[w]]>>
  BY <1>2 DEF PublishTask, PublishSwept, Publish, Fresh
<1>3. ASSUME NEW v \in Workers, Work(v)
      PROVE  /\ UNCHANGED handling[w]
             /\ UNCHANGED <<payload[handling[w]], id[handling[w]]>>
  <2>1. CASE Acknowledge(v)
    BY <2>1 DEF Acknowledge, Discard, LetGo, Goto
  <2>2. CASE RetryLater(v)
    BY <2>2 DEF RetryLater, LetGo, Goto
  <2> QED
    BY <1>3, <2>1, <2>2 DEF Work, ReadContext, AcquireSlot, Claim, Finish, TimeOut, MarkTimeout, ReleaseSlot
<1>4. ASSUME NEW v \in Workers, AttemptFails(v) \/ Kill(v)
      PROVE  UNCHANGED <<brokerVars, handling[w]>>
  BY <1>4 DEF AttemptFails, Kill, LetGo, Goto
<1>5. ASSUME NEW v \in Workers, NEW m \in Messages, Take(v, m)
      PROVE  UNCHANGED <<payload, id, handling[w]>>
  BY <1>5 DEF Take, Goto
<1>6. ASSUME NEW m \in Messages, CountdownOver(m) \/ Redeliver(m) \/ LoseMessage(m) \/ ExpireSlot(m)
      PROVE  /\ UNCHANGED workerVars
             /\ UNCHANGED <<payload[handling[w]], id[handling[w]]>>
  BY <1>6 DEF CountdownOver, Redeliver, LoseMessage, ExpireSlot, Discard
<1>7. ASSUME NEW m \in Messages, DeliverAgain(m)
      PROVE  /\ UNCHANGED workerVars
             /\ UNCHANGED <<payload[handling[w]], id[handling[w]]>>
  BY <1>7 DEF DeliverAgain, Fresh
<1>8. CASE ChangeTenantStatus \/ Sweep \/ SweepDies \/ UNCHANGED vars
  BY <1>8 DEF ChangeTenantStatus, Sweep, SweepDies, vars
<1> QED
  BY <1>1, <1>2, <1>3, <1>4, <1>5, <1>6, <1>7, <1>8 DEF Next

-----------------------------------------------------------------------------
\* A worker starts to run only by a claim, which the task's lease must allow.
LEMMA StartsByClaim ==
  ASSUME TypeOK, BrokerInv, [Next]_vars, NEW w \in Workers,
         pc[w] # "running", pc'[w] = "running"
  PROVE  Claim(w) /\ Leased(w)' /\ (status[TaskOf(w)] = "PENDING" \/
            (status[TaskOf(w)] = "PROCESSING" /\ LeaseExpired(TaskOf(w))))
<1> USE DEF TypeOK
<1>1. Claim(w)
  <2>1. ASSUME NEW t \in Tasks,
               \/ Submit(t) \/ PublishTask(t) \/ MarkDispatched(t) \/ EnqueueFails(t)
               \/ ExpireLease(t) \/ AgeDispatch(t) \/ PublishSwept(t)
        PROVE  UNCHANGED pc
    BY <2>1 DEF Submit, PublishTask, MarkDispatched, EnqueueFails, ExpireLease, AgeDispatch,
       PublishSwept, workerVars
  <2>2. ASSUME NEW v \in Workers, Work(v)
        PROVE  Claim(w)
    BY <2>2 DEF Work, ReadContext, AcquireSlot, RetryLater, Claim, Finish, TimeOut, MarkTimeout,
       ReleaseSlot, Acknowledge, LetGo, Goto
  <2>3. ASSUME NEW v \in Workers,
               AttemptFails(v) \/ Kill(v) \/ \E m \in Messages : Take(v, m)
        PROVE  FALSE
    BY <2>3 DEF AttemptFails, Kill, Take, LetGo, Goto
  <2>4. ASSUME NEW m \in Messages,
               \/ CountdownOver(m) \/ Redeliver(m) \/ DeliverAgain(m)
               \/ LoseMessage(m) \/ ExpireSlot(m)
        PROVE  UNCHANGED pc
    BY <2>4 DEF CountdownOver, Redeliver, DeliverAgain, LoseMessage, ExpireSlot, workerVars
  <2>5. CASE ChangeTenantStatus \/ Sweep \/ SweepDies \/ UNCHANGED vars
    BY <2>5 DEF ChangeTenantStatus, Sweep, SweepDies, vars, workerVars
  <2> QED
    BY <2>1, <2>2, <2>3, <2>4, <2>5 DEF Next
<1>2. TaskOf(w) \in Tasks /\ RequestId(w) \in Messages /\ TaskOf(w) = payload[handling[w]]
  BY <1>1, BusyWorker DEF Claim, TaskOf
<1>3. status[TaskOf(w)] = "PENDING" \/ (status[TaskOf(w)] = "PROCESSING" /\ LeaseExpired(TaskOf(w)))
  BY <1>1, <1>2 DEF Claim, Goto
<1>4. /\ status' = [status EXCEPT ![TaskOf(w)] = "PROCESSING"]
      /\ owner' = [owner EXCEPT ![TaskOf(w)] = RequestId(w)]
      /\ leaseLive' = [leaseLive EXCEPT ![TaskOf(w)] = TRUE]
      /\ UNCHANGED <<handling, brokerVars>>
  BY <1>1, <1>2, <1>3 DEF Claim
<1>5. TaskOf(w)' = TaskOf(w) /\ RequestId(w)' = RequestId(w)
  BY <1>4 DEF TaskOf, RequestId, brokerVars
<1>6. status'[TaskOf(w)] = "PROCESSING" /\ owner'[TaskOf(w)] = RequestId(w) /\ leaseLive'[TaskOf(w)]
  BY <1>2, <1>4
<1> QED
  BY <1>1, <1>3, <1>5, <1>6 DEF Leased

\* What is settled stays settled.
LEMMA SettledStays ==
  ASSUME TypeOK, BrokerInv, [Next]_vars, NEW t \in Tasks, status[t] = "SETTLED"
  PROVE  status'[t] = "SETTLED"
<1> USE DEF TypeOK, rowVars
<1>1. ASSUME NEW u \in Tasks,
             \/ Submit(u) \/ PublishTask(u) \/ MarkDispatched(u) \/ EnqueueFails(u)
             \/ ExpireLease(u) \/ AgeDispatch(u) \/ PublishSwept(u)
      PROVE  status'[t] = "SETTLED"
  BY <1>1 DEF Submit, PublishTask, MarkDispatched, EnqueueFails, ExpireLease, AgeDispatch, PublishSwept
<1>2. ASSUME NEW v \in Workers, Work(v)
      PROVE  status'[t] = "SETTLED"
  <2>1. CASE Claim(v)
    BY <2>1 DEF Claim
  <2>2. CASE Finish(v) \/ MarkTimeout(v)
    BY <2>2 DEF Finish, MarkTimeout
  <2>3. CASE TimeOut(v)
    BY <2>3 DEF TimeOut
  <2> QED
    BY <1>2, <2>1, <2>2, <2>3 DEF Work, ReadContext, AcquireSlot, RetryLater, ReleaseSlot, Acknowledge
<1>3. ASSUME NEW v \in Workers,
             AttemptFails(v) \/ Kill(v) \/ \E m \in Messages : Take(v, m)
      PROVE  UNCHANGED status
  BY <1>3 DEF AttemptFails, Kill, Take
<1>4. ASSUME NEW m \in Messages,
             \/ CountdownOver(m) \/ Redeliver(m) \/ DeliverAgain(m)
             \/ LoseMessage(m) \/ ExpireSlot(m)
      PROVE  UNCHANGED status
  BY <1>4 DEF CountdownOver, Redeliver, DeliverAgain, LoseMessage, ExpireSlot
<1>5. CASE Sweep
  BY <1>5 DEF Sweep, Orphans
<1>6. CASE ChangeTenantStatus \/ SweepDies \/ UNCHANGED vars
  BY <1>6 DEF ChangeTenantStatus, SweepDies, vars
<1> QED
  BY <1>1, <1>2, <1>3, <1>4, <1>5, <1>6 DEF Next

\* Nobody takes the lease of a worker that goes on running; the task may be
\* settled under it by the timeout of an earlier attempt.
LEMMA LeaseKept ==
  ASSUME TypeOK, BrokerInv, OneRunner, [Next]_vars, NEW w \in Workers, NEW t, NEW r,
         t = TaskOf(w), r = RequestId(w),
         pc[w] = "running", pc'[w] = "running", Leased(w)
  PROVE  \/ status'[t] = "SETTLED"
         \/ status'[t] = "PROCESSING" /\ owner'[t] = r /\ leaseLive'[t]
<1> DEFINE Kept == \/ status'[t] = "SETTLED"
                   \/ status'[t] = "PROCESSING" /\ owner'[t] = r /\ leaseLive'[t]
<1>0. /\ t \in Tasks /\ r \in Messages
      /\ status[t] = "PROCESSING" /\ owner[t] = r /\ leaseLive[t]
      /\ ~LeaseExpired(t)
      /\ RunsUnder(w, r)
  BY BusyWorker DEF Leased, LeaseExpired, RunsUnder, InFlight
<1> USE DEF TypeOK, rowVars
<1>1. ASSUME NEW u \in Tasks,
             \/ Submit(u) \/ PublishTask(u) \/ MarkDispatched(u) \/ EnqueueFails(u)
             \/ AgeDispatch(u) \/ PublishSwept(u)
      PROVE  Kept
  BY <1>0, <1>1 DEF Submit, PublishTask, MarkDispatched, EnqueueFails, AgeDispatch, PublishSwept
<1>2. ASSUME NEW u \in Tasks, ExpireLease(u)
      PROVE  Kept
  <2>1. u # t
    BY <1>0, <1>2 DEF ExpireLease
  <2> QED
    BY <1>0, <1>2, <2>1 DEF ExpireLease
<1>3. ASSUME NEW v \in Workers, Work(v)
      PROVE  Kept
  <2>1. CASE Claim(v)
    <3>1. payload[handling[v]] = t => UNCHANGED <<status, owner, leaseLive>>
      BY <1>0, <2>1 DEF Claim
    <3> QED
      BY <1>0, <2>1, <3>1 DEF Claim
  <2>2. CASE Finish(v) \/ MarkTimeout(v)
    BY <1>0, <2>2 DEF Finish, MarkTimeout
  <2>3. CASE TimeOut(v)
    <3>1. v # w /\ pc[v] = "running"
      BY <2>3 DEF TimeOut, Goto
    <3>2. payload[handling[v]] # t
      BY <3>1 DEF OneRunner, TaskOf
    <3> QED
      BY <1>0, <2>3, <3>2 DEF TimeOut
  <2> QED
    BY <1>0, <1>3, <2>1, <2>2, <2>3 DEF Work, ReadContext, AcquireSlot, RetryLater, ReleaseSlot, Acknowledge
<1>4. ASSUME NEW v \in Workers,
             AttemptFails(v) \/ Kill(v) \/ \E m \in Messages : Take(v, m)
      PROVE  UNCHANGED <<status, owner, leaseLive>>
  BY <1>4 DEF AttemptFails, Kill, Take
<1>5. ASSUME NEW m \in Messages,
             \/ CountdownOver(m) \/ Redeliver(m) \/ DeliverAgain(m)
             \/ LoseMessage(m) \/ ExpireSlot(m)
      PROVE  UNCHANGED <<status, owner, leaseLive>>
  BY <1>5 DEF CountdownOver, Redeliver, DeliverAgain, LoseMessage, ExpireSlot
<1>6. CASE Sweep
  BY <1>0, <1>6 DEF Sweep, Orphans
<1>7. CASE ChangeTenantStatus \/ SweepDies \/ UNCHANGED vars
  BY <1>0, <1>7 DEF ChangeTenantStatus, SweepDies, vars
<1> QED
  BY <1>0, <1>1, <1>2, <1>3, <1>4, <1>5, <1>6, <1>7 DEF Next

LEMMA RunnerOwnsStep ==
  ASSUME DeliveryInv, [Next]_vars
  PROVE  RunnerOwns'
<1> USE DEF DeliveryInv
<1> SUFFICES ASSUME NEW w \in Workers, pc'[w] = "running"
             PROVE  status'[TaskOf(w)'] = "SETTLED" \/ Leased(w)'
  BY DEF RunnerOwns
<1>1. CASE pc[w] # "running"
  BY <1>1, StartsByClaim
<1>2. CASE pc[w] = "running"
  <2>1. /\ TaskOf(w)' = TaskOf(w) /\ RequestId(w)' = RequestId(w)
        /\ TaskOf(w) \in Tasks
    BY <1>2, SameAttempt, BusyWorker
  <2>2. CASE status[TaskOf(w)] = "SETTLED"
    BY <2>1, <2>2, SettledStays
  <2>3. CASE Leased(w)
    BY <1>2, <2>1, <2>3, LeaseKept DEF Leased
  <2> QED
    BY <1>2, <2>2, <2>3 DEF RunnerOwns
<1> QED
  BY <1>1, <1>2

\* A worker cannot claim the task that another one is running.
LEMMA NoClaimBesideRunner ==
  ASSUME DeliveryInv, [Next]_vars,
         NEW v \in Workers, NEW w \in Workers,
         pc[v] # "running", pc'[v] = "running", pc'[w] = "running",
         TaskOf(v)' = TaskOf(w)'
  PROVE  v = w
<1> USE DEF DeliveryInv
<1> SUFFICES ASSUME v # w PROVE FALSE
  OBVIOUS
<1>1. Claim(v) /\ (status[TaskOf(v)] = "PENDING" \/
         (status[TaskOf(v)] = "PROCESSING" /\ LeaseExpired(TaskOf(v))))
  BY StartsByClaim
<1>2. pc[w] = "running"
  BY <1>1 DEF Claim, Goto, TypeOK
<1>3. TaskOf(v) = TaskOf(w)
  BY <1>1, <1>2 DEF Claim, TaskOf, brokerVars
<1>4. RequestId(w) \in Messages
  BY <1>2, BusyWorker
<1>5. status[TaskOf(w)] = "SETTLED" \/ Leased(w)
  BY <1>2 DEF RunnerOwns
<1> QED
  BY <1>1, <1>3, <1>4, <1>5 DEF Leased, LeaseExpired

LEMMA OneRunnerStep ==
  ASSUME DeliveryInv, [Next]_vars
  PROVE  OneRunner'
<1> USE DEF DeliveryInv
<1> SUFFICES ASSUME NEW v \in Workers, NEW w \in Workers,
                    pc'[v] = "running", pc'[w] = "running", TaskOf(v)' = TaskOf(w)'
             PROVE  v = w
  BY DEF OneRunner, TaskOf
<1>1. CASE pc[v] # "running"
  BY <1>1, NoClaimBesideRunner
<1>2. CASE pc[w] # "running"
  BY <1>2, NoClaimBesideRunner
<1>3. CASE pc[v] = "running" /\ pc[w] = "running"
  <2>1. TaskOf(v) = TaskOf(w)
    BY <1>3, SameAttempt
  <2> QED
    BY <1>3, <2>1 DEF OneRunner, TaskOf
<1> QED
  BY <1>1, <1>2, <1>3

-----------------------------------------------------------------------------
LEMMA InitInv == Init => DeliveryInv
  BY DEF Init, DeliveryInv, TypeOK, BrokerInv, InUse, WorkersHold, OneHandler, RunnerOwns,
     OneRunner, Place, PC, Idle, Open

\* The inductive invariant, which the theorems below read off.
THEOREM InvHolds == Spec => []DeliveryInv
<1>1. DeliveryInv /\ [Next]_vars => DeliveryInv'
  BY TypeStep, BrokerStep, RunnerOwnsStep, OneRunnerStep DEF DeliveryInv
<1> QED
  BY InitInv, <1>1, PTL DEF Spec

\* Rows, messages, slots and workers stay in their ranges; the counters of the
\* faults stay within their bounds.
THEOREM DeliveryTypeCorrect == Spec => []TypeOK
<1>1. DeliveryInv => TypeOK
  BY DEF DeliveryInv
<1> QED
  BY <1>1, InvHolds, PTL

\* process_email_task never runs one task in two workers at once, whatever is
\* redelivered, copied, killed, timed out or swept.
THEOREM TaskRunsOnce == Spec => []OneRunner
<1>1. DeliveryInv => OneRunner
  BY DEF DeliveryInv
<1> QED
  BY <1>1, InvHolds, PTL

\* A settled task is never opened again by a message that arrives late.
THEOREM SettledIsFinal ==
  Spec => [][\A t \in Tasks : status[t] = "SETTLED" => status'[t] = "SETTLED"]_vars
<1>1. DeliveryInv /\ [Next]_vars
        => [\A t \in Tasks : status[t] = "SETTLED" => status'[t] = "SETTLED"]_vars
  BY SettledStays DEF DeliveryInv
<1> QED
  BY <1>1, InvHolds, PTL DEF Spec

-----------------------------------------------------------------------------
(***************************************************************************)
(* The limit.  The slots are within it (AcquireSlot), and as long as no    *)
(* message was delivered twice, each attempt has a slot of its own: its    *)
(* request id is the name of the message it has, so that neither another   *)
(* attempt's release nor an expiry takes the slot from under it.           *)
(***************************************************************************)
SlotsWithinLimit == IsFiniteSet(slots) /\ Cardinality(slots) <= Limit

OwnIds == \A m \in Messages : place[m] # "unused" => id[m] = m

FlightHasSlot == \A w \in Workers : InFlight(w) => RequestId(w) \in slots

SlotInv == SlotsWithinLimit /\ (copies = 0 => OwnIds /\ FlightHasSlot)

\* The slots change by the acquisition of one, or become fewer.
LEMMA SlotsMove ==
  ASSUME TypeOK, [Next]_vars
  PROVE  \/ slots' \subseteq slots
         \/ \E w \in Workers : AcquireSlot(w)
<1> USE DEF TypeOK
<1>1. ASSUME NEW t \in Tasks,
             \/ Submit(t) \/ PublishTask(t) \/ MarkDispatched(t) \/ EnqueueFails(t)
             \/ ExpireLease(t) \/ AgeDispatch(t) \/ PublishSwept(t)
      PROVE  slots' = slots
  BY <1>1 DEF Submit, PublishTask, MarkDispatched, EnqueueFails, ExpireLease, AgeDispatch, PublishSwept
<1>2. ASSUME NEW v \in Workers, Work(v), ~AcquireSlot(v)
      PROVE  slots' \subseteq slots
  BY <1>2 DEF Work, ReadContext, RetryLater, Claim, Finish, TimeOut, MarkTimeout, ReleaseSlot, Acknowledge
<1>3. ASSUME NEW v \in Workers, AttemptFails(v) \/ Kill(v) \/ \E m \in Messages : Take(v, m)
      PROVE  slots' = slots
  BY <1>3 DEF AttemptFails, Kill, Take
<1>4. ASSUME NEW m \in Messages,
             \/ CountdownOver(m) \/ Redeliver(m) \/ DeliverAgain(m) \/ LoseMessage(m) \/ ExpireSlot(m)
      PROVE  slots' \subseteq slots
  BY <1>4 DEF CountdownOver, Redeliver, DeliverAgain, LoseMessage, ExpireSlot
<1>5. CASE ChangeTenantStatus \/ Sweep \/ SweepDies \/ UNCHANGED vars
  BY <1>5 DEF ChangeTenantStatus, Sweep, SweepDies, vars
<1> QED
  BY <1>1, <1>2, <1>3, <1>4, <1>5 DEF Next

LEMMA LimitStep ==
  ASSUME TypeOK, SlotsWithinLimit, [Next]_vars
  PROVE  SlotsWithinLimit'
<1> USE DEF SlotsWithinLimit
<1>0. Limit \in Nat /\ Cardinality(slots) \in Nat
  BY FS_CardinalityType DEF DeliveryAssumption
<1>1. CASE slots' \subseteq slots
  <2>1. /\ IsFiniteSet(slots') /\ Cardinality(slots') <= Cardinality(slots)
        /\ Cardinality(slots') \in Nat
    BY <1>1, FS_Subset, FS_CardinalityType
  <2> QED
    BY <1>0, <2>1
<1>2. ASSUME NEW w \in Workers, AcquireSlot(w)
      PROVE  SlotsWithinLimit'
  <2>1. slots' = slots \cup {RequestId(w)} /\ (RequestId(w) \in slots \/ Cardinality(slots) < Limit)
    BY <1>2 DEF AcquireSlot
  <2>2. IsFiniteSet(slots') /\ Cardinality(slots') \in {Cardinality(slots), Cardinality(slots) + 1}
        /\ (RequestId(w) \in slots => Cardinality(slots') = Cardinality(slots))
    BY <2>1, FS_AddElement
  <2> QED
    BY <1>0, <2>1, <2>2
<1> QED
  BY <1>1, <1>2, SlotsMove

\* Without copies, an id is only given to the message that has it as its name.
LEMMA OwnIdsStep ==
  ASSUME TypeOK, BrokerInv, OwnIds, [Next]_vars, copies' = copies
  PROVE  OwnIds'
<1> USE DEF TypeOK, OwnIds, brokerVars
<1>1. ASSUME NEW t \in Tasks,
             \/ Submit(t) \/ MarkDispatched(t) \/ EnqueueFails(t)
             \/ ExpireLease(t) \/ AgeDispatch(t)
      PROVE  OwnIds'
  BY <1>1 DEF Submit, MarkDispatched, EnqueueFails, ExpireLease, AgeDispatch
<1>2. ASSUME NEW t \in Tasks, PublishTask(t) \/ PublishSwept(t)
      PROVE  OwnIds'
  BY <1>2 DEF PublishTask, PublishSwept, Publish
<1>3. ASSUME NEW v \in Workers, Work(v)
      PROVE  OwnIds'
  <2>1. v \in Workers /\ (pc[v] # "idle" => handling[v] \in Messages /\ place[handling[v]] = "unacked")
    BY DEF BrokerInv, WorkersHold
  <2>2. CASE RetryLater(v)
    BY <2>1, <2>2 DEF RetryLater
  <2>3. CASE Acknowledge(v)
    BY <2>1, <2>3 DEF Acknowledge, Discard
  <2> QED
    BY <1>3, <2>2, <2>3 DEF Work, ReadContext, AcquireSlot, Claim, Finish, TimeOut, MarkTimeout, ReleaseSlot
<1>4. ASSUME NEW v \in Workers, AttemptFails(v) \/ Kill(v)
      PROVE  OwnIds'
  BY <1>4 DEF AttemptFails, Kill
<1>5. ASSUME NEW v \in Workers, NEW m \in Messages, Take(v, m)
      PROVE  OwnIds'
  BY <1>5 DEF Take
<1>6. ASSUME NEW m \in Messages, CountdownOver(m) \/ Redeliver(m) \/ LoseMessage(m) \/ ExpireSlot(m)
      PROVE  OwnIds'
  BY <1>6 DEF CountdownOver, Redeliver, LoseMessage, ExpireSlot, Discard
<1>7. ASSUME NEW m \in Messages
      PROVE  ~DeliverAgain(m)
  BY DEF DeliverAgain
<1>8. CASE ChangeTenantStatus \/ Sweep \/ SweepDies \/ UNCHANGED vars
  BY <1>8 DEF ChangeTenantStatus, Sweep, SweepDies, vars
<1> QED
  BY <1>1, <1>2, <1>3, <1>4, <1>5, <1>6, <1>7, <1>8 DEF Next

\* An attempt takes off with a slot.
LEMMA FlightStarts ==
  ASSUME TypeOK, [Next]_vars, NEW w \in Workers, InFlight(w)', ~InFlight(w)
  PROVE  AcquireSlot(w)
<1> USE DEF TypeOK, InFlight
<1>1. ASSUME NEW t \in Tasks,
             \/ Submit(t) \/ PublishTask(t) \/ MarkDispatched(t) \/ EnqueueFails(t)
             \/ ExpireLease(t) \/ AgeDispatch(t) \/ PublishSwept(t)
      PROVE  FALSE
  BY <1>1 DEF Submit, PublishTask, MarkDispatched, EnqueueFails, ExpireLease, AgeDispatch,
     PublishSwept, workerVars
<1>2. ASSUME NEW v \in Workers, Work(v)
      PROVE  AcquireSlot(w)
  BY <1>2 DEF Work, ReadContext, AcquireSlot, RetryLater, Claim, Finish, TimeOut, MarkTimeout,
     ReleaseSlot, Acknowledge, LetGo, Goto
<1>3. ASSUME NEW v \in Workers, AttemptFails(v) \/ Kill(v) \/ \E m \in Messages : Take(v, m)
      PROVE  FALSE
  BY <1>3 DEF AttemptFails, Kill, Take, LetGo, Goto
<1>4. ASSUME NEW m \in Messages,
             \/ CountdownOver(m) \/ Redeliver(m) \/ DeliverAgain(m) \/ LoseMessage(m) \/ ExpireSlot(m)
      PROVE  FALSE
  BY <1>4 DEF CountdownOver, Redeliver, DeliverAgain, LoseMessage, ExpireSlot, workerVars
<1>5. CASE ChangeTenantStatus \/ Sweep \/ SweepDies \/ UNCHANGED vars
  BY <1>5 DEF ChangeTenantStatus, Sweep, SweepDies, vars, workerVars
<1> QED
  BY <1>1, <1>2, <1>3, <1>4, <1>5 DEF Next

\* A slot goes by the release of an attempt under its id, or expires.
LEMMA SlotLeaves ==
  ASSUME TypeOK, [Next]_vars, NEW r \in slots, r \notin slots'
  PROVE  ExpireSlot(r) \/ \E v \in Workers : ReleaseSlot(v) /\ RequestId(v) = r
<1> USE DEF TypeOK
<1>1. ASSUME NEW t \in Tasks,
             \/ Submit(t) \/ PublishTask(t) \/ MarkDispatched(t) \/ EnqueueFails(t)
             \/ ExpireLease(t) \/ AgeDispatch(t) \/ PublishSwept(t)
      PROVE  FALSE
  BY <1>1 DEF Submit, PublishTask, MarkDispatched, EnqueueFails, ExpireLease, AgeDispatch, PublishSwept
<1>2. ASSUME NEW v \in Workers, Work(v)
      PROVE  ReleaseSlot(v) /\ RequestId(v) = r
  BY <1>2 DEF Work, ReadContext, AcquireSlot, RetryLater, Claim, Finish, TimeOut, MarkTimeout, ReleaseSlot, Acknowledge
<1>3. ASSUME NEW v \in Workers, AttemptFails(v) \/ Kill(v) \/ \E m \in Messages : Take(v, m)
      PROVE  FALSE
  BY <1>3 DEF AttemptFails, Kill, Take
<1>4. ASSUME NEW m \in Messages,
             \/ CountdownOver(m) \/ Redeliver(m) \/ DeliverAgain(m) \/ LoseMessage(m) \/ ExpireSlot(m)
      PROVE  ExpireSlot(r)
  BY <1>4 DEF CountdownOver, Redeliver, DeliverAgain, LoseMessage, ExpireSlot
<1>5. CASE ChangeTenantStatus \/ Sweep \/ SweepDies \/ UNCHANGED vars
  BY <1>5 DEF ChangeTenantStatus, Sweep, SweepDies, vars
<1> QED
  BY <1>1, <1>2, <1>3, <1>4, <1>5 DEF Next

LEMMA FlightStep ==
  ASSUME DeliveryInv, OwnIds, FlightHasSlot, [Next]_vars
  PROVE  FlightHasSlot'
<1> USE DEF DeliveryInv
<1> SUFFICES ASSUME NEW w \in Workers, InFlight(w)'
             PROVE  RequestId(w)' \in slots'
  BY DEF FlightHasSlot
<1>1. CASE ~InFlight(w)
  <2>1. AcquireSlot(w)
    BY <1>1, FlightStarts
  <2> QED
    BY <2>1 DEF AcquireSlot, RequestId, brokerVars
<1>2. CASE InFlight(w)
  <2>1. pc[w] # "idle" /\ pc'[w] # "idle"
    BY <1>2 DEF InFlight
  <2>2. RequestId(w)' = RequestId(w) /\ RequestId(w) \in slots
    BY <1>2, <2>1, SameAttempt DEF FlightHasSlot
  <2>3. SUFFICES ASSUME RequestId(w) \notin slots' PROVE FALSE
    BY <2>2
  <2>4. CASE ExpireSlot(RequestId(w))
    BY <1>2, <2>4 DEF ExpireSlot, RunsUnder
  <2>5. ASSUME NEW v \in Workers, ReleaseSlot(v), RequestId(v) = RequestId(w)
        PROVE  FALSE
    <3>1. pc[v] = "releasing" /\ pc'[v] = "acking"
      BY <2>5 DEF ReleaseSlot, Goto, TypeOK
    <3>2. /\ handling[v] \in Messages /\ place[handling[v]] = "unacked"
          /\ handling[w] \in Messages /\ place[handling[w]] = "unacked"
      BY <2>1, <3>1 DEF BrokerInv, WorkersHold
    <3>3. handling[v] = handling[w]
      BY <2>5, <3>2 DEF OwnIds, RequestId
    <3>4. v = w
      BY <3>2, <3>3 DEF BrokerInv, OneHandler, DeliveryAssumption
    <3> QED
      BY <3>1, <3>4 DEF InFlight
  <2> QED
    BY <2>2, <2>3, <2>4, <2>5, SlotLeaves
<1> QED
  BY <1>1, <1>2

\* Nothing takes a copy back.
LEMMA CopiesStay ==
  ASSUME TypeOK, [Next]_vars, copies' = 0
  PROVE  copies = 0
<1> USE DEF TypeOK, faultVars
<1>1. ASSUME NEW m \in Messages, DeliverAgain(m)
      PROVE  FALSE
  BY <1>1 DEF DeliverAgain, DeliveryAssumption
<1>2. ASSUME NEW v \in Workers, Work(v)
      PROVE  UNCHANGED copies
  BY <1>2 DEF Work, ReadContext, AcquireSlot, RetryLater, Claim, Finish, TimeOut, MarkTimeout, ReleaseSlot, Acknowledge
<1>3. ASSUME NEW v \in Workers, AttemptFails(v) \/ Kill(v) \/ \E m \in Messages : Take(v, m)
      PROVE  UNCHANGED copies
  BY <1>3 DEF AttemptFails, Kill, Take
<1>4. ASSUME NEW m \in Messages, CountdownOver(m) \/ Redeliver(m) \/ LoseMessage(m) \/ ExpireSlot(m)
      PROVE  UNCHANGED copies
  BY <1>4 DEF CountdownOver, Redeliver, LoseMessage, ExpireSlot
<1>5. ASSUME NEW t \in Tasks,
             \/ Submit(t) \/ PublishTask(t) \/ MarkDispatched(t) \/ EnqueueFails(t)
             \/ ExpireLease(t) \/ AgeDispatch(t) \/ PublishSwept(t)
      PROVE  UNCHANGED copies
  BY <1>5 DEF Submit, PublishTask, MarkDispatched, EnqueueFails, ExpireLease, AgeDispatch, PublishSwept
<1>6. CASE ChangeTenantStatus \/ Sweep \/ SweepDies \/ UNCHANGED vars
  BY <1>6 DEF ChangeTenantStatus, Sweep, SweepDies, vars
<1> QED
  BY <1>1, <1>2, <1>3, <1>4, <1>5, <1>6 DEF Next

\* One slot for each attempt, so no more attempts than slots.
LEMMA SlotsBound ==
  ASSUME DeliveryInv, SlotInv
  PROVE  WithinLimitUnlessCopied
<1> SUFFICES ASSUME copies = 0 PROVE Cardinality({w \in Workers : pc[w] = "running"}) <= Limit
  BY DEF WithinLimitUnlessCopied, RunningWithinLimit
<1> DEFINE running == {w \in Workers : pc[w] = "running"}
           slotOf == [w \in running |-> RequestId(w)]
<1>1. slotOf \in [running -> slots]
  BY DEF SlotInv, FlightHasSlot, InFlight
<1>2. ASSUME NEW v \in running, NEW w \in running, slotOf[v] = slotOf[w]
      PROVE  v = w
  <2>1. /\ handling[v] \in Messages /\ place[handling[v]] = "unacked"
        /\ handling[w] \in Messages /\ place[handling[w]] = "unacked"
    BY DEF DeliveryInv, BrokerInv, WorkersHold
  <2>2. handling[v] = handling[w]
    BY <1>2, <2>1 DEF SlotInv, OwnIds, RequestId
  <2> QED
    BY <2>1, <2>2 DEF DeliveryInv, BrokerInv, OneHandler, DeliveryAssumption
<1> HIDE DEF running, slotOf
<1>3. slotOf \in Injection(running, slots)
  BY <1>1, <1>2, Fun_IsInj
<1>4. IsFiniteSet(slots) /\ Cardinality(slots) <= Limit
  BY DEF SlotInv, SlotsWithinLimit
<1>5. /\ IsFiniteSet(running) /\ Cardinality(running) <= Cardinality(slots)
      /\ Cardinality(running) \in Nat /\ Cardinality(slots) \in Nat
  BY <1>3, <1>4, FS_Injection, FS_CardinalityType
<1>6. Cardinality(running) <= Limit
  BY <1>4, <1>5 DEF DeliveryAssumption
<1> QED
  BY <1>6 DEF running

(***************************************************************************)
(* As long as no message is delivered twice, no more attempts run than the *)
(* tenant may have, whatever crashes, is redelivered or expires.           *)
(***************************************************************************)
THEOREM LimitHoldsUnlessCopied == Spec => []WithinLimitUnlessCopied
<1>1. Init => SlotInv
  BY FS_EmptySet DEF Init, SlotInv, SlotsWithinLimit, OwnIds, FlightHasSlot, InFlight, DeliveryAssumption
<1>2. DeliveryInv /\ SlotInv /\ [Next]_vars => SlotInv'
  BY LimitStep, OwnIdsStep, FlightStep, CopiesStay DEF SlotInv, DeliveryInv
<1> QED
  BY <1>1, <1>2, InvHolds, SlotsBound, PTL DEF Spec
=============================================================================
