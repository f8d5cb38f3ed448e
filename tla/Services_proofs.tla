--------------------------- MODULE Services_proofs ---------------------------
(***************************************************************************)
(* What runs behind the API, for any constants.  The in-process queue: for *)
(* any tasks, tenants, workers, limit, crashes and retries, money follows  *)
(* the status of the task, and the counters are right and within the       *)
(* limit.  A customer whose callback_status says SUCCESS knows the         *)
(* outcome.  One extraction costs no more than the settings allow.         *)
(***************************************************************************)
EXTENDS MCServices, FiniteSetTheorems, SequenceTheorems, TLAPS

-----------------------------------------------------------------------------
(***************************************************************************)
(* LocalQueue.  A worker counts from the admission of an item to the       *)
(* finally clause of its attempt.                                          *)
(***************************************************************************)
\* The parts of the type that the proofs rest on.
TaskType == task \in [Tasks -> Row]

\* A worker that counts has a task.
WorkerType ==
    /\ worker \in [Workers -> Worker]
    /\ \A w \in Workers : worker[w].pc \in Holding \cup {"stopping"} => worker[w].task \in Tasks

Sound(row) ==
    /\ row \in Row
    /\ row.charged <=> row.status = "SUCCESS"
    /\ row.reserved <=> row.status \in Open

Rows == TaskType /\ MoneyFollowsStatus

-----------------------------------------------------------------------------
(* Whatever a step writes is sound. *)

LEMMA RowsAreSound ==
  Rows <=> task \in [Tasks -> Row] /\ \A t \in Tasks : Sound(task[t])
  BY DEF Rows, TaskType, MoneyFollowsStatus, Sound

LEMMA WriteKeepsRows ==
  ASSUME Rows, NEW t, NEW row, t \in Tasks => Sound(row), Writes(t, row)
  PROVE  Rows'
  BY DEF Rows, TaskType, MoneyFollowsStatus, Sound, Writes

LEMMA SameRows ==
  ASSUME Rows, UNCHANGED task
  PROVE  Rows'
  BY DEF Rows, TaskType, MoneyFollowsStatus

LEMMA SoundWrites ==
  ASSUME Rows, NEW t \in Tasks
  PROVE  /\ task[t].status \in {"none", "FAILED"} => Sound(Reserved(task[t]))
         /\ \A o \in Workers \cup {Other} : Claimable(t) => Sound(ClaimedBy(t, o))
         /\ \A s \in {"SUCCESS", "FAILED"} : Sound(Settled(t, s))
         /\ \A w \in Workers : Sound(ReturnedBy(t, w))
         /\ Sound(TimedOut(t))
         /\ Sound([task[t] EXCEPT !.leased = FALSE])
<1> DEFINE r == task[t]
<1>1. r \in Row /\ (r.charged <=> r.status = "SUCCESS") /\ (r.reserved <=> r.status \in Open)
  BY DEF Rows, TaskType, MoneyFollowsStatus
<1>2. r.status \in {"none", "FAILED"} => Sound(Reserved(r))
  BY <1>1 DEF Sound, Reserved, Row, Open
<1>3. \A o \in Workers \cup {Other} : Claimable(t) => Sound(ClaimedBy(t, o))
  BY <1>1 DEF Sound, Claimable, ClaimedBy, Row, Open
<1>4. \A s \in {"SUCCESS", "FAILED"} : Sound(Settled(t, s))
  BY <1>1 DEF Sound, Settled, Row, Open
<1>5. \A w \in Workers : Sound(ReturnedBy(t, w))
  BY <1>1 DEF Sound, ReturnedBy, Row, Open
<1>6. Sound(TimedOut(t))
  BY <1>1 DEF Sound, TimedOut, Row, Open
<1>7. Sound([task[t] EXCEPT !.leased = FALSE])
  BY <1>1 DEF Sound, Row, Open
<1> QED
  BY <1>2, <1>3, <1>4, <1>5, <1>6, <1>7

LEMMA InitRows ==
  ASSUME LocalInit
  PROVE  Rows
  BY DEF LocalInit, Rows, TaskType, MoneyFollowsStatus, NoRow, Row, Open

LEMMA WorkKeepsRows ==
  ASSUME WorkerType, Rows, NEW w \in Workers, Work(w)
  PROVE  Rows'
<1> DEFINE t == worker[w].task
<1>1. CASE Claim(w)
  BY <1>1, SoundWrites, WriteKeepsRows DEF Claim
<1>2. CASE ClaimInactive(w)
  BY <1>2, SoundWrites, WriteKeepsRows DEF ClaimInactive
<1>3. CASE Settle(w)
  <2>1. PICK s \in {"SUCCESS", "FAILED"} : Writes(t, Settled(t, s)) \/ UNCHANGED task
    BY <1>3 DEF Settle
  <2> QED
    BY <2>1, SoundWrites, WriteKeepsRows, SameRows
<1>4. CASE ReturnTask(w)
  BY <1>4, SoundWrites, WriteKeepsRows DEF ReturnTask
<1>5. CASE FailByTimeout(w)
  BY <1>5, SoundWrites, WriteKeepsRows DEF FailByTimeout
<1>6. CASE ReturnOnStop(w)
  BY <1>6, SoundWrites, WriteKeepsRows DEF ReturnOnStop
<1>7. CASE Requeue(w) \/ Admit(w) \/ NotClaimable(w) \/ Notified(w)
  BY <1>7, SameRows DEF Requeue, Admit, NotClaimable, Notified
<1> QED
  BY <1>1, <1>2, <1>3, <1>4, <1>5, <1>6, <1>7 DEF Work

LEMMA NextKeepsRows ==
  ASSUME WorkerType, Rows, LocalNext
  PROVE  Rows'
<1>1. ASSUME NEW t \in Tasks,
             \/ Submit(t) \/ Retry(t) \/ Enqueue(t)
             \/ OtherClaims(t) \/ OtherSettles(t) \/ ExpireLease(t)
      PROVE  Rows'
  <2>1. CASE Submit(t) \/ Retry(t)
    BY <2>1, SoundWrites, WriteKeepsRows DEF Submit, Retry
  <2>2. CASE Enqueue(t)
    BY <2>2, SameRows DEF Enqueue
  <2>3. CASE OtherClaims(t)
    BY <2>3, SoundWrites, WriteKeepsRows DEF OtherClaims
  <2>4. CASE OtherSettles(t)
    <3>1. PICK s \in {"SUCCESS", "FAILED"} : Writes(t, Settled(t, s))
      BY <2>4 DEF OtherSettles
    <3> QED
      BY <3>1, SoundWrites, WriteKeepsRows
  <2>5. CASE ExpireLease(t)
    BY <2>5, SoundWrites, WriteKeepsRows DEF ExpireLease
  <2> QED
    BY <1>1, <2>1, <2>2, <2>3, <2>4, <2>5
<1>2. CASE Reset
  <2> DEFINE new == [t \in Tasks |-> IF task[t].status = "PROCESSING"
                                     THEN [task[t] EXCEPT !.status = "PENDING"] ELSE task[t]]
  <2>1. task' = new
    BY <1>2 DEF Reset
  <2>2. ASSUME NEW t \in Tasks
        PROVE  Sound(new[t])
    BY RowsAreSound DEF Sound, Row, Open
  <2>3. new \in [Tasks -> Row]
    BY <2>2 DEF Sound
  <2> HIDE DEF new
  <2>4. /\ TaskType'
        /\ \A t \in Tasks : Sound(task'[t])
    BY <2>1, <2>2, <2>3 DEF TaskType
  <2> QED
    BY <2>4 DEF Rows, MoneyFollowsStatus, Sound
<1>3. CASE Start \/ Recover \/ Spawn \/ RecoveryFails \/ Stop \/ Exit \/ Crash
  BY <1>3, SameRows DEF Start, Recover, Spawn, RecoveryFails, Stop, Exit, Crash, ProcessEnds
<1>4. ASSUME NEW w \in Workers, Work(w)
      PROVE  Rows'
  BY <1>4, WorkKeepsRows
<1>5. ASSUME NEW w \in Workers, TimeOut(w) \/ Error(w)
      PROVE  Rows'
  BY <1>5, SameRows DEF TimeOut, Error
<1> QED
  BY <1>1, <1>2, <1>3, <1>4, <1>5 DEF LocalNext, Begin

LEMMA StutterKeepsRows ==
  ASSUME Rows, UNCHANGED localVars
  PROVE  Rows'
  BY SameRows DEF localVars

-----------------------------------------------------------------------------
(* The counters. *)

Counting == Holding \cup {"stopping"}
Running(k) == {w \in Workers : worker[w].pc \in Counting /\ TenantOf[worker[w].task] = k}

Counts ==
    /\ WorkerType
    /\ queue \in Seq(Tasks)
    /\ count \in [Tenants -> Nat]
    /\ CountedWithinLimit

LEMMA CountsRunning ==
  CountedWithinLimit <=> \A k \in Tenants : count[k] = Cardinality(Running(k)) /\ count[k] <= Limit
  BY DEF CountedWithinLimit, Running, Counting

LEMMA RunningIsFinite ==
  ASSUME LocalConstants, NEW k
  PROVE  IsFiniteSet(Running(k)) /\ Cardinality(Running(k)) \in Nat
  BY FS_Subset, FS_CardinalityType DEF LocalConstants, Running

LEMMA SameCounts ==
  ASSUME Counts, UNCHANGED <<count, worker>>, queue' \in Seq(Tasks)
  PROVE  Counts'
  BY DEF Counts, WorkerType, CountedWithinLimit

\* A worker that goes from one place to another of its attempt still counts.
LEMMA MoveKeepsCounts ==
  ASSUME Counts, NEW w \in Workers, worker[w].pc \in Counting,
         NEW next \in Counting, Goes(w, next), UNCHANGED <<count, queue>>
  PROVE  Counts'
<1>1. worker' \in [Workers -> Worker]
  BY DEF Counts, WorkerType, Worker, Counting, Goes
<1>2. \A v \in Workers : /\ worker'[v].task = worker[v].task
                         /\ worker'[v].pc \in Counting <=> worker[v].pc \in Counting
  BY DEF Counts, WorkerType, Worker, Goes
<1>3. \A k : Running(k)' = Running(k)
  BY <1>2 DEF Running
<1>4. \A k \in Tenants : count'[k] = Cardinality(Running(k)') /\ count'[k] <= Limit
  BY <1>3, CountsRunning DEF Counts
<1>5. CountedWithinLimit'
  BY <1>4 DEF CountedWithinLimit, Running, Counting
<1> QED
  BY <1>1, <1>2, <1>5 DEF Counts, WorkerType, Counting

LEMMA OneLess ==
  ASSUME NEW S, IsFiniteSet(S), NEW x \in S
  PROVE  Cardinality(S \ {x}) = Cardinality(S) - 1 /\ Cardinality(S) \in Nat \ {0}
  BY FS_RemoveElement, FS_CardinalityType, FS_EmptySet

\* The finally clause takes its own worker out of the count of its tenant.
LEMMA LeaveKeepsCounts ==
  ASSUME LocalConstants, Counts, NEW w \in Workers, worker[w].pc \in Counting,
         NEW next \in {"idle", "gone"}, Leave(w, next), UNCHANGED queue
  PROVE  Counts'
<1> DEFINE own == TenantOf[worker[w].task]
<1>1. /\ worker[w].task \in Tasks
      /\ own \in Tenants
  BY DEF Counts, WorkerType, LocalConstants, Counting
<1>2. worker' = [worker EXCEPT ![w] = Idle(next)]
  BY DEF Leave
<1>3. /\ worker' \in [Workers -> Worker]
      /\ \A v \in Workers : worker'[v] = IF v = w THEN Idle(next) ELSE worker[v]
  BY <1>2 DEF Counts, WorkerType, Worker, Idle, Holding
<1>4. Idle(next).pc \notin Counting
  BY DEF Idle, Counting, Holding
<1>5. WorkerType'
  BY <1>3, <1>4 DEF Counts, WorkerType, Counting
<1>6. ASSUME NEW k \in Tenants
      PROVE  Running(k)' = IF k = own THEN Running(k) \ {w} ELSE Running(k)
  BY <1>3, <1>4 DEF Running
<1>7. w \in Running(own)
  BY DEF Running
<1>8. ASSUME NEW k \in Tenants
      PROVE  count'[k] \in Nat /\ count'[k] = Cardinality(Running(k)') /\ count'[k] <= Limit
  <2>1. count[k] \in Nat /\ count[k] = Cardinality(Running(k)) /\ count[k] <= Limit
    BY CountsRunning DEF Counts
  <2>2. CASE k # own
    BY <1>1, <1>6, <2>1, <2>2 DEF Leave, Counts
  <2>3. CASE k = own
    <3>1. count'[k] = count[k] - 1
      BY <1>1, <2>3 DEF Leave, Counts
    <3>2. /\ Cardinality(Running(own) \ {w}) = Cardinality(Running(own)) - 1
          /\ Cardinality(Running(own)) \in Nat \ {0}
      BY <1>7, RunningIsFinite, OneLess
    <3>3. Running(k)' = Running(own) \ {w}
      BY <1>6, <2>3
    <3> QED
      BY <2>1, <2>3, <3>1, <3>2, <3>3 DEF LocalConstants
  <2> QED
    BY <2>2, <2>3
<1>9. count' \in [Tenants -> Nat]
  BY <1>8 DEF Leave, Counts
<1>10. CountedWithinLimit'
  BY <1>8 DEF CountedWithinLimit, Running, Counting
<1> QED
  BY <1>5, <1>9, <1>10 DEF Counts

\* An admitted item is counted, and there was room for it.
LEMMA AdmitKeepsCounts ==
  ASSUME LocalConstants, Counts, NEW w \in Workers, Admit(w)
  PROVE  Counts'
<1> DEFINE t == Head(queue)
           own == TenantOf[t]
<1>1. /\ queue # <<>>
      /\ t \in Tasks /\ Tail(queue) \in Seq(Tasks) /\ own \in Tenants
      /\ ~(count[own] >= Limit)
      /\ worker[w].pc = "idle"
  BY DEF Counts, Admit, NextItem, Busy, At, LocalConstants
<1>2. /\ worker' = [worker EXCEPT ![w] = [pc |-> "claim", task |-> t]]
      /\ count' = [count EXCEPT ![own] = @ + 1]
      /\ queue' = Tail(queue)
  BY DEF Admit
<1> HIDE DEF t
<1>3. /\ worker' \in [Workers -> Worker]
      /\ \A v \in Workers : worker'[v] = IF v = w THEN [pc |-> "claim", task |-> t] ELSE worker[v]
  BY <1>1, <1>2 DEF Counts, WorkerType, Worker, Holding
<1>4. WorkerType'
  BY <1>1, <1>3 DEF Counts, WorkerType
<1>5. "claim" \in Counting /\ "idle" \notin Counting
  BY DEF Counting, Holding
<1>6. ASSUME NEW k \in Tenants
      PROVE  Running(k)' = IF k = own THEN Running(k) \cup {w} ELSE Running(k)
  BY <1>1, <1>3, <1>5 DEF Running
<1>7. w \notin Running(own)
  BY <1>1, <1>5 DEF Running
<1>8. ASSUME NEW k \in Tenants
      PROVE  count'[k] \in Nat /\ count'[k] = Cardinality(Running(k)') /\ count'[k] <= Limit
  <2>1. count[k] \in Nat /\ count[k] = Cardinality(Running(k)) /\ count[k] <= Limit
    BY CountsRunning DEF Counts
  <2>2. CASE k # own
    BY <1>1, <1>2, <1>6, <2>1, <2>2 DEF Counts
  <2>3. CASE k = own
    <3>1. count'[k] = count[k] + 1
      BY <1>1, <1>2, <2>3 DEF Counts
    <3>2. Cardinality(Running(own) \cup {w}) = Cardinality(Running(own)) + 1
      BY <1>7, RunningIsFinite, FS_AddElement
    <3>3. Running(k)' = Running(own) \cup {w}
      BY <1>6, <2>3
    <3> QED
      BY <1>1, <2>1, <2>3, <3>1, <3>2, <3>3 DEF LocalConstants
  <2> QED
    BY <2>2, <2>3
<1>9. count' \in [Tenants -> Nat]
  BY <1>2, <1>8 DEF Counts
<1>10. CountedWithinLimit'
  BY <1>8 DEF CountedWithinLimit, Running, Counting
<1> QED
  BY <1>1, <1>2, <1>4, <1>9, <1>10 DEF Counts

\* Before it is running, the queue has no worker.
Quiet == phase \in {"down", "reset", "enqueue", "spawn"} => worker = Nobody

LocalInv == Rows /\ Counts /\ Quiet

LEMMA NobodyCounts ==
  ASSUME LocalConstants
  PROVE  /\ Nobody \in [Workers -> Worker]
         /\ \A w \in Workers : Nobody[w].pc = "gone" /\ "gone" \notin Counting
  BY DEF Nobody, Idle, Worker, Holding, Counting

LEMMA InitCounts ==
  ASSUME LocalConstants, LocalInit
  PROVE  Counts /\ Quiet
<1>1. worker = Nobody /\ count = [k \in Tenants |-> 0] /\ queue = <<>>
  BY DEF LocalInit
<1>2. WorkerType
  BY <1>1, NobodyCounts DEF WorkerType, Counting
<1>3. \A k \in Tenants : Running(k) = {}
  BY <1>1, NobodyCounts DEF Running
<1>4. CountedWithinLimit
  BY <1>1, <1>3, FS_EmptySet, CountsRunning DEF LocalConstants
<1> QED
  BY <1>1, <1>2, <1>4 DEF Counts, Quiet

\* The end of the process empties the counters with the workers.
LEMMA EndKeepsCounts ==
  ASSUME LocalConstants, Counts, ProcessEnds
  PROVE  Counts' /\ Quiet'
<1>1. worker' = Nobody /\ count' = [k \in Tenants |-> 0] /\ queue' = <<>>
  BY DEF ProcessEnds
<1>2. WorkerType'
  BY <1>1, NobodyCounts DEF WorkerType, Counting
<1>3. \A k \in Tenants : Running(k)' = {}
  BY <1>1, NobodyCounts DEF Running
<1>4. ASSUME NEW k \in Tenants
      PROVE  count'[k] = Cardinality(Running(k)') /\ count'[k] <= Limit
  <2>1. count'[k] = 0 /\ Running(k)' = {}
    BY <1>1, <1>3
  <2>2. Cardinality({}) = 0
    BY FS_EmptySet
  <2> QED
    BY <2>1, <2>2 DEF LocalConstants
<1>5. CountedWithinLimit'
  BY <1>4 DEF CountedWithinLimit, Running, Counting
<1> QED
  BY <1>1, <1>2, <1>5 DEF Counts, Quiet

\* stop counts those workers that still have to return their tasks.
LEMMA StopKeepsCounts ==
  ASSUME LocalConstants, Counts, Stop
  PROVE  Counts' /\ Quiet'
<1> DEFINE left(k) == {w \in Workers : worker[w].pc \in {"extract", "notify"}
                                       /\ TenantOf[worker[w].task] = k}
<1>1. /\ worker' \in [Workers -> Worker]
      /\ \A w \in Workers :
            worker'[w] = IF worker[w].pc \in {"extract", "notify"}
                         THEN [worker[w] EXCEPT !.pc = "stopping"] ELSE Idle("gone")
  BY DEF Stop, At, Counts, WorkerType, Worker, Idle, Holding
<1>2. /\ "gone" \notin Counting /\ "stopping" \in Counting
      /\ {"extract", "notify"} \subseteq Counting
  BY DEF Counting, Holding
<1>3. \A w \in Workers : /\ worker'[w].pc \in Counting <=> worker[w].pc \in {"extract", "notify"}
                         /\ worker'[w].pc \in Counting => worker'[w].task = worker[w].task
  BY <1>1, <1>2 DEF Counts, WorkerType, Worker, Idle
<1>4. WorkerType'
  BY <1>1, <1>2, <1>3 DEF Counts, WorkerType, Counting
<1>5. ASSUME NEW k \in Tenants
      PROVE  /\ Running(k)' = left(k) /\ left(k) \subseteq Running(k)
             /\ count'[k] = Cardinality(left(k))
  BY <1>2, <1>3 DEF Running, Stop
<1>6. ASSUME NEW k \in Tenants
      PROVE  count'[k] \in Nat /\ count'[k] = Cardinality(Running(k)') /\ count'[k] <= Limit
  <2>1. count[k] = Cardinality(Running(k)) /\ count[k] <= Limit
    BY CountsRunning DEF Counts
  <2>2. /\ Cardinality(left(k)) <= Cardinality(Running(k))
        /\ IsFiniteSet(left(k))
    BY <1>5, RunningIsFinite, FS_Subset
  <2>3. Cardinality(left(k)) \in Nat
    BY <2>2, FS_CardinalityType
  <2> HIDE DEF left
  <2> QED
    BY <1>5, <2>1, <2>2, <2>3, RunningIsFinite DEF LocalConstants
<1>7. count' \in [Tenants -> Nat]
  BY <1>6 DEF Stop
<1>8. CountedWithinLimit'
  BY <1>6 DEF CountedWithinLimit, Running, Counting
<1> QED
  BY <1>4, <1>7, <1>8 DEF Counts, Stop, Quiet

LEMMA SpawnKeepsCounts ==
  ASSUME LocalConstants, Counts, Quiet, Spawn
  PROVE  Counts' /\ Quiet'
<1>1. worker = Nobody /\ worker' = [w \in Workers |-> Idle("idle")] /\ UNCHANGED <<count, queue>>
  BY DEF Spawn, Quiet
<1>2. WorkerType' /\ \A w \in Workers : worker'[w].pc \notin Counting
  BY <1>1 DEF WorkerType, Worker, Idle, Holding, Counting
<1>3. \A k \in Tenants : Running(k)' = Running(k)
  BY <1>1, <1>2, NobodyCounts DEF Running
<1>4. \A k \in Tenants : count'[k] = Cardinality(Running(k)') /\ count'[k] <= Limit
  BY <1>1, <1>3, CountsRunning DEF Counts
<1>5. CountedWithinLimit'
  BY <1>4 DEF CountedWithinLimit, Running, Counting
<1> QED
  BY <1>1, <1>2, <1>5 DEF Counts, Spawn, Quiet

LEMMA WorkKeepsCounts ==
  ASSUME LocalConstants, Counts, Quiet, NEW w \in Workers, Work(w) \/ TimeOut(w) \/ Error(w)
  PROVE  Counts' /\ Quiet'
<1>1. /\ worker[w].pc # "gone"
      /\ UNCHANGED phase
  BY DEF Work, Requeue, Admit, NextItem, Claim, ClaimInactive, NotClaimable, Settle, Notified,
         ReturnTask, FailByTimeout, ReturnOnStop, TimeOut, Error, At, Holding
<1>2. worker # Nobody
  BY <1>1, NobodyCounts
<1>3. Quiet'
  BY <1>1, <1>2 DEF Quiet
<1>4. Counting = {"claim", "extract", "notify", "cancelled", "timedOut", "stopping"}
  BY DEF Counting, Holding
<1>5. CASE Requeue(w)
  <2>1. queue' \in Seq(Tasks)
    BY <1>5 DEF Requeue, NextItem, Counts
  <2> QED
    BY <1>3, <1>5, <2>1, SameCounts DEF Requeue
<1>6. CASE Admit(w)
  BY <1>3, <1>6, AdmitKeepsCounts
<1>7. CASE Claim(w) \/ ReturnTask(w)
  BY <1>3, <1>4, <1>7, MoveKeepsCounts DEF Claim, ReturnTask, At
<1>8. CASE ClaimInactive(w) \/ NotClaimable(w) \/ Notified(w) \/ FailByTimeout(w) \/ ReturnOnStop(w)
  BY <1>3, <1>4, <1>8, LeaveKeepsCounts
     DEF ClaimInactive, NotClaimable, Notified, FailByTimeout, ReturnOnStop, At
<1>9. CASE Settle(w)
  <2>1. /\ worker[w].pc = "extract" /\ UNCHANGED queue
        /\ (Goes(w, "notify") /\ UNCHANGED count) \/ Leave(w, "idle")
    BY <1>9 DEF Settle, At
  <2> QED
    BY <1>3, <1>4, <2>1, MoveKeepsCounts, LeaveKeepsCounts
<1>10. CASE TimeOut(w)
  <2>1. PICK next \in {"cancelled", "timedOut"} : Goes(w, next)
    BY <1>10 DEF TimeOut
  <2> QED
    BY <1>3, <1>4, <1>10, <2>1, MoveKeepsCounts DEF TimeOut
<1>11. CASE Error(w)
  <2>1. PICK next \in {"idle", "gone"} : Leave(w, next)
    BY <1>11 DEF Error
  <2> QED
    BY <1>3, <1>11, <2>1, LeaveKeepsCounts DEF Error, Counting
<1> QED
  BY <1>5, <1>6, <1>7, <1>8, <1>9, <1>10, <1>11 DEF Work

LEMMA NextKeepsCounts ==
  ASSUME LocalConstants, Counts, Quiet, LocalNext
  PROVE  Counts' /\ Quiet'
<1>1. ASSUME NEW t \in Tasks,
             \/ Submit(t) \/ Retry(t) \/ Enqueue(t)
             \/ OtherClaims(t) \/ OtherSettles(t) \/ ExpireLease(t)
      PROVE  Counts' /\ Quiet'
  <2>1. UNCHANGED <<count, worker, phase>>
    BY <1>1 DEF Submit, Retry, Enqueue, OtherClaims, OtherSettles, ExpireLease
  <2>2. queue \in Seq(Tasks)
    BY DEF Counts
  <2>3. queue' \in {queue, Append(queue, t)}
    BY <1>1 DEF Submit, Retry, Enqueue, OtherClaims, OtherSettles, ExpireLease
  <2>4. queue' \in Seq(Tasks)
    BY <2>2, <2>3
  <2> QED
    BY <2>1, <2>4, SameCounts DEF Quiet
<1>2. CASE Start \/ Reset \/ RecoveryFails
  <2>1. /\ UNCHANGED <<count, worker, queue>>
        /\ phase \in {"down", "reset", "enqueue", "spawn"}
    BY <1>2 DEF Start, Reset, RecoveryFails
  <2>2. queue' \in Seq(Tasks)
    BY <2>1 DEF Counts
  <2> QED
    BY <2>1, <2>2, SameCounts DEF Quiet
<1>3. CASE Recover
  <2>1. PICK order \in [1..Cardinality(Recoverable) -> Recoverable] : queue' = queue \o order
    BY <1>3 DEF Recover
  <2>2. Cardinality(Recoverable) \in Nat
    BY FS_Subset, FS_CardinalityType DEF Recoverable, LocalConstants
  <2>3. order \in Seq(Tasks)
    BY <2>1, <2>2 DEF Recoverable
  <2>4. queue' \in Seq(Tasks)
    BY <2>1, <2>3 DEF Counts
  <2> QED
    BY <1>3, <2>4, SameCounts DEF Recover, Quiet
<1>4. CASE Spawn
  BY <1>4, SpawnKeepsCounts
<1>5. CASE Stop
  BY <1>5, StopKeepsCounts
<1>6. CASE Exit \/ Crash
  BY <1>6, EndKeepsCounts DEF Exit, Crash
<1>7. ASSUME NEW w \in Workers, Work(w) \/ TimeOut(w) \/ Error(w)
      PROVE  Counts' /\ Quiet'
  BY <1>7, WorkKeepsCounts
<1> QED
  BY <1>1, <1>2, <1>3, <1>4, <1>5, <1>6, <1>7 DEF LocalNext, Begin

LEMMA StutterKeepsCounts ==
  ASSUME Counts, Quiet, UNCHANGED localVars
  PROVE  Counts' /\ Quiet'
  BY SameCounts DEF localVars, Counts, Quiet

-----------------------------------------------------------------------------
LEMMA LocalInvariant ==
  ASSUME LocalConstants
  PROVE  LocalSpec => []LocalInv
<1>1. LocalInit => LocalInv
  BY InitRows, InitCounts DEF LocalInv
<1>2. LocalInv /\ [LocalNext]_localVars => LocalInv'
  BY NextKeepsRows, StutterKeepsRows, NextKeepsCounts, StutterKeepsCounts DEF LocalInv, Counts
<1> QED
  BY <1>1, <1>2, PTL DEF LocalSpec

(***************************************************************************)
(* Through claims, settlements, timeouts, recoveries, retries and          *)
(* attempts of other processes: a task is charged exactly if it is SUCCESS *)
(* and has a hold exactly while it is open (QueueManager,                  *)
(* finalize_task_success and _failure).                                    *)
(***************************************************************************)
THEOREM LocalMoney ==
  ASSUME LocalConstants
  PROVE  LocalSpec => []MoneyFollowsStatus
<1>1. LocalInv => MoneyFollowsStatus
  BY DEF LocalInv, Rows
<1> QED
  BY <1>1, LocalInvariant, PTL

(***************************************************************************)
(* Through timeouts, errors, stops and crashes: _active_tenant_counts is   *)
(* the number of workers that have a task of the tenant, and within its    *)
(* max_concurrency.                                                        *)
(***************************************************************************)
THEOREM LocalLimit ==
  ASSUME LocalConstants
  PROVE  LocalSpec => []CountedWithinLimit
<1>1. LocalInv => CountedWithinLimit
  BY DEF LocalInv, Counts
<1> QED
  BY <1>1, LocalInvariant, PTL

-----------------------------------------------------------------------------
(***************************************************************************)
(* TaskNotification.  In the first round the outcome does not change, so   *)
(* that what a webhook worker has read is what the task still has, and     *)
(* what it delivered is what the customer should know.                     *)
(***************************************************************************)
PayloadIsOutcome ==
    \A j \in Jobs :
        /\ job[j].pc \in {"posting", "delivered", "undelivered"} =>
              /\ job[j].says \in Notification!Outcome
              /\ round = 0 => job[j].of = 0 /\ job[j].says = status
        /\ round = 0 /\ job[j].pc = "delivered" => Notification!Told(status, 0)

Webhook == [pc : {"unused", "queued", "reading", "posting", "delivered", "undelivered", "acking"},
            says : {"SUCCESS", "FAILED", "OPEN"}, of : Nat, posts : Nat]

\* The parts of the type that the proof rests on.
NotificationType ==
    /\ status \in {"SUCCESS", "FAILED", "OPEN"}
    /\ round \in Nat
    /\ job \in [Jobs -> Webhook]
    /\ told \subseteq [says : Notification!Outcome, of : Nat]

NotificationInv == NotificationType /\ PayloadIsOutcome /\ CallbackTruthful

LEMMA InitNotification == Notification!Init => NotificationInv
<1> SUFFICES ASSUME Notification!Init PROVE NotificationInv
  OBVIOUS
<1>1. job = [j \in Jobs |-> [pc |-> "unused", says |-> "OPEN", of |-> 0, posts |-> 0]]
  BY DEF Notification!Init, Notification!NoJob
<1>2. NotificationType /\ PayloadIsOutcome
  BY <1>1 DEF Notification!Init, NotificationType, PayloadIsOutcome, Webhook
<1>3. CallbackTruthful
  BY DEF Notification!Init, CallbackTruthful, Notification!CallbackTruthful
<1> QED
  BY <1>2, <1>3 DEF NotificationInv

\* One message moves, and the customer may be told of what it says.
LEMMA MessageMoves ==
  ASSUME NotificationInv, NEW j \in Jobs, NEW e \in Webhook,
         job' = [job EXCEPT ![j] = e], UNCHANGED <<status, round>>,
         told \subseteq told', told' \subseteq [says : Notification!Outcome, of : Nat],
         e.pc \in {"posting", "delivered", "undelivered"} =>
            e.says \in Notification!Outcome /\ (round = 0 => e.of = 0 /\ e.says = status),
         round = 0 /\ e.pc = "delivered" => Notification!Told(status, 0)',
         callback' # callback => callback' # "SUCCESS" \/ (round = 0 => Notification!Told(status, 0)')
  PROVE  NotificationInv'
<1> USE DEF NotificationInv
<1>1. NotificationType'
  BY DEF NotificationType
<1>2. \A k \in Jobs : job'[k] = IF k = j THEN e ELSE job[k]
  BY DEF NotificationType
<1>3. Notification!Told(status, 0) => Notification!Told(status, 0)'
  BY DEF Notification!Told
<1>4. PayloadIsOutcome'
  BY <1>2, <1>3 DEF PayloadIsOutcome
<1>5. CallbackTruthful'
  BY <1>3 DEF CallbackTruthful, Notification!CallbackTruthful
<1> QED
  BY <1>1, <1>4, <1>5

\* The steps of the attempt, which send nothing.
LEMMA AttemptNotifies ==
  ASSUME NotificationInv,
         \/ Notification!Succeed \/ Notification!Fail \/ Notification!FailSilently \/ Notification!Retry
         \/ \E r \in Notification!Rounds :
               \/ Notification!Refresh(r) \/ Notification!RecordDispatch(r)
               \/ Notification!DispatchFails(r) \/ Notification!AttemptDies(r)
  PROVE  NotificationInv'
<1> USE DEF NotificationInv, NotificationType, PayloadIsOutcome, CallbackTruthful,
            Notification!CallbackTruthful, Notification!Told, Notification!Outcome
<1>1. CASE Notification!Succeed \/ Notification!Fail \/ Notification!FailSilently
  <2>1. /\ status = "OPEN" /\ status' \in {"SUCCESS", "FAILED"}
        /\ UNCHANGED <<callback, round, job, told>>
    BY <1>1 DEF Notification!Succeed, Notification!Fail, Notification!FailSilently
  <2> QED
    BY <2>1
<1>2. CASE Notification!Retry
  BY <1>2 DEF Notification!Retry
<1>3. ASSUME NEW r \in Notification!Rounds,
             \/ Notification!Refresh(r) \/ Notification!RecordDispatch(r)
             \/ Notification!DispatchFails(r) \/ Notification!AttemptDies(r)
      PROVE  NotificationInv'
  <2>1. callback' \in {callback, "PENDING", "FAILED"} /\ UNCHANGED <<status, round, job, told>>
    BY <1>3 DEF Notification!Refresh, Notification!RecordDispatch, Notification!DispatchFails,
       Notification!AttemptDies
  <2> QED
    BY <2>1
<1> QED
  BY <1>1, <1>2, <1>3

\* A message that comes or goes back to the queue carries no payload.
LEMMA QueueNotifies ==
  ASSUME NotificationInv,
         \/ \E r \in Notification!Rounds : Notification!Dispatch(r)
         \/ \E j \in Jobs : \/ Notification!Take(j) \/ Notification!Acknowledge(j)
                            \/ Notification!Kill(j) \/ Notification!DeliverAgain(j)
  PROVE  NotificationInv'
<1> DEFINE without(label) == [pc |-> label, says |-> "OPEN", of |-> 0, posts |-> 0]
<1>1. UNCHANGED <<status, callback, round, told>>
  BY DEF Notification!Dispatch, Notification!Take, Notification!Acknowledge, Notification!Kill,
     Notification!DeliverAgain
<1>2. told \subseteq [says : Notification!Outcome, of : Nat]
  BY DEF NotificationInv, NotificationType
<1>3. \E j \in Jobs, label \in {"queued", "reading", "unused"} : job' = [job EXCEPT ![j] = without(label)]
  <2>1. ASSUME NEW j \in Jobs, job[j] = Notification!NoJob, job' = [job EXCEPT ![j].pc = "queued"]
        PROVE  job' = [job EXCEPT ![j] = without("queued")]
    <3>1. [job[j] EXCEPT !.pc = "queued"] = without("queued")
      BY <2>1 DEF Notification!NoJob
    <3> QED
      BY <2>1, <3>1
  <2>2. ASSUME NEW j \in Jobs, Notification!Take(j) \/ Notification!Acknowledge(j) \/ Notification!Kill(j)
        PROVE  \E label \in {"queued", "reading", "unused"} : job' = [job EXCEPT ![j] = without(label)]
    BY <2>2 DEF Notification!Take, Notification!Acknowledge, Notification!Kill, Notification!NoJob
  <2>3. CASE \/ \E r \in Notification!Rounds : Notification!Dispatch(r)
             \/ \E j \in Jobs : Notification!DeliverAgain(j)
    BY <2>1, <2>3 DEF Notification!Dispatch, Notification!DeliverAgain
  <2> QED
    BY <2>2, <2>3
<1>4. \A label \in {"queued", "reading", "unused"} :
         without(label) \in Webhook /\ without(label).pc = label
  BY DEF Webhook
<1> HIDE DEF without
<1> QED
  BY <1>1, <1>2, <1>3, <1>4, MessageMoves

\* What a webhook worker reads, posts and records.
LEMMA WorkerNotifies ==
  ASSUME NotificationInv, NEW j \in Jobs,
         \/ Notification!ReadTask(j) \/ Notification!NoKey(j) \/ Notification!Refuse(j) \/ Notification!Record(j)
         \/ \E h, ok \in BOOLEAN : Notification!Post(j, h, ok)
  PROVE  NotificationInv'
<1>0. /\ job[j] \in Webhook /\ told \subseteq [says : Notification!Outcome, of : Nat]
      /\ status \in {"SUCCESS", "FAILED", "OPEN"} /\ round \in Nat
  BY DEF NotificationInv, NotificationType
<1>p. /\ job[j].pc \in {"posting", "delivered", "undelivered"} =>
            /\ job[j].says \in Notification!Outcome
            /\ round = 0 => job[j].of = 0 /\ job[j].says = status
      /\ round = 0 /\ job[j].pc = "delivered" => Notification!Told(status, 0)
  BY DEF NotificationInv, PayloadIsOutcome
<1>1. CASE Notification!ReadTask(j)
  <2> DEFINE read == [job[j] EXCEPT !.pc = "posting", !.says = status, !.of = round]
             skip == [job[j] EXCEPT !.pc = "acking"]
  <2>1. read \in Webhook /\ read.pc = "posting" /\ read.says = status /\ read.of = round
    BY <1>0 DEF Webhook
  <2>2. skip \in Webhook /\ skip.pc = "acking"
    BY <1>0 DEF Webhook
  <2>3. \/ status # "OPEN" /\ job' = [job EXCEPT ![j] = read]
        \/ job' = [job EXCEPT ![j] = skip]
    BY <1>1 DEF Notification!ReadTask
  <2>4. UNCHANGED <<status, callback, round, told>>
    BY <1>1 DEF Notification!ReadTask
  <2>5. status # "OPEN" => status \in Notification!Outcome
    BY <1>0 DEF Notification!Outcome
  <2> HIDE DEF read, skip
  <2> QED
    BY <1>0, <2>1, <2>2, <2>3, <2>4, <2>5, MessageMoves
<1>2. CASE Notification!NoKey(j) \/ Notification!Refuse(j)
  <2>1. PICK label \in {"acking", "undelivered"} :
           /\ job' = [job EXCEPT ![j].pc = label]
           /\ label = "undelivered" => job[j].pc = "posting"
    BY <1>2 DEF Notification!NoKey, Notification!Refuse
  <2> DEFINE e == [job[j] EXCEPT !.pc = label]
  <2>2. e \in Webhook /\ e.pc = label /\ e.says = job[j].says /\ e.of = job[j].of
    BY <1>0 DEF Webhook
  <2>3. job' = [job EXCEPT ![j] = e]
    BY <2>1
  <2>4. UNCHANGED <<status, round, told>> /\ callback' \in {callback, "FAILED"}
    BY <1>2 DEF Notification!NoKey, Notification!Refuse
  <2> HIDE DEF e
  <2> QED
    BY <1>0, <1>p, <2>1, <2>2, <2>3, <2>4, MessageMoves
<1>3. CASE Notification!Record(j)
  <2> DEFINE e == [job[j] EXCEPT !.pc = "acking"]
  <2>1. e \in Webhook /\ e.pc = "acking"
    BY <1>0 DEF Webhook
  <2>2. job' = [job EXCEPT ![j] = e]
    BY <1>3 DEF Notification!Record
  <2>3. /\ UNCHANGED <<status, round, told>>
        /\ callback' = "SUCCESS" => job[j].pc = "delivered"
    BY <1>3 DEF Notification!Record
  <2>4. Notification!Told(status, 0) => Notification!Told(status, 0)'
    BY <2>3 DEF Notification!Told
  <2> HIDE DEF e
  <2> QED
    BY <1>0, <1>p, <2>1, <2>2, <2>3, <2>4, MessageMoves
<1>4. ASSUME NEW h \in BOOLEAN, NEW ok \in BOOLEAN, Notification!Post(j, h, ok)
      PROVE  NotificationInv'
  <2> DEFINE label == CASE ok -> "delivered"
                        [] ~ok /\ job[j].posts + 1 < MaxPosts -> "posting"
                        [] OTHER -> "undelivered"
             n == job[j].posts + 1
             e == [job[j] EXCEPT !.posts = n, !.pc = label]
  <2>3. job' = [job EXCEPT ![j] = e]
    BY <1>4 DEF Notification!Post
  <2>1. label \in {"delivered", "posting", "undelivered"} /\ (label = "delivered" => h)
    BY <1>4 DEF Notification!Post
  <2>8. n \in Nat
    BY <1>0 DEF Webhook
  <2> HIDE DEF label, n
  <2>2. e \in Webhook /\ e.pc = label /\ e.says = job[j].says /\ e.of = job[j].of
    BY <1>0, <2>1, <2>8 DEF Webhook
  <2>4. told' = IF h THEN told \cup {[says |-> job[j].says, of |-> job[j].of]} ELSE told
    BY <1>4 DEF Notification!Post
  <2>5. job[j].pc = "posting" /\ UNCHANGED <<status, callback, round>>
    BY <1>4 DEF Notification!Post
  <2>6. told' \subseteq [says : Notification!Outcome, of : Nat]
    <3>1. [says |-> job[j].says, of |-> job[j].of] \in [says : Notification!Outcome, of : Nat]
      BY <1>0, <1>p, <2>5 DEF Webhook
    <3> QED
      BY <1>0, <2>4, <3>1
  <2>7. round = 0 /\ label = "delivered" => Notification!Told(status, 0)'
    BY <1>p, <2>1, <2>4, <2>5 DEF Notification!Told
  <2> HIDE DEF e
  <2> QED
    BY <1>0, <1>p, <2>1, <2>2, <2>3, <2>4, <2>5, <2>6, <2>7, MessageMoves
<1> QED
  BY <1>1, <1>2, <1>3, <1>4

LEMMA NextNotification == NotificationInv /\ [Notification!Next]_notificationVars => NotificationInv'
<1> SUFFICES ASSUME NotificationInv, [Notification!Next]_notificationVars
             PROVE  NotificationInv'
  OBVIOUS
<1>1. CASE UNCHANGED notificationVars
  BY <1>1 DEF notificationVars, NotificationInv, NotificationType, PayloadIsOutcome, CallbackTruthful,
     Notification!CallbackTruthful, Notification!Told
<1>2. CASE Notification!Next
  BY <1>2, AttemptNotifies, QueueNotifies, WorkerNotifies
     DEF Notification!Next, Notification!Announce, Notification!Deliver
<1> QED
  BY <1>1, <1>2

(***************************************************************************)
(* As long as the task was not retried, callback_status says SUCCESS only  *)
(* when the customer has received the outcome that the task has: for any   *)
(* messages, deaths, repeated deliveries and posts (deliver_task_webhook). *)
(***************************************************************************)
THEOREM CallbackIsTrue == Notification!Spec => []CallbackTruthful
<1>1. NotificationInv => CallbackTruthful
  BY DEF NotificationInv
<1>2. Notification!Spec => Notification!Init /\ [][Notification!Next]_notificationVars
  BY PTL DEF Notification!Spec, Notification!vars, notificationVars
<1> QED
  BY <1>1, <1>2, InitNotification, NextNotification, PTL

-----------------------------------------------------------------------------
(***************************************************************************)
(* Extraction.  The requests that a call may have behind it when its first *)
(* attempt is sent: those of the calls before it, each of them at the end  *)
(* of its retries.                                                         *)
(***************************************************************************)
Round == Retries + 1
Before(c) == IF c.purpose = "extract" THEN (IF c.mayFallBack THEN 0 ELSE Round)
             ELSE IF c.mayFallBack THEN 2 * Round ELSE 3 * Round

HasMalformed(s) == \E i \in DOMAIN s : s[i] = "malformed"

ExtractionType ==
    /\ files \in Seq(Extraction!Kinds) /\ todo \in Seq(Extraction!Kinds)
    /\ asked \in Nat /\ budget \in Nat /\ sent \in Nat
    /\ setting \in Models /\ fallback \in Models \cup {None}
    /\ pc \in {"prepare", "parse", "load", "request", "normalise", "done"}

ImagesWithinBudget == asked <= budget /\ (pc = "prepare" => asked = 0)

RequestsWithinCalls ==
    /\ pc \in {"prepare", "parse", "load"} => sent = 0
    /\ pc = "request" => call \in Extraction!Call /\ sent <= Before(call) + call.attempt + 1
    /\ sent <= Extraction!MaxRequests

\* A malformed file is still to be parsed, and nothing comes after the parsing.
MalformedStops ==
    /\ pc = "prepare" => outcome # "result"
    /\ HasMalformed(files) =>
           /\ pc \in {"prepare", "parse", "done"} /\ sent = 0 /\ outcome # "result"
           /\ pc = "parse" => HasMalformed(todo)

ExtractionInv == ExtractionType /\ ImagesWithinBudget /\ RequestsWithinCalls /\ MalformedStops

LEMMA InitExtraction ==
  ASSUME Extraction!ExtractionConstants
  PROVE  Extraction!Init => ExtractionInv
<1> SUFFICES ASSUME Extraction!Init PROVE ExtractionInv
  OBVIOUS
<1>1. MaxFiles \in Nat /\ Retries \in Nat
  BY DEF Extraction!ExtractionConstants
<1>2. files \in Seq(Extraction!Kinds) /\ todo \in Seq(Extraction!Kinds)
  BY <1>1 DEF Extraction!Init
<1>3. 0 <= Extraction!MaxRequests
  BY <1>1 DEF Extraction!MaxRequests
<1> QED
  BY <1>2, <1>3 DEF Extraction!Init, ExtractionInv, ExtractionType, ImagesWithinBudget,
     RequestsWithinCalls, MalformedStops

\* The steps that parse nothing and ask nothing.
LEMMA PreparationBounded ==
  ASSUME Extraction!ExtractionConstants, ExtractionInv,
         \/ Extraction!Prepare \/ Extraction!FileMissing \/ Extraction!PrepareMail
         \/ Extraction!Reconfigure \/ Extraction!Late \/ Extraction!Cancel
  PROVE  ExtractionInv'
<1> USE DEF ExtractionInv, ExtractionType, ImagesWithinBudget, RequestsWithinCalls, MalformedStops,
            HasMalformed, Before, Round, Extraction!MaxRequests, Extraction!given,
            Extraction!parsing, Extraction!asking, Extraction!End
<1>0. MaxImages \in Nat /\ Retries \in Nat
  BY DEF Extraction!ExtractionConstants
<1>1. CASE Extraction!Prepare
  BY <1>0, <1>1 DEF Extraction!Prepare
<1>2. CASE Extraction!FileMissing
  BY <1>0, <1>2 DEF Extraction!FileMissing
<1>3. CASE Extraction!PrepareMail
  <2>1. todo' \in Seq(Extraction!Kinds) /\ files' = todo'
    BY <1>3 DEF Extraction!PrepareMail
  <2>2. /\ budget' \in Nat /\ pc = "prepare" /\ pc' = "parse"
        /\ UNCHANGED <<fallback, setting, asked, call, sent, outcome>>
    BY <1>0, <1>3 DEF Extraction!PrepareMail
  <2> QED
    BY <1>0, <2>1, <2>2
<1>4. CASE Extraction!Reconfigure
  BY <1>0, <1>4 DEF Extraction!Reconfigure
<1>5. CASE Extraction!Late
  BY <1>0, <1>5 DEF Extraction!Late
<1>6. CASE Extraction!Cancel
  BY <1>0, <1>6 DEF Extraction!Cancel
<1> QED
  BY <1>1, <1>2, <1>3, <1>4, <1>5, <1>6

\* A file that is left behind is not a malformed one, so that those stay in what is to do.
LEMMA NextFileKeeps ==
  ASSUME ExtractionInv, pc = "parse", todo # <<>>, Head(todo) # "malformed",
         Extraction!NextFile, asked' \in Nat, asked' <= budget,
         UNCHANGED <<files, setting, fallback, budget, sent, call, pc, outcome>>
  PROVE  ExtractionInv'
<1> USE DEF ExtractionInv, ExtractionType
<1>1. /\ Tail(todo) \in Seq(Extraction!Kinds) /\ Len(todo) \in Nat
      /\ Head(todo) = todo[1] /\ Len(Tail(todo)) = Len(todo) - 1
      /\ \A i \in 1..Len(Tail(todo)) : Tail(todo)[i] = todo[i + 1]
  BY HeadTailProperties
<1>2. HasMalformed(todo) => HasMalformed(Tail(todo))
  <2> SUFFICES ASSUME NEW i \in DOMAIN todo, todo[i] = "malformed"
               PROVE  HasMalformed(Tail(todo))
    BY DEF HasMalformed
  <2>1. i \in 1..Len(todo) /\ i # 1
    BY <1>1
  <2>2. i - 1 \in DOMAIN Tail(todo) /\ Tail(todo)[i - 1] = "malformed"
    BY <1>1, <2>1
  <2> QED
    BY <2>2 DEF HasMalformed
<1>3. todo' = Tail(todo)
  BY DEF Extraction!NextFile
<1>4. ExtractionType' /\ ImagesWithinBudget'
  BY <1>1, <1>3 DEF ImagesWithinBudget
<1>5. RequestsWithinCalls'
  BY DEF RequestsWithinCalls, Before
<1>6. MalformedStops'
  BY <1>2, <1>3 DEF MalformedStops, HasMalformed
<1> QED
  BY <1>4, <1>5, <1>6

LEMMA ParsingBounded ==
  ASSUME ExtractionInv,
         \/ Extraction!ParsePlain \/ Extraction!Malformed \/ Extraction!Transcribe
         \/ Extraction!TranscribePage \/ Extraction!CloseScan \/ Extraction!ClosePackaged
         \/ Extraction!Parsed
  PROVE  ExtractionInv'
<1> USE DEF Extraction!given, Extraction!parsing, Extraction!asking, Extraction!Parsing
<1>0. asked \in Nat /\ budget \in Nat /\ asked <= budget
  BY DEF ExtractionInv, ExtractionType, ImagesWithinBudget
<1>1. ASSUME pc = "parse", UNCHANGED <<files, todo, setting, fallback, budget, call, sent>>,
             pc' \in {"parse", "done"}, outcome' \in {outcome, "error"}, asked' \in Nat,
             asked' <= budget
      PROVE  ExtractionInv'
  BY <1>1 DEF ExtractionInv, ExtractionType, ImagesWithinBudget, RequestsWithinCalls,
     MalformedStops, HasMalformed, Before
<1>2. CASE Extraction!ParsePlain \/ Extraction!CloseScan
  BY <1>0, <1>2, NextFileKeeps DEF Extraction!ParsePlain, Extraction!CloseScan
<1>3. CASE Extraction!Transcribe
  BY <1>0, <1>3, NextFileKeeps DEF Extraction!Transcribe, Extraction!Spent
<1>4. CASE Extraction!Malformed
  BY <1>0, <1>1, <1>4 DEF Extraction!Malformed, Extraction!ParseFails
<1>5. CASE Extraction!TranscribePage
  BY <1>0, <1>1, <1>5 DEF Extraction!TranscribePage, Extraction!Spent
<1>6. CASE Extraction!ClosePackaged
  <2>1. /\ pc = "parse" /\ todo # <<>> /\ Head(todo) # "malformed"
        /\ UNCHANGED <<files, setting, fallback, budget, asked, call, sent>>
    BY <1>6 DEF Extraction!ClosePackaged
  <2>2. \/ Extraction!NextFile /\ UNCHANGED <<pc, outcome>>
        \/ pc' = "done" /\ outcome' \in {outcome, "error"} /\ UNCHANGED todo
    BY <1>6 DEF Extraction!ClosePackaged, Extraction!ParseFails
  <2> QED
    BY <1>0, <1>1, <2>1, <2>2, NextFileKeeps
<1>7. CASE Extraction!Parsed
  <2>1. ~HasMalformed(files)
    BY <1>7 DEF Extraction!Parsed, ExtractionInv, MalformedStops, HasMalformed
  <2> QED
    BY <1>7, <2>1 DEF Extraction!Parsed, ExtractionInv, ExtractionType, ImagesWithinBudget,
       RequestsWithinCalls, MalformedStops, HasMalformed, Before
<1> QED
  BY <1>2, <1>3, <1>4, <1>5, <1>6, <1>7

\* A call is asked, or asked again, within what its place among the calls allows.
LEMMA RequestWithin ==
  ASSUME Extraction!ExtractionConstants, ExtractionInv, ~HasMalformed(files),
         pc \in {"load", "request"}, pc' = "request", NEW c \in Extraction!Call, call' = c,
         sent + 1 <= Before(c) + c.attempt + 1, sent' = Extraction!Counted,
         UNCHANGED <<files, todo, setting, fallback, budget, asked, outcome>>
  PROVE  ExtractionInv'
<1>0. /\ Retries \in Nat /\ sent \in Nat
      /\ c.attempt \in 0..Retries /\ c.purpose \in {"extract", "repair"} /\ c.mayFallBack \in BOOLEAN
  BY DEF Extraction!ExtractionConstants, ExtractionInv, ExtractionType, Extraction!Call
<1>1. Before(c) + c.attempt + 1 <= Extraction!MaxRequests
  BY <1>0 DEF Before, Round, Extraction!MaxRequests
<1>2. sent' = sent + 1
  BY <1>0, <1>1 DEF Extraction!Counted, Before, Round, Extraction!MaxRequests
<1>3. RequestsWithinCalls'
  BY <1>0, <1>1, <1>2 DEF RequestsWithinCalls, Before, Round, Extraction!MaxRequests
<1>4. MalformedStops' /\ ImagesWithinBudget'
  BY DEF ExtractionInv, ImagesWithinBudget, MalformedStops, HasMalformed
<1>5. ExtractionType'
  BY <1>0, <1>2 DEF ExtractionInv, ExtractionType
<1> QED
  BY <1>3, <1>4, <1>5 DEF ExtractionInv

LEMMA AskingBounded ==
  ASSUME Extraction!ExtractionConstants, ExtractionInv,
         \/ Extraction!LoadGuidance \/ Extraction!Answer \/ Extraction!Unreadable \/ Extraction!Refused
         \/ Extraction!TryAgain \/ Extraction!GiveUp \/ Extraction!Normalise
  PROVE  ExtractionInv'
<1> USE DEF Extraction!given, Extraction!parsing, Extraction!asking
<1>0. /\ Retries \in Nat /\ sent \in Nat /\ setting \in Models /\ fallback \in Models \cup {None}
      /\ pc \in {"load", "request", "normalise"} /\ ~HasMalformed(files)
      /\ pc = "load" => sent = 0
      /\ pc = "request" => call \in Extraction!Call /\ sent <= Before(call) + call.attempt + 1
  BY DEF Extraction!ExtractionConstants, ExtractionInv, ExtractionType, RequestsWithinCalls,
     MalformedStops, Extraction!LoadGuidance, Extraction!Answer, Extraction!Unreadable,
     Extraction!Refused, Extraction!TryAgain, Extraction!GiveUp, Extraction!Normalise
<1>a. pc = "request" => /\ call.attempt \in 0..Retries /\ call.purpose \in {"extract", "repair"}
                        /\ call.mayFallBack \in BOOLEAN
  BY <1>0 DEF Extraction!Call
<1>1. ASSUME pc' \in {"normalise", "done"},
             UNCHANGED <<files, todo, setting, fallback, budget, asked, sent>>
      PROVE  ExtractionInv'
  BY <1>0, <1>1 DEF ExtractionInv, ExtractionType, ImagesWithinBudget, RequestsWithinCalls,
     MalformedStops, HasMalformed
<1> DEFINE asks(purpose, model, mayFallBack) ==
              [purpose |-> purpose, model |-> model, attempt |-> 0, mayFallBack |-> mayFallBack]
<1>2. \A purpose \in {"extract", "repair"}, model \in Models, mayFallBack \in BOOLEAN :
         /\ asks(purpose, model, mayFallBack) \in Extraction!Call
         /\ asks(purpose, model, mayFallBack).purpose = purpose
         /\ asks(purpose, model, mayFallBack).attempt = 0
         /\ asks(purpose, model, mayFallBack).mayFallBack = mayFallBack
  BY <1>0 DEF Extraction!Call
<1>3. \A purpose, model, mayFallBack :
         Extraction!Ask(purpose, model, mayFallBack) =>
            call' = asks(purpose, model, mayFallBack) /\ sent' = Extraction!Counted
  BY DEF Extraction!Ask
<1> HIDE DEF asks
<1>4. CASE Extraction!LoadGuidance
  <2> DEFINE c == asks("extract", setting, TRUE)
  <2>1. /\ c \in Extraction!Call /\ c.attempt = 0 /\ Before(c) = 0
        /\ pc = "load" /\ pc' = "request" /\ call' = c /\ sent' = Extraction!Counted
        /\ UNCHANGED <<files, todo, setting, fallback, budget, asked, outcome>>
    BY <1>0, <1>2, <1>3, <1>4 DEF Before, Extraction!LoadGuidance
  <2> HIDE DEF c
  <2>2. sent + 1 <= Before(c) + c.attempt + 1
    BY <1>0, <2>1
  <2> QED
    BY <1>0, <2>1, <2>2, RequestWithin
<1>5. CASE Extraction!Answer \/ Extraction!Refused \/ Extraction!Normalise
  BY <1>1, <1>5 DEF Extraction!Answer, Extraction!Refused, Extraction!Normalise, Extraction!Drafted,
     Extraction!CallFails, Extraction!End
<1>6. CASE Extraction!Unreadable
  <2>1. CASE call.purpose = "repair"
    BY <1>1, <1>6, <2>1 DEF Extraction!Unreadable, Extraction!Drafted
  <2>2. CASE call.purpose = "extract"
    <3>1. pc = "request" /\ Extraction!Ask("repair", setting, TRUE) /\ pc' = pc
          /\ UNCHANGED <<files, todo, setting, fallback, budget, asked, outcome>>
      BY <1>6, <2>2 DEF Extraction!Unreadable
    <3> DEFINE c == asks("repair", setting, TRUE)
    <3>2. c \in Extraction!Call /\ c.attempt = 0 /\ Before(c) = 2 * Round
      BY <1>0, <1>2 DEF Before
    <3>4. call' = c /\ sent' = Extraction!Counted
      BY <1>3, <3>1
    <3> HIDE DEF c
    <3>3. sent + 1 <= Before(c) + c.attempt + 1
      BY <1>0, <1>a, <2>2, <3>1, <3>2 DEF Before, Round
    <3> QED
      BY <1>0, <3>1, <3>2, <3>3, <3>4, RequestWithin
  <2> QED
    BY <1>0, <1>a, <1>6, <2>1, <2>2 DEF Extraction!Unreadable
<1>7. CASE Extraction!TryAgain
  <2> DEFINE n == call.attempt + 1
             c == [call EXCEPT !.attempt = n]
  <2>1. /\ pc = "request" /\ n \in 0..Retries /\ call' = c /\ sent' = Extraction!Counted /\ pc' = pc
        /\ UNCHANGED <<files, todo, setting, fallback, budget, asked, outcome>>
    BY <1>0, <1>a, <1>7 DEF Extraction!TryAgain
  <2> HIDE DEF n
  <2>2. /\ c \in Extraction!Call /\ c.attempt = n
        /\ c.purpose = call.purpose /\ c.mayFallBack = call.mayFallBack
    BY <1>0, <2>1 DEF Extraction!Call
  <2> HIDE DEF c
  <2>3. sent + 1 <= Before(c) + c.attempt + 1
    BY <1>0, <1>a, <2>1, <2>2 DEF Before, Round, n
  <2> QED
    BY <1>0, <2>1, <2>2, <2>3, RequestWithin
<1>8. CASE Extraction!GiveUp
  <2>1. CASE ~Extraction!FallsBack
    BY <1>1, <1>8, <2>1 DEF Extraction!GiveUp, Extraction!CallFails, Extraction!Drafted, Extraction!End
  <2>2. CASE Extraction!FallsBack
    <3>1. /\ pc = "request" /\ call.attempt = Retries /\ pc' = pc
          /\ Extraction!Ask(call.purpose, fallback, FALSE)
          /\ UNCHANGED <<files, todo, setting, fallback, budget, asked, outcome>>
      BY <1>8, <2>2 DEF Extraction!GiveUp
    <3>2. fallback \in Models /\ call.mayFallBack
      BY <1>0, <2>2 DEF Extraction!FallsBack
    <3> DEFINE c == asks(call.purpose, fallback, FALSE)
    <3>3. c \in Extraction!Call /\ c.attempt = 0 /\ c.purpose = call.purpose /\ ~c.mayFallBack
      BY <1>a, <1>2, <3>1, <3>2
    <3>5. call' = c /\ sent' = Extraction!Counted
      BY <1>3, <3>1
    <3> HIDE DEF c
    <3>4. sent + 1 <= Before(c) + c.attempt + 1
      BY <1>0, <1>a, <3>1, <3>2, <3>3 DEF Before, Round
    <3> QED
      BY <1>0, <3>1, <3>3, <3>4, <3>5, RequestWithin
  <2> QED
    BY <2>1, <2>2
<1> QED
  BY <1>4, <1>5, <1>6, <1>7, <1>8

LEMMA NextExtraction ==
  ASSUME Extraction!ExtractionConstants
  PROVE  ExtractionInv /\ [Extraction!Next]_extractionVars => ExtractionInv'
<1> SUFFICES ASSUME ExtractionInv, [Extraction!Next]_extractionVars
             PROVE  ExtractionInv'
  OBVIOUS
<1>1. CASE UNCHANGED extractionVars
  BY <1>1 DEF extractionVars, ExtractionInv, ExtractionType, ImagesWithinBudget, RequestsWithinCalls,
     MalformedStops, HasMalformed, Before
<1>2. CASE Extraction!Next
  BY <1>2, PreparationBounded, ParsingBounded, AskingBounded DEF Extraction!Next, Extraction!Step
<1> QED
  BY <1>1, <1>2

(***************************************************************************)
(* Whatever the model answers, for any number of files and retries, and    *)
(* with the settings changing under it: an extraction makes at most two    *)
(* calls with their retries and fallbacks (call_llm), transcribes no more  *)
(* images than its budget (VisionBudget), and sends nothing to the model   *)
(* when a legacy file is malformed.                                        *)
(***************************************************************************)
THEOREM ExtractionIsBounded ==
  ASSUME Extraction!ExtractionConstants
  PROVE  Extraction!Spec => []AskedWithinBounds
<1>1. ExtractionInv => AskedWithinBounds
  BY DEF ExtractionInv, ImagesWithinBudget, RequestsWithinCalls, MalformedStops, HasMalformed,
     AskedWithinBounds, Extraction!AskedWithinBounds
<1>2. Extraction!Spec => Extraction!Init /\ [][Extraction!Next]_extractionVars
  BY PTL DEF Extraction!Spec, Extraction!vars, extractionVars
<1> QED
  BY <1>1, <1>2, InitExtraction, NextExtraction, PTL
=============================================================================
