-------------------------- MODULE TaskSettlement ---------------------------
(***************************************************************************)
(* Life of the extraction tasks of one tenant, from submission to          *)
(* settlement, with the money they hold: the composition of                *)
(* TenantAccount with the task rows, the worker attempts that run          *)
(* ExtractionService.process_task under _run_with_timeout, the recovery    *)
(* sweep and the administrator's retry.                                    *)
(*                                                                         *)
(* Sessions use autoflush = False and expire_on_commit = False and read    *)
(* without locks, so each handler is a read step followed by a commit      *)
(* step: the commit writes the columns the session changed, with           *)
(* WHERE id = ..., whatever the row has become in between.  What the       *)
(* session saw is kept in `seen'.                                          *)
(***************************************************************************)
EXTENDS TenantAccount, FiniteSets, Functions

CONSTANTS
    Attempts,             \* executions of process_email_task
    Requests,             \* Celery request ids, used as lease_owner
    RequestOf,            \* the request id each attempt runs under
    Admins,               \* concurrent POST /admin/tasks/{id}/retry requests
    NoOwner,              \* the NULL lease_owner
    SingleDelivery,       \* TRUE: a task has at most one live attempt
    LeaseOutlivesAttempt  \* TRUE: TASK_LEASE_SECONDS exceeds the hard time limit

ASSUME SettlementAssumption ==
    /\ RequestOf \in [Attempts -> Requests]
    /\ NoOwner \notin Requests
    /\ Attempts \cap Admins = {}
    /\ SingleDelivery \in BOOLEAN
    /\ LeaseOutlivesAttempt \in BOOLEAN

VARIABLES
    status,     \* email_tasks.status; "ABSENT" before submission
    held,       \* reserved_amount; 0 when is_reserved is false
    charged,    \* charged_amount; 0 when is_charged is false
    owner,      \* lease_owner
    leaseLive,  \* lease_expires_at is in the future (means nothing without owner)
    pc,         \* where each attempt is in its code
    target,     \* the task of an attempt, or of a retry request in flight
    seen        \* the columns a session read and will decide on

taskVars == <<status, held, charged, owner, leaseLive>>
sessionVars == <<pc, target, seen>>
vars == <<accountVars, taskVars, sessionVars>>

Status == {"ABSENT", "PENDING", "PROCESSING", "SUCCESS", "FAILED"}
Terminal == {"SUCCESS", "FAILED"}
Sessions == Attempts \cup Admins

NotStarted == {"new"}
Over == {"done", "dead"}
\* Before and after the try block of process_task, and inside it: only inside it
\* does a cancellation run the CancelledError handler.
OutsideTry == {"claimed", "abandoning", "raised", "failing"}
InsideTry == {"running", "settling"}
TimingOut == {"cancelled", "timedOut", "expiring"}
PC == NotStarted \cup Over \cup {"admitted"} \cup OutsideTry \cup InsideTry \cup TimingOut

NoRow == [status |-> "ABSENT", held |-> 0, owner |-> NoOwner]
Hold == Prices \cup {0}
Row == [status: Status, held: Hold, owner: Requests \cup {NoOwner}]

TypeOK ==
    /\ AccountTypeOK
    /\ status \in [Tasks -> Status]
    /\ held \in [Tasks -> Hold]
    /\ charged \in [Tasks -> Hold]
    /\ owner \in [Tasks -> Requests \cup {NoOwner}]
    /\ leaseLive \in [Tasks -> BOOLEAN]
    /\ pc \in [Attempts -> PC]
    /\ target \in [Sessions -> Tasks \cup {NoTask}]
    /\ seen \in [Sessions -> Row]

Init ==
    /\ AccountInit
    /\ status = [t \in Tasks |-> "ABSENT"]
    /\ held = [t \in Tasks |-> 0]
    /\ charged = [t \in Tasks |-> 0]
    /\ owner = [t \in Tasks |-> NoOwner]
    /\ leaseLive = [t \in Tasks |-> FALSE]
    /\ pc = [a \in Attempts |-> "new"]
    /\ target = [s \in Sessions |-> NoTask]
    /\ seen = [s \in Sessions |-> NoRow]

-----------------------------------------------------------------------------
Live(a) == pc[a] \notin NotStarted \cup Over

Runs(a, t) == Live(a) /\ target[a] = t

LeaseExpired(t) == owner[t] = NoOwner \/ ~leaseLive[t]

Goto(a, label) == pc' = [pc EXCEPT ![a] = label]

\* The session keeps the row it read / forgets it at the end of its transaction.
Read(s, t) ==
    seen' = [seen EXCEPT ![s] =
                [status |-> status[t], held |-> held[t], owner |-> owner[t]]]
Forget(s) == seen' = [seen EXCEPT ![s] = NoRow]

\* Assigning an attribute emits an UPDATE of its column only when the session had
\* loaded something else.
FailSeenBy(s, t) ==
    status' = [status EXCEPT ![t] = IF seen[s].status = "FAILED" THEN @ ELSE "FAILED"]
ClearOwnerSeenBy(s, t) ==
    owner' = [owner EXCEPT ![t] = IF seen[s].owner = NoOwner THEN @ ELSE NoOwner]

\* Mutant: a failed task keeps its hold.
ReleaseForgotten(s, t) == UNCHANGED <<accountVars, held>>

\* release_task_reservation inside the caller's transaction: only what the
\* session saw on the task decides whether, and how much, is given back.
ReleaseSeenBy(s, t) ==
    IF seen[s].held = 0
    THEN UNCHANGED <<accountVars, held>>
    ELSE /\ Release(seen[s].held)
         /\ held' = [held EXCEPT ![t] = 0]

CannotRelease(s) == seen[s].held > 0 /\ ~CanRelease(seen[s].held)

-----------------------------------------------------------------------------
(* Submission and administration. *)

\* POST /extract/async: the hold and the PENDING row are one transaction.
SubmitTask(t) ==
    /\ status[t] = "ABSENT"
    /\ Reserve
    /\ status' = [status EXCEPT ![t] = "PENDING"]
    /\ held' = [held EXCEPT ![t] = unitPrice]
    /\ UNCHANGED <<charged, owner, leaseLive, sessionVars>>

\* Mutant: a task in any state can be retried.
RetryReadUnchecked(m, t) ==
    /\ target[m] = NoTask
    /\ status[t] # "ABSENT"
    /\ target' = [target EXCEPT ![m] = t]
    /\ Read(m, t)
    /\ UNCHANGED <<accountVars, taskVars, pc>>

\* POST /admin/tasks/{id}/retry reads the row without a lock ...
RetryRead(m, t) ==
    /\ target[m] = NoTask
    /\ status[t] = "FAILED" /\ charged[t] = 0 /\ held[t] = 0
    /\ target' = [target EXCEPT ![m] = t]
    /\ Read(m, t)
    /\ UNCHANGED <<accountVars, taskVars, pc>>

\* ... and then takes a hold and rewrites it.
RetryCommit(m, t) ==
    /\ target[m] = t
    /\ Reserve
    /\ status' = [status EXCEPT ![t] = "PENDING"]
    /\ held' = [held EXCEPT ![t] = unitPrice]
    /\ ClearOwnerSeenBy(m, t)
    /\ target' = [target EXCEPT ![m] = NoTask]
    /\ Forget(m)
    /\ UNCHANGED <<charged, leaseLive, pc>>

\* 402 when no hold can be taken.
RetryRefused(m) ==
    /\ target[m] # NoTask
    /\ ~CanReserve
    /\ target' = [target EXCEPT ![m] = NoTask]
    /\ Forget(m)
    /\ UNCHANGED <<accountVars, taskVars, pc>>

\* POST /feedbacks/{id}/accept with auto_refund: the feedback row is locked, the
\* task is re-read, and the refund commits with the decision.
RefundTask(t) ==
    /\ charged[t] > 0
    /\ Refund(t)
    /\ UNCHANGED <<taskVars, sessionVars>>

RechargeTenant(amount) ==
    /\ Cardinality({i \in DOMAIN ledger : ledger[i].type = "RECHARGE"}) < MaxRecharges
    /\ Recharge(amount)
    /\ UNCHANGED <<taskVars, sessionVars>>

ChangeUnitPrice(price) ==
    /\ UpdateUnitPrice(price)
    /\ UNCHANGED <<taskVars, sessionVars>>

ChangeTenantStatus(active) ==
    /\ UpdateTenantStatus(active)
    /\ UNCHANGED <<taskVars, sessionVars>>

-----------------------------------------------------------------------------
(* A worker attempt: process_email_task and process_task. *)

\* _get_task_context admits a delivery of the task's message.  Recovery can
\* publish a second message while the first still waits, so two attempts of one
\* task may be live unless SingleDelivery.
Deliver(a, t) ==
    /\ pc[a] = "new"
    /\ status[t] \in {"PENDING", "PROCESSING"}
    /\ isActive
    /\ SingleDelivery => \A b \in Attempts : ~Runs(b, t)
    /\ Goto(a, "admitted")
    /\ target' = [target EXCEPT ![a] = t]
    /\ UNCHANGED <<accountVars, taskVars, seen>>

\* Mutant: the claim does not record who made it.
ClaimAnonymously(a, t) ==
    /\ pc[a] = "admitted" /\ target[a] = t
    /\ status[t] = "PENDING"
    /\ status' = [status EXCEPT ![t] = "PROCESSING"]
    /\ Goto(a, "claimed")
    /\ UNCHANGED <<accountVars, held, charged, owner, leaseLive, target, seen>>

\* The claim is one conditional UPDATE.
Claim(a, t) ==
    /\ pc[a] = "admitted" /\ target[a] = t
    /\ IF status[t] = "PENDING" \/ (status[t] = "PROCESSING" /\ LeaseExpired(t))
       THEN /\ status' = [status EXCEPT ![t] = "PROCESSING"]
            /\ owner' = [owner EXCEPT ![t] = RequestOf[a]]
            /\ leaseLive' = [leaseLive EXCEPT ![t] = TRUE]
            /\ Goto(a, "claimed")
       ELSE Goto(a, "done") /\ UNCHANGED <<status, owner, leaseLive>>
    /\ UNCHANGED <<accountVars, held, charged, target, seen>>

\* After the claim the task and the tenant are read; an inactive tenant's task
\* is failed without running it.
CheckTenant(a, t) ==
    /\ pc[a] = "claimed" /\ target[a] = t
    /\ IF isActive THEN Goto(a, "running") /\ UNCHANGED seen
                   ELSE Goto(a, "abandoning") /\ Read(a, t)
    /\ UNCHANGED <<accountVars, taskVars, target>>

\* Parsing, the model call, normalisation or validation raises.
Raise(a) ==
    /\ pc[a] = "running"
    /\ Goto(a, "raised")
    /\ UNCHANGED <<accountVars, taskVars, target, seen>>

\* A result is ready: the lease is checked in the settling session.  A charged
\* row makes deduct_for_task_success return None, which raises.
CheckLease(a, t) ==
    /\ pc[a] = "running" /\ target[a] = t
    /\ \/ /\ status[t] = "PROCESSING" /\ owner[t] = RequestOf[a]
          /\ IF charged[t] = 0 THEN Goto(a, "settling") /\ Read(a, t)
                               ELSE Goto(a, "raised") /\ UNCHANGED seen
       \/ /\ status[t] # "PROCESSING" \/ owner[t] # RequestOf[a]
          /\ Goto(a, "done")
          /\ UNCHANGED seen
    /\ UNCHANGED <<accountVars, taskVars, target>>

\* Mutants: the charge commits ahead of the result; the result commits without
\* marking the row as charged.
SettleChargeFirst(a, t) ==
    /\ pc[a] = "settling" /\ target[a] = t
    /\ charged[t] = 0
    /\ Deduct(t, seen[a].held)
    /\ charged' = [charged EXCEPT ![t] = ChargeOf(seen[a].held)]
    /\ held' = [held EXCEPT ![t] = 0]
    /\ UNCHANGED <<status, owner, leaseLive, sessionVars>>

SettleUnmarked(a, t) ==
    /\ pc[a] = "settling" /\ target[a] = t
    /\ Deduct(t, seen[a].held)
    /\ status' = [status EXCEPT ![t] = "SUCCESS"]
    /\ held' = [held EXCEPT ![t] = 0]
    /\ ClearOwnerSeenBy(a, t)
    /\ Goto(a, "done")
    /\ Forget(a)
    /\ UNCHANGED <<charged, leaseLive, target>>

\* SUCCESS, the charge and the ledger entry commit together, or not at all.
Settle(a, t) ==
    /\ pc[a] = "settling" /\ target[a] = t
    /\ charged[t] = 0
    /\ Deduct(t, seen[a].held)
    /\ status' = [status EXCEPT ![t] = "SUCCESS"]
    /\ charged' = [charged EXCEPT ![t] = ChargeOf(seen[a].held)]
    /\ held' = [held EXCEPT ![t] = 0]
    /\ ClearOwnerSeenBy(a, t)
    /\ Goto(a, "done")
    /\ Forget(a)
    /\ UNCHANGED <<leaseLive, target>>

\* Mutant: the result is kept although the deduction was refused.
SettleUnpaid(a) ==
    /\ pc[a] = "settling"
    /\ status' = [status EXCEPT ![target[a]] = "SUCCESS"]
    /\ Goto(a, "done")
    /\ Forget(a)
    /\ UNCHANGED <<accountVars, held, charged, owner, leaseLive, target>>

\* The deduction is refused (deduct_for_task_success returns None) or the
\* database fails: everything is rolled back and the exception takes the
\* failure path.
SettleFails(a) ==
    /\ pc[a] = "settling"
    /\ Goto(a, "raised")
    /\ Forget(a)
    /\ UNCHANGED <<accountVars, taskVars, target>>

\* The failure path ignores a task whose lease it does not hold.
CheckFailure(a, t) ==
    /\ pc[a] = "raised" /\ target[a] = t
    /\ IF owner[t] = RequestOf[a] THEN Goto(a, "failing") /\ Read(a, t)
                                  ELSE Goto(a, "done") /\ UNCHANGED seen
    /\ UNCHANGED <<accountVars, taskVars, target>>

\* Commit of FAILED with the release of the hold: after an exception, for an
\* inactive tenant, and by _mark_timeout.
RecordFailure(a, t) ==
    /\ pc[a] \in {"failing", "abandoning", "expiring"} /\ target[a] = t
    /\ ReleaseSeenBy(a, t)
    /\ FailSeenBy(a, t)
    /\ ClearOwnerSeenBy(a, t)
    /\ Goto(a, "done")
    /\ Forget(a)
    /\ UNCHANGED <<charged, leaseLive, target>>

\* The tenant row no longer carries the hold: none of the three callers catches
\* the RuntimeError, so the attempt ends with nothing written.
FailureRefused(a) ==
    /\ pc[a] \in {"failing", "abandoning", "expiring"}
    /\ CannotRelease(a)
    /\ Goto(a, "done")
    /\ Forget(a)
    /\ UNCHANGED <<accountVars, taskVars, target>>

\* asyncio.wait_for cancels process_task after TASK_TIMEOUT_SECONDS.  An open
\* transaction is rolled back.  The claim is the first statement of the attempt
\* and is taken to finish within the timeout.
Cancel(a) ==
    /\ pc[a] \in InsideTry \cup OutsideTry
    /\ Goto(a, IF pc[a] \in InsideTry THEN "cancelled" ELSE "timedOut")
    /\ Forget(a)
    /\ UNCHANGED <<accountVars, taskVars, target>>

\* The CancelledError handler gives a task it still owns back to the queue.
GiveBack(a, t) ==
    /\ pc[a] = "cancelled" /\ target[a] = t
    /\ IF status[t] = "PROCESSING" /\ owner[t] = RequestOf[a]
       THEN /\ status' = [status EXCEPT ![t] = "PENDING"]
            /\ owner' = [owner EXCEPT ![t] = NoOwner]
       ELSE UNCHANGED <<status, owner>>
    /\ Goto(a, "timedOut")
    /\ UNCHANGED <<accountVars, held, charged, leaseLive, target, seen>>

\* _mark_timeout then looks for an unfinished task of that id, whoever owns it.
MarkTimeout(a, t) ==
    /\ pc[a] = "timedOut" /\ target[a] = t
    /\ IF status[t] \in {"PENDING", "PROCESSING"}
       THEN Goto(a, "expiring") /\ Read(a, t)
       ELSE Goto(a, "done") /\ UNCHANGED seen
    /\ UNCHANGED <<accountVars, taskVars, target>>

\* The worker process is killed; an open transaction is rolled back.
Crash(a) ==
    /\ Live(a)
    /\ Goto(a, "dead")
    /\ Forget(a)
    /\ UNCHANGED <<accountVars, taskVars, target>>

-----------------------------------------------------------------------------
(* Time and the recovery sweep. *)

\* lease_expires_at passes.
ExpireLease(t) ==
    /\ owner[t] # NoOwner /\ leaseLive[t]
    /\ LeaseOutlivesAttempt =>
          \A a \in Attempts : Runs(a, t) => RequestOf[a] # owner[t]
    /\ leaseLive' = [leaseLive EXCEPT ![t] = FALSE]
    /\ UNCHANGED <<accountVars, status, held, charged, owner, sessionVars>>

\* _prepare_recovery_batch resets tasks whose lease has expired.
Recover(t) ==
    /\ status[t] = "PROCESSING" /\ LeaseExpired(t)
    /\ status' = [status EXCEPT ![t] = "PENDING"]
    /\ owner' = [owner EXCEPT ![t] = NoOwner]
    /\ UNCHANGED <<accountVars, held, charged, leaseLive, sessionVars>>

-----------------------------------------------------------------------------
AttemptStep(a) ==
    \/ Raise(a) \/ SettleFails(a) \/ FailureRefused(a) \/ Cancel(a) \/ Crash(a)
    \/ \E t \in Tasks :
          \/ Deliver(a, t) \/ Claim(a, t) \/ CheckTenant(a, t)
          \/ CheckLease(a, t) \/ Settle(a, t)
          \/ CheckFailure(a, t) \/ RecordFailure(a, t)
          \/ GiveBack(a, t) \/ MarkTimeout(a, t)

AdminStep ==
    \/ \E m \in Admins : RetryRefused(m) \/ \E t \in Tasks : RetryRead(m, t) \/ RetryCommit(m, t)
    \/ \E t \in Tasks : RefundTask(t)
    \/ \E amount \in RechargeAmounts : RechargeTenant(amount)
    \/ \E price \in Prices : ChangeUnitPrice(price)
    \/ \E active \in BOOLEAN : ChangeTenantStatus(active)

Next ==
    \/ \E t \in Tasks : SubmitTask(t) \/ ExpireLease(t) \/ Recover(t)
    \/ \E a \in Attempts : AttemptStep(a)
    \/ AdminStep

Spec == Init /\ [][Next]_vars

-----------------------------------------------------------------------------
(***************************************************************************)
(* Properties that hold whatever the deliveries, leases and retries do.    *)
(***************************************************************************)

(***************************************************************************)
(* The row and the ledger agree on what a task was charged, and the ledger *)
(* never holds two charges of one task, although concurrent attempts and   *)
(* retries may each believe they settle it.                                *)
(***************************************************************************)
ChargeMatchesLedger ==
    \A t \in Tasks :
        /\ charged[t] > 0 <=> Recorded("DEDUCTION", t)
        /\ \A i, j \in EntriesOf("DEDUCTION", t) :
              i = j /\ ledger[i].amount = charged[t]

(***************************************************************************)
(* A refund gives back one earlier deduction of the same task, in full and *)
(* once.                                                                   *)
(***************************************************************************)
RefundMatchesDeduction ==
    \A t \in Tasks : \A i, j \in EntriesOf("REFUND", t) :
        /\ i = j
        /\ \E k \in EntriesOf("DEDUCTION", t) :
              k < i /\ ledger[k].amount = ledger[i].amount

\* A result is never delivered without having been paid for.
SuccessIsCharged == \A t \in Tasks : status[t] = "SUCCESS" => charged[t] > 0

(***************************************************************************)
(* What the tenant was promised about money is all that ever happens to    *)
(* the balance: see BillingPromise.                                        *)
(***************************************************************************)
Promise == INSTANCE BillingPromise
               WITH funds <- balance,
                    paid <- charged,
                    refunded <- {t \in Tasks : Recorded("REFUND", t)}

BillingPromised == Promise!Spec

(***************************************************************************)
(* Properties of the disciplined environment: one live attempt per task,   *)
(* leases that outlive attempts and one retry request at a time.           *)
(***************************************************************************)
TotalHeld == FoldFunction(LAMBDA x, y : x + y, 0, held)

\* The tenant's reserved_balance is the sum of the holds on its task rows:
\* no hold is released twice and none is forgotten.
HoldsMatch == reserved = TotalHeld

\* A task holds money exactly while it can still be charged for it, whatever
\* crashes, timeouts and recoveries it has been through.
HeldWhileOpen ==
    \A t \in Tasks : held[t] > 0 <=> status[t] \in {"PENDING", "PROCESSING"}

\* Only a delivered result costs money: a task that failed or timed out, and
\* was perhaps settled by another attempt meanwhile, is not a charged one.
ChargedOnlyOnSuccess == \A t \in Tasks : charged[t] > 0 => status[t] = "SUCCESS"

\* A task in PROCESSING is settled only by the attempt that holds its lease.
OnlyHolderSettles ==
    [][\A t \in Tasks :
          status[t] = "PROCESSING" /\ status'[t] \in Terminal =>
             \E a \in Attempts :
                pc'[a] # pc[a] /\ target[a] = t /\ owner[t] = RequestOf[a]]_vars

\* A settled task changes again only when an uncharged failure is retried.
OutcomeIsFinal ==
    [][\A t \in Tasks :
          status[t] \in Terminal /\ status'[t] # status[t] =>
             status[t] = "FAILED" /\ status'[t] = "PENDING" /\ charged[t] = 0]_vars

\* The price agreed at submission is the price charged, whatever the
\* administrator does to unit_price while the task is queued or running.
ChargedWhatWasHeld ==
    [][\A t \in Tasks : charged'[t] # charged[t] => charged'[t] = held[t]]_vars
=============================================================================
