--------------------------- MODULE TenantAccount ---------------------------
(***************************************************************************)
(* The account of one tenant and its billing ledger, as                    *)
(* app/services/billing_service.py writes them.  Every operator below that *)
(* primes a variable is the effect of one database transaction (or of the  *)
(* billing part of one); its guard is the WHERE clause of the conditional  *)
(* UPDATE, which PostgreSQL evaluates on the row it locks.                 *)
(*                                                                         *)
(* Amounts are counted in units of MONEY_QUANTUM, so a price of 0.50 is a  *)
(* positive natural number.  Tenants do not share any billing row, so one  *)
(* tenant is enough.                                                       *)
(***************************************************************************)
EXTENDS Integers, Sequences

CONSTANTS
    Tasks,            \* ids of the tenant's extraction tasks
    NoTask,           \* the NULL task_id of a RECHARGE entry
    Prices,           \* unit prices an administrator may set
    RechargeAmounts,  \* amounts an administrator may credit
    MaxBalance,       \* MAX_ACCOUNT_BALANCE
    InitBalance,      \* balance of the tenant before the first modelled step
    MaxRecharges      \* bound of the model: recharges in one behaviour

ASSUME AccountAssumption ==
    /\ NoTask \notin Tasks
    /\ Prices \subseteq Nat \ {0}
    /\ RechargeAmounts \subseteq Nat \ {0}
    /\ MaxBalance \in Nat
    /\ InitBalance \in 0..MaxBalance
    /\ MaxRecharges \in Nat

VARIABLES
    balance,    \* tenants.balance
    reserved,   \* tenants.reserved_balance
    unitPrice,  \* tenants.unit_price
    isActive,   \* tenants.is_active
    ledger      \* billing_transactions in commit order

accountVars == <<balance, reserved, unitPrice, isActive, ledger>>

EntryType == {"RECHARGE", "DEDUCTION", "REFUND"}

Entry == [type: EntryType, task: Tasks \cup {NoTask}, amount: Nat,
          before: Nat, after: Nat]

AccountTypeOK ==
    /\ balance \in Nat
    /\ reserved \in Nat
    /\ unitPrice \in Prices
    /\ isActive \in BOOLEAN
    /\ ledger \in Seq(Entry)

AccountInit ==
    /\ balance = InitBalance
    /\ reserved = 0
    /\ unitPrice \in Prices
    /\ isActive = TRUE
    /\ ledger = <<>>

-----------------------------------------------------------------------------
Available == balance - reserved

EntriesOf(type, t) ==
    {i \in DOMAIN ledger : ledger[i].type = type /\ ledger[i].task = t}

\* The unique constraint on (task_id, type) would reject another such entry.
Recorded(type, t) == EntriesOf(type, t) # {}

\* Mutant: balance_before is always computed as for a deduction.
PostAsDeduction(type, t, amount, after) ==
    /\ balance' = after
    /\ ledger' = Append(ledger, [type |-> type, task |-> t, amount |-> amount,
                                 before |-> after + amount, after |-> after])

\* Move the balance to `after' and write the ledger entry that explains it,
\* as one transaction: balance_before is recomputed from the new balance.
Post(type, t, amount, after) ==
    /\ balance' = after
    /\ ledger' = Append(ledger, [type |-> type, task |-> t, amount |-> amount,
                                 before |-> balance, after |-> after])

\* Mutant: the holds of queued tasks are not counted against the balance.
CanReserveGross == isActive /\ balance >= unitPrice

\* reserve_for_new_task: hold one call's price if the available funds cover it.
CanReserve ==
    /\ isActive
    /\ balance <= MaxBalance
    /\ reserved <= balance
    /\ Available >= unitPrice

Reserve ==
    /\ CanReserve
    /\ reserved' = reserved + unitPrice
    /\ UNCHANGED <<balance, unitPrice, isActive, ledger>>

\* release_task_reservation gives back a hold it believes to be on the task.
CanRelease(amount) == reserved >= amount

Release(amount) ==
    /\ CanRelease(amount)
    /\ reserved' = reserved - amount
    /\ UNCHANGED <<balance, unitPrice, isActive, ledger>>

\* Mutant: the price at the time of the charge is taken instead of the hold.
CurrentPrice(hold) == unitPrice

\* deduct_for_task_success charges the held amount, or the current price when
\* the session saw no hold on the task.
ChargeOf(hold) == IF hold > 0 THEN hold ELSE unitPrice

CanDeduct(hold) ==
    /\ isActive
    /\ balance <= MaxBalance
    /\ reserved <= balance
    /\ \/ hold > 0 /\ balance >= hold /\ reserved >= hold
       \/ hold = 0 /\ Available >= unitPrice

\* Mutant: the current price, not the hold, leaves reserved_balance.
DeductReleasesPrice(t, hold) ==
    /\ CanDeduct(hold)
    /\ ~Recorded("DEDUCTION", t)
    /\ reserved' = reserved - unitPrice
    /\ Post("DEDUCTION", t, ChargeOf(hold), balance - ChargeOf(hold))
    /\ UNCHANGED <<unitPrice, isActive>>

Deduct(t, hold) ==
    /\ CanDeduct(hold)
    /\ ~Recorded("DEDUCTION", t)
    /\ reserved' = reserved - hold
    /\ Post("DEDUCTION", t, ChargeOf(hold), balance - ChargeOf(hold))
    /\ UNCHANGED <<unitPrice, isActive>>

\* recharge_balance: compare-and-set on the balance it read.  A concurrent
\* change makes the UPDATE match no row and the request fails, so the read and
\* the write can be taken as one step.
Recharge(amount) ==
    /\ reserved <= balance
    /\ balance + amount <= MaxBalance
    /\ Post("RECHARGE", NoTask, amount, balance + amount)
    /\ UNCHANGED <<reserved, unitPrice, isActive>>

\* Mutant: no look at the ledger for an earlier refund.
RefundAgain(t) ==
    /\ \E i \in EntriesOf("DEDUCTION", t) :
          /\ balance + ledger[i].amount <= MaxBalance
          /\ Post("REFUND", t, ledger[i].amount, balance + ledger[i].amount)
    /\ UNCHANGED <<reserved, unitPrice, isActive>>

\* refund_task_deduction: credit what the ledger says was deducted, once.
Refund(t) ==
    /\ ~Recorded("REFUND", t)
    /\ \E i \in EntriesOf("DEDUCTION", t) :
          /\ balance + ledger[i].amount <= MaxBalance
          /\ Post("REFUND", t, ledger[i].amount, balance + ledger[i].amount)
    /\ UNCHANGED <<reserved, unitPrice, isActive>>

UpdateUnitPrice(price) ==
    /\ unitPrice' = price
    /\ UNCHANGED <<balance, reserved, isActive, ledger>>

UpdateTenantStatus(active) ==
    /\ isActive' = active
    /\ UNCHANGED <<balance, reserved, unitPrice, ledger>>

-----------------------------------------------------------------------------
\* The balance the ledger accounts for.
LedgerBalance ==
    IF ledger = <<>> THEN InitBalance ELSE ledger[Len(ledger)].after

(***************************************************************************)
(* The statement a reconciliation relies on: every entry moves the balance *)
(* by its amount in the direction of its type, every entry starts from the *)
(* balance the previous one left, and the stored balance is the one the    *)
(* last entry left.  Deductions, refunds and recharges of different        *)
(* sessions interleave freely, so this is about their transactions.        *)
(***************************************************************************)
EntryMovesBalance(e) ==
    IF e.type = "DEDUCTION" THEN e.before = e.after + e.amount
                            ELSE e.after = e.before + e.amount

LedgerChained ==
    /\ \A i \in DOMAIN ledger :
          /\ EntryMovesBalance(ledger[i])
          /\ ledger[i].before = IF i = 1 THEN InitBalance ELSE ledger[i - 1].after
    /\ balance = LedgerBalance

(***************************************************************************)
(* The CHECK constraints of the tenants row, which the guards above must   *)
(* keep so that no transaction is rejected by the database: a hold is      *)
(* never larger than the money behind it.                                  *)
(***************************************************************************)
HoldsAreFunded == reserved <= balance /\ balance <= MaxBalance
=============================================================================
