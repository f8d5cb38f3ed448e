----------------------- MODULE TaskSettlement_proofs -----------------------
(***************************************************************************)
(* What holds of TaskSettlement for any tasks, attempts, request ids,      *)
(* prices and delivery discipline.  Everything here is about money; the    *)
(* argument is that a step either leaves the money alone or is one of the  *)
(* three postings (MoneyMoves), and each posting is guarded by the ledger. *)
(***************************************************************************)
EXTENDS TaskSettlement, TLAPS

USE AccountAssumption, SettlementAssumption DEF Hold

-----------------------------------------------------------------------------
(* Type correctness. *)

LEMMA InitType == Init => TypeOK
  BY DEF Init, TypeOK, AccountInit, AccountTypeOK, NoRow, Row, Status, PC, NotStarted, Sessions

LEMMA EntriesAreEntries ==
  ASSUME AccountTypeOK, NEW type, NEW t, NEW i \in EntriesOf(type, t)
  PROVE  ledger[i] \in Entry
  BY DEF AccountTypeOK, EntriesOf

LEMMA PostType ==
  ASSUME AccountTypeOK,
         NEW type \in EntryType, NEW t \in Tasks \cup {NoTask},
         NEW amount \in Nat, NEW after \in Nat,
         Post(type, t, amount, after)
  PROVE  balance' \in Nat /\ ledger' \in Seq(Entry)
  BY DEF AccountTypeOK, Post, Entry

LEMMA ReserveType ==
  ASSUME AccountTypeOK, Reserve
  PROVE  AccountTypeOK'
  BY DEF AccountTypeOK, Reserve

LEMMA ReleaseType ==
  ASSUME AccountTypeOK, NEW amount \in Nat, Release(amount)
  PROVE  AccountTypeOK'
  BY DEF AccountTypeOK, Release, CanRelease

LEMMA DeductBounds ==
  ASSUME AccountTypeOK, NEW hold \in Hold, CanDeduct(hold)
  PROVE  /\ ChargeOf(hold) \in Prices
         /\ balance - ChargeOf(hold) \in Nat
         /\ reserved - hold \in Nat
         /\ reserved - hold <= balance - ChargeOf(hold)
  BY DEF AccountTypeOK, CanDeduct, ChargeOf, Available

LEMMA DeductType ==
  ASSUME AccountTypeOK, NEW t \in Tasks, NEW hold \in Hold, Deduct(t, hold)
  PROVE  AccountTypeOK'
<1>1. /\ ChargeOf(hold) \in Nat
      /\ balance - ChargeOf(hold) \in Nat
      /\ reserved - hold \in Nat
  BY DeductBounds DEF Deduct
<1>2. balance' \in Nat /\ ledger' \in Seq(Entry)
  BY <1>1, PostType DEF Deduct, EntryType
<1> QED
  BY <1>1, <1>2 DEF Deduct, AccountTypeOK

LEMMA RechargeType ==
  ASSUME AccountTypeOK, NEW amount \in RechargeAmounts, Recharge(amount)
  PROVE  AccountTypeOK'
<1>1. amount \in Nat /\ balance + amount \in Nat
  BY DEF AccountTypeOK
<1>2. balance' \in Nat /\ ledger' \in Seq(Entry)
  BY <1>1, PostType DEF Recharge, EntryType
<1> QED
  BY <1>2 DEF Recharge, AccountTypeOK

LEMMA RefundType ==
  ASSUME AccountTypeOK, NEW t \in Tasks, Refund(t)
  PROVE  AccountTypeOK'
<1>1. PICK i \in EntriesOf("DEDUCTION", t) :
         Post("REFUND", t, ledger[i].amount, balance + ledger[i].amount)
  BY DEF Refund
<1>2. ledger[i].amount \in Nat /\ balance + ledger[i].amount \in Nat
  BY EntriesAreEntries DEF Entry, AccountTypeOK
<1>3. balance' \in Nat /\ ledger' \in Seq(Entry)
  BY <1>1, <1>2, PostType DEF EntryType
<1> QED
  BY <1>3 DEF Refund, AccountTypeOK

LEMMA SeenType ==
  ASSUME TypeOK, NEW s \in Sessions, NEW t \in Tasks,
         Read(s, t) \/ Forget(s) \/ UNCHANGED seen
  PROVE  seen' \in [Sessions -> Row]
<1>1. [status |-> status[t], held |-> held[t], owner |-> owner[t]] \in Row
  BY DEF TypeOK, Row
<1>2. NoRow \in Row
  BY DEF NoRow, Row, Status
<1> QED
  BY <1>1, <1>2 DEF Read, Forget, TypeOK

LEMMA AdministrationType ==
  ASSUME TypeOK, \/ \E t \in Tasks : SubmitTask(t) \/ ExpireLease(t) \/ Recover(t)
                 \/ AdminStep
  PROVE  TypeOK'
<1> AccountTypeOK /\ Admins \subseteq Sessions
  BY DEF TypeOK, Sessions
<1>1. ASSUME NEW t \in Tasks, SubmitTask(t) PROVE TypeOK'
  BY <1>1, ReserveType DEF SubmitTask, Reserve, AccountTypeOK, TypeOK, sessionVars, Status
<1>2. ASSUME NEW t \in Tasks, ExpireLease(t) PROVE TypeOK'
  BY <1>2 DEF ExpireLease, TypeOK, AccountTypeOK, accountVars, sessionVars
<1>3. ASSUME NEW t \in Tasks, Recover(t) PROVE TypeOK'
  BY <1>3 DEF Recover, TypeOK, AccountTypeOK, accountVars, sessionVars, Status
<1>4. ASSUME NEW m \in Admins, RetryRefused(m) PROVE TypeOK'
  BY <1>4 DEF RetryRefused, Forget, TypeOK, AccountTypeOK, accountVars, taskVars, NoRow, Row, Status
<1>5. ASSUME NEW m \in Admins, NEW t \in Tasks, RetryRead(m, t) PROVE TypeOK'
  BY <1>5, SeenType DEF RetryRead, TypeOK, AccountTypeOK, accountVars, taskVars
<1>6. ASSUME NEW m \in Admins, NEW t \in Tasks, RetryCommit(m, t) PROVE TypeOK'
  <2>1. AccountTypeOK' /\ unitPrice \in Prices
    BY <1>6, ReserveType DEF RetryCommit, AccountTypeOK
  <2> QED
    BY <1>6, <2>1, SeenType DEF RetryCommit, ClearOwnerSeenBy, TypeOK, Status
<1>7. ASSUME NEW t \in Tasks, RefundTask(t) PROVE TypeOK'
  BY <1>7, RefundType DEF RefundTask, TypeOK, taskVars, sessionVars
<1>8. ASSUME NEW amount \in RechargeAmounts, RechargeTenant(amount) PROVE TypeOK'
  BY <1>8, RechargeType DEF RechargeTenant, TypeOK, taskVars, sessionVars
<1>9. ASSUME NEW price \in Prices, ChangeUnitPrice(price) PROVE TypeOK'
  BY <1>9 DEF ChangeUnitPrice, UpdateUnitPrice, TypeOK, AccountTypeOK, taskVars, sessionVars
<1>10. ASSUME NEW active \in BOOLEAN, ChangeTenantStatus(active) PROVE TypeOK'
  BY <1>10 DEF ChangeTenantStatus, UpdateTenantStatus, TypeOK, AccountTypeOK, taskVars, sessionVars
<1> QED
  BY <1>1, <1>2, <1>3, <1>4, <1>5, <1>6, <1>7, <1>8, <1>9, <1>10 DEF AdminStep

LEMMA AttemptType ==
  ASSUME TypeOK, NEW a \in Attempts, AttemptStep(a)
  PROVE  TypeOK'
<1> AccountTypeOK /\ a \in Sessions /\ NoRow \in Row
  BY DEF TypeOK, Sessions, NoRow, Row, Status
<1> USE DEF PC, NotStarted, Over, OutsideTry, InsideTry, TimingOut
<1>1. ASSUME Raise(a) PROVE TypeOK'
  BY <1>1 DEF Raise, Goto, TypeOK, AccountTypeOK, accountVars, taskVars
<1>2. ASSUME SettleFails(a) PROVE TypeOK'
  BY <1>2 DEF SettleFails, Goto, Forget, TypeOK, AccountTypeOK, accountVars, taskVars
<1>3. ASSUME FailureRefused(a) PROVE TypeOK'
  BY <1>3 DEF FailureRefused, Goto, Forget, TypeOK, AccountTypeOK, accountVars, taskVars
<1>4. ASSUME Cancel(a) PROVE TypeOK'
  BY <1>4 DEF Cancel, Goto, Forget, TypeOK, AccountTypeOK, accountVars, taskVars
<1>5. ASSUME Crash(a) PROVE TypeOK'
  BY <1>5 DEF Crash, Goto, Forget, TypeOK, AccountTypeOK, accountVars, taskVars
<1>6. ASSUME NEW t \in Tasks, Deliver(a, t) PROVE TypeOK'
  BY <1>6 DEF Deliver, Goto, TypeOK, AccountTypeOK, accountVars, taskVars
<1>7. ASSUME NEW t \in Tasks, Claim(a, t) PROVE TypeOK'
  <2>1. RequestOf[a] \in Requests
    OBVIOUS
  <2>2. /\ status' \in [Tasks -> Status]
        /\ owner' \in [Tasks -> Requests \cup {NoOwner}]
        /\ leaseLive' \in [Tasks -> BOOLEAN]
    BY <1>7, <2>1 DEF Claim, TypeOK, Status
  <2>3. pc' \in [Attempts -> PC]
    BY <1>7 DEF Claim, Goto, TypeOK
  <2> QED
    BY <1>7, <2>2, <2>3 DEF Claim, TypeOK, AccountTypeOK, accountVars
<1>8. ASSUME NEW t \in Tasks, CheckTenant(a, t) PROVE TypeOK'
  BY <1>8, SeenType DEF CheckTenant, Goto, TypeOK, AccountTypeOK, accountVars, taskVars
<1>9. ASSUME NEW t \in Tasks, CheckLease(a, t) PROVE TypeOK'
  <2>1. seen' \in [Sessions -> Row]
    BY <1>9, SeenType DEF CheckLease
  <2>2. pc' \in [Attempts -> PC]
    BY <1>9 DEF CheckLease, Goto, TypeOK
  <2> QED
    BY <1>9, <2>1, <2>2 DEF CheckLease, TypeOK, AccountTypeOK, accountVars, taskVars
<1>10. ASSUME NEW t \in Tasks, Settle(a, t) PROVE TypeOK'
  <2>1. seen[a].held \in Hold
    BY DEF TypeOK, Row
  <2>2. AccountTypeOK' /\ ChargeOf(seen[a].held) \in Hold
    BY <1>10, <2>1, DeductType, DeductBounds DEF Settle, Deduct
  <2> QED
    BY <1>10, <2>2, SeenType DEF Settle, ClearOwnerSeenBy, Goto, TypeOK, Status
<1>11. ASSUME NEW t \in Tasks, CheckFailure(a, t) PROVE TypeOK'
  BY <1>11, SeenType DEF CheckFailure, Goto, TypeOK, AccountTypeOK, accountVars, taskVars
<1>12. ASSUME NEW t \in Tasks, RecordFailure(a, t) PROVE TypeOK'
  <2>1. seen[a] \in Row
    BY DEF TypeOK
  <2>2. AccountTypeOK' /\ held' \in [Tasks -> Hold]
    BY <1>12, <2>1, ReleaseType
    DEF RecordFailure, ReleaseSeenBy, TypeOK, AccountTypeOK, accountVars, Row
  <2>3. /\ seen' \in [Sessions -> Row]
        /\ status' \in [Tasks -> Status]
        /\ owner' \in [Tasks -> Requests \cup {NoOwner}]
    BY <1>12, SeenType DEF RecordFailure, FailSeenBy, ClearOwnerSeenBy, TypeOK, Status
  <2> QED
    BY <1>12, <2>2, <2>3 DEF RecordFailure, Goto, TypeOK
<1>13. ASSUME NEW t \in Tasks, GiveBack(a, t) PROVE TypeOK'
  BY <1>13 DEF GiveBack, Goto, TypeOK, AccountTypeOK, accountVars, Status
<1>14. ASSUME NEW t \in Tasks, MarkTimeout(a, t) PROVE TypeOK'
  BY <1>14, SeenType DEF MarkTimeout, Goto, TypeOK, AccountTypeOK, accountVars, taskVars
<1> QED
  BY <1>1, <1>2, <1>3, <1>4, <1>5, <1>6, <1>7, <1>8, <1>9, <1>10, <1>11, <1>12, <1>13, <1>14
  DEF AttemptStep

LEMMA StepType == TypeOK /\ [Next]_vars => TypeOK'
<1>1. ASSUME TypeOK, UNCHANGED vars PROVE TypeOK'
  BY <1>1 DEF vars, accountVars, taskVars, sessionVars, TypeOK, AccountTypeOK
<1> QED
  BY <1>1, AdministrationType, AttemptType DEF Next

(***************************************************************************)
(* The rows and the ledger stay in their ranges; in particular no          *)
(* interleaving of releases and charges makes the balance or the reserved  *)
(* balance negative.                                                       *)
(***************************************************************************)
THEOREM TypeCorrect == Spec => []TypeOK
  BY InitType, StepType, PTL DEF Spec

-----------------------------------------------------------------------------
(* The four ways a step treats the balance and the reserved balance. *)

\* Holds are taken, released, or neither; the money does not move.
OnlyHoldsMove ==
    /\ UNCHANGED <<balance, ledger, charged>>
    /\ \/ UNCHANGED reserved
       \/ Reserve
       \/ \E amount \in Nat : Release(amount)

Credits == UNCHANGED charged /\ \E amount \in RechargeAmounts : Recharge(amount)

Refunds == UNCHANGED charged /\ \E t \in Tasks : charged[t] > 0 /\ Refund(t)

Charges ==
    \E t \in Tasks, hold \in Hold :
        /\ charged[t] = 0
        /\ Deduct(t, hold)
        /\ charged' = [charged EXCEPT ![t] = ChargeOf(hold)]

LEMMA MoneyMoves ==
  ASSUME TypeOK, [Next]_vars
  PROVE  OnlyHoldsMove \/ Credits \/ Refunds \/ Charges
<1> USE DEF accountVars, taskVars
<1>1. ASSUME NEW t \in Tasks, SubmitTask(t) \/ ExpireLease(t) \/ Recover(t)
      PROVE  OnlyHoldsMove
  BY <1>1 DEF SubmitTask, ExpireLease, Recover, Reserve, OnlyHoldsMove
<1>2. ASSUME AdminStep PROVE OnlyHoldsMove \/ Credits \/ Refunds
  <2>1. ASSUME NEW m \in Admins, NEW t \in Tasks,
               RetryRefused(m) \/ RetryRead(m, t) \/ RetryCommit(m, t)
        PROVE  OnlyHoldsMove
    BY <2>1 DEF RetryRefused, RetryRead, RetryCommit, Reserve, OnlyHoldsMove
  <2>2. ASSUME NEW m \in Admins, RetryRefused(m) PROVE OnlyHoldsMove
    BY <2>2 DEF RetryRefused, OnlyHoldsMove
  <2>3. ASSUME NEW t \in Tasks, RefundTask(t) PROVE Refunds
    BY <2>3 DEF RefundTask, Refunds
  <2>4. ASSUME NEW amount \in RechargeAmounts, RechargeTenant(amount) PROVE Credits
    BY <2>4 DEF RechargeTenant, Credits
  <2>5. ASSUME NEW price \in Prices, ChangeUnitPrice(price) PROVE OnlyHoldsMove
    BY <2>5 DEF ChangeUnitPrice, UpdateUnitPrice, OnlyHoldsMove
  <2>6. ASSUME NEW active \in BOOLEAN, ChangeTenantStatus(active) PROVE OnlyHoldsMove
    BY <2>6 DEF ChangeTenantStatus, UpdateTenantStatus, OnlyHoldsMove
  <2> QED
    BY <1>2, <2>1, <2>2, <2>3, <2>4, <2>5, <2>6 DEF AdminStep
<1>3. ASSUME NEW a \in Attempts, AttemptStep(a) PROVE OnlyHoldsMove \/ Charges
  <2>1. seen[a] \in Row
    BY DEF TypeOK, Sessions
  <2>2. ASSUME Raise(a) \/ SettleFails(a) \/ FailureRefused(a) \/ Cancel(a) \/ Crash(a)
        PROVE  OnlyHoldsMove
    BY <2>2 DEF Raise, SettleFails, FailureRefused, Cancel, Crash, OnlyHoldsMove
  <2>3. ASSUME NEW t \in Tasks,
               \/ Deliver(a, t) \/ Claim(a, t) \/ CheckTenant(a, t) \/ CheckLease(a, t)
               \/ CheckFailure(a, t) \/ GiveBack(a, t) \/ MarkTimeout(a, t)
        PROVE  OnlyHoldsMove
    BY <2>3 DEF Deliver, Claim, CheckTenant, CheckLease, CheckFailure, GiveBack,
                MarkTimeout, OnlyHoldsMove
  <2>4. ASSUME NEW t \in Tasks, RecordFailure(a, t) PROVE OnlyHoldsMove
    BY <2>1, <2>4 DEF RecordFailure, ReleaseSeenBy, Release, OnlyHoldsMove, Row
  <2>5. ASSUME NEW t \in Tasks, Settle(a, t) PROVE Charges
    BY <2>1, <2>5 DEF Settle, Charges, Row
  <2> QED
    BY <1>3, <2>2, <2>3, <2>4, <2>5 DEF AttemptStep
<1>4. ASSUME UNCHANGED vars PROVE OnlyHoldsMove
  BY <1>4 DEF vars, OnlyHoldsMove
<1> QED
  BY <1>1, <1>2, <1>3, <1>4 DEF Next

(***************************************************************************)
(* Concurrent submissions, releases, charges and recharges never leave a   *)
(* hold without the money behind it, nor pass MAX_ACCOUNT_BALANCE.         *)
(***************************************************************************)
THEOREM HoldsFunded == Spec => []HoldsAreFunded
<1>1. Init => HoldsAreFunded
  BY DEF Init, AccountInit, HoldsAreFunded
<1>2. TypeOK /\ HoldsAreFunded /\ [Next]_vars => HoldsAreFunded'
  <2> SUFFICES ASSUME TypeOK, HoldsAreFunded, [Next]_vars PROVE HoldsAreFunded'
    OBVIOUS
  <2> AccountTypeOK
    BY DEF TypeOK
  <2>1. CASE OnlyHoldsMove
    BY <2>1 DEF OnlyHoldsMove, Reserve, CanReserve, Available, Release, CanRelease,
                HoldsAreFunded, AccountTypeOK
  <2>2. CASE Credits
    BY <2>2 DEF Credits, Recharge, Post, HoldsAreFunded, AccountTypeOK
  <2>3. CASE Refunds
    BY <2>3, EntriesAreEntries DEF Refunds, Refund, Post, HoldsAreFunded, AccountTypeOK, Entry
  <2>4. CASE Charges
    <3>1. PICK t \in Tasks, hold \in Hold : Deduct(t, hold)
      BY <2>4 DEF Charges
    <3> QED
      BY <3>1, DeductBounds DEF Deduct, Post, HoldsAreFunded, AccountTypeOK, ChargeOf
  <2> QED
    BY MoneyMoves, <2>1, <2>2, <2>3, <2>4
<1> QED
  BY <1>1, <1>2, TypeCorrect, PTL DEF Spec

-----------------------------------------------------------------------------
(* The ledger. *)

Step(type, t, amount, after) ==
    [type |-> type, task |-> t, amount |-> amount, before |-> balance, after |-> after]

\* A posting adds one entry at the end and changes no earlier one.
LEMMA PostAppends ==
  ASSUME AccountTypeOK, NEW type, NEW t, NEW amount, NEW after,
         Post(type, t, amount, after)
  PROVE  /\ Len(ledger) \in Nat
         /\ DOMAIN ledger = 1..Len(ledger)
         /\ DOMAIN ledger' = 1..(Len(ledger) + 1)
         /\ Len(ledger') = Len(ledger) + 1
         /\ \A i \in DOMAIN ledger : ledger'[i] = ledger[i]
         /\ ledger'[Len(ledger) + 1] = Step(type, t, amount, after)
         /\ ledger'[Len(ledger) + 1].type = type
         /\ ledger'[Len(ledger) + 1].task = t
         /\ ledger'[Len(ledger) + 1].amount = amount
         /\ balance' = after
  BY DEF Post, AccountTypeOK, Step

LEMMA PostChains ==
  ASSUME AccountTypeOK, LedgerChained,
         NEW type, NEW t, NEW amount, NEW after,
         Post(type, t, amount, after),
         EntryMovesBalance(Step(type, t, amount, after))
  PROVE  LedgerChained'
<1>1. ledger # <<>> <=> Len(ledger) > 0
  BY DEF AccountTypeOK
<1>2. ledger' # <<>>
  BY PostAppends
<1>3. LedgerBalance' = after
  BY <1>2, PostAppends DEF LedgerBalance, Step
<1>4. Step(type, t, amount, after).before = LedgerBalance
  BY DEF LedgerChained, Step
<1>5. ASSUME NEW i \in DOMAIN ledger'
      PROVE  /\ EntryMovesBalance(ledger'[i])
             /\ ledger'[i].before = IF i = 1 THEN InitBalance ELSE ledger'[i - 1].after
  <2>1. CASE i \in DOMAIN ledger
    <3>1. i = 1 \/ i - 1 \in DOMAIN ledger
      BY <2>1, PostAppends
    <3> QED
      BY <2>1, <3>1, PostAppends DEF LedgerChained
  <2>2. CASE i = Len(ledger) + 1
    <3>1. i = 1 <=> ledger = <<>>
      BY <2>2, <1>1, PostAppends
    <3>2. i # 1 => i - 1 = Len(ledger) /\ i - 1 \in DOMAIN ledger
      BY <2>2, PostAppends
    <3> QED
      BY <2>2, <3>1, <3>2, <1>4, PostAppends DEF LedgerBalance
  <2> QED
    BY <2>1, <2>2, PostAppends
<1> QED
  BY <1>3, <1>5, PostAppends DEF LedgerChained, EntryMovesBalance

(***************************************************************************)
(* The stored balance is always what the ledger explains, entry by entry.  *)
(***************************************************************************)
THEOREM LedgerExplainsBalance == Spec => []LedgerChained
<1>1. Init => LedgerChained
  BY DEF Init, AccountInit, LedgerChained, LedgerBalance
<1>2. TypeOK /\ LedgerChained /\ [Next]_vars => LedgerChained'
  <2> SUFFICES ASSUME TypeOK, LedgerChained, [Next]_vars PROVE LedgerChained'
    OBVIOUS
  <2> AccountTypeOK
    BY DEF TypeOK
  <2>1. CASE OnlyHoldsMove
    BY <2>1 DEF OnlyHoldsMove, LedgerChained, LedgerBalance, EntryMovesBalance
  <2>2. CASE Credits
    <3>1. PICK amount \in RechargeAmounts : Recharge(amount)
      BY <2>2 DEF Credits
    <3>2. EntryMovesBalance(Step("RECHARGE", NoTask, amount, balance + amount))
      BY DEF EntryMovesBalance, Step
    <3> QED
      BY <3>1, <3>2, PostChains DEF Recharge
  <2>3. CASE Refunds
    <3> PICK t \in Tasks : Refund(t)
      BY <2>3 DEF Refunds
    <3>1. PICK i \in EntriesOf("DEDUCTION", t) :
             Post("REFUND", t, ledger[i].amount, balance + ledger[i].amount)
      BY DEF Refund
    <3>2. EntryMovesBalance(Step("REFUND", t, ledger[i].amount, balance + ledger[i].amount))
      BY DEF EntryMovesBalance, Step
    <3> QED
      BY <3>1, <3>2, PostChains
  <2>4. CASE Charges
    <3>1. PICK t \in Tasks, hold \in Hold : Deduct(t, hold)
      BY <2>4 DEF Charges
    <3>2. ChargeOf(hold) \in Nat /\ balance \in Nat
      BY <3>1, DeductBounds DEF Deduct, AccountTypeOK
    <3>3. EntryMovesBalance(Step("DEDUCTION", t, ChargeOf(hold), balance - ChargeOf(hold)))
      BY <3>2 DEF EntryMovesBalance, Step
    <3> QED
      BY <3>1, <3>3, PostChains DEF Deduct
  <2> QED
    BY MoneyMoves, <2>1, <2>2, <2>3, <2>4
<1> QED
  BY <1>1, <1>2, TypeCorrect, PTL DEF Spec

\* Which entries a posting adds to those of a type and task.
LEMMA PostEntries ==
  ASSUME AccountTypeOK, NEW type, NEW t, NEW amount, NEW after,
         Post(type, t, amount, after),
         NEW type2, NEW t2
  PROVE  EntriesOf(type2, t2)' =
            IF type2 = type /\ t2 = t THEN EntriesOf(type2, t2) \cup {Len(ledger) + 1}
                                     ELSE EntriesOf(type2, t2)
<1>1. ASSUME NEW i
      PROVE  i \in EntriesOf(type2, t2)' <=>
                \/ i \in EntriesOf(type2, t2)
                \/ i = Len(ledger) + 1 /\ type2 = type /\ t2 = t
  <2>1. CASE i \in DOMAIN ledger
    <3>1. i # Len(ledger) + 1 /\ i \in DOMAIN ledger'
      BY <2>1, PostAppends
    <3>2. ledger'[i] = ledger[i]
      BY <2>1, PostAppends
    <3> QED
      BY <2>1, <3>1, <3>2 DEF EntriesOf
  <2>2. CASE i = Len(ledger) + 1
    <3>1. i \notin DOMAIN ledger /\ i \in DOMAIN ledger'
      BY <2>2, PostAppends
    <3>2. ledger'[i].type = type /\ ledger'[i].task = t
      BY <2>2, PostAppends
    <3> QED
      BY <2>2, <3>1, <3>2 DEF EntriesOf
  <2>3. CASE i \notin DOMAIN ledger /\ i # Len(ledger) + 1
    BY <2>3, PostAppends DEF EntriesOf
  <2> QED
    BY <2>1, <2>2, <2>3
<1> QED
  BY <1>1

(***************************************************************************)
(* However many attempts believe they settle a task, the ledger holds one  *)
(* deduction for it exactly when its row is marked charged, of the amount  *)
(* the row shows.                                                          *)
(***************************************************************************)
THEOREM OneDeduction == Spec => []ChargeMatchesLedger
<1>1. Init => ChargeMatchesLedger
  <2>1. ASSUME Init, NEW t \in Tasks
        PROVE  ~(charged[t] > 0) /\ EntriesOf("DEDUCTION", t) = {}
    BY <2>1 DEF Init, AccountInit, EntriesOf
  <2> QED
    BY <2>1 DEF ChargeMatchesLedger, Recorded
<1>2. TypeOK /\ ChargeMatchesLedger /\ [Next]_vars => ChargeMatchesLedger'
  <2> SUFFICES ASSUME TypeOK, ChargeMatchesLedger, [Next]_vars PROVE ChargeMatchesLedger'
    OBVIOUS
  <2> AccountTypeOK
    BY DEF TypeOK
  <2>1. ASSUME UNCHANGED charged,
               \/ UNCHANGED ledger
               \/ \E type \in {"RECHARGE", "REFUND"} :
                     \E t, amount, after : Post(type, t, amount, after)
        PROVE  ChargeMatchesLedger'
    <3>1. ASSUME NEW t2 \in Tasks
          PROVE  /\ EntriesOf("DEDUCTION", t2)' = EntriesOf("DEDUCTION", t2)
                 /\ \A i \in EntriesOf("DEDUCTION", t2) : ledger'[i] = ledger[i]
      <4>1. CASE UNCHANGED ledger
        BY <4>1 DEF EntriesOf
      <4>2. ASSUME NEW type \in {"RECHARGE", "REFUND"}, NEW t, NEW amount, NEW after,
                   Post(type, t, amount, after)
            PROVE  /\ EntriesOf("DEDUCTION", t2)' = EntriesOf("DEDUCTION", t2)
                   /\ \A i \in DOMAIN ledger : ledger'[i] = ledger[i]
        BY <4>2, PostEntries, PostAppends
      <4> QED
        BY <2>1, <4>1, <4>2 DEF EntriesOf
    <3> QED
      BY <2>1, <3>1 DEF ChargeMatchesLedger, Recorded
  <2>2. CASE OnlyHoldsMove \/ Credits
    BY <2>1, <2>2 DEF OnlyHoldsMove, Credits, Recharge
  <2>3. CASE Refunds
    BY <2>1, <2>3 DEF Refunds, Refund
  <2>4. CASE Charges
    <3>1. PICK t \in Tasks, hold \in Hold :
             /\ charged[t] = 0
             /\ Deduct(t, hold)
             /\ charged' = [charged EXCEPT ![t] = ChargeOf(hold)]
      BY <2>4 DEF Charges
    <3>2. ChargeOf(hold) \in Nat \ {0}
      BY <3>1, DeductBounds DEF Deduct
    <3>3. Post("DEDUCTION", t, ChargeOf(hold), balance - ChargeOf(hold))
      BY <3>1 DEF Deduct
    <3>4. EntriesOf("DEDUCTION", t)' = {Len(ledger) + 1}
      BY <3>1, <3>3, PostEntries DEF Deduct, Recorded
    <3>5. ledger'[Len(ledger) + 1].amount = charged'[t] /\ charged'[t] > 0
      <4>1. charged'[t] = ChargeOf(hold)
        BY <3>1 DEF TypeOK
      <4>2. ledger'[Len(ledger) + 1].amount = ChargeOf(hold)
        BY <3>3, PostAppends
      <4> QED
        BY <3>2, <4>1, <4>2
    <3>6. ASSUME NEW t2 \in Tasks \ {t}
          PROVE  /\ EntriesOf("DEDUCTION", t2)' = EntriesOf("DEDUCTION", t2)
                 /\ charged'[t2] = charged[t2]
                 /\ \A i \in EntriesOf("DEDUCTION", t2) : ledger'[i] = ledger[i]
      <4>1. EntriesOf("DEDUCTION", t2)' = EntriesOf("DEDUCTION", t2)
        BY <3>3, PostEntries
      <4>2. charged'[t2] = charged[t2]
        BY <3>1 DEF TypeOK
      <4>3. \A i \in DOMAIN ledger : ledger'[i] = ledger[i]
        BY <3>3, PostAppends
      <4> QED
        BY <4>1, <4>2, <4>3 DEF EntriesOf
    <3> QED
      BY <3>4, <3>5, <3>6 DEF ChargeMatchesLedger, Recorded
  <2> QED
    BY MoneyMoves, <2>2, <2>3, <2>4
<1> QED
  BY <1>1, <1>2, TypeCorrect, PTL DEF Spec

(***************************************************************************)
(* A refund is of one earlier deduction of the same task, in full and only *)
(* once, whatever is posted in between.                                    *)
(***************************************************************************)
THEOREM OneRefund == Spec => []RefundMatchesDeduction
<1>1. Init => RefundMatchesDeduction
  BY DEF Init, AccountInit, RefundMatchesDeduction, EntriesOf
<1>2. TypeOK /\ RefundMatchesDeduction /\ [Next]_vars => RefundMatchesDeduction'
  <2> SUFFICES ASSUME TypeOK, RefundMatchesDeduction, [Next]_vars
               PROVE  RefundMatchesDeduction'
    OBVIOUS
  <2> AccountTypeOK
    BY DEF TypeOK
  \* A posting keeps the deductions that earlier refunds point to.
  <2>1. ASSUME NEW type, NEW t, NEW amount, NEW after, Post(type, t, amount, after),
               NEW t2 \in Tasks, EntriesOf("REFUND", t2)' = EntriesOf("REFUND", t2),
               NEW i \in EntriesOf("REFUND", t2), NEW j \in EntriesOf("REFUND", t2)
        PROVE  /\ i = j
               /\ \E k \in EntriesOf("DEDUCTION", t2)' :
                     k < i /\ ledger'[k].amount = ledger'[i].amount
    <3>1. PICK k \in EntriesOf("DEDUCTION", t2) : k < i /\ ledger[k].amount = ledger[i].amount
      BY DEF RefundMatchesDeduction
    <3>2. k \in EntriesOf("DEDUCTION", t2)'
      BY <2>1, PostEntries
    <3>3. ledger'[k] = ledger[k] /\ ledger'[i] = ledger[i]
      BY <2>1, PostAppends DEF EntriesOf
    <3> QED
      BY <3>1, <3>2, <3>3 DEF RefundMatchesDeduction
  <2>2. CASE OnlyHoldsMove
    BY <2>2 DEF OnlyHoldsMove, RefundMatchesDeduction, EntriesOf
  <2>3. CASE Credits
    <3>1. PICK amount \in RechargeAmounts :
             Post("RECHARGE", NoTask, amount, balance + amount)
      BY <2>3 DEF Credits, Recharge
    <3>2. \A t2 \in Tasks : EntriesOf("REFUND", t2)' = EntriesOf("REFUND", t2)
      BY <3>1, PostEntries
    <3> QED
      BY <2>1, <3>1, <3>2 DEF RefundMatchesDeduction
  <2>4. CASE Charges
    <3>1. PICK t, amount, after : Post("DEDUCTION", t, amount, after)
      BY <2>4 DEF Charges, Deduct
    <3>2. \A t2 \in Tasks : EntriesOf("REFUND", t2)' = EntriesOf("REFUND", t2)
      BY <3>1, PostEntries
    <3> QED
      BY <2>1, <3>1, <3>2 DEF RefundMatchesDeduction
  <2>5. CASE Refunds
    <3> PICK t \in Tasks : Refund(t)
      BY <2>5 DEF Refunds
    <3>1. PICK k \in EntriesOf("DEDUCTION", t) :
             Post("REFUND", t, ledger[k].amount, balance + ledger[k].amount)
      BY DEF Refund
    <3>2. \A t2 \in Tasks \ {t} : EntriesOf("REFUND", t2)' = EntriesOf("REFUND", t2)
      BY <3>1, PostEntries
    <3>3. EntriesOf("REFUND", t)' = {Len(ledger) + 1}
      BY <3>1, PostEntries DEF Refund, Recorded
    <3>4. k \in EntriesOf("DEDUCTION", t)' /\ k \in DOMAIN ledger
      BY <3>1, PostEntries DEF EntriesOf
    <3>5. k < Len(ledger) + 1 /\ ledger'[k].amount = ledger'[Len(ledger) + 1].amount
      <4>1. k \in 1..Len(ledger) /\ Len(ledger) \in Nat /\ ledger'[k] = ledger[k]
        BY <3>1, <3>4, PostAppends
      <4>2. ledger'[Len(ledger) + 1].amount = ledger[k].amount
        BY <3>1, PostAppends
      <4> QED
        BY <4>1, <4>2
    <3> QED
      BY <2>1, <3>1, <3>2, <3>3, <3>4, <3>5 DEF RefundMatchesDeduction
  <2> QED
    BY MoneyMoves, <2>2, <2>3, <2>4, <2>5
<1> QED
  BY <1>1, <1>2, TypeCorrect, PTL DEF Spec

-----------------------------------------------------------------------------
(* Results and charges. *)

\* The only way to SUCCESS is the commit that charges.
LEMMA SuccessBySettling ==
  ASSUME TypeOK, [Next]_vars, NEW t \in Tasks, status'[t] = "SUCCESS", status[t] # "SUCCESS"
  PROVE  \E a \in Attempts : Settle(a, t)
<1> USE DEF TypeOK, taskVars
<1>1. ASSUME NEW t2 \in Tasks, SubmitTask(t2) \/ ExpireLease(t2) \/ Recover(t2) PROVE FALSE
  BY <1>1 DEF SubmitTask, ExpireLease, Recover
<1>2. ASSUME AdminStep PROVE FALSE
  BY <1>2 DEF AdminStep, RetryRefused, RetryRead, RetryCommit, RefundTask, RechargeTenant,
              ChangeUnitPrice, ChangeTenantStatus
<1>3. ASSUME NEW a \in Attempts, AttemptStep(a) PROVE Settle(a, t)
  <2>1. ASSUME Raise(a) \/ SettleFails(a) \/ FailureRefused(a) \/ Cancel(a) \/ Crash(a)
        PROVE  FALSE
    BY <2>1 DEF Raise, SettleFails, FailureRefused, Cancel, Crash
  <2>2. ASSUME NEW t2 \in Tasks,
               \/ Deliver(a, t2) \/ Claim(a, t2) \/ CheckTenant(a, t2) \/ CheckLease(a, t2)
               \/ CheckFailure(a, t2) \/ GiveBack(a, t2) \/ MarkTimeout(a, t2)
        PROVE  FALSE
    BY <2>2 DEF Deliver, Claim, CheckTenant, CheckLease, CheckFailure, GiveBack, MarkTimeout
  <2>3. ASSUME NEW t2 \in Tasks, RecordFailure(a, t2) PROVE FALSE
    BY <2>3 DEF RecordFailure, FailSeenBy
  <2>4. ASSUME NEW t2 \in Tasks, Settle(a, t2) PROVE t2 = t
    BY <2>4 DEF Settle
  <2> QED
    BY <1>3, <2>1, <2>2, <2>3, <2>4 DEF AttemptStep
<1>4. ASSUME UNCHANGED vars PROVE FALSE
  BY <1>4 DEF vars
<1> QED
  BY <1>1, <1>2, <1>3, <1>4 DEF Next

LEMMA ChargeIsKept ==
  ASSUME TypeOK, [Next]_vars, NEW t \in Tasks, charged[t] > 0
  PROVE  charged'[t] = charged[t]
<1>1. CASE OnlyHoldsMove \/ Credits \/ Refunds
  BY <1>1 DEF OnlyHoldsMove, Credits, Refunds
<1>2. CASE Charges
  BY <1>2 DEF Charges, TypeOK
<1> QED
  BY <1>1, <1>2, MoneyMoves

(***************************************************************************)
(* Nobody gets a result that was not paid for, in any interleaving of      *)
(* attempts, retries and refused charges.                                  *)
(***************************************************************************)
THEOREM ResultsArePaid == Spec => []SuccessIsCharged
<1>1. Init => SuccessIsCharged
  BY DEF Init, SuccessIsCharged
<1>2. TypeOK /\ SuccessIsCharged /\ [Next]_vars => SuccessIsCharged'
  <2> SUFFICES ASSUME TypeOK, SuccessIsCharged, [Next]_vars,
                      NEW t \in Tasks, status'[t] = "SUCCESS"
               PROVE  charged'[t] > 0
    BY DEF SuccessIsCharged
  <2>1. CASE status[t] = "SUCCESS"
    BY <2>1, ChargeIsKept DEF SuccessIsCharged
  <2>2. CASE status[t] # "SUCCESS"
    <3>1. PICK a \in Attempts : Settle(a, t)
      BY <2>2, SuccessBySettling
    <3>2. seen[a].held \in Hold /\ AccountTypeOK
      BY DEF TypeOK, Row, Sessions
    <3>3. ChargeOf(seen[a].held) \in Nat \ {0}
      BY <3>1, <3>2, DeductBounds DEF Settle, Deduct
    <3>4. charged'[t] = ChargeOf(seen[a].held)
      BY <3>1 DEF Settle, TypeOK
    <3> QED
      BY <3>3, <3>4
  <2> QED
    BY <2>1, <2>2
<1> QED
  BY <1>1, <1>2, TypeCorrect, PTL DEF Spec

-----------------------------------------------------------------------------
(***************************************************************************)
(* TaskSettlement implements BillingPromise: a step of the former either   *)
(* leaves funds, paid and refunded alone or is one credit, one charge of   *)
(* an unpaid task at a set price, or one full refund of a paid one.        *)
(***************************************************************************)
THEOREM KeepsPromise == Spec => BillingPromised
<1>1. Init => Promise!Init
  BY DEF Init, AccountInit, Promise!Init, Recorded, EntriesOf
<1>2. TypeOK /\ ChargeMatchesLedger /\ [Next]_vars => [Promise!Next]_(Promise!vars)
  <2> SUFFICES ASSUME TypeOK, ChargeMatchesLedger, [Next]_vars
               PROVE  [Promise!Next]_(Promise!vars)
    OBVIOUS
  <2> AccountTypeOK
    BY DEF TypeOK
  <2> DEFINE refunded == {t \in Tasks : Recorded("REFUND", t)}
  <2>1. CASE OnlyHoldsMove
    BY <2>1 DEF OnlyHoldsMove, Promise!vars, Recorded, EntriesOf
  <2>2. CASE Credits
    <3>1. PICK amount \in RechargeAmounts : Recharge(amount)
      BY <2>2 DEF Credits
    <3>2. refunded' = refunded
      BY <3>1, PostEntries DEF Recharge, Recorded
    <3>3. Promise!Credit(amount)
      BY <2>2, <3>1, <3>2 DEF Credits, Recharge, Post, Promise!Credit
    <3> QED
      BY <3>3 DEF Promise!Next
  <2>3. CASE Charges
    <3>1. PICK t \in Tasks, hold \in Hold :
             /\ charged[t] = 0
             /\ Deduct(t, hold)
             /\ charged' = [charged EXCEPT ![t] = ChargeOf(hold)]
      BY <2>3 DEF Charges
    <3>2. refunded' = refunded
      BY <3>1, PostEntries DEF Deduct, Recorded
    <3>3. /\ ChargeOf(hold) \in Prices /\ ChargeOf(hold) \in Nat
          /\ balance - ChargeOf(hold) \in Nat /\ balance \in Nat
      BY <3>1, DeductBounds DEF Deduct, AccountTypeOK
    <3>4. Promise!Charge(t, ChargeOf(hold))
      BY <3>1, <3>2, <3>3 DEF Deduct, Post, Promise!Charge
    <3> QED
      BY <3>3, <3>4 DEF Promise!Next
  <2>4. CASE Refunds
    <3>1. PICK t \in Tasks : charged[t] > 0 /\ Refund(t) /\ UNCHANGED charged
      BY <2>4 DEF Refunds
    <3>2. PICK i \in EntriesOf("DEDUCTION", t) :
             Post("REFUND", t, ledger[i].amount, balance + ledger[i].amount)
      BY <3>1 DEF Refund
    <3>3. ledger[i].amount = charged[t]
      BY DEF ChargeMatchesLedger
    <3>4. refunded' = refunded \cup {t}
      BY <3>2, PostEntries DEF Recorded
    <3>5. t \notin refunded
      BY <3>1 DEF Refund
    <3>6. Promise!GiveBack(t)
      BY <3>1, <3>2, <3>3, <3>4, <3>5 DEF Post, Promise!GiveBack
    <3> QED
      BY <3>6 DEF Promise!Next
  <2> QED
    BY MoneyMoves, <2>1, <2>2, <2>3, <2>4
<1> QED
  BY <1>1, <1>2, TypeCorrect, OneDeduction, PTL DEF Spec, BillingPromised, Promise!Spec
=============================================================================
