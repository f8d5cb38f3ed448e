--------------------------- MODULE BillingPromise --------------------------
(***************************************************************************)
(* What the billing of one tenant promises, without holds, leases, workers *)
(* or a ledger: money enters the account by recharges, leaves it as one    *)
(* charge per task at a price the administrator has set, never more than   *)
(* there is, and comes back as one full refund of a charged task.          *)
(* (docs/01_PRD_Product_Requirements_Document.md, 3.4.)                    *)
(***************************************************************************)
EXTENDS Integers

CONSTANTS Tasks, Prices, RechargeAmounts, MaxBalance, InitBalance

VARIABLES
    funds,    \* what the tenant has
    paid,     \* what each task has cost, 0 while it has cost nothing
    refunded  \* the tasks whose cost was given back

vars == <<funds, paid, refunded>>

Init ==
    /\ funds = InitBalance
    /\ paid = [t \in Tasks |-> 0]
    /\ refunded = {}

Credit(amount) ==
    /\ funds + amount <= MaxBalance
    /\ funds' = funds + amount
    /\ UNCHANGED <<paid, refunded>>

Charge(t, price) ==
    /\ paid[t] = 0
    /\ price <= funds
    /\ funds' = funds - price
    /\ paid' = [paid EXCEPT ![t] = price]
    /\ UNCHANGED refunded

GiveBack(t) ==
    /\ paid[t] > 0
    /\ t \notin refunded
    /\ funds' = funds + paid[t]
    /\ refunded' = refunded \cup {t}
    /\ UNCHANGED paid

Next ==
    \/ \E amount \in RechargeAmounts : Credit(amount)
    \/ \E t \in Tasks, price \in Prices : Charge(t, price)
    \/ \E t \in Tasks : GiveBack(t)

Spec == Init /\ [][Next]_vars
=============================================================================
