----------------------------- MODULE Onboarding -----------------------------
(***************************************************************************)
(* Tenants come into being: register_tenant (self-service) and             *)
(* create_tenant (administrators).  Either handler looks for the name and  *)
(* the address, then commits the tenant, its first key and its first       *)
(* credit one after the other.  A tenant is known by its request.          *)
(***************************************************************************)
EXTENDS Naturals, FiniteSets

CONSTANTS
    Openings,
    Names,
    Emails, NoEmail,    \* an administrator may leave the address out
    MaxKills            \* bound of the model: killed requests

OnboardingConstants == NoEmail \notin Emails /\ MaxKills \in Nat

VARIABLES
    asks,       \* what a request asks for
    stage,
    tenant,     \* what is saved for it: "none", "saved", "keyed", "credited"
    approved,   \* is_active
    kills

onboardingVars == <<asks, stage, tenant, approved, kills>>

Ask == [by : {"customer"}, name : Names, email : Emails]
       \cup [by : {"admin"}, name : Names, email : Emails \cup {NoEmail}]

OnboardingTypeOK ==
    /\ asks \in [Openings -> Ask]
    /\ stage \in [Openings -> {"look-up", "save", "key", "credit", "opened", "refused", "killed"}]
    /\ tenant \in [Openings -> {"none", "saved", "keyed", "credited"}]
    /\ approved \in [Openings -> BOOLEAN]
    /\ kills \in 0..MaxKills

OnboardingInit ==
    /\ asks \in [Openings -> Ask]
    /\ stage = [r \in Openings |-> "look-up"]
    /\ tenant = [r \in Openings |-> "none"]
    /\ approved = [r \in Openings |-> FALSE]
    /\ kills = 0

-----------------------------------------------------------------------------
Enter(r, label) == stage' = [stage EXCEPT ![r] = label]
Saved == {r \in Openings : tenant[r] # "none"}
SameName(r) == {s \in Saved : asks[s].name = asks[r].name}
SameEmail(r) == {s \in Saved : asks[s].email = asks[r].email /\ asks[r].email # NoEmail}

LookUp(r) ==
    /\ stage[r] = "look-up"
    /\ Enter(r, IF SameName(r) = {} /\ SameEmail(r) = {} THEN "save" ELSE "refused")
    /\ UNCHANGED <<asks, tenant, approved, kills>>

\* Mutant: the column is not unique.
SaveAnyTenant(r) ==
    /\ stage[r] = "save"
    /\ tenant' = [tenant EXCEPT ![r] = "saved"]
    /\ approved' = [approved EXCEPT ![r] = (asks[r].by = "admin")]
    /\ Enter(r, "key")
    /\ UNCHANGED <<asks, kills>>

\* The address is unique in the database, the name is not.
SaveTenant(r) ==
    /\ stage[r] = "save" /\ SameEmail(r) = {}
    /\ tenant' = [tenant EXCEPT ![r] = "saved"]
    /\ approved' = [approved EXCEPT ![r] = (asks[r].by = "admin")]
    /\ Enter(r, "key")
    /\ UNCHANGED <<asks, kills>>

SaveConflicts(r) ==
    /\ stage[r] = "save" /\ SameEmail(r) # {}
    /\ Enter(r, "refused")
    /\ UNCHANGED <<asks, tenant, approved, kills>>

SaveKey(r) ==
    /\ stage[r] = "key"
    /\ tenant' = [tenant EXCEPT ![r] = "keyed"]
    /\ Enter(r, "credit")
    /\ UNCHANGED <<asks, approved, kills>>

\* The trial credit, or the initial balance, if an administrator gives one
Credit(r) ==
    /\ stage[r] = "credit"
    /\ \/ tenant' = [tenant EXCEPT ![r] = "credited"]
       \/ asks[r].by = "admin" /\ UNCHANGED tenant
    /\ Enter(r, "opened")
    /\ UNCHANGED <<asks, approved, kills>>

\* The process dies, or a commit fails: what is saved stays, and the customer
\* cannot register once more.
RequestKilled(r) ==
    /\ stage[r] \in {"look-up", "save", "key", "credit"} /\ kills < MaxKills
    /\ kills' = kills + 1
    /\ Enter(r, "killed")
    /\ UNCHANGED <<asks, tenant, approved>>

\* update_tenant and update_tenant_status
SwitchTenant(r) ==
    /\ tenant[r] # "none"
    /\ approved' = [approved EXCEPT ![r] = ~@]
    /\ UNCHANGED <<asks, stage, tenant, kills>>

\* update_tenant looks for the new name and saves it.
Rename(r, name) ==
    /\ tenant[r] # "none" /\ name # asks[r].name
    /\ \A s \in Saved : asks[s].name # name
    /\ asks' = [asks EXCEPT ![r].name = name]
    /\ UNCHANGED <<stage, tenant, approved, kills>>

OnboardingNext ==
    \E r \in Openings :
        \/ LookUp(r) \/ SaveTenant(r) \/ SaveConflicts(r) \/ SaveKey(r) \/ Credit(r) \/ RequestKilled(r)
        \/ SwitchTenant(r) \/ \E name \in Names : Rename(r, name)

OnboardingSpec == OnboardingInit /\ [][OnboardingNext]_onboardingVars

-----------------------------------------------------------------------------
(***************************************************************************)
(* No address gets the trial credit twice, however registrations of it     *)
(* interleave, fail half way and are repeated, under one name or several;  *)
(* and who is told that the account is open has a tenant, a key and, after *)
(* a registration, the credit.                                             *)
(***************************************************************************)
OneTrialPerEmail ==
    /\ \A r, s \in Openings :
          /\ {r, s} \subseteq Saved /\ asks[r].email = asks[s].email /\ asks[r].email # NoEmail
          => r = s
    /\ \A r \in Openings : stage[r] = "opened" =>
          tenant[r] \in (IF asks[r].by = "customer" THEN {"credited"} ELSE {"keyed", "credited"})
=============================================================================
