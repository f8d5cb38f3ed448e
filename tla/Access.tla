------------------------------- MODULE Access -------------------------------
(***************************************************************************)
(* Who may call: tenants, their keys, one client's session token with its  *)
(* sliding renewal, and the window that limits this client's logins.       *)
(* Secrets, signatures and hashes are abstracted to what they identify.    *)
(***************************************************************************)
EXTENDS Naturals, FiniteSets

CONSTANTS
    Tenants,
    Keys,
    Admin,          \* the subject of an administrator's token
    Nobody,
    TokenTTL,       \* settings.AUTH_TOKEN_TTL_SECONDS, in ticks
    Window, Limit   \* TENANT_LOGIN_RATE_LIMIT_WINDOW_SECONDS, .._ATTEMPTS

AccessConstants ==
    /\ Admin \notin Tenants /\ Nobody \notin Tenants \cup {Admin} /\ Admin # Nobody
    /\ TokenTTL \in Nat \ {0} /\ Window \in Nat \ {0} /\ Limit \in Nat \ {0}

VARIABLES
    active,     \* tenants.is_active
    owner,      \* whose key it is; Nobody before it exists and once it is deleted
    token,      \* what the client holds: whose it is, how old, and its lifetime
    idle,       \* time since the client's last login or successful call
    attempts    \* the counter in Redis and the time it has left

accessVars == <<active, owner, token, idle, attempts>>

NoToken == [of |-> Nobody, age |-> 0, ttl |-> TokenTTL]
NoAttempts == [count |-> 0, left |-> 0]

AccessTypeOK ==
    /\ active \in [Tenants -> BOOLEAN]
    /\ owner \in [Keys -> Tenants \cup {Nobody}]
    /\ token \in [of : Tenants \cup {Admin, Nobody}, age : 0..TokenTTL, ttl : 0..TokenTTL]
    /\ idle \in 0..TokenTTL
    /\ attempts \in [count : 0..(Limit + 1), left : 0..Window]

AccessInit ==
    /\ active = [t \in Tenants |-> FALSE]
    /\ owner = [k \in Keys |-> Nobody]
    /\ token = NoToken /\ idle = 0
    /\ attempts = NoAttempts

-----------------------------------------------------------------------------
(* Administrators switch tenants and hand out keys; a key is deleted, never *)
(* switched off.                                                           *)

KeysOf(t) == {k \in Keys : owner[k] = t}

SetActive(t) ==
    /\ active' = [active EXCEPT ![t] = ~@]
    /\ UNCHANGED <<owner, token, idle, attempts>>

CreateKey(t, k) ==
    /\ owner[k] = Nobody
    /\ owner' = [owner EXCEPT ![k] = t]
    /\ UNCHANGED <<active, token, idle, attempts>>

RevokeKey(k) ==
    /\ owner[k] # Nobody
    /\ owner' = [owner EXCEPT ![k] = Nobody]
    /\ UNCHANGED <<active, token, idle, attempts>>

-----------------------------------------------------------------------------
(* Logins.  INCR and EXPIRE NX are one Redis transaction, made before the  *)
(* handler runs; the count saturates just above the limit.                 *)

Least(a, b) == IF a < b THEN a ELSE b

\* Mutant: EXPIRE without NX.
CountedRenewing == [count |-> Least(attempts.count + 1, Limit + 1), left |-> Window]

Counted ==
    [count |-> Least(attempts.count + 1, Limit + 1),
     left |-> IF attempts.left = 0 THEN Window ELSE attempts.left]

Allowed == attempts'.count <= Limit

Issue(subject, ttl) == token' = [of |-> subject, age |-> 0, ttl |-> ttl] /\ idle' = 0

\* Too many attempts, or wrong credentials
LoginRefused ==
    /\ attempts' = Counted
    /\ UNCHANGED <<active, owner, token, idle>>

\* With a key of an active tenant, or its e-mail address and password; the
\* latter needs no key.
Login(t) ==
    /\ attempts' = Counted /\ Allowed
    /\ active[t]
    /\ Issue(t, TokenTTL)
    /\ UNCHANGED <<active, owner>>

\* admin_login, with a window of its own
AdminLogin ==
    /\ Issue(Admin, TokenTTL)
    /\ UNCHANGED <<active, owner, attempts>>

-----------------------------------------------------------------------------
(* Calls with the token                                                    *)

Valid == token.of # Nobody /\ token.age < token.ttl

\* get_current_tenant_and_key and verify_admin_access: whom the call acts for; an
\* administrator acts for any active tenant, or for none.
ActsFor ==
    IF ~Valid THEN {}
    ELSE IF token.of = Admin THEN {t \in Tenants : active[t]} \cup {Admin}
    ELSE {t \in Tenants : t = token.of /\ active[t] /\ KeysOf(t) # {}}

\* Mutant: the renewed token gets the time that the old one had left.
RenewForRemainder ==
    IF 100 * token.age > 15 * token.ttl
    THEN Issue(token.of, token.ttl - token.age)
    ELSE idle' = 0 /\ UNCHANGED token

\* handle_sliding_session_renewal; the client replaces its token.
Renew ==
    IF 100 * token.age > 15 * token.ttl
    THEN Issue(token.of, token.ttl)
    ELSE idle' = 0 /\ UNCHANGED token

CallSucceeds ==
    /\ ActsFor # {}
    /\ Renew
    /\ UNCHANGED <<active, owner, attempts>>

\* generate_my_api_key
CreateOwnKey(k) ==
    /\ owner[k] = Nobody
    /\ \E t \in ActsFor \ {Admin} : owner' = [owner EXCEPT ![k] = t]
    /\ Renew
    /\ UNCHANGED <<active, attempts>>

\* 401: the client forgets its token and goes to the login page.
CallRefused ==
    /\ token.of # Nobody /\ ActsFor = {}
    /\ token' = NoToken /\ idle' = 0
    /\ UNCHANGED <<active, owner, attempts>>

Logout ==
    /\ token.of # Nobody
    /\ token' = NoToken /\ idle' = 0
    /\ UNCHANGED <<active, owner, attempts>>

-----------------------------------------------------------------------------
\* Time passes; Redis drops an expired counter.
Tick ==
    /\ token' = [token EXCEPT !.age = IF token.of = Nobody THEN 0 ELSE Least(@ + 1, token.ttl)]
    /\ idle' = IF token.of = Nobody THEN 0 ELSE Least(idle + 1, TokenTTL)
    /\ attempts' = IF attempts.left <= 1 THEN NoAttempts ELSE [attempts EXCEPT !.left = @ - 1]
    /\ UNCHANGED <<active, owner>>

AccessNext ==
    \/ \E t \in Tenants : SetActive(t) \/ Login(t) \/ \E k \in Keys : CreateKey(t, k)
    \/ \E k \in Keys : RevokeKey(k) \/ CreateOwnKey(k)
    \/ LoginRefused \/ AdminLogin \/ CallSucceeds \/ CallRefused \/ Logout
    \/ Tick

AccessSpec == AccessInit /\ [][AccessNext]_accessVars /\ WF_accessVars(Tick)

-----------------------------------------------------------------------------
(***************************************************************************)
(* Whoever made a successful call within 85 % of a token's lifetime is     *)
(* still logged in, however long ago the login was and however many        *)
(* renewals lie between: the renewals do not wear the session down.        *)
(***************************************************************************)
SessionOutlivesIdle ==
    token.of # Nobody /\ 100 * idle < 85 * TokenTTL => Valid

\* A client that is shut out by the limit is let in again, even if it goes on trying
\* all the time.
WindowEnds == attempts.count > Limit ~> attempts.count = 0
=============================================================================
