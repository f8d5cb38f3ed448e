--------------------------- MODULE Requests_proofs ---------------------------
(***************************************************************************)
(* What a customer may rely on, for any number of requests and any         *)
(* lifetimes: one task for one key, a hold for every open task and for no  *)
(* other, and files where the tasks are; one tenant, and so one trial      *)
(* credit, for an address; a session that use does not wear down.          *)
(***************************************************************************)
EXTENDS Submission, Onboarding, Access, FiniteSetTheorems, TLAPS

-----------------------------------------------------------------------------
(* Submission *)

SubmissionTypes ==
    /\ kind \in [Requests -> Kinds] /\ keyed \in [Requests -> BOOLEAN]
    /\ pc \in [Requests -> PC] /\ answer \in [Requests -> Answer]
    /\ target \in [Requests -> Requests \cup {NoTask}]
    /\ files \in [Requests -> BOOLEAN]
    /\ task \in [Requests -> {"none", "open", "closed"}]
    /\ reserved \in Int

\* The unique index: one row for the key.
OneRow ==
    \A r, s \in Requests :
        keyed[r] /\ keyed[s] /\ task[r] # "none" /\ task[s] # "none" => r = s

\* A request that goes on with a task has created it or found it by the key.
HasTarget(r) ==
    /\ pc[r] \in {"enqueue", "waiting"} \/ Told(r) => target[r] # NoTask
    /\ target[r] # NoTask => task[target[r]] # "none" /\ (keyed[r] => keyed[target[r]])

\* What a request has done when it is at a place of its handler.
Place(r) ==
    /\ pc[r] \in {"lookup", "capacity", "saving", "insert", "conflict"} => task[r] = "none"
    /\ pc[r] \in {"lookup", "capacity", "conflict"} => ~files[r]
    /\ pc[r] = "saving" => kind[r] = "upload"
    /\ pc[r] = "waiting" => kind[r] = "sync"
    /\ pc[r] # "done" => answer[r] = "none"
    /\ kind[r] = "upload" => /\ pc[r] = "insert" => files[r]
                             /\ pc[r] = "enqueue" => task[r] # "none"

FilesOf(r) ==
    kind[r] = "upload" =>
        /\ task[r] # "none" /\ answer[r] # "error" => files[r]
        /\ pc[r] = "done" /\ task[r] = "none" /\ answer[r] # "killed" => ~files[r]

Control == \A r \in Requests : HasTarget(r) /\ Place(r) /\ FilesOf(r)

SubmissionIInv == SubmissionTypes /\ OneRow /\ Control /\ HoldPerOpenTask

-----------------------------------------------------------------------------
LEMMA SubmissionInitInvariant ==
  ASSUME SubmissionInit
  PROVE  SubmissionIInv
<1>1. SubmissionTypes
  BY DEF SubmissionInit, SubmissionTypes, Kinds, PC, Answer
<1>2. OneRow /\ Control
  BY DEF SubmissionInit, OneRow, Control, HasTarget, Place, FilesOf, Told
<1>3. OpenTasks = {} /\ reserved = 0
  BY DEF SubmissionInit, OpenTasks
<1>4. HoldPerOpenTask
  BY <1>3, FS_EmptySet DEF HoldPerOpenTask
<1> QED
  BY <1>1, <1>2, <1>4 DEF SubmissionIInv

(***************************************************************************)
(* Steps of a request that write no row.                                   *)
(***************************************************************************)
LEMMA AdoptedIsRow ==
  ASSUME SubmissionConstants, SubmissionIInv, NEW r \in Requests, NEW t \in Existing(r)
  PROVE  t \in Requests /\ task[t] # "none" /\ keyed[t] /\ t # NoTask
  BY DEF Existing, SubmissionIInv, SubmissionTypes, SubmissionConstants

LEMMA RequestKeepsTypes ==
  ASSUME SubmissionIInv, NEW r \in Requests, Handle(r), UNCHANGED task
  PROVE  SubmissionTypes'
<1> USE DEF SubmissionIInv, SubmissionTypes, PC, Answer, Goto, Finish, Unlink, Adopt, requestVars
<1>1. CASE Lookup(r) \/ ResolveConflict(r)
  <2>1. \A t \in Existing(r) : t \in Requests
    BY DEF Existing
  <2>2. CASE Lookup(r)
    BY <2>1, <2>2 DEF Lookup
  <2>3. CASE ResolveConflict(r)
    BY <2>1, <2>3 DEF ResolveConflict
  <2> QED
    BY <1>1, <2>2, <2>3
<1>2. CASE EnforceCapacity(r) \/ RefuseInput(r) \/ WriteFile(r) \/ SavingFails(r) \/ FilesSaved(r)
  BY <1>2 DEF EnforceCapacity, RefuseInput, WriteFile, SavingFails, FilesSaved
<1>3. CASE ReservationFails(r) \/ InsertConflicts(r) \/ InsertFails(r) \/ RefreshFails(r)
  BY <1>3 DEF ReservationFails, InsertConflicts, InsertFails, RefreshFails
<1>4. CASE Enqueue(r) \/ EnqueueFails(r) \/ Wait(r) \/ Killed(r)
  BY <1>4 DEF Enqueue, EnqueueFails, Wait, Killed
<1>5. CASE Insert(r)
  BY <1>5 DEF Insert
<1> QED
  BY <1>1, <1>2, <1>3, <1>4, <1>5 DEF Handle

LEMMA OthersStay ==
  ASSUME SubmissionIInv, NEW r \in Requests, Handle(r), UNCHANGED task,
         HasTarget(r)' /\ Place(r)' /\ FilesOf(r)'
  PROVE  OneRow' /\ Control'
<1>1. UNCHANGED <<kind, keyed>>
  BY DEF Handle, Lookup, ResolveConflict, EnforceCapacity, RefuseInput, WriteFile, SavingFails,
         FilesSaved, ReservationFails, InsertConflicts, InsertFails, RefreshFails, Enqueue,
         EnqueueFails, Wait, Killed, Insert
<1>2. ASSUME NEW s \in Requests \ {r}
      PROVE  /\ pc'[s] = pc[s] /\ answer'[s] = answer[s]
             /\ target'[s] = target[s] /\ files'[s] = files[s]
  BY <1>2 DEF SubmissionIInv, SubmissionTypes, Handle, Goto, Finish, Unlink, Adopt, requestVars,
         Lookup, ResolveConflict, EnforceCapacity, RefuseInput, WriteFile, SavingFails,
         FilesSaved, ReservationFails, InsertConflicts, InsertFails, RefreshFails, Enqueue,
         EnqueueFails, Wait, Killed, Insert
<1>3. ASSUME NEW s \in Requests \ {r}
      PROVE  HasTarget(s)' /\ Place(s)' /\ FilesOf(s)'
  BY <1>1, <1>2 DEF SubmissionIInv, Control, HasTarget, Place, FilesOf, Told
<1>4. OneRow'
  BY <1>1 DEF SubmissionIInv, OneRow
<1> QED
  BY <1>3, <1>4 DEF Control

LEMMA RequestKeepsPlace ==
  ASSUME SubmissionConstants, SubmissionIInv, NEW r \in Requests, Handle(r), UNCHANGED task
  PROVE  HasTarget(r)' /\ Place(r)' /\ FilesOf(r)'
<1> USE DEF SubmissionIInv, SubmissionTypes, Goto, Finish, Unlink, requestVars, Control, HasTarget, Place, FilesOf, Told
<1>1. CASE \E t \in Existing(r) : Adopt(r, t) /\ UNCHANGED <<kind, keyed, files>> /\ pc[r] \in {"lookup", "conflict"}
  <2>1. PICK t \in Existing(r) : /\ Adopt(r, t) /\ UNCHANGED <<kind, keyed, files>>
                                 /\ pc[r] \in {"lookup", "conflict"}
    BY <1>1
  <2>2. t \in Requests /\ task[t] # "none" /\ keyed[t] /\ t # NoTask
    BY AdoptedIsRow
  <2>3. target'[r] = t /\ HasTarget(r)'
    BY <2>1, <2>2 DEF Adopt
  <2>4. CASE kind[r] = "sync"
    BY <2>1, <2>3, <2>4 DEF Adopt
  <2>5. CASE kind[r] # "sync"
    BY <2>1, <2>3, <2>5 DEF Adopt
  <2> QED
    BY <2>4, <2>5
<1>2. CASE Lookup(r) \/ ResolveConflict(r)
  <2>1. CASE Existing(r) = {} /\ Lookup(r)
    BY <2>1 DEF Lookup
  <2>2. CASE kind[r] # "upload" /\ Finish(r, "error") /\ UNCHANGED <<target, kind, keyed, files>> /\ ResolveConflict(r)
    BY <2>2 DEF ResolveConflict
  <2> QED
    BY <1>1, <1>2, <2>1, <2>2 DEF Lookup, ResolveConflict
<1>3. CASE EnforceCapacity(r)
  BY <1>3 DEF EnforceCapacity
<1>4. CASE RefuseInput(r) \/ WriteFile(r)
  BY <1>4 DEF RefuseInput, WriteFile
<1>5. CASE SavingFails(r) \/ FilesSaved(r)
  BY <1>5 DEF SavingFails, FilesSaved
<1>6. CASE ReservationFails(r) \/ InsertConflicts(r) \/ InsertFails(r)
  BY <1>6 DEF ReservationFails, InsertConflicts, InsertFails
<1>7. CASE RefreshFails(r)
  BY <1>7 DEF RefreshFails
<1>8. CASE Enqueue(r) \/ EnqueueFails(r)
  BY <1>8 DEF Enqueue, EnqueueFails
<1>9. CASE Wait(r)
  BY <1>9 DEF Wait
<1>10. CASE Killed(r)
  BY <1>10 DEF Killed
<1>11. CASE Insert(r)
  BY <1>11 DEF Insert
<1> QED
  BY <1>2, <1>3, <1>4, <1>5, <1>6, <1>7, <1>8, <1>9, <1>10, <1>11 DEF Handle

LEMMA RequestKeepsHolds ==
  ASSUME SubmissionIInv, NEW r \in Requests, Handle(r), UNCHANGED task
  PROVE  HoldPerOpenTask'
<1>1. reserved' = reserved \/ Insert(r)
  BY DEF Handle, Lookup, ResolveConflict, EnforceCapacity, RefuseInput, WriteFile, SavingFails,
         FilesSaved, ReservationFails, InsertConflicts, InsertFails, RefreshFails, Enqueue,
         EnqueueFails, Wait, Killed
<1>2. ~Insert(r)
  BY DEF Insert, SubmissionIInv, SubmissionTypes, Control, Place
<1>3. OpenTasks' = OpenTasks
  BY DEF OpenTasks
<1> QED
  BY <1>1, <1>2, <1>3 DEF SubmissionIInv, HoldPerOpenTask

-----------------------------------------------------------------------------
(* The two steps that write a row. *)

LEMMA InsertKeepsInvariant ==
  ASSUME SubmissionConstants, SubmissionIInv, NEW r \in Requests, Insert(r)
  PROVE  SubmissionIInv'
<1> USE DEF SubmissionIInv, SubmissionTypes, Goto
<1>1. /\ pc[r] = "insert" /\ task[r] = "none" /\ r # NoTask
      /\ task' = [task EXCEPT ![r] = "open"] /\ pc' = [pc EXCEPT ![r] = "enqueue"]
      /\ target' = [target EXCEPT ![r] = r] /\ reserved' = reserved + 1
      /\ UNCHANGED <<kind, keyed, answer, files>>
  BY DEF Insert, Control, Place, SubmissionConstants
<1>2. SubmissionTypes'
  BY <1>1 DEF PC
<1>3. OneRow'
  <2>1. \A s \in Requests : keyed[s] /\ task[s] # "none" => ~keyed[r]
    BY DEF Insert, Existing
  <2> QED
    BY <1>1, <2>1 DEF OneRow
<1>4. ASSUME NEW s \in Requests
      PROVE  HasTarget(s)' /\ Place(s)' /\ FilesOf(s)'
  <2>1. HasTarget(s) /\ Place(s) /\ FilesOf(s)
    BY DEF Control
  <2>2. CASE s = r
    BY <1>1, <2>1, <2>2 DEF HasTarget, Place, FilesOf, Told
  <2>3. CASE s # r
    BY <1>1, <2>1, <2>3 DEF HasTarget, Place, FilesOf, Told
  <2> QED
    BY <2>2, <2>3
<1>5. HoldPerOpenTask'
  <2>1. OpenTasks' = OpenTasks \cup {r} /\ r \notin OpenTasks
    BY <1>1 DEF OpenTasks
  <2>2. IsFiniteSet(OpenTasks)
    BY FS_Subset DEF OpenTasks, SubmissionConstants
  <2>3. Cardinality(OpenTasks \cup {r}) = Cardinality(OpenTasks) + 1
    BY <2>1, <2>2, FS_AddElement
  <2> QED
    BY <1>1, <2>1, <2>3 DEF HoldPerOpenTask
<1> QED
  BY <1>2, <1>3, <1>4, <1>5 DEF Control

LEMMA SettleKeepsInvariant ==
  ASSUME SubmissionConstants, SubmissionIInv, NEW t \in Requests, NEW success \in BOOLEAN, Settle(t, success)
  PROVE  SubmissionIInv'
<1> USE DEF SubmissionIInv, SubmissionTypes
<1>1. /\ task[t] = "open" /\ task' = [task EXCEPT ![t] = "closed"] /\ reserved' = reserved - 1
      /\ UNCHANGED <<kind, keyed, pc, target, answer, files>>
  BY DEF Settle, requestVars
<1>2. SubmissionTypes'
  BY <1>1
<1>3. \A s \in Requests : task'[s] = "none" <=> task[s] = "none"
  BY <1>1
<1>4. OneRow'
  BY <1>1, <1>3 DEF OneRow
<1>5. ASSUME NEW s \in Requests
      PROVE  HasTarget(s)' /\ Place(s)' /\ FilesOf(s)'
  BY <1>1, <1>3 DEF Control, HasTarget, Place, FilesOf, Told
<1>6. HoldPerOpenTask'
  <2>1. OpenTasks' = OpenTasks \ {t} /\ t \in OpenTasks
    BY <1>1 DEF OpenTasks
  <2>2. IsFiniteSet(OpenTasks)
    BY FS_Subset DEF OpenTasks, SubmissionConstants
  <2>3. Cardinality(OpenTasks \ {t}) = Cardinality(OpenTasks) - 1
    BY <2>1, <2>2, FS_RemoveElement
  <2> QED
    BY <1>1, <2>1, <2>3 DEF HoldPerOpenTask
<1> QED
  BY <1>2, <1>4, <1>5, <1>6 DEF Control

LEMMA StutterKeepsInvariant ==
  ASSUME SubmissionIInv, UNCHANGED submissionVars
  PROVE  SubmissionIInv'
<1> USE DEF submissionVars, requestVars, SubmissionIInv
<1>1. SubmissionTypes' /\ OneRow'
  BY DEF SubmissionTypes, OneRow
<1>2. Control'
  BY DEF Control, HasTarget, Place, FilesOf, Told
<1>3. HoldPerOpenTask'
  BY DEF HoldPerOpenTask, OpenTasks
<1> QED
  BY <1>1, <1>2, <1>3

LEMMA NextKeepsInvariant ==
  ASSUME SubmissionConstants, SubmissionIInv, [SubmissionNext]_submissionVars
  PROVE  SubmissionIInv'
<1>1. ASSUME NEW r \in Requests, Handle(r)
      PROVE  SubmissionIInv'
  <2>1. CASE Insert(r)
    BY <2>1, InsertKeepsInvariant
  <2>2. CASE ~Insert(r)
    <3>1. UNCHANGED task
      BY <1>1, <2>2 DEF Handle, Lookup, ResolveConflict, EnforceCapacity, RefuseInput, WriteFile,
         SavingFails, FilesSaved, ReservationFails, InsertConflicts, InsertFails, RefreshFails,
         Enqueue, EnqueueFails, Wait, Killed, requestVars
    <3> QED
      BY <1>1, <3>1, RequestKeepsTypes, RequestKeepsPlace, OthersStay, RequestKeepsHolds DEF SubmissionIInv
  <2> QED
    BY <2>1, <2>2
<1>2. ASSUME NEW r \in Requests, NEW success \in BOOLEAN, Settle(r, success)
      PROVE  SubmissionIInv'
  BY <1>2, SettleKeepsInvariant
<1> QED
  BY <1>1, <1>2, StutterKeepsInvariant DEF SubmissionNext

LEMMA SubmissionInvariant ==
  ASSUME SubmissionConstants
  PROVE  SubmissionSpec => []SubmissionIInv
  BY SubmissionInitInvariant, NextKeepsInvariant, PTL DEF SubmissionSpec

-----------------------------------------------------------------------------
(***************************************************************************)
(* Requests with the same Idempotency-Key are told of one task             *)
(* (find_idempotent_task, the unique index and its conflict handling).     *)
(***************************************************************************)
THEOREM KeyNamesOneTask ==
  ASSUME SubmissionConstants
  PROVE  SubmissionSpec => []SameKeySameTask
<1>1. ASSUME SubmissionIInv, NEW r \in Requests, NEW s \in Requests,
             keyed[r], keyed[s], Told(r), Told(s)
      PROVE  target[r] = target[s]
  <2>1. /\ target[r] \in Requests /\ task[target[r]] # "none" /\ keyed[target[r]]
        /\ target[s] \in Requests /\ task[target[s]] # "none" /\ keyed[target[s]]
    BY <1>1 DEF SubmissionIInv, SubmissionTypes, Control, HasTarget
  <2> QED
    BY <1>1, <2>1 DEF SubmissionIInv, OneRow
<1>2. SubmissionIInv => SameKeySameTask
  BY <1>1 DEF SameKeySameTask
<1> QED
  BY <1>2, SubmissionInvariant, PTL

(***************************************************************************)
(* However a submission ends, the tenant's holds are those of its open     *)
(* tasks (reserve_or_raise and the INSERT as one transaction).             *)
(***************************************************************************)
THEOREM HoldsAreOpenTasks ==
  ASSUME SubmissionConstants
  PROVE  SubmissionSpec => []HoldPerOpenTask
<1>1. SubmissionIInv => HoldPerOpenTask
  BY DEF SubmissionIInv
<1> QED
  BY <1>1, SubmissionInvariant, PTL

(***************************************************************************)
(* An upload leaves files exactly if it created a task, with the two       *)
(* exceptions that FilesFollowTasks names (extract_async_upload).            *)
(***************************************************************************)
THEOREM FilesAreTasks ==
  ASSUME SubmissionConstants
  PROVE  SubmissionSpec => []FilesFollowTasks
<1>1. SubmissionIInv => FilesFollowTasks
  BY DEF SubmissionIInv, Control, FilesOf, FilesFollowTasks
<1> QED
  BY <1>1, SubmissionInvariant, PTL

-----------------------------------------------------------------------------
(* Onboarding *)

\* Between the commits, a request knows what it has saved.
Progress ==
    \A r \in Openings :
        /\ stage[r] \in {"look-up", "save", "refused"} => tenant[r] = "none"
        /\ stage[r] = "key" => tenant[r] = "saved"
        /\ stage[r] = "credit" => tenant[r] = "keyed"

OnboardingIInv == OnboardingTypeOK /\ Progress /\ OneTrialPerEmail

LEMMA OnboardingInitInvariant ==
  ASSUME OnboardingConstants, OnboardingInit
  PROVE  OnboardingIInv
<1>1. OnboardingTypeOK
  BY DEF OnboardingInit, OnboardingTypeOK, OnboardingConstants
<1>2. Progress
  BY DEF OnboardingInit, Progress
<1>3. Saved = {}
  BY DEF OnboardingInit, Saved
<1>4. OneTrialPerEmail
  BY <1>3 DEF OnboardingInit, OneTrialPerEmail
<1> QED
  BY <1>1, <1>2, <1>4 DEF OnboardingIInv

\* A request keeps what it asks for except its name, and adds at most one tenant.
LEMMA RenamedAsk ==
  ASSUME NEW r \in Openings, NEW name \in Names, OnboardingTypeOK
  PROVE  LET a == [asks EXCEPT ![r].name = name]
         IN /\ a \in [Openings -> Ask]
            /\ \A s \in Openings : a[s].email = asks[s].email /\ a[s].by = asks[s].by
  BY DEF OnboardingTypeOK, Ask

LEMMA OnboardingNextInvariant ==
  ASSUME OnboardingConstants, OnboardingIInv, OnboardingNext
  PROVE  OnboardingIInv'
<1> USE DEF OnboardingIInv, OnboardingTypeOK, Enter
<1> SUFFICES ASSUME NEW r \in Openings,
                    \/ LookUp(r) \/ SaveTenant(r) \/ SaveConflicts(r) \/ SaveKey(r) \/ Credit(r)
                    \/ RequestKilled(r) \/ SwitchTenant(r) \/ \E name \in Names : Rename(r, name)
             PROVE  OnboardingIInv'
  BY DEF OnboardingNext
<1>1. CASE LookUp(r)
  BY <1>1 DEF LookUp, Progress, OneTrialPerEmail, Saved
<1>2. CASE SaveTenant(r)
  <2>1. OnboardingTypeOK'
    BY <1>2 DEF SaveTenant
  <2>2. Progress'
    BY <1>2 DEF SaveTenant, Progress
  <2>3. Saved' = Saved \cup {r}
    BY <1>2 DEF SaveTenant, Saved
  <2>4. \A s \in Saved : asks[s].email = asks[r].email => asks[r].email = NoEmail
    BY <1>2 DEF SaveTenant, SameEmail
  <2>5. OneTrialPerEmail'
    BY <1>2, <2>3, <2>4 DEF SaveTenant, OneTrialPerEmail
  <2> QED
    BY <2>1, <2>2, <2>5
<1>3. CASE SaveConflicts(r)
  BY <1>3 DEF SaveConflicts, Progress, OneTrialPerEmail, Saved
<1>4. CASE SaveKey(r)
  BY <1>4 DEF SaveKey, Progress, OneTrialPerEmail, Saved
<1>5. CASE Credit(r)
  BY <1>5 DEF Credit, Progress, OneTrialPerEmail, Saved, Ask
<1>6. CASE RequestKilled(r)
  BY <1>6 DEF RequestKilled, Progress, OneTrialPerEmail, Saved, OnboardingConstants
<1>7. CASE SwitchTenant(r)
  BY <1>7 DEF SwitchTenant, Progress, OneTrialPerEmail, Saved
<1>8. ASSUME NEW name \in Names, Rename(r, name)
      PROVE  OnboardingIInv'
  BY <1>8, RenamedAsk DEF Rename, Progress, OneTrialPerEmail, Saved
<1> QED
  BY <1>1, <1>2, <1>3, <1>4, <1>5, <1>6, <1>7, <1>8

LEMMA OnboardingStutterInvariant ==
  ASSUME OnboardingIInv, UNCHANGED onboardingVars
  PROVE  OnboardingIInv'
  BY DEF OnboardingIInv, OnboardingTypeOK, Progress, OneTrialPerEmail, Saved, onboardingVars

(***************************************************************************)
(* However many registrations of an address interleave, fail half way and  *)
(* are repeated, one of them has a tenant, and whoever is told that the    *)
(* account is open has tenant, key and credit (register_tenant).           *)
(***************************************************************************)
THEOREM TrialOnce ==
  ASSUME OnboardingConstants
  PROVE  OnboardingSpec => []OneTrialPerEmail
<1>1. OnboardingInit => OnboardingIInv
  BY OnboardingInitInvariant
<1>2. OnboardingIInv /\ [OnboardingNext]_onboardingVars => OnboardingIInv'
  BY OnboardingNextInvariant, OnboardingStutterInvariant
<1>3. OnboardingIInv => OneTrialPerEmail
  BY DEF OnboardingIInv
<1> QED
  BY <1>1, <1>2, <1>3, PTL DEF OnboardingSpec

-----------------------------------------------------------------------------
(* Access *)

\* The lifetime is never shortened, and a token is older than the last call only by
\* the time in which a call does not renew it.
Slack ==
    token.of # Nobody => token.ttl = TokenTTL /\ 100 * token.age <= 15 * TokenTTL + 100 * idle

AccessIInv == AccessTypeOK /\ Slack

LEMMA CountedType ==
  ASSUME AccessConstants, AccessTypeOK
  PROVE  Counted \in [count : 0..(Limit + 1), left : 0..Window]
  BY DEF AccessConstants, AccessTypeOK, Counted, Least

LEMMA IssueInvariant ==
  ASSUME AccessConstants, NEW subject \in Tenants \cup {Admin}, Issue(subject, TokenTTL)
  PROVE  /\ token' \in [of : Tenants \cup {Admin, Nobody}, age : 0..TokenTTL, ttl : 0..TokenTTL]
         /\ idle' \in 0..TokenTTL
         /\ Slack'
  BY DEF AccessConstants, Issue, Slack

LEMMA ForgetInvariant ==
  ASSUME AccessConstants, token' = NoToken, idle' = 0
  PROVE  /\ token' \in [of : Tenants \cup {Admin, Nobody}, age : 0..TokenTTL, ttl : 0..TokenTTL]
         /\ idle' \in 0..TokenTTL
         /\ Slack'
  BY DEF AccessConstants, NoToken, Slack

\* A successful call renews the token, or the token is young enough to do without.
LEMMA RenewInvariant ==
  ASSUME AccessConstants, AccessIInv, token.of # Nobody, Renew
  PROVE  /\ token' \in [of : Tenants \cup {Admin, Nobody}, age : 0..TokenTTL, ttl : 0..TokenTTL]
         /\ idle' \in 0..TokenTTL
         /\ Slack'
<1>1. CASE 100 * token.age > 15 * token.ttl
  BY <1>1, IssueInvariant DEF AccessIInv, AccessTypeOK, Slack, Renew
<1>2. CASE ~(100 * token.age > 15 * token.ttl)
  BY <1>2 DEF AccessIInv, AccessTypeOK, Slack, Renew, AccessConstants
<1> QED
  BY <1>1, <1>2

LEMMA AccessInitInvariant ==
  ASSUME AccessConstants, AccessInit
  PROVE  AccessIInv
  BY DEF AccessConstants, AccessInit, AccessIInv, AccessTypeOK, Slack, NoToken, NoAttempts

LEMMA AccessNextInvariant ==
  ASSUME AccessConstants, AccessIInv, AccessNext
  PROVE  AccessIInv'
<1> USE DEF AccessIInv, AccessTypeOK
<1>1. ASSUME NEW t \in Tenants, SetActive(t)
      PROVE  AccessIInv'
  BY <1>1 DEF SetActive, Slack
<1>2. ASSUME NEW t \in Tenants, NEW k \in Keys, CreateKey(t, k)
      PROVE  AccessIInv'
  BY <1>2 DEF CreateKey, Slack
<1>3. ASSUME NEW k \in Keys, RevokeKey(k)
      PROVE  AccessIInv'
  BY <1>3 DEF RevokeKey, Slack
<1>4. CASE LoginRefused
  BY <1>4, CountedType DEF LoginRefused, Slack
<1>5. ASSUME NEW t \in Tenants, Login(t)
      PROVE  AccessIInv'
  BY <1>5, CountedType, IssueInvariant DEF Login
<1>6. CASE AdminLogin
  BY <1>6, IssueInvariant DEF AdminLogin
<1>7. CASE CallSucceeds
  <2>1. token.of # Nobody
    BY <1>7 DEF CallSucceeds, ActsFor, Valid
  <2> QED
    BY <1>7, <2>1, RenewInvariant DEF CallSucceeds
<1>8. ASSUME NEW k \in Keys, CreateOwnKey(k)
      PROVE  AccessIInv'
  <2>1. token.of # Nobody
    BY <1>8 DEF CreateOwnKey, ActsFor, Valid
  <2>2. ActsFor \ {Admin} \subseteq Tenants
    BY DEF ActsFor
  <2>3. owner' \in [Keys -> Tenants \cup {Nobody}]
    BY <1>8, <2>2 DEF CreateOwnKey
  <2> QED
    BY <1>8, <2>1, <2>3, RenewInvariant DEF CreateOwnKey
<1>9. CASE CallRefused
  BY <1>9, ForgetInvariant DEF CallRefused
<1>10. CASE Logout
  BY <1>10, ForgetInvariant DEF Logout
<1>11. CASE Tick
  <2>1. attempts' \in [count : 0..(Limit + 1), left : 0..Window]
    BY <1>11 DEF Tick, NoAttempts, AccessConstants
  <2>2. CASE token.of = Nobody
    BY <1>11, <2>1, <2>2 DEF Tick, Slack, AccessConstants
  <2>3. CASE token.of # Nobody
    <3>1. /\ token'.of = token.of /\ token'.ttl = token.ttl
          /\ token'.age = Least(token.age + 1, token.ttl) /\ idle' = Least(idle + 1, TokenTTL)
      BY <1>11, <2>3 DEF Tick
    <3>2. AccessTypeOK'
      BY <1>11, <2>1, <2>3 DEF Tick, AccessConstants, Least
    <3>3. Slack'
      BY <2>3, <3>1 DEF Slack, Least, AccessConstants
    <3> QED
      BY <3>2, <3>3
  <2> QED
    BY <2>2, <2>3
<1> QED
  BY <1>1, <1>2, <1>3, <1>4, <1>5, <1>6, <1>7, <1>8, <1>9, <1>10, <1>11 DEF AccessNext

LEMMA AccessStutterInvariant ==
  ASSUME AccessIInv, UNCHANGED accessVars
  PROVE  AccessIInv'
  BY DEF AccessIInv, AccessTypeOK, Slack, accessVars

(***************************************************************************)
(* For any lifetime: who called with success less than 85 % of it ago is   *)
(* logged in, after any number of renewals (handle_sliding_session_renewal,*)
(* get_current_tenant_and_key).                                            *)
(***************************************************************************)
THEOREM SessionLasts ==
  ASSUME AccessConstants
  PROVE  AccessSpec => []SessionOutlivesIdle
<1>1. AccessInit => AccessIInv
  BY AccessInitInvariant
<1>2. AccessIInv /\ [AccessNext]_accessVars => AccessIInv'
  BY AccessNextInvariant, AccessStutterInvariant
<1>3. AccessIInv => SessionOutlivesIdle
  BY DEF AccessIInv, AccessTypeOK, Slack, SessionOutlivesIdle, Valid, AccessConstants
<1> QED
  BY <1>1, <1>2, <1>3, PTL DEF AccessSpec
=============================================================================
