----------------------- MODULE TaskDiscipline_proofs -----------------------
(***************************************************************************)
(* What holds of TaskSettlement when a task has one live attempt at a      *)
(* time, its lease outlives the attempt and administrators retry one at a  *)
(* time: the money held is the money of the open tasks.  For any tasks,    *)
(* attempts, request ids and prices, crashes, timeouts and retries.        *)
(*                                                                         *)
(* The argument: under that discipline the row of a task does not change   *)
(* between the read and the commit of a session, so every handler commits  *)
(* what is still true (SeenIsCurrent).  That needs to be known together    *)
(* with the lease of every attempt: the invariant is Orderly.              *)
(***************************************************************************)
EXTENDS TaskSettlement_proofs, FiniteSetTheorems

-----------------------------------------------------------------------------
(* Sums over a finite set, as FoldFunction computes them. *)

\* Induction on the subsets of a finite set, the statement being a set of them.
LEMMA SubsetInduction ==
  ASSUME NEW S, IsFiniteSet(S), NEW F,
         \A T \in SUBSET S : (\A U \in SUBSET T : U # T => U \in F) => T \in F
  PROVE  \A T \in SUBSET S : T \in F
<1> DEFINE R == StrictSubsetOrdering(S)
           Bad == (SUBSET S) \ F
<1> SUFFICES ASSUME Bad # {} PROVE FALSE
  OBVIOUS
<1>1. IsWellFoundedOn(R, SUBSET S)
  <2>1. FiniteSubsetsOf(S) = SUBSET S
    BY FS_FiniteSubsetsOfFinite
  <2>2. IsWellFoundedOn(R, FiniteSubsetsOf(S))
    BY FS_StrictSubsetOrderingWellFounded
  <2> QED
    BY <2>1, <2>2
<1>2. PICK T \in Bad : \A U \in Bad : <<U, T>> \notin R
  <2>1. Bad \subseteq SUBSET S
    OBVIOUS
  <2> HIDE DEF Bad, R
  <2> QED
    BY <1>1, <2>1, WFMin
<1>3. ASSUME NEW U \in SUBSET T, U # T PROVE U \in F
  <2>1. U \in SUBSET S /\ T \in SUBSET S /\ <<U, T>> \in R
    BY <1>3 DEF StrictSubsetOrdering
  <2> QED
    BY <1>2, <2>1
<1> QED
  BY <1>3

\* Induction on the natural numbers, the statement being a set of them.
LEMMA NumberInduction ==
  ASSUME NEW F, 0 \in F, \A n \in Nat : n \in F => n + 1 \in F
  PROVE  \A n \in Nat : n \in F
<1> TAKE n \in Nat
<1> DEFINE G == {T \in SUBSET (1..n) : Cardinality(T) \in F}
<1>1. IsFiniteSet(1..n) /\ Cardinality(1..n) = n
  BY FS_Interval
<1>2. ASSUME NEW T \in SUBSET (1..n), \A U \in SUBSET T : U # T => U \in G
      PROVE  T \in G
  <2>1. CASE T = {}
    BY <2>1, FS_EmptySet
  <2>2. CASE T # {}
    <3> PICK x \in T : TRUE
      BY <2>2
    <3>1. T \ {x} \in G
      BY <1>2
    <3>2. IsFiniteSet(T)
      BY <1>1, FS_Subset
    <3>3. Cardinality(T \ {x}) = Cardinality(T) - 1 /\ Cardinality(T) \in Nat
          /\ Cardinality(T \ {x}) \in Nat
      BY <3>2, FS_RemoveElement, FS_CardinalityType
    <3> QED
      BY <3>1, <3>3
  <2> QED
    BY <2>1, <2>2
<1>3. (1..n) \in G
  <2> DEFINE Numbers == 1..n
  <2>1. /\ IsFiniteSet(Numbers)
        /\ \A T \in SUBSET Numbers : (\A U \in SUBSET T : U # T => U \in G) => T \in G
    BY <1>1, <1>2
  <2> HIDE DEF G, Numbers
  <2>2. \A T \in SUBSET Numbers : T \in G
    BY <2>1, SubsetInduction
  <2> QED
    BY <2>2 DEF Numbers
<1> QED
  BY <1>1, <1>3

\* The sum TotalHeld takes of the holds, for any function.
Total(f) == FoldFunction(LAMBDA x, y : x + y, 0, f)
Some(s) == CHOOSE x \in s : TRUE
\* What the fold computes for the set s when it has computed `sums' for smaller ones.
Added(f, sums, s) == IF s = {} THEN 0 ELSE f[Some(s)] + sums[s \ {Some(s)}]
IsSums(f, sums) == sums = [s \in SUBSET DOMAIN f |-> Added(f, sums, s)]
Sums(f) == CHOOSE sums : IsSums(f, sums)

LEMMA TotalIsSum ==
  ASSUME NEW f
  PROVE  Total(f) = Sums(f)[DOMAIN f]
  BY DEF Total, FoldFunction, FoldFunctionOnSet, MapThenFoldSet, Some, Sums, IsSums, Added

LEMMA SumsExist ==
  ASSUME NEW S, IsFiniteSet(S), NEW f \in [S -> Int]
  PROVE  IsSums(f, Sums(f))
<1> DEFINE G(n) == {s \in SUBSET S : Cardinality(s) <= n}
           Right(n, sums) == /\ sums \in [G(n) -> Int]
                             /\ \A s \in G(n) : sums[s] = Added(f, sums, s)
           F == {n \in Nat : \E sums : Right(n, sums)}
<1>1. \A s \in SUBSET S : IsFiniteSet(s) /\ Cardinality(s) \in Nat
  BY FS_Subset, FS_CardinalityType
<1>2. 0 \in F
  <2> DEFINE sums == [s \in G(0) |-> 0]
  <2>1. ASSUME NEW s \in G(0) PROVE s = {}
    BY <1>1, FS_EmptySet
  <2>2. Right(0, sums)
    BY <2>1 DEF Added
  <2> QED
    BY <2>2
<1>3. ASSUME NEW n \in Nat, n \in F PROVE n + 1 \in F
  <2> PICK sums : Right(n, sums)
    BY <1>3
  <2> DEFINE more == [s \in G(n + 1) |-> Added(f, sums, s)]
  <2>1. ASSUME NEW s \in G(n + 1), s # {}
        PROVE  /\ Some(s) \in s
               /\ s \ {Some(s)} \in G(n)
               /\ s \ {Some(s)} \in G(n + 1)
    <3>1. Some(s) \in s
      BY <2>1 DEF Some
    <3>2. Cardinality(s \ {Some(s)}) = Cardinality(s) - 1
      BY <1>1, <3>1, FS_RemoveElement
    <3> QED
      BY <1>1, <3>1, <3>2
  <2>2. ASSUME NEW s \in G(n + 1) PROVE more[s] \in Int
    BY <2>1 DEF Added
  <2>3. ASSUME NEW s \in G(n) PROVE s \in G(n + 1) /\ more[s] = sums[s]
    BY <1>1
  <2>4. ASSUME NEW s \in G(n + 1) PROVE more[s] = Added(f, more, s)
    BY <2>1, <2>3 DEF Added
  <2>5. Right(n + 1, more)
    BY <2>2, <2>4
  <2> HIDE DEF Right, more
  <2> QED
    BY <2>5
<1>4. Cardinality(S) \in F
  <2>1. Cardinality(S) \in Nat
    BY FS_CardinalityType
  <2> HIDE DEF F
  <2> QED
    BY <1>2, <1>3, <2>1, NumberInduction
<1>5. G(Cardinality(S)) = SUBSET S
  BY FS_Subset
<1>6. PICK sums : Right(Cardinality(S), sums)
  BY <1>4
<1>7. IsSums(f, sums)
  BY <1>5, <1>6 DEF IsSums
<1> QED
  BY <1>7 DEF Sums

\* The order in which the fold takes the elements does not matter.
LEMMA SumOfOneMore ==
  ASSUME NEW S, IsFiniteSet(S), NEW f \in [S -> Int]
  PROVE  \A s \in SUBSET S :
            /\ Sums(f)[s] \in Int
            /\ s = {} => Sums(f)[s] = 0
            /\ \A x \in s : Sums(f)[s] = f[x] + Sums(f)[s \ {x}]
<1> DEFINE sums == Sums(f)
           Good(s) == /\ sums[s] \in Int
                      /\ s = {} => sums[s] = 0
                      /\ \A x \in s : sums[s] = f[x] + sums[s \ {x}]
           F == {s \in SUBSET S : Good(s)}
<1>1. \A s \in SUBSET S : sums[s] = Added(f, sums, s)
  BY SumsExist DEF IsSums
<1> HIDE DEF sums
<1>2. ASSUME NEW s \in SUBSET S, \A r \in SUBSET s : r # s => r \in F
      PROVE  s \in F
  <2>1. CASE s = {}
    BY <1>1, <2>1 DEF Added
  <2>2. CASE s # {}
    <3> DEFINE c == Some(s)
    <3>1. c \in s
      BY <2>2 DEF Some
    <3>2. sums[s] = f[c] + sums[s \ {c}]
      BY <1>1, <2>2 DEF Added
    <3> HIDE DEF c
    <3>3. Good(s \ {c}) /\ f[c] \in Int
      BY <1>2, <3>1
    <3>4. ASSUME NEW x \in s, x # c PROVE sums[s] = f[x] + sums[s \ {x}]
      <4>1. s \ {x} \in SUBSET s /\ s \ {x} # s /\ c \in s \ {x} /\ x \in s \ {c}
        BY <3>1, <3>4
      <4>2. Good(s \ {x}) /\ f[x] \in Int
        BY <1>2, <4>1
      <4>3. (s \ {x}) \ {c} = (s \ {c}) \ {x}
        OBVIOUS
      <4>4. sums[s \ {x}] = f[c] + sums[(s \ {c}) \ {x}]
        BY <4>1, <4>2, <4>3
      <4>5. sums[s \ {c}] = f[x] + sums[(s \ {c}) \ {x}]
        BY <3>3, <4>1
      <4>6. Good((s \ {c}) \ {x})
        BY <1>2, <4>1
      <4> QED
        BY <3>2, <3>3, <4>2, <4>4, <4>5, <4>6
    <3>5. sums[s] \in Int
      BY <3>2, <3>3
    <3>6. \A x \in s : sums[s] = f[x] + sums[s \ {x}]
      BY <3>2, <3>4
    <3> QED
      BY <2>2, <3>5, <3>6
  <2> QED
    BY <2>1, <2>2
<1>3. \A s \in SUBSET S : s \in F
  <2> HIDE DEF F
  <2> QED
    BY <1>2, SubsetInduction
<1> QED
  BY <1>3 DEF sums

LEMMA SumsAgree ==
  ASSUME NEW S, IsFiniteSet(S), NEW f \in [S -> Int], NEW g \in [S -> Int],
         NEW s \in SUBSET S, \A x \in s : f[x] = g[x]
  PROVE  Sums(f)[s] = Sums(g)[s]
<1> DEFINE F == {r \in SUBSET s : Sums(f)[r] = Sums(g)[r]}
<1>1. ASSUME NEW r \in SUBSET s, \A q \in SUBSET r : q # r => q \in F
      PROVE  r \in F
  <2>1. CASE r = {}
    BY <2>1, SumOfOneMore
  <2>2. CASE r # {}
    <3> PICK x \in r : TRUE
      BY <2>2
    <3>1. r \ {x} \in F
      BY <1>1
    <3> QED
      BY <3>1, SumOfOneMore
  <2> QED
    BY <2>1, <2>2
<1>2. IsFiniteSet(s)
  BY FS_Subset
<1>3. s \in F
  <2> HIDE DEF F
  <2> QED
    BY <1>1, <1>2, SubsetInduction
<1> QED
  BY <1>3

LEMMA TotalType ==
  ASSUME NEW S, IsFiniteSet(S), NEW f \in [S -> Int]
  PROVE  Total(f) \in Int
<1>1. DOMAIN f = S /\ S \in SUBSET S
  OBVIOUS
<1> QED
  BY <1>1, TotalIsSum, SumOfOneMore

\* Changing one value changes the total by the difference.
LEMMA TotalExcept ==
  ASSUME NEW S, IsFiniteSet(S), NEW f \in [S -> Int], NEW t \in S, NEW v \in Int
  PROVE  Total([f EXCEPT ![t] = v]) = Total(f) - f[t] + v
<1> DEFINE g == [f EXCEPT ![t] = v]
<1>1. g \in [S -> Int] /\ g[t] = v /\ f[t] \in Int
  OBVIOUS
<1>2. Sums(f)[S \ {t}] = Sums(g)[S \ {t}]
  <2>1. \A x \in S \ {t} : f[x] = g[x]
    OBVIOUS
  <2> HIDE DEF g
  <2> QED
    BY <1>1, <2>1, SumsAgree
<1> HIDE DEF g
<1>3. Total(f) = f[t] + Sums(f)[S \ {t}] /\ Sums(f)[S \ {t}] \in Int
  <2>1. DOMAIN f = S /\ S \in SUBSET S /\ S \ {t} \in SUBSET S
    OBVIOUS
  <2>2. Total(f) = Sums(f)[S]
    BY <2>1, TotalIsSum
  <2> QED
    BY <2>1, <2>2, SumOfOneMore
<1>4. Total(g) = v + Sums(g)[S \ {t}]
  <2>1. DOMAIN g = S /\ S \in SUBSET S
    BY <1>1
  <2>2. Total(g) = Sums(g)[S]
    BY <2>1, TotalIsSum
  <2> QED
    BY <1>1, <2>1, <2>2, SumOfOneMore
<1> QED
  BY <1>1, <1>2, <1>3, <1>4 DEF g

LEMMA TotalOfNothing ==
  ASSUME NEW S, IsFiniteSet(S)
  PROVE  Total([t \in S |-> 0]) = 0
<1> DEFINE f == [t \in S |-> 0]
           F == {r \in SUBSET S : Sums(f)[r] = 0}
<1>1. f \in [S -> Int] /\ DOMAIN f = S /\ \A x \in S : f[x] = 0
  OBVIOUS
<1> HIDE DEF f
<1>2. ASSUME NEW r \in SUBSET S, \A q \in SUBSET r : q # r => q \in F
      PROVE  r \in F
  <2>1. CASE r = {}
    BY <1>1, <2>1, SumOfOneMore
  <2>2. CASE r # {}
    <3> PICK x \in r : TRUE
      BY <2>2
    <3>1. r \ {x} \in F
      BY <1>2
    <3> QED
      BY <1>1, <3>1, SumOfOneMore
  <2> QED
    BY <2>1, <2>2
<1>3. S \in F
  <2> HIDE DEF F
  <2> QED
    BY <1>2, SubsetInduction
<1> QED
  BY <1>1, <1>3, TotalIsSum DEF f
\* No part of a sum of natural numbers is larger than the sum.
LEMMA TotalAtLeast ==
  ASSUME NEW S, IsFiniteSet(S), NEW f \in [S -> Nat], NEW t \in S
  PROVE  f[t] <= Total(f)
<1> DEFINE F == {r \in SUBSET S : Sums(f)[r] >= 0}
<1>1. f \in [S -> Int] /\ DOMAIN f = S
  OBVIOUS
<1>2. ASSUME NEW r \in SUBSET S, \A q \in SUBSET r : q # r => q \in F
      PROVE  r \in F
  <2>1. CASE r = {}
    BY <1>1, <2>1, SumOfOneMore
  <2>2. CASE r # {}
    <3> PICK x \in r : TRUE
      BY <2>2
    <3>1. r \ {x} \in F
      BY <1>2
    <3>2. Sums(f)[r] = f[x] + Sums(f)[r \ {x}] /\ Sums(f)[r \ {x}] \in Int
      BY <1>1, SumOfOneMore
    <3>3. f[x] >= 0 /\ f[x] \in Int
      OBVIOUS
    <3> QED
      BY <3>1, <3>2, <3>3
  <2> QED
    BY <2>1, <2>2
<1>3. \A r \in SUBSET S : r \in F
  <2> HIDE DEF F
  <2> QED
    BY <1>2, SubsetInduction
<1>4. Sums(f)[S \ {t}] >= 0 /\ Sums(f)[S \ {t}] \in Int
  BY <1>1, <1>3, SumOfOneMore
<1>5. Sums(f)[S] = f[t] + Sums(f)[S \ {t}]
  BY <1>1, SumOfOneMore
<1>6. Total(f) = Sums(f)[S] /\ f[t] \in Int
  BY <1>1, TotalIsSum
<1> QED
  BY <1>4, <1>5, <1>6

LEMMA TotalOfHolds ==
  ASSUME IsFiniteSet(Tasks), held \in [Tasks -> Int]
  PROVE  /\ Total(held) \in Int
         /\ \A t \in Tasks, v \in Nat :
               Total([held EXCEPT ![t] = v]) = Total(held) - held[t] + v
<1>1. ASSUME NEW t \in Tasks, NEW v \in Nat
      PROVE  Total([held EXCEPT ![t] = v]) = Total(held) - held[t] + v
  <2>1. v \in Int
    OBVIOUS
  <2> QED
    BY <2>1, TotalExcept
<1>2. Total(held) \in Int
  BY TotalType
<1> QED
  BY <1>1, <1>2

-----------------------------------------------------------------------------
(* The discipline, and what it keeps true. *)

\* The environment of settlement_disciplined.  No validation of the settings ensures
\* it, and without it the properties fail (settlement_failed_charged and
\* settlement_holds_drift).  Two retries at a time may both reserve from one read.
Disciplined == SingleDelivery /\ LeaseOutlivesAttempt /\ \A m, n \in Admins : m = n

Open == {"PENDING", "PROCESSING"}
Deciding == {"settling", "failing", "abandoning", "expiring"}

RowOf(t) == [status |-> status[t], held |-> held[t], owner |-> owner[t]]

HoldsLease(a, t) == status[t] = "PROCESSING" /\ owner[t] = RequestOf[a] /\ leaseLive[t]

OwnedWhileProcessing == \A t \in Tasks : owner[t] # NoOwner <=> status[t] = "PROCESSING"

LiveOnOpenTask ==
    \A a \in Attempts : Live(a) => target[a] \in Tasks /\ status[target[a]] \in Open

OneLiveAttempt ==
    \A a, b \in Attempts : Live(a) /\ Live(b) /\ target[a] = target[b] => a = b

\* From the claim to its end an attempt holds the lease of its task, except that a
\* timed out attempt may have given the task back.
LeaseFollowsAttempt ==
    \A a \in Attempts :
        /\ pc[a] \in OutsideTry \cup InsideTry \cup {"cancelled"} => HoldsLease(a, target[a])
        /\ pc[a] \in {"timedOut", "expiring"} =>
              status[target[a]] = "PENDING" \/ HoldsLease(a, target[a])

\* What a session decides on is still what the row says.
SeenIsCurrent == \A a \in Attempts : pc[a] \in Deciding => seen[a] = RowOf(target[a])

RetryOfFailed ==
    \A m \in Admins : target[m] # NoTask =>
        /\ target[m] \in Tasks
        /\ status[target[m]] = "FAILED"
        /\ seen[m] = RowOf(target[m])

Orderly ==
    /\ HeldWhileOpen /\ ChargedOnlyOnSuccess /\ OwnedWhileProcessing
    /\ LiveOnOpenTask /\ OneLiveAttempt /\ LeaseFollowsAttempt
    /\ SeenIsCurrent /\ RetryOfFailed

IInv == TypeOK /\ Orderly

USE AccountAssumption, SettlementAssumption
DEF Hold, PC, NotStarted, Over, OutsideTry, InsideTry, TimingOut, Open, Deciding

LEMMA HoldsAreNumbers ==
  ASSUME TypeOK
  PROVE  /\ held \in [Tasks -> Nat] /\ held \in [Tasks -> Int]
         /\ \A t \in Tasks : held[t] \in Nat /\ charged[t] \in Nat
         /\ reserved \in Nat /\ unitPrice \in Nat
<1>1. Prices \subseteq Nat /\ Hold \subseteq Nat /\ Nat \subseteq Int
  OBVIOUS
<1> HIDE DEF Hold
<1>2. held \in [Tasks -> Hold] /\ charged \in [Tasks -> Hold]
  BY DEF TypeOK
<1>3. reserved \in Nat /\ unitPrice \in Nat
  BY <1>1 DEF TypeOK, AccountTypeOK
<1> QED
  BY <1>1, <1>2, <1>3

\* A session that decides on an unsettled task holds its lease, or the task is
\* waiting and has no owner.
LEMMA DecidingSession ==
  ASSUME IInv, NEW a \in Attempts, NEW t \in Tasks, pc[a] \in Deciding, target[a] = t
  PROVE  /\ seen[a] = RowOf(t)
         /\ held[t] > 0 /\ held[t] \in Nat
         /\ status[t] \in Open
         /\ status[t] = "PROCESSING" => owner[t] = RequestOf[a]
         /\ charged[t] = 0
<1>1. Live(a) /\ seen[a] = RowOf(t) /\ status[t] \in Open
  BY DEF IInv, Orderly, SeenIsCurrent, LiveOnOpenTask, Live
<1>2. held[t] > 0 /\ ~(charged[t] > 0)
  BY <1>1 DEF IInv, Orderly, HeldWhileOpen, ChargedOnlyOnSuccess
<1>3. held[t] \in Nat /\ charged[t] \in Nat
  BY HoldsAreNumbers DEF IInv
<1>4. status[t] = "PROCESSING" => owner[t] = RequestOf[a]
  BY DEF IInv, Orderly, LeaseFollowsAttempt, HoldsLease
<1> QED
  BY <1>1, <1>2, <1>3, <1>4

\* The commit of a failure finds the row as the session read it.
LEMMA FailureCommits ==
  ASSUME IInv, NEW a \in Attempts, NEW t \in Tasks, RecordFailure(a, t)
  PROVE  /\ status' = [status EXCEPT ![t] = "FAILED"]
         /\ held' = [held EXCEPT ![t] = 0]
         /\ owner' = [owner EXCEPT ![t] = NoOwner]
         /\ reserved' = reserved - held[t]
<1>1. /\ seen[a].status = status[t] /\ seen[a].held = held[t] /\ seen[a].owner = owner[t]
      /\ status[t] # "FAILED" /\ held[t] > 0
  <2>1. pc[a] \in Deciding /\ target[a] = t
    BY DEF RecordFailure
  <2>2. seen[a] = RowOf(t) /\ status[t] \in Open /\ held[t] > 0
    BY <2>1, DecidingSession
  <2> QED
    BY <2>2 DEF RowOf
<1>2. status \in [Tasks -> Status] /\ owner \in [Tasks -> Requests \cup {NoOwner}]
  BY DEF IInv, TypeOK
<1>3. status' = [status EXCEPT ![t] = "FAILED"]
  BY <1>1, <1>2 DEF RecordFailure, FailSeenBy
<1>4. owner' = [owner EXCEPT ![t] = NoOwner]
  BY <1>1, <1>2 DEF RecordFailure, ClearOwnerSeenBy
<1>5. held' = [held EXCEPT ![t] = 0] /\ reserved' = reserved - held[t]
  BY <1>1 DEF RecordFailure, ReleaseSeenBy, Release
<1> QED
  BY <1>3, <1>4, <1>5

LEMMA InitOrderly == Init => Orderly
  BY DEF Init, Sessions, Live, Orderly, HeldWhileOpen, ChargedOnlyOnSuccess,
         OwnedWhileProcessing, LiveOnOpenTask, OneLiveAttempt, LeaseFollowsAttempt,
         SeenIsCurrent, RetryOfFailed

LEMMA AttemptOrderly ==
  ASSUME Disciplined, TypeOK, Orderly, TypeOK', NEW a \in Attempts, AttemptStep(a)
  PROVE  Orderly'
<1> USE DEF Disciplined, TypeOK, Sessions, Goto, Live, Runs, HoldsLease, RowOf,
            Orderly, HeldWhileOpen, ChargedOnlyOnSuccess, OwnedWhileProcessing,
            LiveOnOpenTask, OneLiveAttempt, LeaseFollowsAttempt, SeenIsCurrent, RetryOfFailed
<1>1. ASSUME Raise(a) PROVE Orderly'
  BY <1>1 DEF Raise, accountVars, taskVars
<1>2. ASSUME SettleFails(a) PROVE Orderly'
  BY <1>2 DEF SettleFails, Forget, accountVars, taskVars
<1>3. ASSUME FailureRefused(a) PROVE Orderly'
  BY <1>3 DEF FailureRefused, Forget, accountVars, taskVars
<1>4. ASSUME Cancel(a) PROVE Orderly'
  BY <1>4 DEF Cancel, Forget, accountVars, taskVars
<1>5. ASSUME Crash(a) PROVE Orderly'
  BY <1>5 DEF Crash, Forget, accountVars, taskVars
<1>6. ASSUME NEW t \in Tasks, Deliver(a, t) PROVE Orderly'
  BY <1>6 DEF Deliver, accountVars, taskVars
<1>7. ASSUME NEW t \in Tasks, Claim(a, t) PROVE Orderly'
  BY <1>7 DEF Claim, LeaseExpired, accountVars
<1>8. ASSUME NEW t \in Tasks, CheckTenant(a, t) PROVE Orderly'
  BY <1>8 DEF CheckTenant, Read, accountVars, taskVars
<1>9. ASSUME NEW t \in Tasks, CheckLease(a, t) PROVE Orderly'
  BY <1>9 DEF CheckLease, Read, accountVars, taskVars
<1>10. ASSUME NEW t \in Tasks, Settle(a, t) PROVE Orderly'
  BY <1>10 DEF Settle, Forget, ClearOwnerSeenBy
<1>11. ASSUME NEW t \in Tasks, CheckFailure(a, t) PROVE Orderly'
  BY <1>11 DEF CheckFailure, Read, accountVars, taskVars
<1>12. ASSUME NEW t \in Tasks, RecordFailure(a, t) PROVE Orderly'
  <2>1. status[t] \in Open /\ target[a] = t /\ pc[a] \in Deciding
    BY <1>12 DEF RecordFailure
  <2>2. /\ status' = [status EXCEPT ![t] = "FAILED"]
        /\ held' = [held EXCEPT ![t] = 0]
        /\ owner' = [owner EXCEPT ![t] = NoOwner]
    BY <1>12, FailureCommits DEF IInv
  <2>3. /\ UNCHANGED <<charged, leaseLive, target>>
        /\ pc' = [pc EXCEPT ![a] = "done"]
        /\ seen' = [seen EXCEPT ![a] = NoRow]
    BY <1>12 DEF RecordFailure, Forget
  <2> QED
    BY <2>1, <2>2, <2>3
<1>13. ASSUME NEW t \in Tasks, GiveBack(a, t) PROVE Orderly'
  BY <1>13 DEF GiveBack, accountVars
<1>14. ASSUME NEW t \in Tasks, MarkTimeout(a, t) PROVE Orderly'
  BY <1>14 DEF MarkTimeout, Read, accountVars, taskVars
<1> QED
  BY <1>1, <1>2, <1>3, <1>4, <1>5, <1>6, <1>7, <1>8, <1>9, <1>10, <1>11, <1>12, <1>13, <1>14
  DEF AttemptStep

LEMMA AdministrationOrderly ==
  ASSUME Disciplined, TypeOK, Orderly, TypeOK',
         \/ \E t \in Tasks : SubmitTask(t) \/ ExpireLease(t) \/ Recover(t)
         \/ AdminStep
  PROVE  Orderly'
<1> USE DEF Disciplined, TypeOK, Sessions, Goto, Live, Runs, HoldsLease, RowOf,
            Orderly, HeldWhileOpen, ChargedOnlyOnSuccess, OwnedWhileProcessing,
            LiveOnOpenTask, OneLiveAttempt, LeaseFollowsAttempt, SeenIsCurrent, RetryOfFailed
<1>1. ASSUME NEW t \in Tasks, SubmitTask(t) PROVE Orderly'
  BY <1>1 DEF SubmitTask, AccountTypeOK, sessionVars
<1>2. ASSUME NEW t \in Tasks, ExpireLease(t) PROVE Orderly'
  BY <1>2 DEF ExpireLease, accountVars, sessionVars
<1>3. ASSUME NEW t \in Tasks, Recover(t) PROVE Orderly'
  BY <1>3 DEF Recover, LeaseExpired, accountVars, sessionVars
<1>4. ASSUME NEW m \in Admins, RetryRefused(m) PROVE Orderly'
  BY <1>4 DEF RetryRefused, Forget, accountVars, taskVars
<1>5. ASSUME NEW m \in Admins, NEW t \in Tasks, RetryRead(m, t) PROVE Orderly'
  BY <1>5 DEF RetryRead, Read, accountVars, taskVars
<1>6. ASSUME NEW m \in Admins, NEW t \in Tasks, RetryCommit(m, t) PROVE Orderly'
  BY <1>6 DEF RetryCommit, AccountTypeOK, ClearOwnerSeenBy, Forget
<1>7. ASSUME NEW t \in Tasks, RefundTask(t) PROVE Orderly'
  BY <1>7 DEF RefundTask, taskVars, sessionVars
<1>8. ASSUME NEW amount \in RechargeAmounts, RechargeTenant(amount) PROVE Orderly'
  BY <1>8 DEF RechargeTenant, taskVars, sessionVars
<1>9. ASSUME NEW price \in Prices, ChangeUnitPrice(price) PROVE Orderly'
  BY <1>9 DEF ChangeUnitPrice, taskVars, sessionVars
<1>10. ASSUME NEW active \in BOOLEAN, ChangeTenantStatus(active) PROVE Orderly'
  BY <1>10 DEF ChangeTenantStatus, taskVars, sessionVars
<1> QED
  BY <1>1, <1>2, <1>3, <1>4, <1>5, <1>6, <1>7, <1>8, <1>9, <1>10 DEF AdminStep

LEMMA NextOrderly ==
  ASSUME Disciplined
  PROVE  IInv /\ [Next]_vars => IInv'
<1> SUFFICES ASSUME IInv, [Next]_vars PROVE IInv'
  OBVIOUS
<1> TypeOK /\ Orderly /\ TypeOK'
  BY StepType DEF IInv
<1>1. ASSUME UNCHANGED vars PROVE Orderly'
  BY <1>1 DEF vars, taskVars, sessionVars, Live, HoldsLease, RowOf, Orderly, HeldWhileOpen,
              ChargedOnlyOnSuccess, OwnedWhileProcessing, LiveOnOpenTask, OneLiveAttempt,
              LeaseFollowsAttempt, SeenIsCurrent, RetryOfFailed
<1> QED
  BY <1>1, AttemptOrderly, AdministrationOrderly DEF Next, IInv

LEMMA OrderlyInvariant ==
  ASSUME Disciplined
  PROVE  Spec => []IInv
<1>1. Init => IInv
  BY InitType, InitOrderly DEF IInv
<1> QED
  BY <1>1, NextOrderly, PTL DEF Spec

(***************************************************************************)
(* A task holds money exactly while it can still be charged for it,        *)
(* through crashes, timeouts, recoveries and retries.                      *)
(***************************************************************************)
THEOREM HeldExactlyWhileOpen ==
  ASSUME Disciplined
  PROVE  Spec => []HeldWhileOpen
<1>1. IInv => HeldWhileOpen
  BY DEF IInv, Orderly
<1> QED
  BY <1>1, OrderlyInvariant, PTL

(***************************************************************************)
(* Only a delivered result costs money: no attempt fails or gives back a   *)
(* task that was charged.                                                  *)
(***************************************************************************)
THEOREM OnlySuccessCosts ==
  ASSUME Disciplined
  PROVE  Spec => []ChargedOnlyOnSuccess
<1>1. IInv => ChargedOnlyOnSuccess
  BY DEF IInv, Orderly
<1> QED
  BY <1>1, OrderlyInvariant, PTL

-----------------------------------------------------------------------------
(* What a step does to the holds and to the outcome of a task. *)

Takes(t) ==
    /\ held[t] = 0
    /\ reserved' = reserved + unitPrice
    /\ held' = [held EXCEPT ![t] = unitPrice]
    /\ charged' = charged

Returns(t) ==
    /\ reserved' = reserved - held[t]
    /\ held' = [held EXCEPT ![t] = 0]

\* An attempt that settles or fails its task returns the hold, and nothing else does.
LEMMA AttemptMoves ==
  ASSUME IInv, NEW a \in Attempts, AttemptStep(a)
  PROVE  \/ /\ UNCHANGED <<reserved, held, charged>>
            /\ \A t \in Tasks : status'[t] # status[t] =>
                  status[t] \in Open /\ status'[t] \in Open
         \/ \E t \in Tasks :
               /\ pc[a] \in Deciding /\ target[a] = t /\ pc'[a] = "done"
               /\ Returns(t)
               /\ \/ charged' = charged
                  \/ charged' = [charged EXCEPT ![t] = held[t]]
               /\ \A u \in Tasks \ {t} : status'[u] = status[u]
<1> USE DEF accountVars, taskVars, Goto
<1> TypeOK
  BY DEF IInv
<1>1. ASSUME Raise(a) \/ SettleFails(a) \/ FailureRefused(a) \/ Cancel(a) \/ Crash(a)
      PROVE  UNCHANGED <<reserved, held, charged, status>>
  BY <1>1 DEF Raise, SettleFails, FailureRefused, Cancel, Crash
<1>2. ASSUME NEW t \in Tasks,
             \/ Deliver(a, t) \/ CheckTenant(a, t) \/ CheckLease(a, t)
             \/ CheckFailure(a, t) \/ MarkTimeout(a, t)
      PROVE  UNCHANGED <<reserved, held, charged, status>>
  BY <1>2 DEF Deliver, CheckTenant, CheckLease, CheckFailure, MarkTimeout
<1>3. ASSUME NEW t \in Tasks, Claim(a, t) \/ GiveBack(a, t)
      PROVE  /\ UNCHANGED <<reserved, held, charged>>
             /\ \A u \in Tasks : status'[u] # status[u] =>
                   status[u] \in Open /\ status'[u] \in Open
  BY <1>3 DEF Claim, GiveBack, TypeOK
<1>4. ASSUME NEW t \in Tasks, Settle(a, t)
      PROVE  /\ pc[a] \in Deciding /\ target[a] = t /\ pc'[a] = "done"
             /\ Returns(t)
             /\ charged' = [charged EXCEPT ![t] = held[t]]
             /\ \A u \in Tasks \ {t} : status'[u] = status[u]
  <2>1. seen[a] = RowOf(t) /\ held[t] > 0
    BY <1>4, DecidingSession DEF Settle
  <2>2. ChargeOf(seen[a].held) = held[t]
    BY <2>1 DEF ChargeOf, RowOf
  <2> QED
    BY <1>4, <2>1, <2>2 DEF Settle, Deduct, Returns, RowOf, TypeOK
<1>5. ASSUME NEW t \in Tasks, RecordFailure(a, t)
      PROVE  /\ pc[a] \in Deciding /\ target[a] = t /\ pc'[a] = "done"
             /\ Returns(t)
             /\ charged' = charged
             /\ \A u \in Tasks \ {t} : status'[u] = status[u]
  <2>1. status' = [status EXCEPT ![t] = "FAILED"] /\ Returns(t)
    BY <1>5, FailureCommits DEF Returns
  <2> QED
    BY <1>5, <2>1 DEF RecordFailure, TypeOK
<1> QED
  BY <1>1, <1>2, <1>3, <1>4, <1>5 DEF AttemptStep

\* Outside the attempts, a submission and a retry take a hold; only a retry changes a
\* settled task.
LEMMA AdministrationMoves ==
  ASSUME IInv, \/ \E t \in Tasks : SubmitTask(t) \/ ExpireLease(t) \/ Recover(t)
               \/ AdminStep
  PROVE  /\ charged' = charged
         /\ \/ UNCHANGED <<reserved, held>>
            \/ \E t \in Tasks : Takes(t)
         /\ \A t \in Tasks : status'[t] # status[t] =>
               \/ status[t] \notin Terminal /\ status'[t] \in Open
               \/ status[t] = "FAILED" /\ status'[t] = "PENDING"
<1> USE DEF accountVars, taskVars, sessionVars
<1> TypeOK
  BY DEF IInv
<1>1. ASSUME NEW t \in Tasks, SubmitTask(t)
      PROVE  /\ Takes(t)
             /\ \A u \in Tasks : status'[u] # status[u] =>
                   status[u] = "ABSENT" /\ status'[u] = "PENDING"
  <2>1. held[t] = 0
    BY <1>1, HoldsAreNumbers DEF SubmitTask, IInv, Orderly, HeldWhileOpen
  <2> QED
    BY <1>1, <2>1 DEF SubmitTask, Reserve, Takes, TypeOK
<1>2. ASSUME NEW t \in Tasks, ExpireLease(t)
      PROVE  UNCHANGED <<reserved, held, charged, status>>
  BY <1>2 DEF ExpireLease
<1>3. ASSUME NEW t \in Tasks, Recover(t)
      PROVE  /\ UNCHANGED <<reserved, held, charged>>
             /\ \A u \in Tasks : status'[u] # status[u] =>
                   status[u] = "PROCESSING" /\ status'[u] = "PENDING"
  BY <1>3 DEF Recover, TypeOK
<1>4. ASSUME NEW m \in Admins, RetryRefused(m)
      PROVE  UNCHANGED <<reserved, held, charged, status>>
  BY <1>4 DEF RetryRefused
<1>5. ASSUME NEW m \in Admins, NEW t \in Tasks, RetryRead(m, t)
      PROVE  UNCHANGED <<reserved, held, charged, status>>
  BY <1>5 DEF RetryRead
<1>6. ASSUME NEW m \in Admins, NEW t \in Tasks, RetryCommit(m, t)
      PROVE  /\ Takes(t)
             /\ \A u \in Tasks : status'[u] # status[u] =>
                   status[u] = "FAILED" /\ status'[u] = "PENDING"
  <2>1. status[t] = "FAILED"
    BY <1>6 DEF RetryCommit, IInv, Orderly, RetryOfFailed
  <2>2. held[t] = 0
    BY <2>1, HoldsAreNumbers DEF IInv, Orderly, HeldWhileOpen
  <2> QED
    BY <1>6, <2>1, <2>2 DEF RetryCommit, Reserve, Takes, TypeOK
<1>7. ASSUME NEW t \in Tasks, RefundTask(t)
      PROVE  UNCHANGED <<reserved, held, charged, status>>
  BY <1>7 DEF RefundTask, Refund
<1>8. ASSUME NEW amount \in RechargeAmounts, RechargeTenant(amount)
      PROVE  UNCHANGED <<reserved, held, charged, status>>
  BY <1>8 DEF RechargeTenant, Recharge
<1>9. ASSUME NEW price \in Prices, ChangeUnitPrice(price)
      PROVE  UNCHANGED <<reserved, held, charged, status>>
  BY <1>9 DEF ChangeUnitPrice, UpdateUnitPrice
<1>10. ASSUME NEW active \in BOOLEAN, ChangeTenantStatus(active)
       PROVE  UNCHANGED <<reserved, held, charged, status>>
  BY <1>10 DEF ChangeTenantStatus, UpdateTenantStatus
<1>11. ASSUME UNCHANGED <<reserved, held, charged, status>>
       PROVE  /\ charged' = charged
              /\ UNCHANGED <<reserved, held>>
              /\ \A t \in Tasks : status'[t] = status[t]
  BY <1>11
<1>12. ASSUME NEW t \in Tasks, Takes(t)
       PROVE  charged' = charged /\ \E u \in Tasks : Takes(u)
  BY <1>12 DEF Takes
<1> HIDE DEF Takes
<1> QED
  BY <1>1, <1>2, <1>3, <1>4, <1>5, <1>6, <1>7, <1>8, <1>9, <1>10, <1>11, <1>12
  DEF AdminStep, Terminal

-----------------------------------------------------------------------------
\* The reserved balance moves with the holds, step by step.
LEMMA HoldsMatchKept ==
  ASSUME Disciplined, IsFiniteSet(Tasks)
  PROVE  IInv /\ HoldsMatch /\ [Next]_vars => HoldsMatch'
<1> SUFFICES ASSUME IInv, HoldsMatch, [Next]_vars PROVE HoldsMatch'
  OBVIOUS
<1>1. /\ held \in [Tasks -> Int]
      /\ \A t \in Tasks : held[t] \in Nat
      /\ reserved \in Nat /\ unitPrice \in Nat
      /\ Total(held) \in Int
  BY HoldsAreNumbers, TotalOfHolds DEF IInv
<1>2. reserved = Total(held)
  BY DEF HoldsMatch, TotalHeld, Total
<1>3. reserved' = Total(held')
  <2>1. CASE UNCHANGED <<reserved, held>>
    BY <1>2, <2>1
  <2>2. ASSUME NEW t \in Tasks, Takes(t) PROVE reserved' = Total(held')
    <3>1. Total([held EXCEPT ![t] = unitPrice]) = Total(held) - held[t] + unitPrice
      BY <1>1, TotalOfHolds
    <3> QED
      BY <1>1, <1>2, <2>2, <3>1 DEF Takes
  <2>3. ASSUME NEW t \in Tasks, Returns(t) PROVE reserved' = Total(held')
    <3>1. 0 \in Nat
      OBVIOUS
    <3>2. Total([held EXCEPT ![t] = 0]) = Total(held) - held[t] + 0
      BY <1>1, <3>1, TotalOfHolds
    <3> QED
      BY <1>1, <1>2, <2>3, <3>2 DEF Returns
  <2>4. UNCHANGED vars => UNCHANGED <<reserved, held>>
    BY DEF vars, accountVars, taskVars
  <2> HIDE DEF Takes, Returns
  <2> QED
    BY <2>1, <2>2, <2>3, <2>4, AttemptMoves, AdministrationMoves DEF Next
<1>4. TotalHeld' = Total(held')
  BY DEF TotalHeld, Total, FoldFunction, FoldFunctionOnSet, MapThenFoldSet
<1> QED
  BY <1>3, <1>4 DEF HoldsMatch

(***************************************************************************)
(* The reserved balance of the tenant is the sum of the holds on its       *)
(* tasks: none is released twice, none is forgotten.                       *)
(***************************************************************************)
THEOREM ReservedIsHeld ==
  ASSUME Disciplined, IsFiniteSet(Tasks)
  PROVE  Spec => []HoldsMatch
<1>1. Init => HoldsMatch
  BY TotalOfNothing DEF Init, AccountInit, HoldsMatch, TotalHeld, Total
<1> QED
  BY <1>1, HoldsMatchKept, OrderlyInvariant, PTL DEF Spec

\* The tenant row still carries every hold that a session decided to release.
ReleasesAccepted ==
    \A a \in Attempts : pc[a] \in {"failing", "abandoning", "expiring"} => ~CannotRelease(a)

(***************************************************************************)
(* Hence no failure path is cut short by release_task_reservation, whose   *)
(* conditional UPDATE finds too little left when holds have drifted.       *)
(***************************************************************************)
THEOREM NoReleaseRefused ==
  ASSUME Disciplined, IsFiniteSet(Tasks)
  PROVE  Spec => []ReleasesAccepted
<1>1. IInv /\ HoldsMatch => ReleasesAccepted
  <2> SUFFICES ASSUME IInv, HoldsMatch, NEW a \in Attempts,
                      pc[a] \in {"failing", "abandoning", "expiring"}
               PROVE  seen[a].held <= reserved
    BY DEF ReleasesAccepted, CannotRelease, CanRelease, IInv, TypeOK, AccountTypeOK, Row, Sessions
  <2>1. target[a] \in Tasks
    BY DEF IInv, Orderly, LiveOnOpenTask, Live
  <2>2. seen[a] = RowOf(target[a])
    BY <2>1, DecidingSession
  <2>3. held \in [Tasks -> Nat]
    BY HoldsAreNumbers DEF IInv
  <2>4. held[target[a]] <= Total(held)
    BY <2>1, <2>3, TotalAtLeast
  <2>5. reserved = Total(held)
    BY DEF HoldsMatch, TotalHeld, Total
  <2> QED
    BY <2>2, <2>4, <2>5 DEF RowOf
<1> QED
  BY <1>1, ReservedIsHeld, OrderlyInvariant, PTL

-----------------------------------------------------------------------------
(***************************************************************************)
(* A task in PROCESSING is settled only by the attempt that holds its      *)
(* lease, also when the attempt timed out and marks the task by its id.    *)
(***************************************************************************)
THEOREM HolderSettles ==
  ASSUME Disciplined
  PROVE  Spec => OnlyHolderSettles
<1>1. ASSUME IInv, [Next]_vars, NEW t \in Tasks,
             status[t] = "PROCESSING", status'[t] \in Terminal
      PROVE  \E a \in Attempts : pc'[a] # pc[a] /\ target[a] = t /\ owner[t] = RequestOf[a]
  <2>1. PICK a \in Attempts : AttemptStep(a)
    BY <1>1, AdministrationMoves DEF Next, vars, taskVars, Terminal
  <2>2. pc[a] \in Deciding /\ target[a] = t /\ pc'[a] = "done"
    BY <1>1, <2>1, AttemptMoves DEF Terminal
  <2>3. owner[t] = RequestOf[a]
    BY <1>1, <2>2, DecidingSession
  <2> QED
    BY <2>2, <2>3
<1>2. IInv /\ [Next]_vars => [\A t \in Tasks :
          status[t] = "PROCESSING" /\ status'[t] \in Terminal =>
             \E a \in Attempts :
                pc'[a] # pc[a] /\ target[a] = t /\ owner[t] = RequestOf[a]]_vars
  BY <1>1
<1> QED
  BY <1>2, OrderlyInvariant, PTL DEF Spec, OnlyHolderSettles

(***************************************************************************)
(* A settled task changes again only when an uncharged failure is retried. *)
(***************************************************************************)
THEOREM OutcomesAreFinal ==
  ASSUME Disciplined
  PROVE  Spec => OutcomeIsFinal
<1>1. ASSUME IInv, [Next]_vars, NEW t \in Tasks,
             status[t] \in Terminal, status'[t] # status[t]
      PROVE  status[t] = "FAILED" /\ status'[t] = "PENDING" /\ charged[t] = 0
  <2>1. ASSUME NEW a \in Attempts, AttemptStep(a) PROVE FALSE
    <3>1. pc[a] \in Deciding /\ target[a] = t
      BY <1>1, <2>1, AttemptMoves DEF Terminal
    <3> QED
      BY <1>1, <3>1, DecidingSession DEF Terminal
  <2>2. status[t] = "FAILED" /\ status'[t] = "PENDING"
    BY <1>1, <2>1, AdministrationMoves DEF Next, vars, taskVars, Terminal
  <2>3. charged[t] = 0
    BY <1>1, <2>2, HoldsAreNumbers DEF IInv, Orderly, ChargedOnlyOnSuccess
  <2> QED
    BY <2>2, <2>3
<1>2. IInv /\ [Next]_vars => [\A t \in Tasks :
          status[t] \in Terminal /\ status'[t] # status[t] =>
             status[t] = "FAILED" /\ status'[t] = "PENDING" /\ charged[t] = 0]_vars
  BY <1>1
<1> QED
  BY <1>2, OrderlyInvariant, PTL DEF Spec, OutcomeIsFinal

(***************************************************************************)
(* The price held at submission is the price charged, whatever the         *)
(* administrator does to unit_price meanwhile.                             *)
(***************************************************************************)
THEOREM AgreedPriceIsCharged ==
  ASSUME Disciplined
  PROVE  Spec => ChargedWhatWasHeld
<1>1. ASSUME IInv, [Next]_vars, NEW t \in Tasks, charged'[t] # charged[t]
      PROVE  charged'[t] = held[t]
  <2>1. PICK a \in Attempts : AttemptStep(a)
    BY <1>1, AdministrationMoves DEF Next, vars, taskVars
  <2>2. PICK u \in Tasks : charged' = [charged EXCEPT ![u] = held[u]]
    BY <1>1, <2>1, AttemptMoves
  <2> QED
    BY <1>1, <2>2 DEF IInv, TypeOK
<1>2. IInv /\ [Next]_vars => [\A t \in Tasks : charged'[t] # charged[t] => charged'[t] = held[t]]_vars
  BY <1>1
<1> QED
  BY <1>2, OrderlyInvariant, PTL DEF Spec, ChargedWhatWasHeld
=============================================================================
