------------------------- MODULE RateLimiterProofs -------------------------
(***************************************************************************)
(* Proofs about RateLimiter for any number of threads, calls and           *)
(* milliseconds, any rate and any burst, and about PeerLimits for any      *)
(* number of peers and any size of the map.                                *)
(***************************************************************************)
EXTENDS RateLimiter, PeerLimits, FiniteSetTheorems, TLAPS

\* Facts about the locals of a thread: the interval it is about to claim, or has
\* claimed, is not empty and ends no later than the clock; a thread about to
\* take a token has seen a whole one.
LocalInv ==
    /\ last <= clock
    /\ \A t \in Threads :
         /\ now[t] <= clock
         /\ pc[t] \in {"cas_last", "add", "cas_add"} => seen[t] < now[t]
         /\ pc[t] \in {"add", "cas_add"} => now[t] <= last
         /\ pc[t] = "cas_take" => cur[t] >= Scale

\* CreditedOnce, millisecond by millisecond.
Ledger ==
    /\ applied \subseteq 1..last
    /\ \A t \in Threads : Owed(t) \subseteq 1..last
    /\ \A m \in 1..last : m \in applied \/ \E t \in Threads : m \in Owed(t)
    /\ \A t \in Threads : Owed(t) \cap applied = {}
    /\ \A t, u \in Threads : t # u => Owed(t) \cap Owed(u) = {}

\* The bucket and the granted calls are paid by the applied milliseconds.
Paid == granted * Scale + tokens <= Burst + Rate * Cardinality(applied)

RLInv == TypeOK /\ LocalInv /\ Ledger /\ Paid

LEMMA LedgerGivesCreditedOnce == TypeOK /\ Ledger => CreditedOnce
<1> SUFFICES ASSUME TypeOK, Ledger PROVE CreditedOnce
    OBVIOUS
<1>1. 1..last = applied \cup UNION {Owed(t) : t \in Threads}
  BY DEF Ledger
<1> QED
  BY <1>1 DEF Ledger, CreditedOnce

LEMMA RLInit == Init => RLInv
<1> SUFFICES ASSUME Init PROVE RLInv
    OBVIOUS
<1> USE RateLimiterAssumption DEF Init
<1>1. TypeOK
  BY DEF TypeOK, Steps
<1>2. LocalInv
  BY DEF LocalInv
<1>3. Ledger
  BY DEF Ledger, Owed
<1>4. Paid
  <2>1. Cardinality(applied) = 0
    BY FS_EmptySet
  <2> QED
    BY <2>1 DEF Paid
<1> QED
  BY <1>1, <1>2, <1>3, <1>4 DEF RLInv

LEMMA TypeStep == TypeOK /\ LocalInv /\ [Next]_vars => TypeOK'
<1> SUFFICES ASSUME TypeOK, LocalInv, [Next]_vars PROVE TypeOK'
    OBVIOUS
<1> USE RateLimiterAssumption DEF TypeOK, Steps
<1>1. CASE Tick
  BY <1>1 DEF Tick
<1>2. ASSUME NEW t \in Threads, NEW o \in {"acquire", "available"}, Begin(t, o) PROVE TypeOK'
  BY <1>2 DEF Begin
<1>3. ASSUME NEW t \in Threads, ReadClock(t) PROVE TypeOK'
  BY <1>3 DEF ReadClock
<1>4. ASSUME NEW t \in Threads, LoadLast(t) PROVE TypeOK'
  BY <1>4 DEF LoadLast
<1>5. ASSUME NEW t \in Threads, Claim(t) PROVE TypeOK'
  BY <1>5 DEF Claim
<1>6. ASSUME NEW t \in Threads, LoadForAdd(t) PROVE TypeOK'
  BY <1>6 DEF LoadForAdd
<1>7. ASSUME NEW t \in Threads, Add(t) PROVE TypeOK'
  <2>1. now[t] - seen[t] \in Nat /\ cur[t] \in 0..Burst
    BY <1>7 DEF Add, LocalInv
  <2>2. (now[t] - seen[t]) * Rate \in Nat
    BY <2>1
  <2>3. tokens' \in 0..Burst
    BY <1>7, <2>1, <2>2 DEF Add, Refilled, AtMost
  <2>4. Owed(t) \subseteq Nat
    BY DEF Owed
  <2> QED
    BY <1>7, <2>3, <2>4 DEF Add
<1>8. ASSUME NEW t \in Threads, AddRetry(t) PROVE TypeOK'
  BY <1>8 DEF AddRetry
<1>9. ASSUME NEW t \in Threads, LoadForTake(t) PROVE TypeOK'
  BY <1>9 DEF LoadForTake
<1>10. ASSUME NEW t \in Threads, Take(t) PROVE TypeOK'
  BY <1>10 DEF Take, LocalInv
<1>11. ASSUME NEW t \in Threads, TakeRetry(t) PROVE TypeOK'
  BY <1>11 DEF TakeRetry
<1>12. CASE UNCHANGED vars
  BY <1>12 DEF vars
<1> QED
  BY <1>1, <1>2, <1>3, <1>4, <1>5, <1>6, <1>7, <1>8, <1>9, <1>10, <1>11, <1>12
     DEF Next, Step

LEMMA LocalStep == TypeOK /\ LocalInv /\ [Next]_vars => LocalInv'
<1> SUFFICES ASSUME TypeOK, LocalInv, [Next]_vars PROVE LocalInv'
    OBVIOUS
<1> USE RateLimiterAssumption DEF TypeOK, Steps, LocalInv
<1>1. CASE Tick
  BY <1>1 DEF Tick
<1>2. ASSUME NEW t \in Threads, NEW o \in {"acquire", "available"}, Begin(t, o) PROVE LocalInv'
  BY <1>2 DEF Begin
<1>3. ASSUME NEW t \in Threads, ReadClock(t) PROVE LocalInv'
  BY <1>3 DEF ReadClock
<1>4. ASSUME NEW t \in Threads, LoadLast(t) PROVE LocalInv'
  BY <1>4 DEF LoadLast
<1>5. ASSUME NEW t \in Threads, Claim(t) PROVE LocalInv'
  BY <1>5 DEF Claim
<1>6. ASSUME NEW t \in Threads, LoadForAdd(t) PROVE LocalInv'
  BY <1>6 DEF LoadForAdd
<1>7. ASSUME NEW t \in Threads, Add(t) PROVE LocalInv'
  BY <1>7 DEF Add
<1>8. ASSUME NEW t \in Threads, AddRetry(t) PROVE LocalInv'
  BY <1>8 DEF AddRetry
<1>9. ASSUME NEW t \in Threads, LoadForTake(t) PROVE LocalInv'
  BY <1>9 DEF LoadForTake
<1>10. ASSUME NEW t \in Threads, Take(t) PROVE LocalInv'
  BY <1>10 DEF Take
<1>11. ASSUME NEW t \in Threads, TakeRetry(t) PROVE LocalInv'
  BY <1>11 DEF TakeRetry
<1>12. CASE UNCHANGED vars
  BY <1>12 DEF vars
<1> QED
  BY <1>1, <1>2, <1>3, <1>4, <1>5, <1>6, <1>7, <1>8, <1>9, <1>10, <1>11, <1>12
     DEF Next, Step

\* Steps that neither claim nor pay leave every debt as it is.
LEMMA DebtKept ==
    ASSUME TypeOK, UNCHANGED <<last, applied>>,
           \A u \in Threads : Owed(u)' = Owed(u),
           Ledger
    PROVE  Ledger'
BY DEF Ledger

LEMMA LedgerStep == TypeOK /\ LocalInv /\ Ledger /\ [Next]_vars => Ledger'
<1> SUFFICES ASSUME TypeOK, LocalInv, Ledger, [Next]_vars PROVE Ledger'
    OBVIOUS
<1> USE RateLimiterAssumption DEF TypeOK, Steps
<1>1. CASE Tick
  BY <1>1, DebtKept DEF Tick, Owed
<1>2. ASSUME NEW t \in Threads, NEW o \in {"acquire", "available"}, Begin(t, o) PROVE Ledger'
  BY <1>2, DebtKept DEF Begin, Owed
<1>3. ASSUME NEW t \in Threads, ReadClock(t) PROVE Ledger'
  BY <1>3, DebtKept DEF ReadClock, Owed
<1>4. ASSUME NEW t \in Threads, LoadLast(t) PROVE Ledger'
  BY <1>4, DebtKept DEF LoadLast, Owed
<1>5. ASSUME NEW t \in Threads, Claim(t) PROVE Ledger'
  <2>1. CASE last # seen[t]
    BY <1>5, <2>1, DebtKept DEF Claim, Owed
  <2>2. CASE last = seen[t]
    <3>1. last' = now[t] /\ last < now[t] /\ applied' = applied
      BY <1>5, <2>2 DEF Claim, LocalInv
    <3>2. Owed(t) = {} /\ Owed(t)' = (last + 1)..now[t]
      BY <1>5, <2>2 DEF Claim, Owed
    <3>3. \A u \in Threads : u # t => Owed(u)' = Owed(u)
      BY <1>5, <2>2 DEF Claim, Owed
    <3>4. \A u \in Threads : Owed(u)' \subseteq 1..last'
      BY <3>1, <3>2, <3>3 DEF Ledger
    <3>5. \A m \in 1..last' : m \in applied' \/ \E u \in Threads : m \in Owed(u)'
      <4>1. TAKE m \in 1..last'
      <4>2. CASE m \in 1..last
        <5>1. CASE m \in applied
          BY <5>1, <3>1
        <5>2. CASE m \notin applied
          <6>1. PICK u \in Threads : m \in Owed(u)
            BY <4>2, <5>2 DEF Ledger
          <6> QED
            BY <6>1, <3>2, <3>3
        <5> QED
          BY <5>1, <5>2
      <4>3. CASE m \notin 1..last
        BY <4>3, <3>1, <3>2
      <4> QED
        BY <4>2, <4>3
    <3>6. \A u \in Threads : Owed(u)' \cap applied' = {}
      BY <3>1, <3>2, <3>3 DEF Ledger
    <3>7. \A u, v \in Threads : u # v => Owed(u)' \cap Owed(v)' = {}
      <4>1. \A u \in Threads : u # t => Owed(t)' \cap Owed(u)' = {}
        <5>1. \A u \in Threads : Owed(u) \subseteq 1..last
          BY DEF Ledger
        <5> QED
          BY <5>1, <3>2, <3>3
      <4> QED
        BY <4>1, <3>3 DEF Ledger
    <3>8. applied' \subseteq 1..last'
      BY <3>1 DEF Ledger
    <3> QED
      BY <3>4, <3>5, <3>6, <3>7, <3>8 DEF Ledger
  <2> QED
    BY <2>1, <2>2
<1>6. ASSUME NEW t \in Threads, LoadForAdd(t) PROVE Ledger'
  BY <1>6, DebtKept DEF LoadForAdd, Owed
<1>7. ASSUME NEW t \in Threads, Add(t) PROVE Ledger'
  <2>1. last' = last /\ applied' = applied \cup Owed(t) /\ Owed(t)' = {}
    BY <1>7 DEF Add, Owed
  <2>2. \A u \in Threads : u # t => Owed(u)' = Owed(u)
    BY <1>7 DEF Add, Owed
  <2>3. applied' \subseteq 1..last' /\ \A u \in Threads : Owed(u)' \subseteq 1..last'
    BY <2>1, <2>2 DEF Ledger
  <2>4. \A m \in 1..last' : m \in applied' \/ \E u \in Threads : m \in Owed(u)'
    <3>1. TAKE m \in 1..last'
    <3>2. CASE m \in applied
      BY <3>2, <2>1
    <3>3. CASE m \notin applied
      <4>1. PICK u \in Threads : m \in Owed(u)
        BY <3>3, <2>1 DEF Ledger
      <4> QED
        BY <4>1, <2>1, <2>2
    <3> QED
      BY <3>2, <3>3
  <2>5. \A u \in Threads : Owed(u)' \cap applied' = {}
    BY <2>1, <2>2 DEF Ledger
  <2>6. \A u, v \in Threads : u # v => Owed(u)' \cap Owed(v)' = {}
    BY <2>1, <2>2 DEF Ledger
  <2> QED
    BY <2>3, <2>4, <2>5, <2>6 DEF Ledger
<1>8. ASSUME NEW t \in Threads, AddRetry(t) PROVE Ledger'
  BY <1>8, DebtKept DEF AddRetry, Owed
<1>9. ASSUME NEW t \in Threads, LoadForTake(t) PROVE Ledger'
  BY <1>9, DebtKept DEF LoadForTake, Owed
<1>10. ASSUME NEW t \in Threads, Take(t) PROVE Ledger'
  BY <1>10, DebtKept DEF Take, Owed
<1>11. ASSUME NEW t \in Threads, TakeRetry(t) PROVE Ledger'
  BY <1>11, DebtKept DEF TakeRetry, Owed
<1>12. CASE UNCHANGED vars
  BY <1>12, DebtKept DEF vars, Owed
<1> QED
  BY <1>1, <1>2, <1>3, <1>4, <1>5, <1>6, <1>7, <1>8, <1>9, <1>10, <1>11, <1>12
     DEF Next, Step

\* The applied milliseconds are finitely many, none of them later than last.
Counted ==
    /\ IsFiniteSet(applied) /\ Cardinality(applied) \in Nat
    /\ Cardinality(applied) <= last

LEMMA AppliedCounted == TypeOK /\ Ledger => Counted
<1> SUFFICES ASSUME TypeOK, Ledger PROVE Counted
    OBVIOUS
<1>1. last \in Nat /\ applied \in SUBSET (1..last)
  BY DEF TypeOK, Ledger
<1>2. IsFiniteSet(1..last) /\ Cardinality(1..last) = last
  BY <1>1, FS_Interval
<1>3. IsFiniteSet(applied) /\ Cardinality(applied) <= Cardinality(1..last)
  BY <1>1, <1>2, FS_Subset
<1> QED
  BY <1>2, <1>3, FS_CardinalityType DEF Counted

\* Add pays for an interval of now[t] - seen[t] milliseconds, none of them paid
\* before.
LEMMA AddCounts ==
    ASSUME TypeOK, LocalInv, Ledger, NEW t \in Threads, Add(t)
    PROVE  /\ now[t] - seen[t] \in Nat \ {0}
           /\ Cardinality(applied') = Cardinality(applied) + (now[t] - seen[t])
<1>1. seen[t] \in Nat /\ now[t] \in Nat /\ seen[t] < now[t]
  BY DEF Add, TypeOK, LocalInv
<1>2. Owed(t) = (seen[t] + 1)..now[t]
  BY DEF Add, Owed
<1>3. IsFiniteSet(Owed(t)) /\ Cardinality(Owed(t)) = now[t] - seen[t]
  <2>1. seen[t] + 1 \in Int /\ now[t] \in Int /\ ~(seen[t] + 1 > now[t])
    BY <1>1
  <2>2. /\ IsFiniteSet((seen[t] + 1)..now[t])
        /\ Cardinality((seen[t] + 1)..now[t]) = now[t] - (seen[t] + 1) + 1
    BY <2>1, FS_Interval
  <2> QED
    BY <1>1, <1>2, <2>2
<1>4. Cardinality(applied \cap Owed(t)) = 0
  <2>1. applied \cap Owed(t) = {}
    BY DEF Ledger
  <2> QED
    BY <2>1, FS_EmptySet
<1>5. Cardinality(applied \cup Owed(t)) =
         Cardinality(applied) + Cardinality(Owed(t)) - Cardinality(applied \cap Owed(t))
  BY <1>3, AppliedCounted, FS_Union DEF Counted
<1>6. applied' = applied \cup Owed(t)
  BY DEF Add
<1> QED
  BY <1>1, <1>3, <1>4, <1>5, <1>6, AppliedCounted DEF Counted

\* Only Add raises the number of tokens, by no more than its interval is worth,
\* and that interval is disjoint from what was applied before.
LEMMA PaidStep == RLInv /\ [Next]_vars => Paid'
<1> SUFFICES ASSUME RLInv, [Next]_vars PROVE Paid'
    OBVIOUS
<1> USE RateLimiterAssumption
<1>a. TypeOK /\ LocalInv /\ Ledger /\ Paid
  BY DEF RLInv
<1>b. Cardinality(applied) \in Nat
  BY <1>a, AppliedCounted DEF Counted
<1>1. CASE UNCHANGED <<tokens, granted, applied>>
  BY <1>1, <1>a DEF Paid
<1>2. ASSUME NEW t \in Threads, Add(t) PROVE Paid'
  <2>1. seen[t] \in Nat /\ now[t] \in Nat /\ seen[t] < now[t] /\ tokens \in Nat /\ granted \in Nat
    BY <1>a, <1>2 DEF Add, TypeOK, LocalInv
  <2>6. Cardinality(applied') = Cardinality(applied) + (now[t] - seen[t])
    BY <1>a, <1>2, AddCounts
  <2>7. tokens' <= tokens + (now[t] - seen[t]) * Rate /\ granted' = granted
    <3> DEFINE gain == (now[t] - seen[t]) * Rate
    <3>1. gain \in Nat
      BY <2>1
    <3>2. tokens' = AtMost(tokens + gain, Burst) /\ granted' = granted
      BY <1>2 DEF Add, Refilled
    <3> HIDE DEF gain
    <3>3. tokens' <= tokens + gain
      BY <3>1, <3>2, <2>1 DEF AtMost
    <3> QED
      BY <3>2, <3>3 DEF gain
  <2>8. Rate * Cardinality(applied') = Rate * Cardinality(applied) + (now[t] - seen[t]) * Rate
    BY <2>1, <2>6, <1>b
  <2>9. tokens' \in Int
    BY <1>a, <1>2, TypeStep DEF TypeOK
  <2>10. granted * Scale \in Nat /\ Rate * Cardinality(applied) \in Nat /\ (now[t] - seen[t]) * Rate \in Nat
    BY <2>1, <1>b
  <2> QED
    BY <1>a, <2>1, <2>7, <2>8, <2>9, <2>10 DEF Paid
<1>3. ASSUME NEW t \in Threads, Take(t) PROVE Paid'
  <2>1. tokens' = tokens - Scale /\ granted' = granted + 1 /\ applied' = applied
    BY <1>3 DEF Take
  <2>2. tokens \in Nat /\ granted \in Nat
    BY <1>a DEF TypeOK
  <2>3. (granted + 1) * Scale = granted * Scale + Scale
    BY <2>2
  <2>4. granted * Scale \in Nat /\ Rate * Cardinality(applied) \in Nat
    BY <2>2, <1>b
  <2> QED
    BY <1>a, <2>1, <2>2, <2>3, <2>4 DEF Paid
<1>4. \/ UNCHANGED <<tokens, granted, applied>>
      \/ \E t \in Threads : Add(t) \/ Take(t)
  BY DEF Next, Step, vars, Tick, Begin, ReadClock, LoadLast, Claim, LoadForAdd, AddRetry,
     LoadForTake, TakeRetry
<1> QED
  BY <1>1, <1>2, <1>3, <1>4

LEMMA RLStep == RLInv /\ [Next]_vars => RLInv'
BY TypeStep, LocalStep, LedgerStep, PaidStep DEF RLInv

\* The applied milliseconds all lie between start and now, so paying for each of
\* them once bounds what is granted by the elapsed time.
LEMMA PaidGivesNoOverGrant == RLInv => NoOverGrant
<1> SUFFICES ASSUME RLInv PROVE NoOverGrant
    OBVIOUS
<1> USE RateLimiterAssumption
<1>1. last \in Nat /\ clock \in Nat /\ last <= clock /\ tokens \in Nat /\ granted \in Nat
  BY DEF RLInv, TypeOK, LocalInv
<1>3. Cardinality(applied) <= last /\ Cardinality(applied) \in Nat
  BY AppliedCounted DEF RLInv, Counted
<1>4. Rate * Cardinality(applied) <= Rate * clock
  BY <1>1, <1>3
<1>5. /\ Rate * Cardinality(applied) \in Int /\ Rate * clock \in Int
      /\ granted * Scale \in Int
  BY <1>1, <1>3
<1> QED
  BY <1>1, <1>4, <1>5 DEF RLInv, Paid, NoOverGrant

\* The bucket never holds more than the burst and never goes below zero.
THEOREM TypeCorrect == Spec => []TypeOK
<1>1. RLInv => TypeOK
  BY DEF RLInv
<1> QED
  BY RLInit, RLStep, <1>1, PTL DEF Spec

\* No millisecond is credited twice or lost, by any interleaving of any number
\* of threads.
THEOREM CreditedOnceHolds == Spec => []CreditedOnce
<1>1. RLInv => CreditedOnce
  BY LedgerGivesCreditedOnce DEF RLInv
<1> QED
  BY RLInit, RLStep, <1>1, PTL DEF Spec

\* At most one burst plus the refill of the elapsed time is ever granted.
THEOREM NoOverGrantHolds == Spec => []NoOverGrant
BY RLInit, RLStep, PaidGivesNoOverGrant, PTL DEF Spec

\* last_refill_ms never moves back.
THEOREM RefillMonotoneHolds == Spec => RefillMonotone
<1>1. RLInv /\ [Next]_vars => [last' >= last]_vars
  <2> SUFFICES ASSUME RLInv, [Next]_vars PROVE last' >= last
      OBVIOUS
  <2>1. CASE \E t \in Threads : Claim(t)
    <3>1. PICK t \in Threads : Claim(t)
      BY <2>1
    <3> QED
      BY <3>1 DEF Claim, RLInv, TypeOK, LocalInv
  <2>2. CASE ~\E t \in Threads : Claim(t)
    BY <2>2 DEF RLInv, TypeOK, Next, Step, vars, Tick, Begin, ReadClock, LoadLast,
       LoadForAdd, Add, AddRetry, LoadForTake, Take, TakeRetry
  <2> QED
    BY <2>1, <2>2
<1> QED
  BY RLInit, RLStep, <1>1, PTL DEF Spec, RefillMonotone

\* Refinement: every step of every thread is a step of the sequential bucket or
\* leaves it as it is.
LEMMA BudgetInitMaps == Init => Budget!BudgetInit
<1> SUFFICES ASSUME Init PROVE Budget!BudgetInit
    OBVIOUS
<1>1. Cardinality(applied) = 0
  BY FS_EmptySet DEF Init
<1> QED
  BY <1>1 DEF Init, Budget!BudgetInit

LEMMA BudgetStepMaps == RLInv /\ Counted' /\ [Next]_vars => [Budget!BudgetNext]_Budget!budgetVars
<1> SUFFICES ASSUME RLInv, Counted', [Next]_vars
             PROVE  [Budget!BudgetNext]_Budget!budgetVars
    OBVIOUS
<1> USE RateLimiterAssumption
<1>a. TypeOK /\ LocalInv /\ Ledger
  BY DEF RLInv
<1>1. CASE UNCHANGED <<tokens, clock, granted, applied>>
  BY <1>1 DEF Budget!budgetVars
<1>2. CASE Tick
  BY <1>2 DEF Tick, Budget!BudgetNext, Budget!Elapse
<1>3. ASSUME NEW t \in Threads, Add(t) PROVE Budget!BudgetNext
  <2> DEFINE ms == now[t] - seen[t]
  <2>1. ms \in Nat \ {0} /\ Cardinality(applied') = Cardinality(applied) + ms
    BY <1>a, <1>3, AddCounts
  <2>2. Cardinality(applied') <= last' /\ last' = last /\ last <= clock
        /\ Cardinality(applied) \in Nat /\ clock \in Nat /\ last \in Nat
    BY <1>a, <1>3, AppliedCounted DEF Add, LocalInv, TypeOK, Counted
  <2>3. ms \in 1..(clock - Cardinality(applied))
    BY <2>1, <2>2
  <2>4. Budget!Deposit(ms)
    <3>1. tokens' = AtMost(tokens + ms * Rate, Burst)
      BY <1>3 DEF Add, Refilled
    <3>2. clock' = clock /\ granted' = granted
      BY <1>3 DEF Add
    <3> HIDE DEF ms
    <3> QED
      BY <2>1, <3>1, <3>2 DEF Budget!Deposit, AtMost
  <2> HIDE DEF ms
  <2> QED
    BY <2>3, <2>4 DEF Budget!BudgetNext
<1>4. ASSUME NEW t \in Threads, Take(t) PROVE Budget!BudgetNext
  <2>1. tokens >= Scale
    BY <1>a, <1>4 DEF Take, LocalInv
  <2> QED
    BY <1>4, <2>1 DEF Take, Budget!BudgetNext, Budget!Withdraw
<1>5. \/ Tick \/ UNCHANGED <<tokens, clock, granted, applied>>
      \/ \E t \in Threads : Add(t) \/ Take(t)
  BY DEF Next, Step, vars, Begin, ReadClock, LoadLast, Claim, LoadForAdd, AddRetry,
     LoadForTake, TakeRetry
<1> QED
  BY <1>1, <1>2, <1>3, <1>4, <1>5

\* The lock-free bucket of any number of threads implements the sequential one.
THEOREM ImplementsBudgetHolds == Spec => ImplementsBudget
<1>1. RLInv => Counted
  BY AppliedCounted DEF RLInv
<1> QED
  BY RLInit, RLStep, BudgetInitMaps, BudgetStepMaps, <1>1, PTL DEF Spec, ImplementsBudget, Budget!BudgetSpec

-----------------------------------------------------------------------------
\* The bucket of a peer, evicted or not, never holds less than the burst minus
\* what the peer was let through; a peer that has a bucket in the map was given
\* one; and from then on bucket and passed requests are paid by the buckets it was
\* given and the time of its last refill.
PeerType ==
    /\ peerClock \in Nat
    /\ lru \in Seq(Peers)
    /\ bucket \in [Peers -> [tokens : Nat, last : Nat]]
    /\ passed \in [Peers -> Nat] /\ born \in [Peers -> Nat]
    /\ refused \in SUBSET Peers

PeerLedger ==
    \A p \in Peers :
      /\ bucket[p].tokens <= PeerBurst /\ bucket[p].last <= peerClock
      /\ passed[p] + bucket[p].tokens >= PeerBurst
      /\ born[p] = 0 => passed[p] = 0
      /\ born[p] > 0 => passed[p] + bucket[p].tokens
                            <= born[p] * PeerBurst + PeerRate * bucket[p].last

PeerInv ==
    /\ PeerType /\ PeerLedger
    /\ \A p \in Tracked : born[p] > 0
    /\ PeerIsolated

\* A request brings nobody into the map but its own peer.
LEMMA TouchedTracks ==
    ASSUME lru \in Seq(Peers), NEW p \in Peers
    PROVE  /\ Touched(p) \in Seq(Peers)
           /\ \A i \in DOMAIN Touched(p) : Touched(p)[i] = p \/ Touched(p)[i] \in Tracked
<1>1. CASE p \in Tracked
  <2> DEFINE k == CHOOSE i \in DOMAIN lru : lru[i] = p
             a == SubSeq(lru, 1, k - 1)
             b == SubSeq(lru, k + 1, Len(lru))
  <2>1. k \in 1..Len(lru)
    BY <1>1 DEF Tracked
  <2> HIDE DEF k
  <2>2. a \in Seq(Peers) /\ \A i \in DOMAIN a : a[i] \in Tracked
    BY <2>1 DEF Tracked
  <2>3. b \in Seq(Peers) /\ \A i \in DOMAIN b : b[i] \in Tracked
    BY <2>1 DEF Tracked
  <2>4. Touched(p) = <<p>> \o a \o b
    BY <1>1 DEF Touched, k
  <2> HIDE DEF a, b
  <2> QED
    BY <2>2, <2>3, <2>4
<1>2. CASE p \notin Tracked
  <2> DEFINE n == IF Len(lru) < MAX_PEER_BUCKETS THEN Len(lru) ELSE MAX_PEER_BUCKETS - 1
             a == SubSeq(lru, 1, n)
  <2>1. n \in 0..Len(lru)
    BY PeerAssumption
  <2> HIDE DEF n
  <2>2. a \in Seq(Peers) /\ \A i \in DOMAIN a : a[i] \in Tracked
    BY <2>1 DEF Tracked
  <2>3. Touched(p) = <<p>> \o a
    BY <1>2 DEF Touched, n
  <2> HIDE DEF a
  <2> QED
    BY <2>2, <2>3
<1> QED
  BY <1>1, <1>2

LEMMA PeerInitInv == PeerInit => PeerInv
BY PeerAssumption DEF PeerInit, PeerInv, PeerType, PeerLedger, PeerIsolated, Tracked, FullBucket

\* What one request does to the bucket of its peer: r is the bucket after the
\* refill, of a fresh bucket if the peer has none.
LEMMA RefilledPays ==
    ASSUME PeerInv, NEW p \in Peers,
           NEW r, r = RefilledBucket(IF p \in Tracked THEN bucket[p] ELSE FullBucket),
           NEW g \in Nat, g = IF p \in Tracked THEN born[p] ELSE born[p] + 1
    PROVE  /\ r.tokens \in Nat /\ r.tokens <= PeerBurst /\ r.last = peerClock
           /\ r = [tokens |-> r.tokens, last |-> r.last]
           /\ passed[p] + r.tokens >= PeerBurst
           /\ g > 0 /\ passed[p] + r.tokens <= g * PeerBurst + PeerRate * peerClock
<1> USE PeerAssumption
<1>a. /\ peerClock \in Nat /\ passed[p] \in Nat /\ born[p] \in Nat
      /\ bucket[p].tokens \in Nat /\ bucket[p].last \in Nat
      /\ bucket[p].tokens <= PeerBurst /\ bucket[p].last <= peerClock
      /\ passed[p] + bucket[p].tokens >= PeerBurst
      /\ born[p] = 0 => passed[p] = 0
      /\ born[p] > 0 => passed[p] + bucket[p].tokens
                            <= born[p] * PeerBurst + PeerRate * bucket[p].last
  BY DEF PeerInv, PeerType, PeerLedger
<1>1. CASE p \in Tracked
  <2> DEFINE gain == (peerClock - bucket[p].last) * PeerRate
  <2>1. gain \in Nat
    BY <1>a
  <2>2. PeerRate * peerClock = PeerRate * bucket[p].last + gain
    BY <1>a
  <2>3. /\ r.tokens = IF bucket[p].tokens + gain < PeerBurst
                         THEN bucket[p].tokens + gain ELSE PeerBurst
        /\ r.last = peerClock
        /\ r = [tokens |-> r.tokens, last |-> r.last]
    BY <1>1 DEF RefilledBucket
  <2>4. g = born[p] /\ born[p] > 0
    BY <1>1 DEF PeerInv
  <2>5. born[p] * PeerBurst \in Nat /\ PeerRate * peerClock \in Nat /\ PeerRate * bucket[p].last \in Nat
    BY <1>a
  <2> HIDE DEF gain
  <2> QED
    BY <1>a, <2>1, <2>2, <2>3, <2>4, <2>5
<1>2. CASE p \notin Tracked
  <2>1. (peerClock - peerClock) * PeerRate = 0
    BY <1>a
  <2>2. r.tokens = PeerBurst /\ r.last = peerClock /\ r = [tokens |-> r.tokens, last |-> r.last]
    BY <1>2, <1>a, <2>1 DEF RefilledBucket, FullBucket
  <2>3. g = born[p] + 1 /\ g * PeerBurst = born[p] * PeerBurst + PeerBurst
    BY <1>2, <1>a
  <2>4. passed[p] <= born[p] * PeerBurst + PeerRate * peerClock
    <3>1. PeerRate * bucket[p].last <= PeerRate * peerClock
      BY <1>a
    <3>2. PeerRate * bucket[p].last \in Nat /\ PeerRate * peerClock \in Nat /\ born[p] * PeerBurst \in Nat
      BY <1>a
    <3> QED
      BY <1>a, <3>1, <3>2
  <2>5. PeerRate * peerClock \in Nat /\ born[p] * PeerBurst \in Nat
    BY <1>a
  <2>6. passed[p] + r.tokens <= g * PeerBurst + PeerRate * peerClock
    <3> DEFINE old == born[p] * PeerBurst
               new == g * PeerBurst
               time == PeerRate * peerClock
    <3>1. old \in Nat /\ time \in Nat /\ new = old + PeerBurst /\ passed[p] <= old + time
      BY <2>3, <2>4, <2>5
    <3> HIDE DEF old, new, time
    <3>2. passed[p] + PeerBurst <= new + time
      BY <1>a, <3>1
    <3> QED
      BY <2>2, <3>2 DEF new, time
  <2>7. g > 0
    BY <1>a, <2>3
  <2> QED
    BY <1>a, <2>2, <2>6, <2>7
<1> QED
  BY <1>1, <1>2

LEMMA PeerStep == PeerInv /\ [PeerNext]_peerVars => PeerInv'
<1> SUFFICES ASSUME PeerInv, [PeerNext]_peerVars PROVE PeerInv'
    OBVIOUS
<1> USE PeerAssumption
<1>1. CASE UNCHANGED peerVars
  BY <1>1 DEF peerVars, PeerInv, PeerType, PeerLedger, PeerIsolated, Tracked
<1>2. CASE PeerTick
  BY <1>2 DEF PeerTick, PeerInv, PeerType, PeerLedger, PeerIsolated, Tracked
<1>3. ASSUME NEW p \in Peers, CheckPeer(p) PROVE PeerInv'
  <2> DEFINE r == RefilledBucket(IF p \in Tracked THEN bucket[p] ELSE FullBucket)
             g == IF p \in Tracked THEN born[p] ELSE born[p] + 1
  <2>1. g \in Nat
    BY DEF PeerInv, PeerType
  <2>2. /\ r.tokens \in Nat /\ r.tokens <= PeerBurst /\ r.last = peerClock
        /\ r = [tokens |-> r.tokens, last |-> r.last]
        /\ passed[p] + r.tokens >= PeerBurst
        /\ g > 0 /\ passed[p] + r.tokens <= g * PeerBurst + PeerRate * peerClock
    BY <2>1, RefilledPays
  <2>3. /\ bucket' = [bucket EXCEPT ![p] = IF r.tokens >= 1 THEN [r EXCEPT !.tokens = @ - 1] ELSE r]
        /\ passed' = IF r.tokens >= 1 THEN [passed EXCEPT ![p] = @ + 1] ELSE passed
        /\ refused' = IF r.tokens >= 1 THEN refused ELSE refused \cup {p}
        /\ born' = [born EXCEPT ![p] = g]
        /\ lru' = Touched(p) /\ peerClock' = peerClock
    BY <1>3 DEF CheckPeer, PeerInv, PeerType
  <2> HIDE DEF r, g
  <2>4. PeerType'
    <3>1. bucket'[p] = IF r.tokens >= 1 THEN [r EXCEPT !.tokens = @ - 1] ELSE r
      BY <2>3 DEF PeerInv, PeerType
    <3>2. bucket'[p] \in [tokens : Nat, last : Nat]
      <4>1. r \in [tokens : Nat, last : Nat]
        BY <2>2 DEF PeerInv, PeerType
      <4> QED
        BY <3>1, <4>1
    <3>3. bucket' \in [Peers -> [tokens : Nat, last : Nat]]
      BY <2>3, <3>1, <3>2 DEF PeerInv, PeerType
    <3>4. passed' \in [Peers -> Nat] /\ born' \in [Peers -> Nat] /\ refused' \in SUBSET Peers
      BY <2>1, <2>3 DEF PeerInv, PeerType
    <3>5. lru' \in Seq(Peers) /\ peerClock' \in Nat
      BY <2>3, TouchedTracks DEF PeerInv, PeerType
    <3> QED
      BY <3>3, <3>4, <3>5 DEF PeerType
  <2>5. PeerLedger'
    <3> SUFFICES ASSUME NEW q \in Peers
                 PROVE  (/\ bucket[q].tokens <= PeerBurst /\ bucket[q].last <= peerClock
                         /\ passed[q] + bucket[q].tokens >= PeerBurst
                         /\ born[q] = 0 => passed[q] = 0
                         /\ born[q] > 0 => passed[q] + bucket[q].tokens
                                              <= born[q] * PeerBurst + PeerRate * bucket[q].last)'
      BY DEF PeerLedger
    <3>1. CASE q # p
      BY <2>3, <3>1 DEF PeerInv, PeerType, PeerLedger
    <3>2. CASE q = p
      <4>1. born'[q] = g /\ passed[p] \in Nat
        BY <2>3, <3>2 DEF PeerInv, PeerType
      <4>2. passed'[q] + bucket'[q].tokens = passed[p] + r.tokens /\ bucket'[q].last = peerClock
            /\ bucket'[q].tokens <= r.tokens
        BY <2>2, <2>3, <3>2 DEF PeerInv, PeerType
      <4>3. bucket'[q].tokens \in Nat
        BY <2>2, <2>3, <3>2 DEF PeerInv, PeerType
      <4>4. g * PeerBurst \in Nat /\ PeerRate * peerClock \in Nat /\ peerClock \in Nat
        BY <2>1 DEF PeerInv, PeerType
      <4> QED
        BY <2>1, <2>2, <2>3, <4>1, <4>2, <4>3, <4>4
    <3> QED
      BY <3>1, <3>2
  <2>6. \A q \in Tracked' : born'[q] > 0
    <3> SUFFICES ASSUME NEW i \in DOMAIN lru' PROVE born'[lru'[i]] > 0
      BY DEF Tracked
    <3>1. lru'[i] = p \/ lru'[i] \in Tracked
      BY <2>3, TouchedTracks DEF PeerInv, PeerType
    <3>2. lru'[i] \in Peers
      BY <2>4 DEF PeerType
    <3> QED
      BY <2>1, <2>2, <2>3, <3>1, <3>2 DEF PeerInv, PeerType
  <2>7. PeerIsolated'
    BY <2>2, <2>3 DEF PeerInv, PeerType, PeerIsolated
  <2> QED
    BY <2>4, <2>5, <2>6, <2>7 DEF PeerInv
<1> QED
  BY <1>1, <1>2, <1>3 DEF PeerNext

\* No peer is turned away before it was let through a whole burst, for any number
\* of peers and whoever is pushed out of the map.
THEOREM PeerIsolatedHolds == PeerSpec => []PeerIsolated
<1>1. PeerInv => PeerIsolated
  BY DEF PeerInv
<1> QED
  BY PeerInitInv, PeerStep, <1>1, PTL DEF PeerSpec

\* No peer is let through more than a burst per bucket it was given plus the
\* refill of the elapsed time.
THEOREM PeerGrantBoundedHolds == PeerSpec => []PeerGrantBounded
<1>1. PeerInv => PeerGrantBounded
  <2> SUFFICES ASSUME PeerInv, NEW p \in Peers
               PROVE  passed[p] <= born[p] * PeerBurst + PeerRate * peerClock
    BY DEF PeerGrantBounded
  <2>1. PeerRate * bucket[p].last <= PeerRate * peerClock
    BY PeerAssumption DEF PeerInv, PeerType, PeerLedger
  <2>2. /\ PeerRate * bucket[p].last \in Nat /\ PeerRate * peerClock \in Nat
        /\ born[p] * PeerBurst \in Nat /\ bucket[p].tokens \in Nat /\ passed[p] \in Nat /\ born[p] \in Nat
    BY PeerAssumption DEF PeerInv, PeerType
  <2> QED
    BY <2>1, <2>2 DEF PeerInv, PeerLedger
<1> QED
  BY PeerInitInv, PeerStep, <1>1, PTL DEF PeerSpec

\* check_rate_limit_for_peer keeps peers apart, for any number of peers, any rate and
\* burst, and any size of the map.
THEOREM PeersApartHold == PeerSpec => []PeersApart
<1>1. PeerIsolated /\ PeerGrantBounded => PeersApart
  BY DEF PeersApart
<1> QED
  BY PeerIsolatedHolds, PeerGrantBoundedHolds, <1>1, PTL
=============================================================================
