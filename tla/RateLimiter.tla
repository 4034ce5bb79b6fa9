---------------------------- MODULE RateLimiter ----------------------------
(***************************************************************************)
(* The lock-free token bucket of src/rate_limit.rs, shared by every thread *)
(* that calls check_rate_limit or available_tokens.  A refill first claims *)
(* the elapsed milliseconds with a compare-exchange on last_refill_ms and  *)
(* only then adds their tokens with a compare-exchange loop of its own;    *)
(* consuming a token is a third loop.  Each atomic access is one step.     *)
(*                                                                         *)
(* saturating_mul and saturating_add never matter: the sum is cut to       *)
(* burst_scaled, which is below 2^42.                                      *)
(***************************************************************************)
EXTENDS Integers, FiniteSets

CONSTANTS
    Threads,    \* threads that use the bucket
    Scale,      \* 1000 in the code: scaled tokens per call
    Burst,      \* burst_scaled
    Rate,       \* scaled tokens added per millisecond
    MaxClock,   \* bound: milliseconds that may pass
    MaxOps      \* bound: calls made

ASSUME RateLimiterAssumption ==
    /\ IsFiniteSet(Threads)
    /\ Scale \in Nat \ {0}
    /\ Burst \in Nat
    /\ Rate \in Nat
    /\ MaxClock \in Nat
    /\ MaxOps \in Nat

VARIABLES
    clock,    \* current_time_ms
    tokens,   \* tokens_scaled
    last,     \* last_refill_ms
    pc, op,   \* where each thread is, and which call it makes
    now, seen, cur,  \* its locals: clock read, last_refill_ms read, tokens read
    ops,      \* calls begun
    granted,  \* history: calls of try_acquire that returned true
    applied   \* history: the milliseconds whose tokens have been added

vars == <<clock, tokens, last, pc, op, now, seen, cur, ops, granted, applied>>

Steps == {"idle", "clock", "last", "cas_last", "add", "cas_add", "take", "cas_take"}

AtMost(a, b) == IF a <= b THEN a ELSE b

\* with_limits: a full bucket, refilled as of now.
Init ==
    /\ clock = 0 /\ last = 0
    /\ tokens = Burst
    /\ pc = [t \in Threads |-> "idle"]
    /\ op = [t \in Threads |-> "acquire"]
    /\ now = [t \in Threads |-> 0]
    /\ seen = [t \in Threads |-> 0]
    /\ cur = [t \in Threads |-> 0]
    /\ ops = 0
    /\ granted = 0
    /\ applied = {}

Tick ==
    /\ clock < MaxClock
    /\ clock' = clock + 1
    /\ UNCHANGED <<tokens, last, pc, op, now, seen, cur, ops, granted, applied>>

\* try_acquire and available_tokens both begin with refill.
Begin(t, o) ==
    /\ pc[t] = "idle" /\ ops < MaxOps
    /\ ops' = ops + 1
    /\ op' = [op EXCEPT ![t] = o]
    /\ pc' = [pc EXCEPT ![t] = "clock"]
    /\ UNCHANGED <<clock, tokens, last, now, seen, cur, granted, applied>>

ReadClock(t) ==
    /\ pc[t] = "clock"
    /\ now' = [now EXCEPT ![t] = clock]
    /\ pc' = [pc EXCEPT ![t] = "last"]
    /\ UNCHANGED <<clock, tokens, last, op, seen, cur, ops, granted, applied>>

\* refill returns at once when another thread has already refilled up to now.
LoadLast(t) ==
    /\ pc[t] = "last"
    /\ seen' = [seen EXCEPT ![t] = last]
    /\ pc' = [pc EXCEPT ![t] = IF now[t] <= last THEN "take" ELSE "cas_last"]
    /\ UNCHANGED <<clock, tokens, last, op, now, cur, ops, granted, applied>>

\* Faulty variant: the timestamp is stored without comparing it.
ClaimIgnoringRace(t) ==
    /\ pc[t] = "cas_last"
    /\ last' = now[t]
    /\ pc' = [pc EXCEPT ![t] = "add"]
    /\ UNCHANGED <<clock, tokens, op, now, seen, cur, ops, granted, applied>>

\* The compare-exchange on last_refill_ms: one thread wins the interval.
Claim(t) ==
    /\ pc[t] = "cas_last"
    /\ IF last = seen[t]
         THEN last' = now[t] /\ pc' = [pc EXCEPT ![t] = "add"]
         ELSE UNCHANGED last /\ pc' = [pc EXCEPT ![t] = "take"]
    /\ UNCHANGED <<clock, tokens, op, now, seen, cur, ops, granted, applied>>

\* The milliseconds thread t has claimed and not yet paid into the bucket.
Owed(t) == IF pc[t] \in {"add", "cas_add"} THEN (seen[t] + 1)..now[t] ELSE {}

LoadForAdd(t) ==
    /\ pc[t] = "add"
    /\ cur' = [cur EXCEPT ![t] = tokens]
    /\ pc' = [pc EXCEPT ![t] = "cas_add"]
    /\ UNCHANGED <<clock, tokens, last, op, now, seen, ops, granted, applied>>

\* Faulty variant: the refill is not cut at the burst size.
RefilledUncapped(t) == cur[t] + (now[t] - seen[t]) * Rate

Refilled(t) == AtMost(cur[t] + (now[t] - seen[t]) * Rate, Burst)

\* compare_exchange_weak succeeds ...
Add(t) ==
    /\ pc[t] = "cas_add"
    /\ tokens = cur[t]
    /\ tokens' = Refilled(t)
    /\ applied' = applied \cup Owed(t)
    /\ pc' = [pc EXCEPT ![t] = "take"]
    /\ UNCHANGED <<clock, last, op, now, seen, cur, ops, granted>>

\* ... or fails, for a changed value or spuriously, and the loop reloads.
AddRetry(t) ==
    /\ pc[t] = "cas_add"
    /\ pc' = [pc EXCEPT ![t] = "add"]
    /\ UNCHANGED <<clock, tokens, last, op, now, seen, cur, ops, granted, applied>>

\* Faulty variant: a caller that finds too few tokens looks again instead of
\* returning false.
LoadForTakeSpins(t) ==
    /\ pc[t] = "take"
    /\ cur' = [cur EXCEPT ![t] = tokens]
    /\ pc' = [pc EXCEPT ![t] =
                IF op[t] = "available" THEN "idle"
                ELSE IF tokens >= Scale THEN "cas_take" ELSE "take"]
    /\ UNCHANGED <<clock, tokens, last, op, now, seen, ops, granted, applied>>

\* After refill: try_acquire needs a whole token, available_tokens only reads.
LoadForTake(t) ==
    /\ pc[t] = "take"
    /\ cur' = [cur EXCEPT ![t] = tokens]
    /\ pc' = [pc EXCEPT ![t] =
                IF op[t] = "acquire" /\ tokens >= Scale THEN "cas_take" ELSE "idle"]
    /\ UNCHANGED <<clock, tokens, last, op, now, seen, ops, granted, applied>>

\* Faulty variant: the consuming store does not compare.
TakeUnchecked(t) ==
    /\ pc[t] = "cas_take"
    /\ tokens' = cur[t] - Scale
    /\ granted' = granted + 1
    /\ pc' = [pc EXCEPT ![t] = "idle"]
    /\ UNCHANGED <<clock, last, op, now, seen, cur, ops, applied>>

Take(t) ==
    /\ pc[t] = "cas_take"
    /\ tokens = cur[t]
    /\ tokens' = cur[t] - Scale
    /\ granted' = granted + 1
    /\ pc' = [pc EXCEPT ![t] = "idle"]
    /\ UNCHANGED <<clock, last, op, now, seen, cur, ops, applied>>

TakeRetry(t) ==
    /\ pc[t] = "cas_take"
    /\ pc' = [pc EXCEPT ![t] = "take"]
    /\ UNCHANGED <<clock, tokens, last, op, now, seen, cur, ops, granted, applied>>

Step(t) ==
    \/ ReadClock(t) \/ LoadLast(t) \/ Claim(t) \/ LoadForAdd(t) \/ Add(t)
    \/ LoadForTake(t) \/ Take(t)

Next ==
    \/ Tick
    \/ \E t \in Threads :
         \/ \E o \in {"acquire", "available"} : Begin(t, o)
         \/ Step(t) \/ AddRetry(t) \/ TakeRetry(t)

Spec == Init /\ [][Next]_vars

\* A running thread keeps taking steps, and a compare-exchange that can succeed
\* again and again eventually does.
Fairness ==
    \A t \in Threads :
      /\ WF_vars(Step(t) \/ AddRetry(t) \/ TakeRetry(t))
      /\ SF_vars(Add(t)) /\ SF_vars(Take(t))
FairSpec == Spec /\ Fairness

-----------------------------------------------------------------------------
\* Type invariant: the bucket never holds more than burst_scaled nor goes below
\* zero (an u64 would wrap).
TypeOK ==
    /\ clock \in Nat /\ last \in Nat /\ tokens \in 0..Burst
    /\ pc \in [Threads -> Steps]
    /\ op \in [Threads -> {"acquire", "available"}]
    /\ now \in [Threads -> Nat] /\ seen \in [Threads -> Nat]
    /\ cur \in [Threads -> 0..Burst]
    /\ ops \in Nat /\ granted \in Nat
    /\ applied \in SUBSET Nat

\* Every millisecond up to last_refill_ms is paid into the bucket once: it has
\* been applied or exactly one thread still owes it, and never both.  A loser of
\* the compare-exchange neither pays its interval again nor drops it.
CreditedOnce ==
    /\ 1..last = applied \cup UNION {Owed(t) : t \in Threads}
    /\ \A t \in Threads : Owed(t) \cap applied = {}
    /\ \A t, u \in Threads : t # u => Owed(t) \cap Owed(u) = {}

\* Over any run at most one burst plus the refill of the elapsed time is granted,
\* whatever the interleaving of refills and acquisitions.
NoOverGrant == granted * Scale + tokens <= Burst + Rate * clock

\* The refill timestamp never moves back, although the clock value stored was
\* read several steps earlier.
RefillMonotone == [][last' >= last]_vars

\* However the threads interleave, the bucket is a sequential one: each step
\* lets time pass, deposits milliseconds that nobody deposited before, draws one
\* whole token for one granted call, or changes nothing that counts.
Budget == INSTANCE TokenBudget WITH
            level <- tokens, time <- clock, paid <- Cardinality(applied), drawn <- granted
ImplementsBudget == Budget!BudgetSpec

\* Every call returns, although other threads keep changing both words.
AcquireReturns == \A t \in Threads : [](pc[t] # "idle" => <>(pc[t] = "idle"))
=============================================================================
