---------------------------- MODULE TokenBudget ----------------------------
(***************************************************************************)
(* What a token bucket promises, without threads: time passes, every       *)
(* millisecond is worth Rate and is deposited at most once, up to the      *)
(* brim, and a granted call withdraws one whole token.  RateLimiter is     *)
(* shown to implement it.                                                  *)
(***************************************************************************)
EXTENDS Integers

CONSTANTS Scale, Burst, Rate

VARIABLES
    level,    \* scaled tokens that can be drawn
    time,     \* milliseconds since the bucket was made
    paid,     \* how many of them have been deposited
    drawn     \* calls granted

budgetVars == <<level, time, paid, drawn>>

BudgetInit == level = Burst /\ time = 0 /\ paid = 0 /\ drawn = 0

Elapse == time' = time + 1 /\ UNCHANGED <<level, paid, drawn>>

Deposit(ms) ==
    /\ level' = IF level + ms * Rate <= Burst THEN level + ms * Rate ELSE Burst
    /\ paid' = paid + ms
    /\ UNCHANGED <<time, drawn>>

Withdraw ==
    /\ level >= Scale
    /\ level' = level - Scale
    /\ drawn' = drawn + 1
    /\ UNCHANGED <<time, paid>>

BudgetNext == Elapse \/ Withdraw \/ \E ms \in 1..(time - paid) : Deposit(ms)

BudgetSpec == BudgetInit /\ [][BudgetNext]_budgetVars
=============================================================================
