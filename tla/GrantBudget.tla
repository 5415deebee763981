---------------------------- MODULE GrantBudget -----------------------------
(***************************************************************************)
(* What a rate limiter promises about each key: a budget that starts full, *)
(* grows by one unit per unit of time up to Capacity, and pays for every   *)
(* request that is let through.  The limiter may be stricter (a budget may *)
(* be lost), never more generous, except that a Reset of the store gives   *)
(* every key a full budget again.                                          *)
(***************************************************************************)
EXTENDS Integers

CONSTANTS
    Keys,       \* the clients
    Costs,      \* what a request may cost
    Capacity    \* the budget of a client that was idle for long

VARIABLES
    now,
    level,      \* what is left of each key's budget
    granted     \* what each key was granted since the last Reset

budget == <<now, level, granted>>

BudgetInit ==
    /\ level = [k \in Keys |-> Capacity]
    /\ granted = [k \in Keys |-> 0]

\* Time passes for every key alike.
Refill ==
    /\ now' = now + 1
    /\ \A k \in Keys :
          level'[k] = IF level[k] + 1 > Capacity THEN Capacity ELSE level[k] + 1
    /\ level' = [k \in Keys |-> level'[k]]
    /\ UNCHANGED granted

Lose(k) ==
    /\ level'[k] <= level[k]
    /\ level' = [level EXCEPT ![k] = level'[k]]
    /\ UNCHANGED <<now, granted>>

Grant(k, c) ==
    /\ 0 <= level'[k]
    /\ level'[k] + c <= level[k]
    /\ level' = [level EXCEPT ![k] = level'[k]]
    /\ granted' = [granted EXCEPT ![k] = granted[k] + c]
    /\ UNCHANGED now

Reset == BudgetInit' /\ UNCHANGED now

BudgetNext ==
    \/ Refill
    \/ \E k \in Keys : Lose(k)
    \/ \E k \in Keys, c \in Costs : Grant(k, c)
    \/ Reset

BudgetSpec == BudgetInit /\ [][BudgetNext]_budget
=============================================================================
