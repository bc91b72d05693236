----------------------------- MODULE SpendWindow -----------------------------
(***************************************************************************)
(* The spending window of the budget ledger (src/src/tower/budget.rs,      *)
(* WindowEntry): a counter and the start of its window, two atomics that   *)
(* any number of threads read, renew and add to without a lock.            *)
(*                                                                         *)
(* Every atomic operation is a step.  The renewal subtracts the amount     *)
(* read before the compare-and-swap, so that an amount added in between is *)
(* kept.  spend_mc is a u64: what would go below zero here becomes a       *)
(* number near 2^64 there, and the budget rejects for a whole window.      *)
(*                                                                         *)
(* InMemoryBudgetLedger::reset() is not part of this module: it stores     *)
(* into both atomics and must not overlap a renewal.                       *)
(***************************************************************************)
EXTENDS Integers

CONSTANTS
    Threads,
    WindowSecs,     \* window_secs
    MaxStall,       \* the most seconds that begin while a call is under way
    Amounts,        \* what add() adds, in millionths; 0 is a mere spend_usd()
    MaxClock,       \* bound: when the clock stops
    MaxSpend        \* bound: the spend from which no add() begins

ASSUME StallAssumption ==
    WindowSecs \in Nat /\ MaxStall \in Nat /\ MaxStall < WindowSecs
ASSUME AmountsAssumption ==
    Amounts \subseteq Nat /\ MaxClock \in Nat /\ MaxSpend \in Nat

VARIABLES
    spend,      \* spend_mc
    start,      \* window_start_secs
    clock,      \* the system clock, in seconds
    at,         \* the next atomic operation of each thread
    now,        \* the timestamp of its call
    amount,     \* what it is to add
    loaded,       \* the start it has loaded
    old,        \* the spend it has loaded
    fresh       \* history: what was added since the window was renewed

entryVars == <<spend, start>>
localVars == <<now, amount, loaded, old>>
windowVars == <<entryVars, clock, at, localVars, fresh>>

WindowTypeOK ==
    /\ spend \in Nat
    /\ start \in Nat
    /\ clock \in Nat
    /\ at \in [Threads -> {"idle", "load", "loadOld", "swap", "subtract", "finish"}]
    /\ now \in [Threads -> Nat]
    /\ amount \in [Threads -> Nat]
    /\ loaded \in [Threads -> Nat]
    /\ old \in [Threads -> Nat]
    /\ fresh \in Nat

\* WindowEntry::new().
WindowInit ==
    /\ spend = 0 /\ start = 0 /\ clock = 0
    /\ at = [t \in Threads |-> "idle"]
    /\ now = [t \in Threads |-> 0]
    /\ amount = [t \in Threads |-> 0]
    /\ loaded = [t \in Threads |-> 0]
    /\ old = [t \in Threads |-> 0]
    /\ fresh = 0

Moves(t, here, there) == at[t] = here /\ at' = [at EXCEPT ![t] = there]

\* A caller takes the time and calls spend_usd() or add().
Begin(t, a) ==
    /\ Moves(t, "idle", "load")
    /\ a > 0 => spend < MaxSpend
    /\ now' = [now EXCEPT ![t] = clock]
    /\ amount' = [amount EXCEPT ![t] = a]
    /\ UNCHANGED <<entryVars, clock, loaded, old, fresh>>

Expired(t) == now[t] - start >= WindowSecs

LoadStart(t) ==
    /\ \/ Expired(t) /\ Moves(t, "load", "loadOld")
       \/ ~Expired(t) /\ Moves(t, "load", "finish")
    /\ loaded' = [loaded EXCEPT ![t] = start]
    /\ UNCHANGED <<entryVars, clock, now, amount, old, fresh>>

LoadOld(t) ==
    /\ Moves(t, "loadOld", "swap")
    /\ old' = [old EXCEPT ![t] = spend]
    /\ UNCHANGED <<entryVars, clock, now, amount, loaded, fresh>>

SwapBlindly(t) ==
    /\ Moves(t, "swap", "subtract")
    /\ start' = now[t]
    /\ fresh' = 0
    /\ UNCHANGED <<spend, clock, localVars>>

\* compare_exchange: one of the threads that found this window expired
\* renews it.
Swap(t) ==
    /\ \/ /\ start = loaded[t]
          /\ Moves(t, "swap", "subtract")
          /\ start' = now[t]
          /\ fresh' = 0
       \/ /\ start # loaded[t]
          /\ Moves(t, "swap", "finish")
          /\ UNCHANGED <<start, fresh>>
    /\ UNCHANGED <<spend, clock, localVars>>

SubtractByStoring(t) ==
    /\ Moves(t, "subtract", "finish")
    /\ spend' = 0
    /\ UNCHANGED <<start, clock, localVars, fresh>>

Subtract(t) ==
    /\ Moves(t, "subtract", "finish")
    /\ spend' = spend - old[t]
    /\ UNCHANGED <<start, clock, localVars, fresh>>

\* add()'s fetch_add; with amount 0, spend_usd()'s last load.
Finish(t) ==
    /\ Moves(t, "finish", "idle")
    /\ spend' = spend + amount[t]
    /\ fresh' = fresh + amount[t]
    /\ UNCHANGED <<start, clock, localVars>>

\* Time: a call may see up to MaxStall seconds begin.
WindowTick ==
    /\ clock < MaxClock
    /\ \A t \in Threads : at[t] # "idle" => clock < now[t] + MaxStall
    /\ clock' = clock + 1
    /\ UNCHANGED <<entryVars, at, localVars, fresh>>

ThreadStep(t) ==
    \/ \E a \in Amounts : Begin(t, a)
    \/ LoadStart(t) \/ LoadOld(t) \/ Swap(t) \/ Subtract(t) \/ Finish(t)

WindowNext == (\E t \in Threads : ThreadStep(t)) \/ WindowTick

WindowSpec == WindowInit /\ [][WindowNext]_windowVars

----------------------------------------------------------------------------
(* Properties.                                                             *)

\* Nothing that is added after a window was renewed is lost in it, whoever
\* is in the middle of renewing it: neither by a second renewal nor by the
\* subtraction of what an earlier window held.  It also keeps the counter
\* from going below zero.
NoSpendLost == spend >= fresh

=============================================================================
