---------------------------- MODULE SharedScope ----------------------------
(***************************************************************************)
(* SharedCapacityScope and SharedCapacityReservation (tina-runtime,        *)
(* shared_scope.rs): caps that surfaces share through lock-free counters.  *)
(* Each thread repeatedly reserves its charges one scope after the other,  *)
(* rolls back what it has when a later scope is full, and otherwise holds  *)
(* them and drops them.  A step is one atomic access of `current',         *)
(* `high_water', `admitted' or `released'; `full_count' is counted with    *)
(* the fresh load that found no room.  A weak compare-exchange may fail    *)
(* for no reason.  Loads return the latest value: the model is             *)
(* sequentially consistent.                                                *)
(***************************************************************************)
EXTENDS Integers, Sequences, FiniteSetsExt

CONSTANTS
    Threads,
    Scopes,
    Cap,        \* [Scopes -> Nat], SharedScopeInner::max
    Charges,    \* [Threads -> Seq([scope, weight])], what each one reserves
    MaxRounds   \* bound: reservations a thread attempts

\* What the code asks of the constants.
ScopeAssumption ==
    /\ Cap \in [Scopes -> Nat]
    /\ \A t \in Threads :
          /\ Charges[t] \in Seq([scope : Scopes, weight : Nat \ {0}])
          /\ Charges[t] # <<>>
    /\ MaxRounds \in Nat

VARIABLES
    current, highWater, fullCount, admitted, released,  \* the atomics, by scope
    pc,       \* where each thread is
    at,       \* the charge it works on
    leases,   \* the charges it holds a SharedLease for
    cur,      \* its last observation of `current' or `high_water'
    next,     \* the count its admission produced
    rounds,   \* reservations attempted
    peak      \* ghost: the largest weight ever admitted at once, by scope

vars == <<current, highWater, fullCount, admitted, released, pc, at, leases, cur, next,
          rounds, peak>>

ScopeOf(t) == Charges[t][at[t]].scope
WeightOf(t) == Charges[t][at[t]].weight
Fits(t, seen) == seen + WeightOf(t) <= Cap[ScopeOf(t)]

Init ==
    /\ current = [s \in Scopes |-> 0]
    /\ highWater = [s \in Scopes |-> 0]
    /\ fullCount = [s \in Scopes |-> 0]
    /\ admitted = [s \in Scopes |-> 0]
    /\ released = [s \in Scopes |-> 0]
    /\ pc = [t \in Threads |-> "idle"]
    /\ at = [t \in Threads |-> 1]
    /\ leases = [t \in Threads |-> {}]
    /\ cur = [t \in Threads |-> 0]
    /\ next = [t \in Threads |-> 0]
    /\ rounds = [t \in Threads |-> 0]
    /\ peak = [s \in Scopes |-> 0]

Goto(t, step) == pc' = [pc EXCEPT ![t] = step]
Sees(t, value) == cur' = [cur EXCEPT ![t] = value]

-----------------------------------------------------------------------------
(* SharedCapacityReservation::try_reserve and drop.                        *)

Reserve(t) ==
    /\ pc[t] = "idle"
    /\ rounds[t] < MaxRounds
    /\ rounds' = [rounds EXCEPT ![t] = @ + 1]
    /\ at' = [at EXCEPT ![t] = 1]
    /\ Goto(t, "load")
    /\ UNCHANGED <<current, highWater, fullCount, admitted, released, leases, cur, next, peak>>

\* try_admit returned a lease: ask for the next charge, or keep them all.
Granted(t) ==
    /\ leases' = [leases EXCEPT ![t] = @ \cup {at[t]}]
    /\ IF at[t] < Len(Charges[t])
       THEN at' = [at EXCEPT ![t] = @ + 1] /\ Goto(t, "load")
       ELSE UNCHANGED at /\ Goto(t, "held")

\* Mutant: the leases taken so far stay with the failed reservation.
RollBackKeeps(t) ==
    /\ UNCHANGED <<leases, at>>
    /\ Goto(t, "idle")

\* try_admit said Full, or a lease was dropped: the leases still there are
\* dropped, the first first.
RollBack(t) ==
    /\ UNCHANGED leases
    /\ IF leases[t] = {}
       THEN UNCHANGED at /\ Goto(t, "idle")
       ELSE at' = [at EXCEPT ![t] = Min(leases[t])] /\ Goto(t, "dropLoad")

\* The owner is done with its reservation.
Drop(t) ==
    /\ pc[t] = "held"
    /\ at' = [at EXCEPT ![t] = Min(leases[t])]
    /\ Goto(t, "dropLoad")
    /\ UNCHANGED <<current, highWater, fullCount, admitted, released, leases, cur, next,
                   rounds, peak>>

-----------------------------------------------------------------------------
(* SharedCapacityScope::try_admit.                                         *)

Load(t) ==
    /\ pc[t] = "load"
    /\ Sees(t, current[ScopeOf(t)])
    /\ Goto(t, "try")
    /\ UNCHANGED <<current, highWater, fullCount, admitted, released, at, leases, next,
                   rounds, peak>>

\* Mutant: a Full is declared on the stale observation.
ObserveFullStale(t) ==
    /\ pc[t] = "try"
    /\ ~Fits(t, cur[t])
    /\ fullCount' = [fullCount EXCEPT ![ScopeOf(t)] = @ + 1]
    /\ UNCHANGED cur
    /\ RollBack(t)
    /\ UNCHANGED <<current, highWater, admitted, released, next, rounds, peak>>

\* No room by the last observation: look again, and only then say Full.
ObserveFull(t) ==
    /\ pc[t] = "try"
    /\ ~Fits(t, cur[t])
    /\ LET fresh == current[ScopeOf(t)]
       IN  IF Fits(t, fresh)
           THEN Sees(t, fresh) /\ UNCHANGED <<fullCount, pc, at, leases>>
           ELSE /\ fullCount' = [fullCount EXCEPT ![ScopeOf(t)] = @ + 1]
                /\ UNCHANGED cur
                /\ RollBack(t)
    /\ UNCHANGED <<current, highWater, admitted, released, next, rounds, peak>>

Charge(t, s, total) ==
    /\ current' = [current EXCEPT ![s] = total]
    /\ next' = [next EXCEPT ![t] = total]
    /\ peak' = [peak EXCEPT ![s] = Max({@, total})]
    /\ Goto(t, "count")

\* compare_exchange_weak succeeds.
Admit(t) ==
    /\ pc[t] = "try"
    /\ Fits(t, cur[t])
    /\ current[ScopeOf(t)] = cur[t]
    /\ Charge(t, ScopeOf(t), cur[t] + WeightOf(t))
    /\ UNCHANGED <<highWater, fullCount, admitted, released, at, leases, cur, rounds>>

\* It fails, on another value or for no reason, and tells what it saw.
AdmitMissed(t) ==
    /\ pc[t] = "try"
    /\ Fits(t, cur[t])
    /\ Sees(t, current[ScopeOf(t)])
    /\ UNCHANGED <<current, highWater, fullCount, admitted, released, pc, at, leases, next,
                   rounds, peak>>

\* admitted.fetch_add, after the exchange.
CountIn(t) ==
    /\ pc[t] = "count"
    /\ admitted' = [admitted EXCEPT ![ScopeOf(t)] = @ + WeightOf(t)]
    /\ Goto(t, "bumpLoad")
    /\ UNCHANGED <<current, highWater, fullCount, released, at, leases, cur, next, rounds, peak>>

-----------------------------------------------------------------------------
(* bump_high_water.                                                        *)

BumpLoad(t) ==
    /\ pc[t] = "bumpLoad"
    /\ Sees(t, highWater[ScopeOf(t)])
    /\ Goto(t, "bump")
    /\ UNCHANGED <<current, highWater, fullCount, admitted, released, at, leases, next,
                   rounds, peak>>

\* The mark is there already, or the exchange raises it.
Bump(t) ==
    /\ pc[t] = "bump"
    /\ \/ next[t] <= cur[t] /\ UNCHANGED highWater
       \/ /\ next[t] > cur[t]
          /\ highWater[ScopeOf(t)] = cur[t]
          /\ highWater' = [highWater EXCEPT ![ScopeOf(t)] = next[t]]
    /\ Granted(t)
    /\ UNCHANGED <<current, fullCount, admitted, released, cur, next, rounds, peak>>

BumpMissed(t) ==
    /\ pc[t] = "bump"
    /\ next[t] > cur[t]
    /\ Sees(t, highWater[ScopeOf(t)])
    /\ UNCHANGED <<current, highWater, fullCount, admitted, released, pc, at, leases, next,
                   rounds, peak>>

-----------------------------------------------------------------------------
(* SharedLease::drop.                                                      *)

DropLoad(t) ==
    /\ pc[t] = "dropLoad"
    /\ Sees(t, current[ScopeOf(t)])
    /\ Goto(t, "drop")
    /\ UNCHANGED <<current, highWater, fullCount, admitted, released, at, leases, next,
                   rounds, peak>>

Saturating(n) == IF n < 0 THEN 0 ELSE n

\* saturating_sub_release takes the charge back.
Release(t) ==
    /\ pc[t] = "drop"
    /\ current[ScopeOf(t)] = cur[t]
    /\ current' = [current EXCEPT ![ScopeOf(t)] = Saturating(cur[t] - WeightOf(t))]
    /\ leases' = [leases EXCEPT ![t] = @ \ {at[t]}]
    /\ Goto(t, "countOut")
    /\ UNCHANGED <<highWater, fullCount, admitted, released, at, cur, next, rounds, peak>>

ReleaseMissed(t) ==
    /\ pc[t] = "drop"
    /\ Sees(t, current[ScopeOf(t)])
    /\ UNCHANGED <<current, highWater, fullCount, admitted, released, pc, at, leases, next,
                   rounds, peak>>

\* released.fetch_add, after that; on to the next lease.
CountOut(t) ==
    /\ pc[t] = "countOut"
    /\ released' = [released EXCEPT ![ScopeOf(t)] = @ + WeightOf(t)]
    /\ RollBack(t)
    /\ UNCHANGED <<current, highWater, fullCount, admitted, cur, next, rounds, peak>>

Next ==
    \E t \in Threads :
        \/ Reserve(t) \/ Drop(t)
        \/ Load(t) \/ ObserveFull(t) \/ Admit(t) \/ CountIn(t) \/ AdmitMissed(t)
        \/ BumpLoad(t) \/ Bump(t) \/ BumpMissed(t)
        \/ DropLoad(t) \/ Release(t) \/ CountOut(t) \/ ReleaseMissed(t)

Spec == Init /\ [][Next]_vars

-----------------------------------------------------------------------------
(* Properties.                                                             *)

Places == {"idle", "load", "try", "count", "bumpLoad", "bump", "held",
           "dropLoad", "drop", "countOut"}

\* Type correctness.
TypeOK ==
    /\ current \in [Scopes -> Nat] /\ highWater \in [Scopes -> Nat] /\ peak \in [Scopes -> Nat]
    /\ fullCount \in [Scopes -> Nat] /\ admitted \in [Scopes -> Nat] /\ released \in [Scopes -> Nat]
    /\ pc \in [Threads -> Places]
    /\ at \in [Threads -> Nat] /\ leases \in [Threads -> SUBSET Nat]
    /\ \A t \in Threads : at[t] \in 1 .. Len(Charges[t]) /\ leases[t] \subseteq 1 .. Len(Charges[t])
    /\ cur \in [Threads -> Nat] /\ next \in [Threads -> Nat]
    /\ rounds \in [Threads -> 0 .. MaxRounds]

\* Its exchange went through, and its lease is not built yet.
Bumping(t) == pc[t] \in {"count", "bumpLoad", "bump"}

\* The charges that count against a scope, by thread: the leases, and the one
\* whose compare-exchange went through while its lease is not built yet.
Charged == [t \in Threads |-> leases[t] \cup (IF Bumping(t) THEN {at[t]} ELSE {})]

\* The charges that are in the statistics: counted in and not yet counted out.
Counted == [t \in Threads |->
    leases[t] \cup (IF pc[t] \in {"bumpLoad", "bump", "countOut"} THEN {at[t]} ELSE {})]

\* What a scope has of such charges.
To(s, C) == UNION {{<<t, k>> : k \in {n \in C[t] : Charges[t][n].scope = s}} : t \in Threads}

\* The units of weight of a set of charges.
Units(C) == UNION {{tk} \X (1 .. Charges[tk[1]][tk[2]].weight) : tk \in C}

\* The counter of a scope is the number of units charged to it, in the middle
\* of every race and every rollback, and never above the cap; the saturating
\* subtraction never saturates.
ChargesExact ==
    \A s \in Scopes :
        /\ IsFiniteSet(Units(To(s, Charged)))
        /\ current[s] = Cardinality(Units(To(s, Charged)))
        /\ current[s] <= Cap[s]

\* The statistics lag the counter by no more than the threads that are between
\* an exchange and the fetch_add that follows it: admitted - released is the
\* weight counted in and not out, which is `current' once no thread is there.
StatisticsExact ==
    \A s \in Scopes :
        /\ IsFiniteSet(Units(To(s, Counted)))
        /\ admitted[s] - released[s] = Cardinality(Units(To(s, Counted)))

\* Once nobody is in the middle of an admission, the high-water mark is the
\* peak: an increase is not lost to a thread that raised the mark to less.
\* Until then, somebody is on the way with the peak.
HighWaterTrue ==
    /\ \A s \in Scopes :
          /\ highWater[s] <= peak[s]
          /\ \/ highWater[s] = peak[s]
             \/ \E t \in Threads : Bumping(t) /\ ScopeOf(t) = s /\ next[t] = peak[s]
    /\ \A t \in Threads :
          /\ Bumping(t) => next[t] <= peak[ScopeOf(t)]
          /\ pc[t] = "bump" => cur[t] <= highWater[ScopeOf(t)]

\* A reservation is all or nothing: a thread that was refused keeps no lease,
\* one that was not has them all, and one at work has taken them in order.
AllOrNothing ==
    \A t \in Threads :
        /\ pc[t] = "idle" => leases[t] = {}
        /\ pc[t] = "held" => leases[t] = 1 .. Len(Charges[t])
        /\ pc[t] \in {"load", "try", "count", "bumpLoad", "bump"} => leases[t] = 1 .. (at[t] - 1)
        /\ pc[t] \in {"dropLoad", "drop"} => at[t] \in leases[t]
        /\ pc[t] = "countOut" => at[t] \notin leases[t]

Abstract == INSTANCE WeightedCap WITH
    Weights <- UNION {{Charges[t][k].weight : k \in 1 .. Len(Charges[t])} : t \in Threads},
    used <- current, refusals <- fullCount

\* The lock-free loops implement the atomic semaphore: in particular every
\* counted Full is a moment at which the weight did not fit.
ImplementsCap == Abstract!Spec

\* What a scope counts is what its threads hold.
ScopeSound == TypeOK /\ AllOrNothing /\ ChargesExact /\ StatisticsExact /\ HighWaterTrue
=============================================================================
