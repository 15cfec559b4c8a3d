------------------------------ MODULE MCHelpers ------------------------------
(***************************************************************************)
(* The helpers that an isolate keeps in its own state.  Tables of waiting  *)
(* callers: the wait list, the guarded table, the concurrency-limited      *)
(* table and the worker pool.  Limits: permit gates, rate limits and keyed *)
(* limits.  They share no state, so a behaviour is about one of them:      *)
(* focus says which, and the others stay as they were created.  All are    *)
(* extended as they are, with the constants of the cfg, but for the bare   *)
(* guarded table and the pool, which are instances.                        *)
(***************************************************************************)
EXTENDS ConcurrencyPending, WaitList, Permits, RateLimit, KeyedLimit, TLC

CONSTANTS OneClient, TwoClients

VARIABLES focus,
          bareSlots, bareGenerations, bareFree, bareReply, bareGuard, bareTickets,
          bareKey, bareDrops,                                         \* GuardedPending
          pool, mailbox, call, owner, slot, inbox, held, alive, dropped,
          undelivered                                                 \* WorkerPool

\* Two gates that are reset while permits are out; two limits on a shared scope
\* that is full before both gates are.
PermitBounds == [gates |-> 4, limits |-> 6]

\* One slot for two keys, with a clock that may go back, and two slots with a
\* clock that does not.
PolicyConfigs == [maxKeys : {1, 2}, rate : {2}, burst : {2}]

\* Two guarded tables, whose tickets may be mixed up.
Guarded == INSTANCE GuardedPending WITH slots <- bareSlots,
    generations <- bareGenerations, freeSlots <- bareFree, reply <- bareReply,
    guard <- bareGuard, tickets <- bareTickets, lastKey <- bareKey, drops <- bareDrops

\* One resource that two clients wait for, and two resources.
Pool == INSTANCE WorkerPool WITH Clients <- TwoClients, Requests <- Calls,
    Capacity <- 1, MaxWaiters <- 2, MailboxCap <- 1, InboxCap <- 1, NoRequest <- None
Pair == INSTANCE WorkerPool WITH Clients <- OneClient, Requests <- Calls,
    Capacity <- 2, MaxWaiters <- 1, MailboxCap <- 1, InboxCap <- 1, NoRequest <- None

ASSUME HelpersAssumption ==
    /\ WaitAssumption
    /\ OwnerAssumption
    /\ Pool!PoolAssumption /\ Pair!PoolAssumption
    /\ PermitAssumption
    /\ RateAssumption
    /\ KeyedAssumption

guardVars == <<bareSlots, bareGenerations, bareFree, bareReply, bareGuard, bareTickets,
               bareKey, bareDrops>>
poolVars == <<pool, mailbox, call, owner, slot, inbox, held, alive, dropped, undelivered>>
tables == <<waitVars, guardVars, ownerVars, poolVars>>
limits == <<permitVars, rateVars, keyedVars>>
allVars == <<focus, tables, limits>>

AnyInit ==
    /\ focus \in {"wait", "guarded", "owner", "pool", "pair", "permits", "rates", "keyed"}
    /\ WaitInit /\ (focus # "wait" => perKeyLimit = 0)
    /\ Guarded!Init /\ OwnerInit
    /\ IF focus = "pool" THEN Pool!Init ELSE Pair!Init
    /\ PermitInit /\ (focus # "permits" => service = "gates")
    /\ RateInit /\ (IF focus = "rates" THEN monotonic <=> config.maxKeys = 2
                       ELSE monotonic /\ config.maxKeys = 2)
    /\ KeyedInit

WaitStep ==
    /\ focus = "wait" /\ WaitNext
    /\ UNCHANGED <<focus, guardVars, ownerVars, poolVars, limits>>

GuardedStep ==
    /\ focus = "guarded" /\ Guarded!Next
    /\ UNCHANGED <<focus, waitVars, ownerVars, poolVars, limits>>

OwnerStep ==
    /\ focus = "owner" /\ OwnerNext
    /\ UNCHANGED <<focus, waitVars, guardVars, poolVars, limits>>

PoolStep ==
    /\ \/ focus = "pool" /\ Pool!Next
       \/ focus = "pair" /\ Pair!Next
    /\ UNCHANGED <<focus, waitVars, guardVars, ownerVars, limits>>

PermitStep ==
    /\ focus = "permits" /\ PermitNext
    /\ UNCHANGED <<focus, tables, rateVars, keyedVars>>

RateStep ==
    /\ focus = "rates" /\ RateNext
    /\ UNCHANGED <<focus, tables, permitVars, keyedVars>>

KeyedStep ==
    /\ focus = "keyed" /\ KeyedNext
    /\ UNCHANGED <<focus, tables, permitVars, rateVars>>

AnyNext == \/ WaitStep \/ GuardedStep \/ OwnerStep \/ PoolStep
           \/ PermitStep \/ RateStep \/ KeyedStep

AnySpec == AnyInit /\ [][AnyNext]_allVars

\* Calls and keys are interchangeable.
Symmetry == Permutations(Calls) \cup Permutations(Keys)

-----------------------------------------------------------------------------

\* See WaitList, WorkerPool and RateLimit: a list refuses truly and serves in
\* order of arrival, a closed pool serves nobody, and retry_after is exact for a
\* clock that does not go back.
AnswersTrue == [][/\ focus = "wait" => RefusesAndServes
                  /\ focus = "pool" => Pool!ClosedStays
                  /\ focus = "pair" => Pair!ClosedStays
                  /\ focus = "rates" => RetryKept]_allVars

\* See WorkerPool and GuardedPending: every resource is idle, leased to one holder
\* or retired, who waits is parked and not beside an idle resource, and every guard
\* of a bare table is let go of once.
LeasesSound == /\ focus = "pool" => Pool!LeasesSound /\ Pool!WaitersServed
               /\ focus = "pair" => Pair!LeasesSound /\ Pair!WaitersServed
               /\ focus = "guarded" => Guarded!GuardsSound
=============================================================================
