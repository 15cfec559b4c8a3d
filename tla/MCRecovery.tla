------------------------------ MODULE MCRecovery ------------------------------
(***************************************************************************)
(* What survives a failure: supervised children after a panic, the durable *)
(* outbox after a crash, and the calls to a shard that fails or exits.     *)
(* They share no state, so a behaviour is about one of them: focus says    *)
(* which, and the others stay as they were created.  The calls are         *)
(* RemoteCalls as it is, with the constants of the cfg; the others are     *)
(* instances.                                                              *)
(***************************************************************************)
EXTENDS RemoteCalls

CONSTANTS Ids, Hosted, Time,  \* incarnations, children of another shard, clock
          WorkBound, Indices, Crashes, IoErrors

VARIABLES focus,
          running, sup, now, kin, triggers, blame,                    \* Supervision
          journal, torn, garbled, sidecar, outbox, mode, token, jobs, recorded, crashes,
          errors, offered, acked, committed, durablyDone, landed, taken,
          refusedIndex, misled, hidden                                \* DurableOutbox

Config(policy, max, period) == [policy |-> policy, max |-> max, period |-> period]
Windows == {Config("OneForOne", 1, 2), Config("OneForOne", 2, 2), Config("OneForOne", 2, 0)}
Groups == {Config(policy, 2, 0) : policy \in {"OneForOne", "OneForAll", "RestForOne"}}

\* Budgets by time, with a child of another shard; policies, with three children.
Budgets == INSTANCE Supervision WITH Configs <- Windows, Early <- FALSE, Slots <- 1,
    MaxIds <- Ids, MaxRecords <- 2, MaxHosted <- Hosted, MaxTime <- Time
Policies == INSTANCE Supervision WITH Configs <- Groups, Early <- TRUE, Slots <- 2,
    MaxIds <- Ids + 1, MaxRecords <- 3, MaxHosted <- 0, MaxTime <- 0
Outbox == INSTANCE DurableOutbox WITH Capacity <- 2, MaxWorks <- WorkBound,
    MaxIndex <- Indices, MaxCrashes <- Crashes, MaxErrors <- IoErrors,
    asked <- offered, given <- taken

\* The other end of a shard's only channel.
Peers == [s \in Shards |-> SetToSeq(Shards \ {s})]

ASSUME RecoveryAssumption ==
    /\ Budgets!SupervisionAssumption /\ Policies!SupervisionAssumption
    /\ Outbox!OutboxAssumption
    /\ CallAssumption

superVars == <<running, sup, now, kin, triggers, blame>>
outboxVars == <<journal, torn, garbled, sidecar, outbox, mode, token, jobs, recorded, crashes,
                errors, offered, acked, committed, durablyDone, landed, taken,
                refusedIndex, misled, hidden>>
allVars == <<focus, superVars, outboxVars, vars>>

AnyInit ==
    /\ focus \in {"budget", "policy", "outbox", "calls"}
    /\ Budgets!Init /\ Outbox!Init /\ Init

SuperStep ==
    /\ \/ focus = "budget" /\ Budgets!Next
       \/ focus = "policy" /\ Policies!Next
    /\ UNCHANGED <<focus, outboxVars, vars>>

OutboxStep ==
    /\ focus = "outbox" /\ Outbox!Next
    /\ UNCHANGED <<focus, superVars, vars>>

CallStep ==
    /\ focus = "calls" /\ Next
    /\ UNCHANGED <<focus, superVars, outboxVars>>

AnyNext == SuperStep \/ OutboxStep \/ CallStep

AnySpec == AnyInit /\ [][AnyNext]_allVars

-----------------------------------------------------------------------------

\* See Supervision: restarts stay within the budget and lose no record or slot.
RestartsSound == /\ focus = "budget" => Budgets!RestartsSound
                 /\ focus = "policy" => Policies!RestartsSound

\* See Supervision: a failure replaces the children its policy selects.
PolicyKept == [][focus = "policy" => Policies!Selects]_allVars

\* See DurableOutbox: what recovery finds is what was recorded and not completed.
RecoverySound == focus = "outbox" => Outbox!RecoverySound
=============================================================================
