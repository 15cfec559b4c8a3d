--------------------------- MODULE ShardTransport ---------------------------
(***************************************************************************)
(* The lanes between the workers of a threaded multi-shard runtime         *)
(* (tina-runtime/src/threaded_multi_shard.rs).                             *)
(*                                                                         *)
(* Every ordered pair of shards has two bounded channels: an ordinary one  *)
(* for sends and spawn requests and a terminal one for everything that     *)
(* settles or stops something.  A terminal envelope that meets a full      *)
(* channel goes to the source worker's own overflow lane and is retried at *)
(* the head of its next pass; an ordinary one is refused.  A worker's pass *)
(* retries the overflow, drains a budget of envelopes from its inbound     *)
(* channels, one lane after the other, polls one command or runs its       *)
(* handlers, and starts over.                                              *)
(*                                                                         *)
(* A step is one channel operation, so the passes of two workers           *)
(* interleave between any two of them.  What an envelope means is left to  *)
(* the module that uses this one: hand[s] holds the envelopes the harvest  *)
(* or the handler in progress on s has produced and not yet routed.        *)
(***************************************************************************)
EXTENDS Integers, Sequences, SequencesExt

CONSTANTS
    Shards,
    PeerSeq,     \* PeerSeq[s]: the shards s receives from, in the order it drains
    Cap,         \* shard_pair_capacity
    Budget       \* remote_inbound_drain_budget

\* What the code asks of the constants.
TransportAssumption ==
    /\ Cap \in Nat \ {0}
    /\ Budget \in Nat \ {0}
    /\ PeerSeq \in [Shards -> Seq(Shards)]
    /\ \A s \in Shards : s \notin ToSet(PeerSeq[s]) /\ IsInjective(PeerSeq[s])

Lanes == {"terminal", "ordinary"}

VARIABLES
    queue,       \* queue[lane][source][target]: a channel
    overflow,    \* overflow[s]: the worker's terminal_overflow
    hand,        \* hand[s]: produced by the step in progress, not yet routed
    pc,          \* where in its pass the worker is
    lead,        \* lead[s]: drain_terminal_first
    left,        \* left[s]: what remains of this pass's drain budget
    at,          \* at[s]: [offset, last] of the lane being drained
    start,       \* start[s][lane]: the receiver the next drain begins with
    state        \* state[s]: running; failed (marked by a host); gone (exited)

looping == <<pc, lead, left, at, start>>
transport == <<queue, overflow, hand, looping, state>>

----------------------------------------------------------------------------
(* Envelopes.                                                              *)

OrdinaryKinds == {"Send", "SpawnRequest"}

\* is_terminal_remote_envelope
Lane(e) == IF e.kind \in OrdinaryKinds THEN "ordinary" ELSE "terminal"

\* What route_remote_lossless returns for e on shard s.
Lossless(s, e) ==
    IF state[e.to] # "running" THEN "Closed"
    ELSE IF Len(queue[Lane(e)][s][e.to]) < Cap THEN "Ok"
    ELSE "Full"

\* What route_remote_preserving_terminal returns: a full terminal lane is no
\* error, the envelope is kept.
Routed(s, e) ==
    IF Lossless(s, e) = "Full" /\ Lane(e) = "terminal" THEN "Ok" ELSE Lossless(s, e)

\* The channel operation of one attempt.
Enqueue(s, e) ==
    queue' = IF Lossless(s, e) = "Ok"
               THEN [queue EXCEPT ![Lane(e)][s][e.to] = Append(@, e)] ELSE queue

Overflowed(s, e) == Lossless(s, e) = "Full" /\ Routed(s, e) = "Ok"

----------------------------------------------------------------------------
(* The worker's pass.                                                      *)

Idle(s) == hand[s] = <<>> /\ state[s] # "gone"

\* One envelope of the step in progress is routed.
Route(s) ==
    /\ hand[s] # <<>>
    /\ LET e == Head(hand[s])
       IN  /\ Enqueue(s, e)
           /\ overflow' = IF Overflowed(s, e)
                            THEN [overflow EXCEPT ![s] = Append(@, e)] ELSE overflow
    /\ hand' = [hand EXCEPT ![s] = Tail(@)]
    /\ UNCHANGED <<looping, state>>

LaneOf(s, half) == IF (half = "first") = lead[s] THEN "terminal" ELSE "ordinary"

Enter(s, half) ==
    /\ pc' = [pc EXCEPT ![s] = half]
    /\ at' = [at EXCEPT ![s] = [offset |-> 0, last |-> -1]]

\* Mutant: the envelope that found its channel full again is dropped.
RetryOverflowDropping(s) ==
    /\ pc[s] = "overflow" /\ Idle(s)
    /\ IF overflow[s] = <<>>
         THEN /\ Enter(s, "first")
              /\ left' = [left EXCEPT ![s] = Budget]
              /\ UNCHANGED <<queue, overflow>>
         ELSE /\ Enqueue(s, Head(overflow[s]))
              /\ overflow' = [overflow EXCEPT ![s] = Tail(@)]
              /\ UNCHANGED <<pc, at, left>>
    /\ UNCHANGED <<hand, lead, start, state>>

\* drain_terminal_overflow, one envelope at a time: a full channel ends it with
\* the envelope back at the front, a closed one drops the envelope.
RetryOverflow(s) ==
    /\ pc[s] = "overflow" /\ Idle(s)
    /\ IF overflow[s] = <<>> \/ Lossless(s, Head(overflow[s])) = "Full"
         THEN /\ Enter(s, "first")
              /\ left' = [left EXCEPT ![s] = Budget]
              /\ UNCHANGED <<queue, overflow>>
         ELSE /\ Enqueue(s, Head(overflow[s]))
              /\ overflow' = [overflow EXCEPT ![s] = Tail(@)]
              /\ UNCHANGED <<pc, at, left>>
    /\ UNCHANGED <<hand, lead, start, state>>

Receivers(s) == Len(PeerSeq[s])
Receiver(s, lane) == (start[s][lane] + at[s].offset) % Receivers(s)
Source(s, lane) == PeerSeq[s][Receiver(s, lane) + 1]

Draining(s) == pc[s] \in {"first", "second"} /\ Idle(s)

\* drain_remote_inbound's loop receives one envelope.  The module that uses
\* this one says what the harvest of it puts into hand[s].
Receive(s) ==
    /\ Draining(s) /\ left[s] > 0 /\ at[s].offset < Receivers(s)
    /\ LET lane == LaneOf(s, pc[s])
       IN  /\ queue[lane][Source(s, lane)][s] # <<>>
           /\ queue' = [queue EXCEPT ![lane][Source(s, lane)][s] = Tail(@)]
           /\ at' = [at EXCEPT ![s].last = Receiver(s, lane)]
    /\ left' = [left EXCEPT ![s] = @ - 1]
    /\ UNCHANGED <<overflow, pc, lead, start, state>>

\* The envelope Receive(s) takes.
Incoming(s) == Head(queue[LaneOf(s, pc[s])][Source(s, LaneOf(s, pc[s]))][s])

\* A receiver is empty: the drain goes to the next one.
SkipEmpty(s) ==
    /\ Draining(s) /\ left[s] > 0 /\ at[s].offset < Receivers(s)
    /\ queue[LaneOf(s, pc[s])][Source(s, LaneOf(s, pc[s]))][s] = <<>>
    /\ at' = [at EXCEPT ![s].offset = @ + 1]
    /\ UNCHANGED <<queue, overflow, hand, pc, lead, left, start, state>>

\* The receiver the lane's next drain begins with.  A second lane that is left
\* no budget is not looked at, nor is one without receivers.
NextStart(s, lane) ==
    IF Receivers(s) = 0 \/ (left[s] = 0 /\ at[s].last < 0)
      THEN start[s][lane]
    ELSE IF left[s] = 0
      THEN (Receiver(s, lane) + 1) % Receivers(s)
    ELSE IF at[s].last >= 0
      THEN (at[s].last + 1) % Receivers(s)
    ELSE (start[s][lane] + 1) % Receivers(s)

\* Mutant: the terminal lane leads every pass.
EndLaneTerminalFirst(s) ==
    /\ Draining(s)
    /\ left[s] = 0 \/ at[s].offset = Receivers(s)
    /\ LET lane == LaneOf(s, pc[s])
       IN  start' = [start EXCEPT ![s][lane] = NextStart(s, lane)]
    /\ IF pc[s] = "first"
         THEN Enter(s, "second") ELSE Enter(s, "step")
    /\ UNCHANGED <<queue, overflow, hand, lead, left, state>>

\* The drain of one lane returns; after the second one, which of them leads is
\* swapped for the next pass.
EndLane(s) ==
    /\ Draining(s)
    /\ left[s] = 0 \/ at[s].offset = Receivers(s)
    /\ LET lane == LaneOf(s, pc[s])
       IN  start' = [start EXCEPT ![s][lane] = NextStart(s, lane)]
    /\ IF pc[s] = "first"
         THEN Enter(s, "second") /\ lead' = lead
         ELSE Enter(s, "step") /\ lead' = [lead EXCEPT ![s] = ~@]
    /\ UNCHANGED <<queue, overflow, hand, left, state>>

\* The poll of the command queue and the step of the runtime are over; a
\* parked worker comes back here as well, its wait is bounded.  What the step
\* puts into hand[s] is routed before the next pass goes on.
EndStep(s) ==
    /\ pc[s] = "step" /\ Idle(s)
    /\ pc' = [pc EXCEPT ![s] = "overflow"]
    /\ UNCHANGED <<queue, overflow, lead, left, at, start, state>>

\* A host that timed out on a control call, or met a closed command queue,
\* marks the shard failed; the worker behind it may be running still.
MarkFailed(s) ==
    /\ state[s] = "running"
    /\ state' = [state EXCEPT ![s] = "failed"]
    /\ UNCHANGED <<queue, overflow, hand, looping>>

\* A Shutdown command is read: what the handlers had to say has been routed,
\* the loop ends, and the receivers and the overflow go with the worker.
Exit(s) ==
    /\ pc[s] = "step" /\ Idle(s)
    /\ state' = [state EXCEPT ![s] = "gone"]
    /\ overflow' = [overflow EXCEPT ![s] = <<>>]
    /\ queue' = [lane \in Lanes |-> [p \in Shards |-> [queue[lane][p] EXCEPT ![s] = <<>>]]]
    /\ UNCHANGED <<hand, looping>>

TransportInit ==
    /\ queue = [lane \in Lanes |-> [s \in Shards |-> [t \in Shards |-> <<>>]]]
    /\ overflow = [s \in Shards |-> <<>>]
    /\ hand = [s \in Shards |-> <<>>]
    /\ pc = [s \in Shards |-> "overflow"]
    /\ lead = [s \in Shards |-> TRUE]
    /\ left = [s \in Shards |-> Budget]
    /\ at = [s \in Shards |-> [offset |-> 0, last |-> -1]]
    /\ start = [s \in Shards |-> [lane \in Lanes |-> 0]]
    /\ state = [s \in Shards |-> "running"]

=============================================================================
