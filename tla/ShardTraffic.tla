---------------------------- MODULE ShardTraffic ----------------------------
(***************************************************************************)
(* Sends, calls and replies over the lanes of ShardTransport, with hosts   *)
(* that post commands and that mark shards failed or shut them down        *)
(* (tina-runtime/src/threaded_multi_shard.rs, remote.rs).                  *)
(*                                                                         *)
(* Envelopes are told apart by an id.  An id is free again once its        *)
(* envelope was delivered, refused or lost with a shard, so a run may be   *)
(* as long as it likes: the floods the worker's budget, its rotation of    *)
(* sources and its alternation of lanes are there for.  Which free id an   *)
(* envelope gets makes no difference, so one is chosen.                    *)
(***************************************************************************)
EXTENDS ShardTransport, FiniteSets

CONSTANTS
    Ids,
    Flows,       \* what the handlers send: envelopes, their id to be filled in
    Burst,       \* how many envelopes one step may send
    Mortal,      \* the shards a host may mark failed or shut down
    Commanded,   \* the shards a host posts commands to
    Hushable     \* may the handlers stop sending for good?

\* QueuedRemoteEnvelope
EnvelopeKinds ==
    {"Send", "CallReply", "SpawnRequest", "SpawnReply", "SpawnCancel",
     "ChildStop", "ChildStopped", "ChildRestart", "ChildRestarted"}

\* What the handlers send, before it has an id.
TrafficAssumption ==
    /\ TransportAssumption
    /\ IsFiniteSet(Ids)
    /\ Flows \subseteq [kind : EnvelopeKinds, call : BOOLEAN, from : Shards, to : Shards, id : {0}]
    /\ Burst \in Nat /\ Mortal \subseteq Shards /\ Commanded \subseteq Shards

VARIABLES
    accepted,    \* the ids whose route returned Ok and that are not delivered
    command,     \* command[s]: a command is waiting in the worker's queue
    hushed       \* the handlers have stopped sending

vars == <<transport, accepted, command, hushed>>

InLane(lane, s, t) == ToSet(queue[lane][s][t])
InFlight ==
    (UNION {UNION {UNION {InLane(lane, s, t) : t \in Shards} : s \in Shards} : lane \in Lanes})
      \cup (UNION {ToSet(overflow[s]) \cup ToSet(hand[s]) : s \in Shards})

Envelope == [kind : EnvelopeKinds, call : BOOLEAN, from : Shards, to : Shards, id : Ids]

----------------------------------------------------------------------------
(* What the handlers and the hosts do.                                     *)

Free == Ids \ {e.id : e \in InFlight}

\* The step of a pass without a command runs the handlers: one sends, calls, or
\* answers calls it kept.
Emit(s, f, n) ==
    /\ EndStep(s) /\ f.from = s /\ ~hushed
    /\ s \in Commanded => ~command[s]
    /\ n <= Cardinality(Free)
    /\ hand' = [hand EXCEPT ![s] = [i \in 1 .. n |-> [f EXCEPT !.id = SetToSeq(Free)[i]]]]
    /\ UNCHANGED <<accepted, command, hushed>>

RouteOne(s) ==
    /\ Route(s)
    /\ LET e == Head(hand[s])
       IN  accepted' = IF Routed(s, e) = "Ok" THEN accepted \cup {e.id} ELSE accepted \ {e.id}
    /\ UNCHANGED <<command, hushed>>

\* A closed channel takes the envelope out of the overflow for good.
Retry(s) ==
    /\ RetryOverflow(s)
    /\ accepted' = IF overflow[s] # <<>> /\ Lossless(s, Head(overflow[s])) = "Closed"
                     THEN accepted \ {Head(overflow[s]).id} ELSE accepted
    /\ UNCHANGED <<command, hushed>>

\* harvest_remote_envelope: a call the mailbox refuses is answered at once with
\* Full or Closed; everything else ends here.
Harvest(s) ==
    /\ Receive(s)
    /\ LET e == Incoming(s)
       IN  \/ /\ e.call
              /\ hand' = [hand EXCEPT ![s] = <<[kind |-> "CallReply", call |-> FALSE,
                                                from |-> s, to |-> e.from, id |-> e.id]>>]
           \/ hand' = hand
    /\ accepted' = accepted \ {Incoming(s).id}
    /\ UNCHANGED <<command, hushed>>

Local(s) == (SkipEmpty(s) \/ EndLane(s)) /\ UNCHANGED <<accepted, command, hushed>>

\* The poll reads a waiting command and the loop starts over; without one the
\* step may have nothing to send.
Poll(s) ==
    /\ EndStep(s) /\ hand' = hand
    /\ command' = IF s \in Commanded THEN [command EXCEPT ![s] = FALSE] ELSE command
    /\ UNCHANGED <<accepted, hushed>>

Post(s) ==
    /\ ~command[s] /\ state[s] # "gone"
    /\ command' = [command EXCEPT ![s] = TRUE]
    /\ UNCHANGED <<transport, accepted, hushed>>

Fail(s) == MarkFailed(s) /\ UNCHANGED <<accepted, command, hushed>>

\* What was on its way into a worker that exits, or in its overflow, goes with
\* it, and so does a command nobody read.
ShutDown(s) ==
    /\ Exit(s)
    /\ accepted' = accepted \ ({e.id : e \in ToSet(overflow[s])}
                    \cup {e.id : e \in UNION {InLane(l, p, s) : l \in Lanes, p \in Shards}})
    /\ command' = IF s \in Commanded THEN [command EXCEPT ![s] = FALSE] ELSE command
    /\ UNCHANGED hushed

Hush ==
    /\ Hushable /\ ~hushed
    /\ hushed' = TRUE
    /\ UNCHANGED <<transport, accepted, command>>

Worker(s) ==
    \/ RouteOne(s) \/ Retry(s) \/ Harvest(s) \/ Local(s) \/ Poll(s)
    \/ \E f \in Flows, n \in 1 .. Burst : Emit(s, f, n)

Init ==
    /\ TransportInit
    /\ accepted = {}
    /\ command = [s \in Commanded |-> FALSE]
    /\ hushed = FALSE

Next ==
    \/ \E s \in Shards : Worker(s)
    \/ \E s \in Commanded : Post(s)
    \/ Hush
    \/ \E s \in Mortal : Fail(s) \/ ShutDown(s)

Spec == Init /\ [][Next]_vars

\* A worker that has not exited keeps going round: handlers return and the park
\* at the end of an idle pass is bounded by idle_wait.
FairSpec == Spec /\ \A s \in Shards : WF_vars(Worker(s))

----------------------------------------------------------------------------
(* Properties.                                                             *)

\* Type correctness.  A channel holds what belongs on it and no more than its
\* capacity, the overflow terminal envelopes only, and a drain stays inside the
\* worker's receivers.
TypeOK ==
    /\ queue \in [Lanes -> [Shards -> [Shards -> Seq(Envelope)]]]
    /\ overflow \in [Shards -> Seq(Envelope)] /\ hand \in [Shards -> Seq(Envelope)]
    /\ \A lane \in Lanes, s, t \in Shards :
         /\ Len(queue[lane][s][t]) <= Cap
         /\ \A e \in InLane(lane, s, t) : Lane(e) = lane /\ e.to = t
    /\ \A s \in Shards : \A e \in ToSet(overflow[s]) : Lane(e) = "terminal"
    /\ accepted \subseteq Ids /\ command \in [Commanded -> BOOLEAN] /\ hushed \in BOOLEAN
    /\ state \in [Shards -> {"running", "failed", "gone"}]
    /\ pc \in [Shards -> {"overflow", "first", "second", "step"}]
    /\ lead \in [Shards -> BOOLEAN] /\ left \in [Shards -> 0 .. Budget]
    /\ at \in [Shards -> [offset : Nat, last : Nat \cup {-1}]]
    /\ start \in [Shards -> [Lanes -> Nat]]
    /\ \A s \in Shards, lane \in Lanes : start[s][lane] = 0 \/ start[s][lane] < Receivers(s)

\* Where an envelope can be: in a channel or an overflow lane, once the transport
\* took it; before that in the hands of a worker.
Places == (Lanes \X Shards \X Shards) \cup {<<"overflow", s, s>> : s \in Shards}
Boxes == Places \cup {<<"hand", s, s>> : s \in Shards}
Contents(p) == IF p[1] = "overflow" THEN overflow[p[2]]
               ELSE IF p[1] = "hand" THEN hand[p[2]] ELSE queue[p[1]][p[2]][p[3]]
Copies(id) ==
    UNION {{<<p, i>> : i \in {j \in DOMAIN Contents(p) : Contents(p)[j].id = id}} : p \in Places}

\* No envelope is in two boxes, or twice in one.
Apart ==
    \A p, q \in Boxes : \A i \in DOMAIN Contents(p), j \in DOMAIN Contents(q) :
       Contents(p)[i].id = Contents(q)[j].id => p = q /\ i = j

\* An envelope that the transport took between two workers that are up is in
\* exactly one place, a channel or an overflow lane, until it is delivered:
\* retries neither lose it nor send it twice, and only a closed channel or the
\* exit of a worker ends it otherwise
\* (route_remote_preserving_terminal, drain_terminal_overflow).
NeverLost == TypeOK /\ Apart /\ \A id \in accepted : Cardinality(Copies(id)) = 1

\* Once the handlers have stopped sending every worker empties its overflow,
\* also when two workers are full of replies for each other.  While they go on
\* sending there is no such bound: an envelope that meets room in the channel
\* goes ahead of those that wait in the overflow, again and again.
OverflowEmpties == hushed ~> \A s \in Shards : overflow[s] = <<>> \/ state[s] = "gone"

\* A posted command is read although envelopes keep arriving and although the
\* worker's own overflow stays blocked by a full peer.
CommandsRead == \A s \in Commanded : command[s] ~> ~command[s]

=============================================================================
