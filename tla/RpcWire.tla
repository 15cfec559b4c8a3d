------------------------------ MODULE RpcWire -------------------------------
(***************************************************************************)
(* The two ends of one RPC stream (tina-rpc/src/client.rs, connection.rs): *)
(* what the client isolate and the connection isolate share.               *)
(*                                                                         *)
(* Each end queues encoded frames, has at most one tcp_write in flight,    *)
(* puts the unwritten tail of a short write back at the front, collects    *)
(* what it reads in a buffer and takes whole frames from its head.  The    *)
(* stream itself is the operating system's: it takes any part of a write   *)
(* and hands out any part of what it holds, in order.                      *)
(*                                                                         *)
(* A frame is two units long, its first and its last part, so that writes  *)
(* and reads can split it.  A step is one handler of one isolate or one    *)
(* operation of the driver; the frames of one read are taken one by one    *)
(* while the end is draining, and no other handler of that end runs.       *)
(***************************************************************************)
EXTENDS Integers, Sequences, SequencesExt, FiniteSets

CONSTANTS
    MaxRequests,   \* requests in a run
    LinkConfigs,   \* the configurations of a stream and its ends
    IoFaults       \* do reads and writes fail

Ends == {"client", "server"}
Peer(s) == IF s = "client" THEN "server" ELSE "client"
Requests == 1 .. MaxRequests

\* The units the stream holds in one direction, read_chunk in units, and
\* write_queue_cap and max_in_flight of each end; breaks: the server is one that
\* may break the protocol; asks: a bound on the requests made over it.
LinkConfig == [wireCap : Nat \ {0}, readChunk : Nat \ {0},
               queueCap : [Ends -> Nat], inFlightCap : [Ends -> Nat], breaks : BOOLEAN,
               asks : Nat]

\* What the code asks of the constants.
ASSUME RpcAssumption ==
    MaxRequests \in Nat /\ LinkConfigs \subseteq LinkConfig /\ IoFaults \in BOOLEAN

VARIABLES
    link,        \* the configuration, which never changes
    phase,       \* phase[s]: connecting; open; closing (close dispatched); stopped
    writeQueue,  \* writeQueue[s]: write_queue, frames with the request they belong to
    writing,     \* writing[s]: write_in_flight, <<>> for none
    wrote,       \* wrote[s]: units of it on the wire; 0 in progress; -1 failed
    wire,        \* wire[s]: what s sent and its peer has not read
    inbound,     \* inbound[s]: read and not yet a whole frame
    draining,    \* draining[s]: drain_inbound of s is in progress
    active       \* active[s]: activity_seq moved since the idle timer was armed

socket == <<phase, writeQueue, writing, wrote, wire, inbound, draining, active>>

\* encode
Encode(r, kind) == <<[req |-> r, kind |-> kind, part |-> 1], [req |-> r, kind |-> kind, part |-> 2]>>

Tagged(r, units) == [tag |-> r, units |-> units]
Tail0 == 0     \* the tag None: the unwritten tail of a short write

Ready(s) == phase[s] = "open" /\ ~draining[s]
Closed(s) == phase[s] \in {"closing", "stopped"}

----------------------------------------------------------------------------
(* Writing.                                                                *)

\* maybe_start_write, on the queue the handler leaves: writes go one by one.
StartWrite(s, q, inProgress) ==
    IF inProgress # <<>> \/ q = <<>> \/ phase[s] # "open"
      THEN writeQueue' = [writeQueue EXCEPT ![s] = q] /\ writing' = [writing EXCEPT ![s] = inProgress]
      ELSE /\ writeQueue' = [writeQueue EXCEPT ![s] = Tail(q)]
           /\ writing' = [writing EXCEPT ![s] = Head(q).units]

\* The driver takes a part of the write in flight.
DriverWrites(s) ==
    /\ phase[s] = "open" /\ writing[s] # <<>> /\ wrote[s] = 0 /\ ~Closed(Peer(s))
    /\ \E n \in 1 .. Len(writing[s]) :
         /\ Len(wire[s]) + n <= link.wireCap
         /\ wire' = [wire EXCEPT ![s] = @ \o SubSeq(writing[s], 1, n)]
         /\ wrote' = [wrote EXCEPT ![s] = n]
    /\ UNCHANGED <<phase, writeQueue, writing, inbound, draining, active>>

\* It fails, or makes no progress; it does when the peer is gone.
DriverFails(s) ==
    /\ phase[s] = "open" /\ writing[s] # <<>> /\ wrote[s] = 0
    /\ Closed(Peer(s)) \/ IoFaults
    /\ wrote' = [wrote EXCEPT ![s] = -1]
    /\ UNCHANGED <<phase, writeQueue, writing, wire, inbound, draining, active>>

\* Mutant: the tail waits behind the frames that were queued meanwhile.
OnWroteTailLast(s) ==
    /\ Ready(s) /\ wrote[s] > 0
    /\ LET tail == SubSeq(writing[s], wrote[s] + 1, Len(writing[s]))
           q == IF tail = <<>> THEN writeQueue[s] ELSE Append(writeQueue[s], Tagged(Tail0, tail))
       IN  StartWrite(s, q, <<>>)
    /\ wrote' = [wrote EXCEPT ![s] = 0]
    /\ active' = [active EXCEPT ![s] = TRUE]
    /\ UNCHANGED <<phase, wire, inbound, draining>>

\* on_wrote, the write made progress.
OnWrote(s) ==
    /\ Ready(s) /\ wrote[s] > 0
    /\ LET tail == SubSeq(writing[s], wrote[s] + 1, Len(writing[s]))
           q == IF tail = <<>> THEN writeQueue[s] ELSE <<Tagged(Tail0, tail)>> \o writeQueue[s]
       IN  StartWrite(s, q, <<>>)
    /\ wrote' = [wrote EXCEPT ![s] = 0]
    /\ active' = [active EXCEPT ![s] = TRUE]
    /\ UNCHANGED <<phase, wire, inbound, draining>>

----------------------------------------------------------------------------
(* Reading.                                                                *)

\* on_read with bytes: they join the buffer and drain_inbound begins.
OnRead(s) ==
    /\ Ready(s) /\ wire[Peer(s)] # <<>>
    /\ \E n \in 1 .. link.readChunk :
         /\ n <= Len(wire[Peer(s)])
         /\ inbound' = [inbound EXCEPT ![s] = @ \o SubSeq(wire[Peer(s)], 1, n)]
         /\ wire' = [wire EXCEPT ![Peer(s)] = SubSeq(@, n + 1, Len(@))]
    /\ draining' = [draining EXCEPT ![s] = TRUE]
    /\ active' = [active EXCEPT ![s] = TRUE]
    /\ UNCHANGED <<phase, writeQueue, writing, wrote>>

\* Mutant: the end of the stream is not seen in the middle of a frame.
EofBetweenFrames(s) ==
    Ready(s) /\ wire[Peer(s)] = <<>> /\ Closed(Peer(s)) /\ inbound[s] = <<>>

\* An empty read (the peer closed), or a failed one.
Eof(s) == Ready(s) /\ wire[Peer(s)] = <<>> /\ Closed(Peer(s))
ReadFails(s) == Ready(s) /\ IoFaults

HasFrame(s) == phase[s] = "open" /\ draining[s] /\ Len(inbound[s]) >= 2
Frame(s) == inbound[s][1]
Decodes(s) ==
    /\ inbound[s][1].part = 1 /\ inbound[s][2].part = 2
    /\ inbound[s][1].req = inbound[s][2].req /\ inbound[s][1].kind = inbound[s][2].kind
TakeFrame(s) == inbound' = [inbound EXCEPT ![s] = SubSeq(@, 3, Len(@))]

\* drain_inbound returns and the end reads on; on_read of the connection first
\* starts a write if there is none.
EndDrain(s) ==
    /\ phase[s] = "open" /\ draining[s] /\ Len(inbound[s]) < 2
    /\ draining' = [draining EXCEPT ![s] = FALSE]
    /\ IF s = "server" THEN StartWrite(s, writeQueue[s], writing[s])
                       ELSE UNCHANGED <<writeQueue, writing>>
    /\ UNCHANGED <<phase, wrote, wire, inbound, active>>

----------------------------------------------------------------------------
(* Closing.                                                                *)

\* The part of begin_close that both ends have.  What the peer sent is lost;
\* what was sent to it is still read there.
CloseSocket(s) ==
    /\ phase' = [phase EXCEPT ![s] = IF @ = "connecting" THEN "stopped" ELSE "closing"]
    /\ writeQueue' = [writeQueue EXCEPT ![s] = <<>>]
    /\ writing' = [writing EXCEPT ![s] = <<>>]
    /\ wrote' = [wrote EXCEPT ![s] = 0]
    /\ wire' = [wire EXCEPT ![Peer(s)] = <<>>]
    /\ inbound' = [inbound EXCEPT ![s] = <<>>]
    /\ draining' = [draining EXCEPT ![s] = FALSE]
    /\ active' = active

\* An idle tick that saw activity arms the next one.
IdleRearms(s) ==
    /\ Ready(s) /\ active[s]
    /\ active' = [active EXCEPT ![s] = FALSE]
    /\ UNCHANGED <<phase, writeQueue, writing, wrote, wire, inbound, draining>>
IdleFires(s) == Ready(s) /\ ~active[s]

\* on_stream_closed
StreamClosed(s) ==
    /\ phase[s] = "closing"
    /\ phase' = [phase EXCEPT ![s] = "stopped"]
    /\ UNCHANGED <<writeQueue, writing, wrote, wire, inbound, draining, active>>

SocketInit ==
    /\ link \in LinkConfigs
    /\ phase = [s \in Ends |-> IF s = "client" THEN "connecting" ELSE "open"]
    /\ writeQueue = [s \in Ends |-> <<>>] /\ writing = [s \in Ends |-> <<>>]
    /\ wrote = [s \in Ends |-> 0] /\ wire = [s \in Ends |-> <<>>]
    /\ inbound = [s \in Ends |-> <<>>] /\ draining = [s \in Ends |-> FALSE]
    /\ active = [s \in Ends |-> FALSE]

=============================================================================
