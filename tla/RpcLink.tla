------------------------------ MODULE RpcLink -------------------------------
(***************************************************************************)
(* One RPC stream with both of its ends: the client of RpcClient and the   *)
(* connection isolate of the server (tina-rpc/src/connection.rs), which    *)
(* hands each request to the router in a call of its own and writes the    *)
(* answers in the order they come.                                         *)
(***************************************************************************)
EXTENDS RpcClient

VARIABLES
    routing,     \* in_flight_ids of the connection
    calls,       \* requests the router works on
    routed,      \* routed[r]: how often r was handed to the router
    reason,      \* closing: why the connection closes, "none" before
    foul         \* the server has sent what no server may send

server == <<link, routing, calls, routed, reason, foul>>
rpcVars == <<socket, client, server>>

----------------------------------------------------------------------------
(* The connection isolate.                                                 *)

\* begin_close
ServerBeginClose(why) ==
    /\ CloseSocket("server")
    /\ reason' = why
    /\ routing' = {}

\* enqueue_write; a peer that does not read its answers ends the connection.
QueueFull == Len(writeQueue["server"]) >= link.queueCap["server"]
EnqueueWrite(units) == Append(writeQueue["server"], Tagged(0, units))

\* route_request
RouteRequest(r) ==
    /\ routing' = routing \cup {r}
    /\ calls' = calls \cup {r}
    /\ routed' = [routed EXCEPT ![r] = @ + 1]
    /\ TakeFrame("server")
    /\ UNCHANGED <<phase, writeQueue, writing, wrote, wire, draining, active, reason>>

\* A request whose id is in use, or one too many, is answered at once.
Refused(r) == r \in routing \/ Cardinality(routing) >= link.inFlightCap["server"]
AnswerError(r) ==
    /\ writeQueue' = [writeQueue EXCEPT !["server"] = EnqueueWrite(Encode(r, "error"))]
    /\ TakeFrame("server")
    /\ UNCHANGED <<phase, writing, wrote, wire, draining, active, routing, reason, calls, routed>>

\* drain_inbound, one frame: whatever is not a request ends the connection.  The
\* calls of a read that ends so are never made; here they end without an answer.
\* An error frame beyond the limit of a frame ends the connection as well.
OnRequestFrame(fits) ==
    /\ HasFrame("server")
    /\ LET e == Frame("server")
           valid == Decodes("server") /\ e.kind = "request"
       IN  IF valid /\ ~Refused(e.req) THEN RouteRequest(e.req)
           ELSE IF valid /\ fits /\ ~QueueFull THEN AnswerError(e.req)
           ELSE /\ ServerBeginClose(IF ~valid THEN "BadPeer" ELSE IF fits THEN "WriteQueueOverflow"
                                    ELSE "LocalEncodeFailed")
                /\ UNCHANGED <<calls, routed>>
    /\ UNCHANGED <<client, foul>>

Outcomes == {"reply", "error", "timeout", "unencodable"}

\* on_routed: a timed out call is not answered, the client has its own deadline.
\* When not even an error fits a frame the connection closes.
OnRouted(r, outcome) ==
    /\ r \in calls /\ ~draining["server"]
    /\ calls' = calls \ {r}
    /\ \/ /\ phase["server"] # "open"
          /\ UNCHANGED <<socket, routing, reason>>
       \/ /\ phase["server"] = "open" /\ outcome = "timeout"
          /\ routing' = routing \ {r}
          /\ UNCHANGED <<socket, reason>>
       \/ /\ phase["server"] = "open" /\ outcome = "unencodable"
          /\ ServerBeginClose("LocalEncodeFailed")
       \/ /\ phase["server"] = "open" /\ outcome \in {"reply", "error"} /\ QueueFull
          /\ ServerBeginClose("WriteQueueOverflow")
       \/ /\ phase["server"] = "open" /\ outcome \in {"reply", "error"} /\ ~QueueFull
          /\ StartWrite("server", EnqueueWrite(Encode(r, outcome)), writing["server"])
          /\ routing' = routing \ {r}
          /\ UNCHANGED <<phase, wrote, wire, inbound, draining, active, reason>>
    /\ UNCHANGED <<client, routed, foul>>

ServerCloses ==
    /\ \/ Eof("server") /\ ServerBeginClose("PeerClosed")
       \/ Ready("server") /\ wrote["server"] < 0 /\ ServerBeginClose("IoError")
    /\ UNCHANGED <<client, calls, routed, foul>>

ServerGivesUp ==
    /\ \/ ReadFails("server") /\ ServerBeginClose("IoError")
       \/ IdleFires("server") /\ ServerBeginClose("Idle")
    /\ UNCHANGED <<client, calls, routed, foul>>

ServerShutdown ==
    /\ Ready("server")
    /\ ServerBeginClose("Shutdown")
    /\ UNCHANGED <<client, calls, routed, foul>>

\* A server that is not this one sends, once, a frame no server may send.
ServerBreaksProtocol ==
    /\ link.breaks /\ ~foul /\ Ready("server") /\ ~QueueFull
    /\ foul' = TRUE
    /\ StartWrite("server", EnqueueWrite(Encode(0, "request")), writing["server"])
    /\ UNCHANGED <<phase, wrote, wire, inbound, draining, active, client, routing, calls,
                   routed, reason>>

----------------------------------------------------------------------------
\* What either end does on its own: the read and write loops.
Loop(s) ==
    /\ \/ DriverWrites(s) \/ DriverFails(s) \/ OnWrote(s)
       \/ OnRead(s) \/ StreamClosed(s) \/ (s = "server" /\ EndDrain(s))
    /\ UNCHANGED <<client, server>>

RpcIdle(s) == IdleRearms(s) /\ UNCHANGED <<client, server>>

ClientLoop ==
    \/ Loop("client")
    \/ (OnFrame \/ EffectsRun) /\ UNCHANGED server
    \/ (ClientCloses \/ \E ok \in BOOLEAN : OnConnected(ok)) /\ UNCHANGED <<notices, server>>
ServerLoop ==
    \/ Loop("server") \/ ServerCloses
    \/ \E fits \in BOOLEAN : OnRequestFrame(fits)

RequestsAndTimers ==
    /\ \/ \E fits \in BOOLEAN : OnRequest(fits)
       \/ \E r \in Requests : OnDeadline(r)
       \/ OnShutdown \/ ClientGivesUp
    /\ UNCHANGED <<notices, server>>

RpcInit ==
    /\ SocketInit /\ ClientInit
    /\ routing = {} /\ calls = {} /\ reason = "none" /\ foul = FALSE
    /\ routed = [r \in Requests |-> 0]

RpcNext ==
    \/ ClientLoop \/ ServerLoop \/ RequestsAndTimers \/ ServerShutdown \/ ServerGivesUp
    \/ ServerBreaksProtocol
    \/ \E s \in Ends : RpcIdle(s)
    \/ \E r \in Requests : \E outcome \in Outcomes : OnRouted(r, outcome)

RpcSpec == RpcInit /\ [][RpcNext]_rpcVars

\* The loops of both ends keep going: the driver completes reads, writes and
\* closes, and handlers run.  No deadline, idle tick or fault need come.
RpcFairSpec == RpcSpec /\ WF_rpcVars(ClientLoop) /\ WF_rpcVars(ServerLoop)

----------------------------------------------------------------------------
(* Properties.                                                             *)

RpcTypeOK ==
    /\ phase \in [Ends -> {"connecting", "open", "closing", "stopped"}]
    /\ \A s \in Ends : Len(writeQueue[s]) <= link.queueCap[s] /\ Len(wire[s]) <= link.wireCap
    /\ Cardinality(inFlight) <= link.inFlightCap["client"]
    /\ Cardinality(routing) <= link.inFlightCap["server"]
    /\ \A s \in Ends : wrote[s] \in -1 .. Len(writing[s])

\* Every request has exactly one result or is in flight, never both and never
\* neither: no close, deadline, refusal or late answer repeats one.
OneResult ==
    /\ \A r \in 1 .. asked : Len(result[r]) + (IF r \in inFlight THEN 1 ELSE 0) = 1
    /\ Closed("client") => inFlight = {}

\* A result that waits for the drain in progress to return is never left behind,
\* whatever closes the client: the only results thrown away are those whose answer
\* came in one read with a frame that no server may send.
ResultsSent ==
    /\ built # {} => phase["client"] = "open" /\ draining["client"]
    /\ lost # {} => foul

\* What is on its way in one direction, from the reader's buffer to the rest of
\* the write in flight, is a sequence of whole frames: however writes and reads
\* are cut, and whatever is queued or recalled meanwhile, neither end ever sees
\* half of one frame followed by another.
WholeFrames(units) ==
    /\ Len(units) % 2 = 0
    /\ \A i \in 1 .. Len(units) \div 2 :
         /\ units[2*i - 1].part = 1 /\ units[2*i].part = 2
         /\ units[2*i - 1].req = units[2*i].req /\ units[2*i - 1].kind = units[2*i].kind
StreamIntact ==
    \A s \in Ends :
       phase[s] = "open" /\ ~Closed(Peer(s)) /\ wrote[s] >= 0 =>
          WholeFrames(inbound[Peer(s)] \o wire[s]
                      \o SubSeq(writing[s], wrote[s] + 1, Len(writing[s])))

\* The router is given a request at most once, only an answer of the router is
\* reported Ok, and a request that was refused by the client or timed out before
\* it was written is never given to the router.
RoutedTruth ==
    \A r \in 1 .. asked :
       /\ routed[r] <= 1
       /\ result[r] = <<"Ok">> => routed[r] = 1
       /\ r \in recalled \/ result[r] \in {<<"Full">>, <<"LocalEncodeFailed">>} => routed[r] = 0

\* What the comment in on_request says: with a write queue no shorter than the
\* in-flight map the client never overflows its own queue.
QueueSuffices == link.queueCap["client"] >= link.inFlightCap["client"] => ~overflowed

\* A slot of the connection is held by a call that will free it.
SlotsFreed == routing \subseteq calls

\* "On any connection-wide close path (peer disconnect, server protocol fault,
\* ...) every pending request is notified": nobody's result is thrown away.  The
\* code does not keep it when the server breaks the protocol (see OnFrame).
EveryoneTold == lost = {}

\* The client's requests and the server's slots are accounted for.
RequestsSettle ==
    RpcTypeOK /\ OneResult /\ ResultsSent /\ RoutedTruth /\ QueueSuffices /\ SlotsFreed

\* When one end has closed the other one notices and stops: a closed server
\* leaves no client waiting, although no deadline passes.
CloseSpreads == (\E s \in Ends : phase[s] = "stopped") ~> (\A s \in Ends : phase[s] = "stopped")

=============================================================================
