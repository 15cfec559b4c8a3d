----------------------------- MODULE RpcClient ------------------------------
(***************************************************************************)
(* The client isolate of one RPC stream (tina-rpc/src/client.rs): a        *)
(* bounded map of requests in flight, one result for each request, local   *)
(* deadlines, and a close that tells everyone who still waits.             *)
(*                                                                         *)
(* Wire ids are as fresh as the requests: the 64-bit counter does not come *)
(* round.                                                                  *)
(***************************************************************************)
EXTENDS RpcWire

VARIABLES
    asked,       \* requests made so far
    inFlight,    \* in_flight
    timers,      \* requests whose DeadlineFired has not come
    result,      \* result[r]: the results made for the requester's reply_to
    recalled,    \* requests that timed out before any of their bytes were written
    overflowed,  \* the client closed because its own write queue was full
    built,       \* requests with a result among the effects of the drain in progress
    lost         \* requests whose result was thrown away with those effects

notices == <<built, lost>>
client == <<link, asked, inFlight, timers, result, recalled, overflowed, notices>>

\* notify, for a set of requests.
Notify(rs, what) ==
    result' = [r \in Requests |-> IF r \in rs THEN Append(result[r], what) ELSE result[r]]

\* begin_close; also is a request that is refused by the same handler.
BeginClose(reason, also) ==
    /\ CloseSocket("client")
    /\ Notify(inFlight \cup also, reason)
    /\ inFlight' = {}

\* on_connected
OnConnected(ok) ==
    /\ phase["client"] = "connecting"
    /\ IF ok
         THEN /\ phase' = [phase EXCEPT !["client"] = "open"]
              /\ IF writeQueue["client"] = <<>> THEN UNCHANGED <<writeQueue, writing>>
                 ELSE /\ writeQueue' = [writeQueue EXCEPT !["client"] = Tail(@)]
                      /\ writing' = [writing EXCEPT !["client"] = Head(writeQueue["client"]).units]
              /\ UNCHANGED <<wrote, wire, inbound, draining, active, inFlight, result>>
         ELSE BeginClose("IoError", {})
    /\ UNCHANGED <<asked, timers, recalled, overflowed>>

\* on_request refuses.
Refuse(r, what) == Notify({r}, what) /\ UNCHANGED <<socket, inFlight, timers, overflowed>>

\* The write queue is full: the client closes, and tells r as well.
Overflow(r) ==
    /\ BeginClose("IoError", {r})
    /\ overflowed' = TRUE /\ timers' = timers

\* r is in flight, its frame queued and its deadline armed.
Admit(r) ==
    /\ inFlight' = inFlight \cup {r}
    /\ timers' = timers \cup {r}
    /\ StartWrite("client", Append(writeQueue["client"], Tagged(r, Encode(r, "request"))),
                  writing["client"])
    /\ UNCHANGED <<phase, wrote, wire, inbound, draining, active, result, overflowed>>

MapFull == Cardinality(inFlight) >= link.inFlightCap["client"]
NoPlace == Len(writeQueue["client"]) >= link.queueCap["client"]

\* on_request.  A frame beyond max_frame_size is refused before it is queued.
OnRequest(fits) ==
    /\ phase["client"] # "stopped" /\ ~draining["client"]
    /\ asked < MaxRequests /\ asked < link.asks
    /\ asked' = asked + 1
    /\ \/ Closed("client") /\ Refuse(asked + 1, "ConnectionClosed")
       \/ ~Closed("client") /\ MapFull /\ Refuse(asked + 1, "Full")
       \/ ~Closed("client") /\ ~MapFull /\ ~fits /\ Refuse(asked + 1, "LocalEncodeFailed")
       \/ ~Closed("client") /\ ~MapFull /\ fits /\ NoPlace /\ Overflow(asked + 1)
       \/ ~Closed("client") /\ ~MapFull /\ fits /\ ~NoPlace /\ Admit(asked + 1)
    /\ recalled' = recalled

\* drain_inbound, one frame: a reply or an error settles its request if it is
\* still in flight, and the notice joins the effects.  Anything else is a fault of
\* the server: on_read closes, and the effects built so far are not returned.
OnFrame ==
    /\ HasFrame("client")
    /\ LET e == Frame("client")
       IN  IF Decodes("client") /\ e.kind # "request"
             THEN /\ TakeFrame("client")
                  /\ Notify({e.req} \cap inFlight, IF e.kind = "reply" THEN "Ok" ELSE "ServerError")
                  /\ inFlight' = inFlight \ {e.req}
                  /\ built' = built \cup ({e.req} \cap inFlight) /\ lost' = lost
                  /\ UNCHANGED <<phase, writeQueue, writing, wrote, wire, draining, active>>
             ELSE /\ BeginClose("ConnectionClosed", {})
                  /\ built' = {} /\ lost' = lost \cup built
    /\ UNCHANGED <<asked, timers, recalled, overflowed>>

\* drain_inbound returns Ok: its effects are carried out.
EffectsRun ==
    /\ EndDrain("client")
    /\ built' = {} /\ lost' = lost
    /\ UNCHANGED <<asked, inFlight, timers, result, recalled, overflowed>>

\* Request ids are fresh, so the queue holds at most one frame of r.
Recall(q, r) == RemoveAt(q, CHOOSE i \in DOMAIN q : q[i].tag = r)

\* r times out: its frame is dropped if none of it was written.
TimesOut(r) ==
    /\ inFlight' = inFlight \ {r}
    /\ Notify({r}, "Timeout")
    /\ IF \E i \in DOMAIN writeQueue["client"] : writeQueue["client"][i].tag = r
         THEN /\ writeQueue' = [writeQueue EXCEPT !["client"] = Recall(@, r)]
              /\ recalled' = recalled \cup {r}
         ELSE UNCHANGED <<writeQueue, recalled>>
    /\ UNCHANGED <<phase, writing, wrote, wire, inbound, draining, active>>

\* Mutant: the deadline of a request that was answered reports a timeout.
OnDeadlineAlways(r) ==
    /\ r \in timers /\ ~draining["client"] /\ phase["client"] # "stopped"
    /\ timers' = timers \ {r}
    /\ IF Closed("client")
         THEN UNCHANGED <<inFlight, result, recalled, socket>>
         ELSE TimesOut(r)
    /\ UNCHANGED <<asked, overflowed>>

\* on_deadline
OnDeadline(r) ==
    /\ r \in timers /\ ~draining["client"] /\ phase["client"] # "stopped"
    /\ timers' = timers \ {r}
    /\ IF Closed("client") \/ r \notin inFlight
         THEN UNCHANGED <<inFlight, result, recalled, socket>>
         ELSE TimesOut(r)
    /\ UNCHANGED <<asked, overflowed>>

\* The stream ends or a write failed.
ClientCloses ==
    /\ \/ Eof("client") /\ BeginClose("ConnectionClosed", {})
       \/ Ready("client") /\ wrote["client"] < 0 /\ BeginClose("IoError", {})
    /\ UNCHANGED <<asked, timers, recalled, overflowed>>

\* A read failed, or an idle tick saw no activity.
ClientGivesUp ==
    /\ \/ ReadFails("client") /\ BeginClose("IoError", {})
       \/ IdleFires("client") /\ BeginClose("Idle", {})
    /\ UNCHANGED <<asked, timers, recalled, overflowed>>

OnShutdown ==
    /\ phase["client"] \in {"connecting", "open"} /\ ~draining["client"]
    /\ BeginClose("ConnectionClosed", {})
    /\ UNCHANGED <<asked, timers, recalled, overflowed>>

ClientInit ==
    /\ asked = 0 /\ inFlight = {} /\ timers = {} /\ recalled = {} /\ overflowed = FALSE
    /\ result = [r \in Requests |-> <<>>] /\ built = {} /\ lost = {}

=============================================================================
