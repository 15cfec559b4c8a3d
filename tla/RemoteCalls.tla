---------------------------- MODULE RemoteCalls -----------------------------
(***************************************************************************)
(* Calls to an isolate on another shard (tina-runtime/src/dispatch.rs,     *)
(* remote.rs), over the lanes of ShardTransport.                           *)
(*                                                                         *)
(* The requester lives on shard Home, the target on shard Away.  A call    *)
(* travels as a Send on the ordinary lane with a Remote context; whatever  *)
(* settles it comes back as a CallReply on the terminal lane.  Home keeps  *)
(* the pending call with its deadline.  Away keeps nothing but the context *)
(* in the message or in a captured slot, and has no way to ask Home whether*)
(* the caller is still there.                                              *)
(*                                                                         *)
(* Calls are numbered by asked, the global call ids.  A deadline passes at *)
(* any time: Timeout is a step of its own.                                 *)
(***************************************************************************)
EXTENDS ShardTransport, FiniteSets

CONSTANTS
    Home, Away,
    MaxCalls,      \* calls in a run
    MailCap,       \* the capacity of the target's mailbox
    Faults         \* subset of Shards that may be marked failed or exit

\* What the code asks of the constants.
CallAssumption ==
    /\ TransportAssumption
    /\ Shards = {Home, Away} /\ Home # Away
    /\ MaxCalls \in Nat /\ MailCap \in Nat \ {0} /\ Faults \subseteq Shards

VARIABLES
    requester,   \* the caller's isolate runs
    target,      \* the target's isolate runs
    asked,       \* how many calls were made
    waiting,     \* Home: the pending calls of the call table
    heard,       \* heard[c]: the outcomes delivered to the requester for c
    mailbox,     \* Away: the calls in the target's mailbox
    slots,       \* Away: the calls whose caller is captured in an open slot
    given,       \* calls that were handed to a handler of the target
    answered,    \* calls Away produced an answer for
    lapsed       \* calls Away let go without one

home == <<requester, asked, waiting, heard>>
away == <<target, mailbox, slots>>
ghosts == <<given, answered, lapsed>>
vars == <<transport, home, away, ghosts>>

Calls == 1 .. MaxCalls
Outcomes == {"Replied", "Rejected", "Full", "Closed", "Timeout"}

----------------------------------------------------------------------------
(* The requester's shard.                                                  *)

HandlesOn(s) == pc[s] = "step" /\ Idle(s)

\* deliver_isolate_call_outcome: a requester that stopped hears nothing.
Tell(c, outcome) ==
    heard' = IF requester THEN [heard EXCEPT ![c] = Append(@, outcome)] ELSE heard

\* complete_isolate_call: only the first outcome finds the call in the table.
Complete(c, outcome) ==
    IF c \in waiting
      THEN waiting' = waiting \ {c} /\ Tell(c, outcome)
      ELSE UNCHANGED <<waiting, heard>>

\* dispatch_isolate_call up to the routing of the message.
Call ==
    /\ HandlesOn(Home) /\ requester /\ asked < MaxCalls
    /\ asked' = asked + 1
    /\ hand' = [hand EXCEPT ![Home] = <<[kind |-> "Send", to |-> Away, call |-> asked + 1]>>]
    /\ UNCHANGED <<queue, overflow, looping, state, requester, waiting, heard, away, ghosts>>

\* Mutant: the call is in the table before its message is refused.
RouteOnePending(s) ==
    /\ Route(s)
    /\ LET e == Head(hand[s])
       IN  IF e.kind # "Send" THEN UNCHANGED <<waiting, heard>>
           ELSE /\ waiting' = waiting \cup {e.call}
                /\ IF Routed(s, e) = "Ok" THEN heard' = heard ELSE Tell(e.call, Routed(s, e))
    /\ UNCHANGED <<requester, asked, away, ghosts>>

\* The routing of an envelope.  The call is pending once its message is in the
\* channel; a channel that refuses it settles the call at once.
RouteOne(s) ==
    /\ Route(s)
    /\ LET e == Head(hand[s])
       IN  CASE e.kind # "Send" -> UNCHANGED <<waiting, heard>>
             [] e.kind = "Send" /\ Routed(s, e) = "Ok" ->
                  waiting' = waiting \cup {e.call} /\ heard' = heard
             [] OTHER -> waiting' = waiting /\ Tell(e.call, Routed(s, e))
    /\ UNCHANGED <<requester, asked, away, ghosts>>

\* harvest_isolate_call_timeouts, for one call.
Timeout(c) ==
    /\ HandlesOn(Home) /\ c \in waiting
    /\ Complete(c, "Timeout")
    /\ UNCHANGED <<transport, requester, asked, away, ghosts>>

\* cancel_call by the requester: the call leaves the table, nothing is sent.
Cancel(c) ==
    /\ HandlesOn(Home) /\ requester /\ c \in waiting
    /\ waiting' = waiting \ {c}
    /\ UNCHANGED <<transport, requester, asked, heard, away, ghosts>>

\* The requester stops: cancel_pending_isolate_calls_for_owner.
StopRequester ==
    /\ HandlesOn(Home) /\ requester
    /\ requester' = FALSE
    /\ waiting' = {}
    /\ UNCHANGED <<transport, asked, heard, away, ghosts>>

\* harvest_remote_call_reply
HarvestCallReply ==
    /\ Receive(Home) /\ hand' = hand
    /\ Complete(Incoming(Home).call, Incoming(Home).outcome)
    /\ UNCHANGED <<requester, asked, away, ghosts>>

----------------------------------------------------------------------------
(* The target's shard.                                                     *)

Answer(c, outcome) ==
    /\ hand' = [hand EXCEPT ![Away] =
                  <<[kind |-> "CallReply", to |-> Home, call |-> c, outcome |-> outcome]>>]
    /\ answered' = answered \cup {c}

\* harvest_remote_send: a target that is gone or full is told to the caller.  The
\* check for an address of another system never fails here: the caller's shard
\* has made the same check before it sent the call.
HarvestSend ==
    /\ Receive(Away)
    /\ LET c == Incoming(Away).call
       IN  IF target /\ Len(mailbox) < MailCap
             THEN /\ mailbox' = Append(mailbox, c)
                  /\ UNCHANGED <<hand, answered>>
             ELSE /\ Answer(c, IF target THEN "Full" ELSE "Closed")
                  /\ mailbox' = mailbox
    /\ UNCHANGED <<home, target, slots, given, lapsed>>

\* stop_entry_full: the slots the isolate captured are dropped and its mailbox
\* is drained.  Both answer a caller on this shard only; cs are calls the
\* failing handler had in its hands as well.
StopTarget(cs) ==
    /\ target' = FALSE
    /\ mailbox' = <<>> /\ slots' = {}
    /\ lapsed' = lapsed \cup slots \cup cs

\* The step gives the target its next message.
Takes(c) ==
    /\ HandlesOn(Away) /\ mailbox # <<>> /\ c = Head(mailbox)
    /\ given' = given \cup {c}
    /\ UNCHANGED <<queue, overflow, looping, state, home>>

\* The handler replies or rejects, or returns an effect that does neither
\* (ReplyAbandoned).
HandlerAnswers(c, outcome) ==
    /\ Takes(c)
    /\ mailbox' = Tail(mailbox)
    /\ Answer(c, outcome)
    /\ UNCHANGED <<target, slots, lapsed>>

\* The handler captures the caller: promote_captures.
HandlerCaptures(c) ==
    /\ Takes(c)
    /\ mailbox' = Tail(mailbox)
    /\ slots' = slots \cup {c}
    /\ UNCHANGED <<hand, target, answered, lapsed>>

\* The handler panics: the caller is rejected unless the handler captured it,
\* then the target stops.
HandlerPanics(c, captured) ==
    /\ Takes(c)
    /\ IF captured THEN UNCHANGED <<hand, answered>> ELSE Answer(c, "Rejected")
    /\ StopTarget(ToSet(Tail(mailbox)) \cup IF captured THEN {c} ELSE {})

\* The handler stops the target, after a reply or without one (ReplyAbandoned).
HandlerStops(c, outcome) ==
    /\ Takes(c)
    /\ Answer(c, outcome)
    /\ StopTarget(ToSet(Tail(mailbox)))

\* The target stops in a handler for some other message, or is stopped.
StopOther ==
    /\ HandlesOn(Away) /\ target
    /\ StopTarget(ToSet(mailbox))
    /\ UNCHANGED <<transport, home, given, answered>>

\* execute_reply_to with a payload of the expected type.
ReplyTo(c) ==
    /\ HandlesOn(Away) /\ c \in slots
    /\ slots' = slots \ {c}
    /\ Answer(c, "Replied")
    /\ UNCHANGED <<queue, overflow, looping, state, home, target, mailbox, given, lapsed>>

\* The handle is dropped and swept, or answered with a payload of another type.
DropSlot(c) ==
    /\ HandlesOn(Away) /\ c \in slots
    /\ slots' = slots \ {c}
    /\ lapsed' = lapsed \cup {c}
    /\ UNCHANGED <<transport, home, target, mailbox, given, answered>>

----------------------------------------------------------------------------
Loop(s) ==
    /\ \/ RetryOverflow(s) \/ SkipEmpty(s) \/ EndLane(s)
       \/ EndStep(s) /\ hand' = hand
    /\ UNCHANGED <<home, away, ghosts>>

Worker(s) ==
    \/ RouteOne(s) \/ Loop(s)
    \/ s = Home /\ HarvestCallReply
    \/ s = Away /\ HarvestSend

Fault(s) == (MarkFailed(s) \/ Exit(s)) /\ UNCHANGED <<home, away, ghosts>>

Handlers ==
    \/ Call \/ StopRequester \/ StopOther
    \/ \E c \in waiting : Timeout(c) \/ Cancel(c)
    \/ \E c \in ToSet(mailbox) :
         \/ \E outcome \in {"Replied", "Rejected"} :
               HandlerAnswers(c, outcome) \/ HandlerStops(c, outcome)
         \/ HandlerCaptures(c)
         \/ \E captured \in BOOLEAN : HandlerPanics(c, captured)
    \/ \E c \in slots : ReplyTo(c) \/ DropSlot(c)

Init ==
    /\ TransportInit
    /\ requester = TRUE /\ target = TRUE
    /\ asked = 0 /\ waiting = {} /\ heard = [c \in Calls |-> <<>>]
    /\ mailbox = <<>> /\ slots = {}
    /\ given = {} /\ answered = {} /\ lapsed = {}

Next ==
    \/ \E s \in Shards : Worker(s)
    \/ Handlers
    \/ \E s \in Faults : Fault(s)

Spec == Init /\ [][Next]_vars

----------------------------------------------------------------------------
(* Properties.                                                             *)

\* Nothing is on its way.
Quiet ==
    \A s \in Shards :
       /\ hand[s] = <<>> /\ overflow[s] = <<>>
       /\ \A t \in Shards, lane \in Lanes : queue[lane][s][t] = <<>>

\* Type correctness.
TypeOK ==
    /\ requester \in BOOLEAN /\ target \in BOOLEAN
    /\ asked \in 0 .. MaxCalls
    /\ waiting \subseteq 1 .. asked
    /\ heard \in [Calls -> Seq(Outcomes)]
    /\ mailbox \in Seq(Calls) /\ Len(mailbox) <= MailCap
    /\ slots \subseteq given /\ answered \subseteq 1 .. asked
    /\ ~target => mailbox = <<>> /\ slots = {}

Request == [kind : {"Send"}, to : {Away}, call : Calls]
Reply == [kind : {"CallReply"}, to : {Home}, call : Calls, outcome : Outcomes]
Envelope == Request \cup Reply

\* Every envelope is on its way from the one shard to the other, in the lane of
\* its kind, and only a terminal one is ever in an overflow lane.
LanesKept ==
    /\ queue \in [Lanes -> [Shards -> [Shards -> Seq(Envelope)]]]
    /\ overflow \in [Shards -> Seq(Envelope)]
    /\ hand \in [Shards -> Seq(Envelope)]
    /\ \A s \in Shards :
          /\ Len(hand[s]) <= 1
          /\ \A e \in ToSet(hand[s]) : e.to # s
          /\ \A e \in ToSet(overflow[s]) : e.to # s /\ Lane(e) = "terminal"
    /\ \A lane \in Lanes, s \in Shards, t \in Shards :
          \A e \in ToSet(queue[lane][s][t]) : s # t /\ e.to = t /\ Lane(e) = lane

\* The worker's loop stays inside its receivers.
LoopKept ==
    /\ pc \in [Shards -> {"overflow", "first", "second", "step"}]
    /\ lead \in [Shards -> BOOLEAN] /\ left \in [Shards -> Nat]
    /\ at \in [Shards -> [offset : Nat, last : Nat \cup {-1}]]
    /\ start \in [Shards -> [Lanes -> Nat]]
    /\ state \in [Shards -> {"running", "failed", "gone"}]

\* Calls about to be sent, sent, and delivered; replies on their way.
CallsIn(q) == {e.call : e \in ToSet(q)}
Sending == CallsIn(hand[Home])
Requests == queue["ordinary"][Home][Away]
Sent == CallsIn(Requests)
Delivered == ToSet(mailbox)
Replying == ToSet(hand[Away]) \cup ToSet(overflow[Away]) \cup ToSet(queue["terminal"][Away][Home])
AllRunning == \A s \in Shards : state[s] = "running"

\* A call is at one stage of its way to a handler at most, and once.
OneStage ==
    /\ \A i, j \in DOMAIN Requests : Requests[i].call = Requests[j].call => i = j
    /\ IsInjective(mailbox)
    /\ Sending \cup Sent \cup Delivered \cup given \subseteq 1 .. asked
    /\ Sending \cap (Sent \cup Delivered \cup given) = {}
    /\ Sent \cap (Delivered \cup given) = {}
    /\ Delivered \cap given = {}

\* Whatever races, an answer, a timeout, a cancel or a second reply, the
\* requester hears at most one outcome of a call, and none while the call is in
\* the table.
HeardOnce == \A c \in Calls : Len(heard[c]) <= 1 /\ (c \in waiting => heard[c] = <<>>)

\* Full and Closed say that the target never sees the message, before or after:
\* a caller may send it again to somebody else.
RefusedNeverRun ==
    \A c \in Calls : heard[c] \in {<<"Full">>, <<"Closed">>} =>
                        c \notin given /\ c \notin ToSet(mailbox)

\* The requester is told Replied only for a call the target answered, and with
\* the lanes empty a call that still waits is in the target's mailbox, in a slot
\* the target holds, or was let go: no answer is lost while both shards run.
NoAnswerLost ==
    /\ \A c \in Calls : heard[c] = <<"Replied">> => c \in answered
    /\ Quiet /\ AllRunning =>
          waiting \subseteq ToSet(mailbox) \cup slots \cup lapsed

\* What those three rest on.  A call nobody sent yet is neither in the table nor
\* heard of; a refusal that was told or is on its way is for a call that is
\* nowhere near a handler; a reply is for an answered call; and while both
\* shards run, a call that waits is somewhere.
CallsTraced ==
    /\ \A c \in Calls : c > asked \/ c \in Sending => c \notin waiting /\ heard[c] = <<>>
    /\ \A c \in Calls : heard[c] \in {<<"Full">>, <<"Closed">>} =>
                           c \notin Sending \cup Sent \cup Delivered \cup given
    /\ \A e \in Replying :
          /\ e.call \in answered
          /\ e.outcome \in {"Full", "Closed"} =>
                e.call \notin Sending \cup Sent \cup Delivered \cup given
    /\ AllRunning => waiting \subseteq Sent \cup Delivered \cup slots \cup lapsed
                                         \cup {e.call : e \in Replying}

\* A remote call is heard of once, and truly.
CallsSettleOnce ==
    /\ TypeOK /\ LanesKept /\ LoopKept
    /\ OneStage /\ CallsTraced
    /\ HeardOnce /\ RefusedNeverRun /\ NoAnswerLost

\* What the review of the calls says of terminal causes: a caller whose target
\* stopped is told so, it is not left to its deadline.
StopIsTold == Quiet /\ AllRunning => waiting \cap lapsed = {}

=============================================================================
