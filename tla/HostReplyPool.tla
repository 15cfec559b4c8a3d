--------------------------- MODULE HostReplyPool ---------------------------
(***************************************************************************)
(* Blocking host calls and their pooled reply channels (tina-runtime,      *)
(* call_blocking_with_host_timeout and host_call_reply_pool.rs).  A host   *)
(* thread makes one call after another.  Each takes a channel from the     *)
(* thread's pool, gives a sender to the dispatcher, waits on a condition   *)
(* variable up to its timeout, and puts the channel back if no sender is   *)
(* left.  The dispatcher answers or drops the sender, possibly long after  *)
(* the call has given up.                                                  *)
(***************************************************************************)
EXTENDS Integers, Sequences, FiniteSets

CONSTANTS
    MaxCalls,   \* bound: calls the host thread makes
    PoolCap,    \* MAX_POOLED_PER_TYPE
    NoReply     \* nothing in a field of a channel

Calls == 1 .. MaxCalls
Chans == Calls

\* What a call is told: its kind, and the call whose reply it is.
Told(k, c) == [kind |-> k, of |-> c]
Answers == [kind : {"none", "ok", "disconnected", "timeout", "full", "stopped"},
            of : 0 .. MaxCalls]

\* What is left in a channel, and whether it was stamped within the timeout.
Stamped == [what : Answers, inTime : BOOLEAN]

\* What the code asks of the constants.
ReplyAssumption ==
    /\ MaxCalls \in Nat \ {0} /\ PoolCap \in Nat
    /\ NoReply \notin Chans /\ NoReply \notin Stamped

VARIABLES
    call,      \* the present call, 0 before the first
    callPc,    \* "idle", "offering", "checking", "parked" or "returning"
    callExpired, \* the present call's host_wait_timeout has passed
    using,     \* the channel the call took, named after the call that made it
    value,     \* per channel: the reply and whether it was sent in time
    dropped,   \* per channel: sender_dropped_at, likewise
    pool,      \* the thread's pool, a stack
    sender,    \* per call: [chan, st]; st "live", "sent", "dropped", "notified", "gone"
    callResult, \* per call: what the host was told
    pooled,    \* ghost: the calls whose channel went back to the pool
    answered   \* ghost: the calls whose sender was used

chanVars == <<value, dropped>>
poolVars == <<pool, pooled>>
replyVars ==
    <<call, callPc, callExpired, using, chanVars, poolVars, sender, callResult, answered>>

SenderStates == {"live", "sent", "dropped", "notified", "gone"}
NoSender == [chan |-> NoReply, st |-> "gone"]

ReplyInit ==
    /\ call = 0
    /\ callPc = "idle"
    /\ callExpired = FALSE
    /\ using = NoReply
    /\ value = [i \in Chans |-> NoReply]
    /\ dropped = [i \in Chans |-> NoReply]
    /\ pool = <<>>
    /\ sender = [c \in Calls |-> NoSender]
    /\ callResult = [c \in Calls |-> Told("none", 0)]
    /\ pooled = {}
    /\ answered = {}

-----------------------------------------------------------------------------
(* The host thread.                                                        *)

\* checkout, and a sender for the dispatcher.
Checkout ==
    /\ callPc = "idle"
    /\ call < MaxCalls
    /\ call' = call + 1
    /\ callExpired' = FALSE
    /\ LET i == IF pool = <<>> THEN call + 1 ELSE pool[Len(pool)] IN
       /\ using' = i
       /\ sender' = [sender EXCEPT ![call + 1] = [chan |-> i, st |-> "live"]]
    /\ pool' = IF pool = <<>> THEN pool ELSE SubSeq(pool, 1, Len(pool) - 1)
    /\ callPc' = "offering"
    /\ UNCHANGED <<chanVars, callResult, pooled, answered>>

\* The Arc of the channel is shared with every sender that is not gone.
Sharers(i) == {c \in Calls : sender[c].chan = i /\ sender[c].st # "gone"}
StrongCount(i) == 1 + Cardinality(Sharers(i))

\* checkin looks at the strong count once.
Reusable(i) == StrongCount(i) = 1

\* Mutant: the channel is pooled as it is.
ResetNothing(i) == UNCHANGED chanVars

\* reset_for_reuse.
Reset(i) ==
    /\ value' = [value EXCEPT ![i] = NoReply]
    /\ dropped' = [dropped EXCEPT ![i] = NoReply]

Checkin ==
    IF Reusable(using)
    THEN /\ Reset(using)
         /\ pool' = IF Len(pool) < PoolCap THEN Append(pool, using) ELSE pool
         /\ pooled' = IF Len(pool) < PoolCap THEN pooled \cup {call} ELSE pooled
    ELSE UNCHANGED <<chanVars, poolVars>>

\* The queue accepts the command.
Accepted ==
    /\ callPc = "offering"
    /\ callPc' = "checking"
    /\ UNCHANGED <<chanVars, poolVars, call, callExpired, using, sender, callResult,
                   answered>>

\* The queue is full or disconnected.  The refused command, with the sender in
\* it, is a temporary of the match: it is dropped after the channel's checkin.
Refused(k) ==
    /\ callPc = "offering"
    /\ callPc' = "idle"
    /\ callResult' = [callResult EXCEPT ![call] = Told(k, 0)]
    /\ Checkin
    /\ sender' = [sender EXCEPT ![call].st = "gone"]
    /\ using' = NoReply
    /\ UNCHANGED <<call, callExpired, answered>>

Leave(r) ==
    /\ callPc' = "returning"
    /\ callResult' = [callResult EXCEPT ![call] = r]

\* A value or a hang-up counts only if it was stamped within the timeout.
Heard(v) == IF v.inTime THEN v ELSE [what |-> Told("timeout", 0), inTime |-> FALSE]

\* One round of recv_timeout under the lock of the channel.
Check ==
    /\ callPc = "checking"
    /\ \/ /\ value[using] # NoReply
          /\ value' = [value EXCEPT ![using] = NoReply]
          /\ Leave(Heard(value[using]).what)
       \/ /\ value[using] = NoReply
          /\ dropped[using] # NoReply
          /\ Leave(Heard(dropped[using]).what)
          /\ UNCHANGED value
       \/ /\ value[using] = NoReply
          /\ dropped[using] = NoReply
          /\ callExpired
          /\ Leave(Told("timeout", 0))
          /\ UNCHANGED value
       \/ /\ value[using] = NoReply
          /\ dropped[using] = NoReply
          /\ ~callExpired
          /\ callPc' = "parked"
          /\ UNCHANGED <<value, callResult>>
    /\ UNCHANGED <<poolVars, call, callExpired, using, dropped, sender, answered>>

\* The wait times out, or ends for no reason.
WakeUp ==
    /\ callPc = "parked"
    /\ callPc' = "checking"
    /\ UNCHANGED <<chanVars, poolVars, call, callExpired, using, sender, callResult,
                   answered>>

WaitExpires ==
    /\ callPc \in {"checking", "parked"}
    /\ ~callExpired
    /\ callExpired' = TRUE
    /\ UNCHANGED <<chanVars, poolVars, call, callPc, using, sender, callResult, answered>>

\* The channel is put back before the outcome is looked at.
CheckinAndReturn ==
    /\ callPc = "returning"
    /\ callPc' = "idle"
    /\ Checkin
    /\ using' = NoReply
    /\ UNCHANGED <<call, callExpired, sender, callResult, answered>>

-----------------------------------------------------------------------------
(* The sender, on the worker's thread.                                     *)

InTime(c) == ~(call = c /\ callExpired)

\* send stores the reply; the notification is left to the destructor.
Send(c) ==
    /\ sender[c].st = "live"
    /\ ~(call = c /\ callPc = "offering")
    /\ value' = [value EXCEPT ![sender[c].chan] =
                    [what |-> Told("ok", c), inTime |-> InTime(c)]]
    /\ sender' = [sender EXCEPT ![c].st = "sent"]
    /\ answered' = answered \cup {c}
    /\ UNCHANGED <<poolVars, call, callPc, callExpired, using, dropped, callResult>>

\* Drop: without a value in the channel it is marked as hung up.  A value that
\* the host has taken in the meantime looks the same as one never sent.
DropSender(c) ==
    /\ sender[c].st \in {"live", "sent"}
    /\ ~(call = c /\ callPc = "offering")
    /\ LET i == sender[c].chan IN
       dropped' = IF value[i] # NoReply THEN dropped
                  ELSE [dropped EXCEPT ![i] =
                           [what |-> Told("disconnected", 0), inTime |-> InTime(c)]]
    /\ sender' = [sender EXCEPT ![c].st = "dropped"]
    /\ UNCHANGED <<poolVars, call, callPc, callExpired, using, value, callResult,
                   answered>>

\* notify_one.
NotifyHost(c) ==
    callPc' = IF callPc = "parked" /\ using = sender[c].chan THEN "checking" ELSE callPc

Notify(c) ==
    /\ sender[c].st = "dropped"
    /\ NotifyHost(c)
    /\ sender' = [sender EXCEPT ![c].st = "notified"]
    /\ UNCHANGED <<chanVars, poolVars, call, callExpired, using, callResult, answered>>

\* The sender's share of the channel goes last.
ReleaseArc(c) ==
    /\ sender[c].st = "notified"
    /\ sender' = [sender EXCEPT ![c].st = "gone"]
    /\ UNCHANGED <<chanVars, poolVars, call, callPc, callExpired, using, callResult,
                   answered>>

CallStep ==
    \/ Checkout
    \/ Accepted \/ Refused("full") \/ Refused("stopped")
    \/ Check \/ CheckinAndReturn

SenderStep(c) == Send(c) \/ DropSender(c) \/ Notify(c) \/ ReleaseArc(c)

ReplyNext ==
    \/ CallStep
    \/ WakeUp
    \/ WaitExpires
    \/ \E c \in Calls : SenderStep(c)

ReplySpec == ReplyInit /\ [][ReplyNext]_replyVars

-----------------------------------------------------------------------------
(* Properties.                                                             *)

\* The variables have the types of the code's fields.
ReplyTypeOK ==
    /\ call \in 0 .. MaxCalls
    /\ callPc \in {"idle", "offering", "checking", "parked", "returning"}
    /\ callExpired \in BOOLEAN
    /\ using \in Chans \cup {NoReply}
    /\ value \in [Chans -> Stamped \cup {NoReply}]
    /\ dropped \in [Chans -> Stamped \cup {NoReply}]
    /\ pool \in Seq(Chans)
    /\ sender \in [Calls -> [chan : Chans \cup {NoReply}, st : SenderStates]]
    /\ callResult \in [Calls -> Answers]
    /\ pooled \subseteq Calls
    /\ answered \subseteq Calls

\* A call returns its own reply or none: a reply that comes after its call gave
\* up never reaches a later call through a reused channel.
OwnReply == \A c \in Calls : callResult[c].kind = "ok" => callResult[c].of = c

\* A hang-up is reported only for a call whose sender was dropped unused: the
\* mark a sender leaves when the host was quicker must not outlive its call.
HangUpTrue == \A c \in Calls : callResult[c].kind = "disconnected" => c \notin answered

\* A pooled channel is as new: empty, without a mark, shared with no sender, in
\* the pool once, and not in use.
PoolClean ==
    \A n \in DOMAIN pool :
        /\ value[pool[n]] = NoReply /\ dropped[pool[n]] = NoReply
        /\ StrongCount(pool[n]) = 1
        /\ pool[n] # using
        /\ \A m \in DOMAIN pool : pool[m] = pool[n] => m = n

\* An answer or a dropped sender wakes the host, however long its timeout: a host
\* is parked only while its sender is still to be used or to notify it.
AnswerWakes == callPc = "parked" => sender[call].st \in {"live", "sent", "dropped"}

\* The comment on the full queue: the channel "returns to the pool naturally".
FullReturnsToPool == \A c \in Calls : callResult[c].kind = "full" => c \in pooled

\* Reused channels keep calls apart and wake their host.
RepliesKeptApart == ReplyTypeOK /\ OwnReply /\ HangUpTrue /\ PoolClean /\ AnswerWakes
=============================================================================
