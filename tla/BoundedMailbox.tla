--------------------------- MODULE BoundedMailbox ---------------------------
(***************************************************************************)
(* What the Mailbox trait (tina/src/isolate.rs) promises of try_send,      *)
(* recv, is_empty and close, for callers on several threads: each call     *)
(* takes effect in one atomic step on a bounded FIFO queue.                *)
(*                                                                         *)
(* A mailbox shared by threads publishes its progress with release stores  *)
(* that the other side loads when it looks, so one side may lag behind the *)
(* other. `visible` counts the queued messages the receiving side has been *)
(* shown, `unseen` the receives the sending side has not been shown yet.   *)
(* A lagging side may only err towards "full" and towards "empty".         *)
(***************************************************************************)
EXTENDS Naturals, Sequences

CONSTANTS
    Msgs,       \* messages a caller can send
    Producers,  \* threads that call try_send
    Consumers,  \* threads that call recv and is_empty
    Closers,    \* threads that call close
    Capacity    \* Mailbox::capacity()

VARIABLES
    queue,      \* accepted messages not yet received, oldest first
    closed,     \* close has taken effect
    visible,    \* queued messages the receiving side has been shown
    unseen,     \* receives the sending side has not been shown
    outcome     \* what the last call of each thread returned

mailboxVars == <<queue, closed, visible, unseen, outcome>>

Threads == Producers \cup Consumers \cup Closers

(* The outcomes of a call: try_send gives Ok, Full or Closed, recv gives   *)
(* None or Some(message), is_empty gives a Boolean, close gives unit, and  *)
(* every call of a mailbox that limits concurrency may panic.              *)
NoCall == [tag |-> "NoCall"]
Ok     == [tag |-> "Ok"]
Full   == [tag |-> "Full"]
Closed == [tag |-> "Closed"]
None   == [tag |-> "None"]
Some(m) == [tag |-> "Some", msg |-> m]
Empty    == [tag |-> "Empty"]
NonEmpty == [tag |-> "NonEmpty"]
Unit     == [tag |-> "Unit"]
Panicked == [tag |-> "Panicked"]

Outcomes == {NoCall, Ok, Full, Closed, None, Empty, NonEmpty, Unit, Panicked}
              \cup {Some(m) : m \in Msgs}

Init ==
    /\ queue = <<>>
    /\ closed = FALSE
    /\ visible = 0
    /\ unseen = 0
    /\ outcome = [t \in Threads |-> NoCall]

(* A call of thread t returns r and has no other effect on its caller. *)
Returns(t, r) == outcome' = [outcome EXCEPT ![t] = r]

(* An accepted message goes to the back of the queue. *)
SendOk(p, m) ==
    /\ ~closed
    /\ Len(queue) < Capacity
    /\ queue' = Append(queue, m)
    /\ Returns(p, Ok)
    /\ UNCHANGED <<closed, visible, unseen>>

(* Full is returned only if the queue, with the receives the sender has    *)
(* not been shown, is at capacity.                                         *)
SendFull(p) ==
    /\ ~closed
    /\ \E u \in 0..unseen :
          /\ Len(queue) + u >= Capacity
          /\ unseen' = u
    /\ Returns(p, Full)
    /\ UNCHANGED <<queue, closed, visible>>

SendClosed(p) ==
    /\ closed
    /\ Returns(p, Closed)
    /\ UNCHANGED <<queue, closed, visible, unseen>>

(* The oldest message is received once, and its place becomes free. *)
RecvSome(c) ==
    /\ visible > 0
    /\ queue # <<>>
    /\ queue' = Tail(queue)
    /\ visible' = visible - 1
    /\ unseen' = unseen + 1
    /\ Returns(c, Some(Head(queue)))
    /\ UNCHANGED closed

(* Nothing is received only if the receiving side has been shown nothing. *)
RecvNone(c) ==
    /\ visible = 0
    /\ Returns(c, None)
    /\ UNCHANGED <<queue, closed, visible, unseen>>

IsEmpty(c) ==
    /\ \E v \in visible..Len(queue) :
          /\ visible' = v
          /\ Returns(c, IF v = 0 THEN Empty ELSE NonEmpty)
    /\ UNCHANGED <<queue, closed, unseen>>

(* close is idempotent and leaves the queued messages where they are. *)
Close(k) ==
    /\ closed' = TRUE
    /\ UNCHANGED <<queue, visible, unseen, outcome>>

CloseReturns(k) ==
    /\ closed
    /\ Returns(k, Unit)
    /\ UNCHANGED <<queue, closed, visible, unseen>>

(* A call refused because another thread already plays its role. *)
Refuse(t) ==
    /\ Returns(t, Panicked)
    /\ UNCHANGED <<queue, closed, visible, unseen>>

(* A side is shown more of what the other side has done. *)
Observe ==
    /\ visible' \in visible..Len(queue)
    /\ unseen' \in 0..unseen
    /\ UNCHANGED <<queue, closed, outcome>>

Next ==
    \/ \E p \in Producers :
          \/ \E m \in Msgs : SendOk(p, m)
          \/ SendFull(p) \/ SendClosed(p) \/ Refuse(p)
    \/ \E c \in Consumers : RecvSome(c) \/ RecvNone(c) \/ IsEmpty(c) \/ Refuse(c)
    \/ \E k \in Closers : Close(k) \/ CloseReturns(k)
    \/ Observe

Spec == Init /\ [][Next]_mailboxVars
=============================================================================
