---------------------------- MODULE SpscMailbox -----------------------------
(***************************************************************************)
(* tina-mailbox-spsc/src/lib.rs: the bounded single-producer,              *)
(* single-consumer ring buffer. One action per atomic operation of the     *)
(* code, so that every interleaving of try_send, recv, is_empty, close and *)
(* the final drop is a behaviour. Any number of threads may enter in each  *)
(* role: the code promises to panic on overlap, never to corrupt a slot.   *)
(*                                                                         *)
(* Cursors are usize and wrap: Wrap stands for 2^64 (a multiple of         *)
(* Capacity because both are powers of two). A load of the other side's    *)
(* cursor is only ordered by acquire/release, so it may return any value   *)
(* between the last one its side saw (headSeen, tailSeen) and the current  *)
(* one; a side's own cursor is exact because the role's claim orders it.   *)
(***************************************************************************)
EXTENDS Integers, Sequences

CONSTANTS Msgs, Producers, Consumers, Closers,
    Capacity,   \* slots of the ring
    Wrap,       \* cursors count modulo Wrap
    NoMsg       \* the bytes of a slot nothing was ever written to

ASSUME CapacityAssumption == Capacity \in Nat \ {0}
ASSUME WrapAssumption ==
    /\ Wrap \in Nat
    /\ Wrap >= 2 * Capacity
    /\ Wrap % Capacity = 0
ASSUME RolesAssumption ==
    /\ Producers \cap Consumers = {}
    /\ Producers \cap Closers = {}
    /\ Consumers \cap Closers = {}
ASSUME NoMsgAssumption == NoMsg \notin Msgs

VARIABLES
    head, tail,       \* cursors of the consumer and of the producer
    closedBit,        \* STATE_CLOSED of `state`
    heldBit,          \* STATE_PRODUCER_HELD of `state`
    consumerActive,   \* consumer_active
    slots,            \* the bytes of each slot
    inited,           \* which slots hold an initialized, not yet moved-out value
    headSeen,         \* latest head any producer has loaded
    tailSeen,         \* latest tail any consumer has loaded
    pc,               \* the next atomic operation of each thread
    arg,              \* the message a producer is sending
    res,              \* the result of a call that has yet to drop its guard
    ret,              \* what the last finished call of each thread returned
    dropped           \* the mailbox has been dropped

vars == <<head, tail, closedBit, heldBit, consumerActive, slots, inited,
          headSeen, tailSeen, pc, arg, res, ret, dropped>>

state   == <<closedBit, heldBit>>
cursors == <<head, tail, headSeen, tailSeen>>
ring    == <<slots, inited>>
locals  == <<arg, res>>

-----------------------------------------------------------------------------
(* usize::wrapping_add, usize::wrapping_sub and `cursor & slot_mask`. *)
WrappingAdd(a, n) == (a + n) % Wrap
WrappingSub(a, b) == (a - b) % Wrap
SlotOf(cursor) == cursor % Capacity

Cursor == 0..(Wrap - 1)
SlotIx == 0..(Capacity - 1)

(* The published messages that have not been received, oldest first. *)
Live == WrappingSub(tail, head)
Contents == [i \in 1..Live |-> slots[SlotOf(WrappingAdd(head, i - 1))]]

(* The slots of n cursors from h on, and those of the unread messages. *)
Span(h, n) == {SlotOf(WrappingAdd(h, k)) : k \in 0..(n - 1)}
LiveSlots == Span(head, Live)

(* How much of the other side's progress each side has loaded. *)
Visible == WrappingSub(tailSeen, head)
Unseen  == WrappingSub(head, headSeen)

Threads == Producers \cup Consumers \cup Closers

(* A call has taken effect once its result is decided, although the guard  *)
(* it holds is dropped later.                                              *)
Outcome == [t \in Threads |->
               IF pc[t] \in {"release_producer", "release_consumer"}
               THEN res[t] ELSE ret[t]]

(* The trait's contract, on the abstract queue this ring implements. *)
Mailbox == INSTANCE BoundedMailbox WITH
    queue <- Contents, closed <- closedBit,
    visible <- Visible, unseen <- Unseen, outcome <- Outcome

Init ==
    /\ head = 0 /\ tail = 0
    /\ closedBit = FALSE /\ heldBit = FALSE
    /\ consumerActive = FALSE
    /\ slots = [i \in SlotIx |-> NoMsg]
    /\ inited = [i \in SlotIx |-> FALSE]
    /\ headSeen = 0 /\ tailSeen = 0
    /\ pc = [t \in Threads |-> "idle"]
    /\ arg = [t \in Threads |-> NoMsg]
    /\ res = [t \in Threads |-> Mailbox!NoCall]
    /\ ret = [t \in Threads |-> Mailbox!NoCall]
    /\ dropped = FALSE

Goto(t, label) == pc' = [pc EXCEPT ![t] = label]
At(t, label) == pc[t] = label

(* Thread t leaves the call, its locals go, and its caller gets r. *)
Return(t, r) ==
    /\ Goto(t, "idle")
    /\ ret' = [ret EXCEPT ![t] = r]
    /\ arg' = [arg EXCEPT ![t] = NoMsg]
    /\ res' = [res EXCEPT ![t] = Mailbox!NoCall]

-----------------------------------------------------------------------------
(* try_send *)

TrySend(p, m) ==
    /\ At(p, "idle") /\ ~dropped
    /\ arg' = [arg EXCEPT ![p] = m]
    /\ Goto(p, "claim_load")
    /\ UNCHANGED <<state, consumerActive, ring, cursors, res, ret, dropped>>

(* claim_producer: the state load and the two checks on what it returned. *)
ClaimLoad(p) ==
    /\ At(p, "claim_load")
    /\ \/ closedBit /\ Return(p, Mailbox!Closed)
       \/ ~closedBit /\ heldBit /\ Return(p, Mailbox!Panicked)
       \/ ~closedBit /\ ~heldBit /\ Goto(p, "claim_cas") /\ UNCHANGED <<locals, ret>>
    /\ UNCHANGED <<state, consumerActive, ring, cursors, dropped>>

(* claim_producer: compare_exchange from the open, unheld state, or again. *)
ClaimCas(p) ==
    /\ At(p, "claim_cas")
    /\ \/ /\ ~closedBit /\ ~heldBit
          /\ heldBit' = TRUE
          /\ Goto(p, "load_cursors")
       \/ /\ closedBit \/ heldBit
          /\ heldBit' = heldBit
          /\ Goto(p, "claim_load")
    /\ UNCHANGED <<closedBit, consumerActive, ring, cursors, locals, ret, dropped>>

(* Mutant: `>` for `>=` in the full check. *)
LoadCursorsOffByOne(p) ==
    /\ At(p, "load_cursors")
    /\ \E k \in 0..Unseen :
         LET h == WrappingAdd(headSeen, k) IN
         /\ headSeen' = h
         /\ \/ /\ WrappingSub(tail, h) > Capacity
               /\ res' = [res EXCEPT ![p] = Mailbox!Full]
               /\ Goto(p, "release_producer")
            \/ /\ WrappingSub(tail, h) <= Capacity
               /\ Goto(p, "write_slot")
               /\ UNCHANGED res
    /\ UNCHANGED <<state, consumerActive, ring, head, tail, tailSeen, arg, ret, dropped>>

(* The tail load, the head load, which may be stale, and the full check. *)
LoadCursors(p) ==
    /\ At(p, "load_cursors")
    /\ \E k \in 0..Unseen :
         LET h == WrappingAdd(headSeen, k) IN
         /\ headSeen' = h
         /\ \/ /\ WrappingSub(tail, h) >= Capacity
               /\ res' = [res EXCEPT ![p] = Mailbox!Full]
               /\ Goto(p, "release_producer")
            \/ /\ WrappingSub(tail, h) < Capacity
               /\ Goto(p, "write_slot")
               /\ UNCHANGED res
    /\ UNCHANGED <<state, consumerActive, ring, head, tail, tailSeen, arg, ret, dropped>>

WriteSlot(p) ==
    /\ At(p, "write_slot")
    /\ slots' = [slots EXCEPT ![SlotOf(tail)] = arg[p]]
    /\ inited' = [inited EXCEPT ![SlotOf(tail)] = TRUE]
    /\ Goto(p, "publish")
    /\ UNCHANGED <<state, consumerActive, cursors, locals, ret, dropped>>

Publish(p) ==
    /\ At(p, "publish")
    /\ tail' = WrappingAdd(tail, 1)
    /\ res' = [res EXCEPT ![p] = Mailbox!Ok]
    /\ Goto(p, "release_producer")
    /\ UNCHANGED <<state, consumerActive, ring, head, headSeen, tailSeen, arg, ret, dropped>>

(* The drop of ProducerGuard, on every path out of a claimed try_send. *)
ReleaseProducer(p) ==
    /\ At(p, "release_producer")
    /\ heldBit' = FALSE
    /\ Return(p, res[p])
    /\ UNCHANGED <<closedBit, consumerActive, ring, cursors, dropped>>

-----------------------------------------------------------------------------
(* recv and is_empty *)

(* Mutant: consumer_active is swapped in and its old value ignored. *)
RecvUnclaimed(c) ==
    /\ At(c, "idle") /\ ~dropped
    /\ consumerActive' = TRUE
    /\ Goto(c, "load_tail")
    /\ UNCHANGED <<state, ring, cursors, locals, ret, dropped>>

(* claim: compare_exchange on consumer_active, or a panic. *)
Recv(c) ==
    /\ At(c, "idle") /\ ~dropped
    /\ \/ /\ ~consumerActive
          /\ consumerActive' = TRUE
          /\ Goto(c, "load_tail")
          /\ UNCHANGED <<locals, ret>>
       \/ /\ consumerActive
          /\ Return(c, Mailbox!Panicked)
          /\ UNCHANGED consumerActive
    /\ UNCHANGED <<state, ring, cursors, dropped>>

(* The head load, the tail load, which may be stale, and the empty check. *)
LoadTail(c) ==
    /\ At(c, "load_tail")
    /\ \E k \in 0..WrappingSub(tail, tailSeen) :
         LET t == WrappingAdd(tailSeen, k) IN
         /\ tailSeen' = t
         /\ \/ /\ head = t
               /\ res' = [res EXCEPT ![c] = Mailbox!None]
               /\ Goto(c, "release_consumer")
            \/ /\ head # t
               /\ Goto(c, "read_slot")
               /\ UNCHANGED res
    /\ UNCHANGED <<state, consumerActive, ring, head, tail, headSeen, arg, ret, dropped>>

(* Slot::read moves the value out and leaves the bytes behind. *)
ReadSlot(c) ==
    /\ At(c, "read_slot")
    /\ res' = [res EXCEPT ![c] = Mailbox!Some(slots[SlotOf(head)])]
    /\ inited' = [inited EXCEPT ![SlotOf(head)] = FALSE]
    /\ Goto(c, "advance")
    /\ UNCHANGED <<state, consumerActive, slots, cursors, arg, ret, dropped>>

Advance(c) ==
    /\ At(c, "advance")
    /\ head' = WrappingAdd(head, 1)
    /\ Goto(c, "release_consumer")
    /\ UNCHANGED <<state, consumerActive, ring, tail, headSeen, tailSeen, locals, ret, dropped>>

(* The drop of ActiveGuard. *)
ReleaseConsumer(c) ==
    /\ At(c, "release_consumer")
    /\ consumerActive' = FALSE
    /\ Return(c, res[c])
    /\ UNCHANGED <<state, ring, cursors, dropped>>

(* is_empty is the consumer's own peek: it claims nothing and compares the *)
(* two cursors, and no other consumer is in recv meanwhile.                *)
IsEmpty(c) ==
    /\ At(c, "idle") /\ ~dropped /\ ~consumerActive
    /\ \E k \in 0..WrappingSub(tail, tailSeen) :
         LET t == WrappingAdd(tailSeen, k) IN
         /\ tailSeen' = t
         /\ Return(c, IF head = t THEN Mailbox!Empty ELSE Mailbox!NonEmpty)
    /\ UNCHANGED <<state, consumerActive, ring, head, tail, headSeen, dropped>>

-----------------------------------------------------------------------------
(* close *)

Close(k) ==
    /\ At(k, "idle") /\ ~dropped
    /\ Goto(k, "close_load")
    /\ UNCHANGED <<state, consumerActive, ring, cursors, locals, ret, dropped>>

(* Mutant: close has no early return for a mailbox closed before. *)
CloseLoadNoReturn(k) ==
    /\ At(k, "close_load")
    /\ ~heldBit /\ ~closedBit
    /\ Goto(k, "close_cas")
    /\ UNCHANGED <<state, consumerActive, ring, cursors, locals, ret, dropped>>

(* The state load. A load that finds the gate held spins and changes       *)
(* nothing; a load that finds it free either returns or tries the CAS.     *)
CloseLoad(k) ==
    /\ At(k, "close_load")
    /\ ~heldBit
    /\ \/ closedBit /\ Return(k, Mailbox!Unit)
       \/ ~closedBit /\ Goto(k, "close_cas") /\ UNCHANGED <<locals, ret>>
    /\ UNCHANGED <<state, consumerActive, ring, cursors, dropped>>

(* Mutant: the CAS becomes a fetch_or, which ignores a sender at work. *)
CloseCasUngated(k) ==
    /\ At(k, "close_cas")
    /\ closedBit' = TRUE /\ heldBit' = TRUE
    /\ Goto(k, "close_release")
    /\ UNCHANGED <<consumerActive, ring, cursors, locals, ret, dropped>>

(* Mutant: the CAS takes the gate but does not set STATE_CLOSED. *)
CloseCasHeldOnly(k) ==
    /\ At(k, "close_cas")
    /\ \/ ~closedBit /\ ~heldBit /\ heldBit' = TRUE /\ Goto(k, "close_release")
       \/ (closedBit \/ heldBit) /\ Goto(k, "close_load") /\ UNCHANGED heldBit
    /\ UNCHANGED <<closedBit, consumerActive, ring, cursors, locals, ret, dropped>>

CloseCas(k) ==
    /\ At(k, "close_cas")
    /\ \/ /\ ~closedBit /\ ~heldBit
          /\ closedBit' = TRUE /\ heldBit' = TRUE
          /\ Goto(k, "close_release")
       \/ /\ closedBit \/ heldBit
          /\ Goto(k, "close_load")
          /\ UNCHANGED state
    /\ UNCHANGED <<consumerActive, ring, cursors, locals, ret, dropped>>

CloseRelease(k) ==
    /\ At(k, "close_release")
    /\ heldBit' = FALSE
    /\ Return(k, Mailbox!Unit)
    /\ UNCHANGED <<closedBit, consumerActive, ring, cursors, dropped>>

-----------------------------------------------------------------------------
(* Mutant: the drop loop stops one cursor early. *)
DropAllButOne ==
    /\ ~dropped
    /\ \A t \in Threads : At(t, "idle")
    /\ dropped' = TRUE
    /\ inited' = [i \in SlotIx |-> inited[i] /\ i \notin Span(head, Live - 1)]
    /\ UNCHANGED <<state, consumerActive, slots, cursors, pc, locals, ret>>

(* Drop runs with exclusive access, so after every call has returned, and  *)
(* drops the values between head and tail in place.                        *)
Drop ==
    /\ ~dropped
    /\ \A t \in Threads : At(t, "idle")
    /\ dropped' = TRUE
    /\ inited' = [i \in SlotIx |-> inited[i] /\ i \notin LiveSlots]
    /\ UNCHANGED <<state, consumerActive, slots, cursors, pc, locals, ret>>

ProducerStep(p) ==
    \/ ClaimLoad(p) \/ ClaimCas(p) \/ LoadCursors(p)
    \/ WriteSlot(p) \/ Publish(p) \/ ReleaseProducer(p)
ConsumerStep(c) == LoadTail(c) \/ ReadSlot(c) \/ Advance(c) \/ ReleaseConsumer(c)
CloserStep(k) == CloseLoad(k) \/ CloseCas(k) \/ CloseRelease(k)

Next ==
    \/ \E p \in Producers : ProducerStep(p) \/ \E m \in Msgs : TrySend(p, m)
    \/ \E c \in Consumers : ConsumerStep(c) \/ Recv(c) \/ IsEmpty(c)
    \/ \E k \in Closers : CloserStep(k) \/ Close(k)
    \/ Drop

Spec == Init /\ [][Next]_vars

(* A thread inside a call keeps running; calls are made at will. *)
FairSpec ==
    /\ Spec
    /\ \A p \in Producers : WF_vars(ProducerStep(p))
    /\ \A c \in Consumers : WF_vars(ConsumerStep(c))
    /\ \A k \in Closers : WF_vars(CloserStep(k))
-----------------------------------------------------------------------------
(* Properties *)

ProducerLabels == {"idle", "claim_load", "claim_cas", "load_cursors",
                   "write_slot", "publish", "release_producer"}
ConsumerLabels == {"idle", "load_tail", "read_slot", "advance", "release_consumer"}
CloserLabels   == {"idle", "close_load", "close_cas", "close_release"}

(* Every variable keeps its type: cursors stay in the usize range. *)
TypeOK ==
    /\ head \in Cursor /\ tail \in Cursor
    /\ headSeen \in Cursor /\ tailSeen \in Cursor
    /\ closedBit \in BOOLEAN /\ heldBit \in BOOLEAN
    /\ consumerActive \in BOOLEAN /\ dropped \in BOOLEAN
    /\ slots \in [SlotIx -> Msgs \cup {NoMsg}]
    /\ inited \in [SlotIx -> BOOLEAN]
    /\ pc \in [Threads -> ProducerLabels \cup ConsumerLabels \cup CloserLabels]
    /\ \A p \in Producers : pc[p] \in ProducerLabels
    /\ \A c \in Consumers : pc[c] \in ConsumerLabels
    /\ \A k \in Closers : pc[k] \in CloserLabels
    /\ arg \in [Threads -> Msgs \cup {NoMsg}]
    /\ res \in [Threads -> Mailbox!Outcomes]
    /\ ret \in [Threads -> Mailbox!Outcomes]

GateLabels == {"load_cursors", "write_slot", "publish", "release_producer",
               "close_release"}
RecvLabels == {"load_tail", "read_slot", "advance", "release_consumer"}

(* One thread at most is between taking the gate and releasing it, a       *)
(* sender there knows the mailbox is open, a closer has closed it.         *)
GateInv ==
    /\ heldBit <=> \E t \in Threads : pc[t] \in GateLabels
    /\ \A t, u \in Threads : pc[t] \in GateLabels /\ pc[u] \in GateLabels => t = u
    /\ \A t \in Threads :
          pc[t] \in GateLabels => (closedBit <=> pc[t] = "close_release")

ConsumerInv ==
    /\ consumerActive <=> \E c \in Threads : pc[c] \in RecvLabels
    /\ \A c, d \in Threads : pc[c] \in RecvLabels /\ pc[d] \in RecvLabels => c = d

(* The order of the cursors around the ring: headSeen, head, tailSeen,     *)
(* tail, with at most Capacity between the first and the last.             *)
CursorInv ==
    /\ Unseen + Live <= Capacity
    /\ Visible <= Live
    /\ \A p \in Threads : pc[p] \in {"write_slot", "publish"}
          => Unseen + Live < Capacity
    /\ \A c \in Threads : pc[c] \in {"read_slot", "advance"}
          => Visible > 0

(* Which slots hold a value: the unread ones, but not the one a receiver   *)
(* has just moved out, and the one a sender has yet to publish.            *)
SlotInv ==
    /\ \A i \in SlotIx :
          inited[i] <=>
            /\ ~dropped
            /\ \/ i \in LiveSlots /\ ~(i = SlotOf(head) /\ \E c \in Threads : At(c, "advance"))
               \/ i = SlotOf(tail) /\ \E p \in Threads : At(p, "publish")
    /\ dropped => \A t \in Threads : At(t, "idle")

(* What the values are. *)
ValueInv ==
    /\ \A i \in SlotIx : inited[i] => slots[i] \in Msgs
    /\ \A p \in Producers : ~At(p, "idle") => arg[p] \in Msgs
    /\ \A p \in Producers : At(p, "publish") => slots[SlotOf(tail)] = arg[p]
    /\ \A c \in Consumers : At(c, "advance") =>
          slots[SlotOf(head)] \in Msgs /\ res[c] = Mailbox!Some(slots[SlotOf(head)])
    /\ \A t \in Threads : res[t] # Mailbox!Panicked

(* The ring's inductive invariant: who holds the gate and the consumer     *)
(* claim decides which slots hold which values between every two atomic    *)
(* operations of the code.                                                 *)
RingInv == TypeOK /\ GateInv /\ ConsumerInv /\ CursorInv /\ SlotInv /\ ValueInv

(* The unsafe blocks of try_send and recv are sound whatever threads enter *)
(* and however stale the cursors they loaded: a slot is written only when  *)
(* it holds no unread value, read only when it holds one, and a writer and *)
(* a reader, or two of either, are never at one slot together.             *)
SlotSafety ==
    /\ \A p \in Producers : At(p, "write_slot") => ~inited[SlotOf(tail)]
    /\ \A c \in Consumers : At(c, "read_slot") => inited[SlotOf(head)]
    /\ \A p \in Producers, c \in Consumers :
          At(p, "write_slot") /\ At(c, "read_slot") => SlotOf(tail) # SlotOf(head)
    /\ \A p, q \in Producers :
          {pc[p], pc[q]} \subseteq {"write_slot", "publish"} => p = q
    /\ \A c, d \in Consumers :
          {pc[c], pc[d]} \subseteq {"read_slot", "advance"} => c = d

(* Drop frees every unread value exactly once: between calls the values in *)
(* [head, tail) are the initialized slots, and none is left after the drop.*)
DropExactlyOnce ==
    (\A t \in Threads : At(t, "idle")) =>
        \A i \in SlotIx : inited[i] <=> ~dropped /\ i \in LiveSlots

(* The ring implements the Mailbox trait's bounded FIFO queue, close       *)
(* included: a send racing a close is either published before the close    *)
(* takes effect or refused.                                                *)
ImplementsMailbox == Mailbox!Spec

(* A caller that respects the contract never panics: with one producer and *)
(* one consumer, no close in progress makes try_send take its panic branch.*)
NoSpuriousPanic ==
    (\A p, q \in Producers : p = q) /\ (\A c, d \in Consumers : c = d)
        => \A t \in Threads : ret[t] # Mailbox!Panicked

(* A try_send or recv that has begun returns: no spin of close blocks it.  *)
CallsReturn ==
    \A t \in Producers \cup Consumers : ~At(t, "idle") ~> At(t, "idle")

(* close spins only while producers keep coming: once they stop, every     *)
(* close in progress returns, several racing closers included.             *)
CloseReturns ==
    <>[](\A p \in Producers : At(p, "idle"))
        => \A k \in Closers : ~At(k, "idle") ~> At(k, "idle")

(* Every call comes back, whatever races with it.                          *)
EveryCallReturns == CallsReturn /\ CloseReturns
=============================================================================
