--------------------------- MODULE IsolateRuntime ---------------------------
(***************************************************************************)
(* One shard of tina-runtime: Runtime::step (dispatch.rs) over the         *)
(* registered isolates, their bounded mailboxes, the isolate-to-isolate    *)
(* calls between them, captured (deferred) replies, observed children and  *)
(* the collection of stopped entries.                                      *)
(*                                                                         *)
(* The runtime is single threaded: `pc` says where in a step it is, and    *)
(* every loop of the code is an action per iteration, guarded so that the  *)
(* loops run in the order of the code. What a handler does is any choice   *)
(* of effects. Trace events are left out; so is what only they record.     *)
(***************************************************************************)
EXTENDS Integers, Sequences, FiniteSets

CONSTANTS
    Roots,          \* isolates the host registers, ids 1..Roots
    Supervisable,   \* bound: isolates the host may call supervise for
    MaxIsolates,    \* bound: ids ever allocated
    MaxCalls,       \* bound: isolate calls ever dispatched
    MaxSlots,       \* bound: replies ever captured
    MaxEffects,     \* bound: effects of one Effect::Batch
    MaxOverflow,    \* bound: continuations in one overflow lane
    Capacity,       \* capacity of every mailbox
    RingCapacity    \* CANCELLED_CALL_RING_CAPACITY

ASSUME BoundsAssumption ==
    /\ Roots \in Nat /\ MaxIsolates \in Nat /\ MaxCalls \in Nat
    /\ MaxSlots \in Nat /\ MaxEffects \in Nat \ {0} /\ MaxOverflow \in Nat
    /\ Roots <= MaxIsolates /\ Supervisable \subseteq 1..MaxIsolates
ASSUME CapacityAssumption == Capacity \in Nat \ {0}
ASSUME RingAssumption == RingCapacity \in Nat \ {0}

VARIABLES
    pc,            \* where in Runtime::step the shard is
    current,       \* the isolate whose turn is in progress
    context,       \* the call context the rest of the effects may consume
    left,          \* effects the rest of the batch may hold
    victims,       \* isolates the turn has still to stop, the least one first
    result,        \* the stop in progress carries a StopWith result
    entries,       \* `entries`, in the order of the vector
    stopped,       \* isolates that have stopped, and so closed their mailbox
    nextIsolate,   \* next_isolate_id
    mailbox,       \* queue of DefaultMailbox
    reserved,      \* reserved slots of DefaultMailbox
    callContexts,  \* call_contexts
    overflow,      \* continuation_overflow
    round,         \* round_messages, by isolate
    parent,        \* child_records: the parent of a recorded child
    supervised,    \* the parents of `supervisors`
    observed,      \* child_records with terminal_slot_reserved
    nextCall,      \* next call id
    pending,       \* keys of call_table.isolate
    due,           \* pending calls whose deadline has passed
    requester,     \* PendingIsolateCall.requester
    continuation,  \* PendingIsolateCall.continuation_context
    handle,        \* state of each CallHandleShared
    ring,          \* cancelled_calls
    nextSlot,      \* next deferred slot id
    promoted,      \* promoted_slots
    slot,          \* the record of each slot and its DeferredSlotShared state
    held,          \* slots whose DeferredReply some isolate still holds
    told           \* outcomes enqueued for each call (history)

control == <<pc, current, context, left, victims, result>>
tree    == <<entries, stopped, nextIsolate, parent, observed, supervised>>
queues  == <<mailbox, reserved, callContexts, overflow, round>>
calls   == <<nextCall, pending, due, requester, continuation, handle, told>>
slots   == <<nextSlot, promoted, slot, held>>
vars    == <<control, tree, queues, calls, slots, ring>>

-----------------------------------------------------------------------------
Isolates == 1..MaxIsolates
CallIds  == 1..MaxCalls
SlotIds  == 1..MaxSlots

NoCall    == 0      \* Option<MessageCallContext>::None
NoIsolate == 0

(* A message is a plain send, the request of a call or a continuation of   *)
(* the receiver's own runtime call; a delivered one has its call context.  *)
Plain        == [kind |-> "plain", call |-> NoCall]
Continuation == [kind |-> "continuation", call |-> NoCall]
Request(c)   == [kind |-> "request", call |-> c]
Message      == {Plain, Continuation} \cup {Request(c) : c \in CallIds}

Delivered(m, ctx) == [message |-> m, context |-> ctx]
Nothing == Delivered([kind |-> "none", call |-> NoCall], NoCall)

Least(S) == CHOOSE x \in S : \A y \in S : x <= y

Registered == {entries[k] : k \in DOMAIN entries}

(* Mutant: a plain send may take a reserved slot. *)
HasRoomUnreserved(i) == Len(mailbox[i]) < Capacity

(* entry_index finds the isolate, and its mailbox is open and has room for *)
(* a message that holds no reservation.                                    *)
Open(i)    == i \in Registered /\ i \notin stopped
HasRoom(i) == Len(mailbox[i]) + reserved[i] < Capacity
Accepts(i) == Open(i) /\ HasRoom(i)

(* enqueue_entry_message: the mailbox and call_contexts move together. *)
Enqueue(mb, i, m) == [mb EXCEPT ![i] = Append(@, m)]

(* call_table.remove_isolate, CallHandleShared::set_state and              *)
(* deliver_isolate_call_outcome: the outcome of call c goes to its         *)
(* requester, or is dropped if the requester cannot take it.               *)
SettleFrom(mb, cx, c) ==
    LET r  == requester[c]
        ok == Accepts(r) IN
    /\ pending' = pending \ {c}
    /\ due' = due \ {c}
    /\ handle' = [handle EXCEPT ![c] = "Settled"]
    /\ mailbox' = IF ok THEN Enqueue(mb, r, Continuation) ELSE mb
    /\ callContexts' = IF ok THEN Enqueue(cx, r, continuation[c]) ELSE cx
    /\ told' = IF ok THEN [told EXCEPT ![c] = @ + 1] ELSE told

(* complete_isolate_call: nothing happens unless c is pending. A Rejected  *)
(* outcome (reject_call_context) settles a call the same way.              *)
CompleteFrom(mb, cx, c) ==
    \/ c \in pending /\ SettleFrom(mb, cx, c)
    \/ /\ c \notin pending
       /\ mailbox' = mb /\ callContexts' = cx
       /\ UNCHANGED <<pending, due, handle, told>>
Complete(c) == CompleteFrom(mailbox, callContexts, c)

(* Mutant: the ring is allowed one entry too many. *)
RecordOffByOne(c, cause) ==
    ring' = Append(IF Len(ring) > RingCapacity THEN Tail(ring) ELSE ring,
                   [call |-> c, cause |-> cause])

(* record_cancelled_call: the oldest entry of a full ring is evicted. *)
Record(c, cause) ==
    ring' = Append(IF Len(ring) = RingCapacity THEN Tail(ring) ELSE ring,
                   [call |-> c, cause |-> cause])

(* close_deferred_slot_for_call_with_reason *)
CloseSlotOf(c) ==
    LET S == {s \in promoted : slot[s].call = c} IN
    \/ S = {} /\ UNCHANGED <<promoted, slot>>
    \/ \E s \in S :
         /\ promoted' = promoted \ {s}
         /\ slot' = [slot EXCEPT ![s].state = "Closed"]

(* drop_promoted_deferred_slot: an open slot closes and so does its call. *)
DropSlot(s) ==
    /\ promoted' = promoted \ {s}
    /\ slot' = [slot EXCEPT ![s].state = IF @ = "Open" THEN "Closed" ELSE @]
    /\ Complete(IF slot[s].state = "Open" THEN slot[s].call ELSE NoCall)

(* enqueue_call_continuation, when res slots are reserved: a full mailbox  *)
(* sends the continuation to the overflow lane.                            *)
Continue(i, res, ctx) ==
    \/ /\ Len(mailbox[i]) + res < Capacity
       /\ mailbox' = Enqueue(mailbox, i, Continuation)
       /\ callContexts' = Enqueue(callContexts, i, ctx)
       /\ UNCHANGED overflow
    \/ /\ Len(mailbox[i]) + res >= Capacity
       /\ Len(overflow[i]) < MaxOverflow
       /\ overflow' = Enqueue(overflow, i, Delivered(Continuation, ctx))
       /\ UNCHANGED <<mailbox, callContexts>>

(* recv_entry_message: the overflow lane first, then the mailbox and the   *)
(* context in front, None when there is no context left.                   *)
HasMessage(i) == overflow[i] # <<>> \/ mailbox[i] # <<>>
FromMailbox(i) == overflow[i] = <<>> /\ mailbox[i] # <<>>
Front(i) ==
    IF overflow[i] # <<>> THEN Head(overflow[i])
    ELSE Delivered(Head(mailbox[i]),
                   IF callContexts[i] = <<>> THEN NoCall ELSE Head(callContexts[i]))
Rest(s) == IF s = <<>> THEN s ELSE Tail(s)

-----------------------------------------------------------------------------
Init ==
    /\ pc = "idle"
    /\ current = NoIsolate /\ context = NoCall /\ left = 0 /\ victims = {} /\ result = FALSE
    /\ entries = [k \in 1..Roots |-> k]
    /\ stopped = {} /\ nextIsolate = Roots + 1
    /\ mailbox = [i \in Isolates |-> <<>>]
    /\ reserved = [i \in Isolates |-> 0]
    /\ callContexts = [i \in Isolates |-> <<>>]
    /\ overflow = [i \in Isolates |-> <<>>]
    /\ round = [i \in Isolates |-> Nothing]
    /\ parent = [i \in Isolates |-> NoIsolate] /\ observed = {} /\ supervised = {}
    /\ nextCall = 1 /\ pending = {} /\ due = {}
    /\ requester = [c \in CallIds |-> NoIsolate]
    /\ continuation = [c \in CallIds |-> NoCall]
    /\ handle = [c \in CallIds |-> "Pending"]
    /\ ring = <<>>
    /\ nextSlot = 1 /\ promoted = {} /\ held = {}
    /\ slot = [s \in SlotIds |-> [call |-> NoCall, owner |-> NoIsolate, state |-> "Closed"]]
    /\ told = [c \in CallIds |-> 0]

-----------------------------------------------------------------------------
(* Between steps: the host sends a message, time passes, a step begins. *)

HostSend(i) ==
    /\ pc = "idle"
    /\ Accepts(i)
    /\ mailbox' = Enqueue(mailbox, i, Plain)
    /\ callContexts' = Enqueue(callContexts, i, NoCall)
    /\ UNCHANGED <<control, tree, reserved, overflow, round, calls, slots, ring>>

(* try_supervise: any entry still registered, a stopped one too, becomes a *)
(* supervisor. Nothing takes it out of `supervisors` again.                *)
Supervise(i) ==
    /\ pc = "idle"
    /\ i \in (Registered \cap Supervisable) \ supervised
    /\ supervised' = supervised \cup {i}
    /\ UNCHANGED <<control, entries, stopped, nextIsolate, parent, observed, queues,
                   calls, slots, ring>>

(* A step reads the clock once, before it harvests. *)
DeadlinePasses(c) ==
    /\ pc = "idle"
    /\ c \in pending \ due
    /\ due' = due \cup {c}
    /\ UNCHANGED <<control, tree, queues, nextCall, pending, requester,
                   continuation, handle, told, slots, ring>>

BeginStep ==
    /\ pc = "idle"
    /\ pc' = "harvest"
    /\ UNCHANGED <<current, context, left, victims, result, tree, queues, calls, slots, ring>>

(* Mutant: a timeout leaves the captured slot open. *)
HarvestKeepsSlot(c) ==
    /\ pc = "harvest"
    /\ c \in due
    /\ SettleFrom(mailbox, callContexts, c)
    /\ Record(c, "CallerTimedOut")
    /\ UNCHANGED <<control, tree, reserved, overflow, round, nextCall, requester,
                   continuation, slots>>

(* harvest_isolate_call_timeouts, one due call. *)
HarvestTimeout(c) ==
    /\ pc = "harvest"
    /\ c \in due
    /\ SettleFrom(mailbox, callContexts, c)
    /\ Record(c, "CallerTimedOut")
    /\ CloseSlotOf(c)
    /\ UNCHANGED <<control, tree, reserved, overflow, round, nextCall, requester,
                   continuation, nextSlot, held>>

(* Mutant: the round starts with timeouts still due. *)
SnapshotUnharvested ==
    /\ pc = "harvest"
    /\ pc' = "deliver"
    /\ round' = [i \in Isolates |->
                    IF Open(i) /\ HasMessage(i) THEN Front(i) ELSE Nothing]
    /\ mailbox' = [i \in Isolates |->
                    IF Open(i) /\ FromMailbox(i) THEN Tail(mailbox[i]) ELSE mailbox[i]]
    /\ callContexts' = [i \in Isolates |->
                    IF Open(i) /\ FromMailbox(i) THEN Rest(callContexts[i]) ELSE callContexts[i]]
    /\ overflow' = [i \in Isolates |->
                    IF Open(i) THEN Rest(overflow[i]) ELSE overflow[i]]
    /\ UNCHANGED <<current, context, left, victims, result, tree, reserved, calls, slots, ring>>

(* The skip-empty scan: at most one message of every live entry. *)
Snapshot ==
    /\ pc = "harvest"
    /\ due = {}
    /\ pc' = "deliver"
    /\ round' = [i \in Isolates |->
                    IF Open(i) /\ HasMessage(i) THEN Front(i) ELSE Nothing]
    /\ mailbox' = [i \in Isolates |->
                    IF Open(i) /\ FromMailbox(i) THEN Tail(mailbox[i]) ELSE mailbox[i]]
    /\ callContexts' = [i \in Isolates |->
                    IF Open(i) /\ FromMailbox(i) THEN Rest(callContexts[i]) ELSE callContexts[i]]
    /\ overflow' = [i \in Isolates |->
                    IF Open(i) THEN Rest(overflow[i]) ELSE overflow[i]]
    /\ UNCHANGED <<current, context, left, victims, result, tree, reserved, calls, slots, ring>>

-----------------------------------------------------------------------------
(* The delivery loop of step_with_remote, in the order of the entries. *)

Undelivered == {k \in DOMAIN entries : round[entries[k]] # Nothing}
IsNext(i) == pc = "deliver" /\ Undelivered # {} /\ i = entries[Least(Undelivered)]
Take(i) == round' = [round EXCEPT ![i] = Nothing]

(* catch_unwind: whether or not the handler had captured the caller, the   *)
(* call closes or is rejected and the isolate stops.                       *)
HandlerPanics(i) ==
    /\ IsNext(i)
    /\ Take(i)
    /\ Complete(round[i].context)
    /\ pc' = "stop" /\ current' = i /\ victims' = {i}
    /\ UNCHANGED <<context, left, result, tree, reserved, overflow, nextCall, requester,
                   continuation, slots, ring>>

(* Mutant: the effects keep the context of the message, captured or not. *)
BeginKeepsContext(i, ctx) ==
    /\ pc' = "effects" /\ current' = i /\ context' = round[i].context /\ left' = MaxEffects
    /\ UNCHANGED <<victims, result>>

Begin(i, ctx) ==
    /\ pc' = "effects" /\ current' = i /\ context' = ctx /\ left' = MaxEffects
    /\ UNCHANGED <<victims, result>>

(* promote_captures: the handler took a RequestContext. The slot is closed *)
(* from the start if the caller is gone (MessageCaller::new_closed).       *)
HandlerCaptures(i) ==
    LET c == round[i].context IN
    /\ IsNext(i)
    /\ c # NoCall
    /\ nextSlot <= MaxSlots
    /\ Take(i)
    /\ nextSlot' = nextSlot + 1
    /\ promoted' = promoted \cup {nextSlot}
    /\ held' = held \cup {nextSlot}
    /\ slot' = [slot EXCEPT ![nextSlot] =
                  [call |-> c, owner |-> i,
                   state |-> IF c \in pending THEN "Open" ELSE "Closed"]]
    /\ Begin(i, NoCall)
    /\ UNCHANGED <<tree, mailbox, reserved, callContexts, overflow, calls, ring>>

(* consumes_call_context: a Reply or Reject comes before any stop. *)
HandlerAnswers(i) ==
    /\ IsNext(i)
    /\ round[i].context # NoCall
    /\ Take(i)
    /\ Begin(i, round[i].context)
    /\ UNCHANGED <<tree, mailbox, reserved, callContexts, overflow, calls, slots, ring>>

(* Neither captured nor consumed: a call is rejected as ReplyAbandoned     *)
(* before the effects run.                                                 *)
HandlerAbandons(i) ==
    /\ IsNext(i)
    /\ Take(i)
    /\ Complete(round[i].context)
    /\ Begin(i, NoCall)
    /\ UNCHANGED <<tree, reserved, overflow, nextCall, requester, continuation, slots, ring>>

EndDelivery ==
    /\ pc = "deliver"
    /\ Undelivered = {}
    /\ pc' = "sweep"
    /\ UNCHANGED <<current, context, left, victims, result, tree, queues, calls, slots, ring>>

(* Back to the delivery loop. *)
Return ==
    /\ pc' = "deliver" /\ current' = NoIsolate
    /\ context' = NoCall /\ left' = 0 /\ victims' = {} /\ result' = FALSE

-----------------------------------------------------------------------------
(* execute_effect: the effects of a batch, nested batches flattened. An    *)
(* effect that consumes no context leaves room for the one that must.      *)

Effect ==
    /\ pc = "effects"
    /\ left > (IF context = NoCall THEN 0 ELSE 1)
    /\ left' = left - 1
    /\ UNCHANGED <<pc, current, context, victims, result>>

(* Effect::Send to an isolate that once existed; a refusal is only traced. *)
Send(j) ==
    /\ Effect
    /\ j < nextIsolate
    /\ \/ /\ Accepts(j)
          /\ mailbox' = Enqueue(mailbox, j, Plain)
          /\ callContexts' = Enqueue(callContexts, j, NoCall)
       \/ ~Accepts(j) /\ UNCHANGED <<mailbox, callContexts>>
    /\ UNCHANGED <<tree, reserved, overflow, round, calls, slots, ring>>

(* dispatch_isolate_call: the request is admitted and the call pending, or *)
(* it is refused and the caller gets Full or Closed at once, if its own    *)
(* mailbox takes it.                                                       *)
Call(j) ==
    LET c == nextCall
        i == current IN
    /\ Effect
    /\ j < nextIsolate
    /\ c <= MaxCalls
    /\ nextCall' = c + 1
    /\ requester' = [requester EXCEPT ![c] = i]
    /\ continuation' = [continuation EXCEPT ![c] = context]
    /\ \/ /\ Accepts(j)
          /\ mailbox' = Enqueue(mailbox, j, Request(c))
          /\ callContexts' = Enqueue(callContexts, j, c)
          /\ pending' = pending \cup {c}
          /\ UNCHANGED <<handle, told>>
       \/ /\ ~Accepts(j)
          /\ handle' = [handle EXCEPT ![c] = "Settled"]
          /\ IF Accepts(i)
             THEN /\ mailbox' = Enqueue(mailbox, i, Continuation)
                  /\ callContexts' = Enqueue(callContexts, i, context)
                  /\ told' = [told EXCEPT ![c] = @ + 1]
             ELSE UNCHANGED <<mailbox, callContexts, told>>
          /\ UNCHANGED pending
    /\ UNCHANGED <<tree, reserved, overflow, round, due, slots, ring>>

(* Mutant: the cancelled call stays in the table. *)
CancelKeepsEntry(c) ==
    /\ Effect
    /\ \/ /\ c \in pending /\ handle[c] = "Pending"
          /\ handle' = [handle EXCEPT ![c] = "Cancelled"]
          /\ Record(c, "CallerCancelled")
          /\ CloseSlotOf(c)
       \/ /\ c \notin pending \/ handle[c] # "Pending"
          /\ UNCHANGED <<handle, ring, promoted, slot>>
    /\ Continue(current, reserved[current], context)
    /\ UNCHANGED <<tree, reserved, round, nextCall, pending, due, requester,
                   continuation, told, nextSlot, held>>

(* dispatch_cancel_call on the handle of call c: a call still pending is   *)
(* removed and its captured slot closed; the continuation reaches the      *)
(* canceller whatever the outcome.                                         *)
CancelCall(c) ==
    /\ Effect
    /\ \/ /\ c \in pending /\ handle[c] = "Pending"
          /\ pending' = pending \ {c}
          /\ due' = due \ {c}
          /\ handle' = [handle EXCEPT ![c] = "Cancelled"]
          /\ Record(c, "CallerCancelled")
          /\ CloseSlotOf(c)
       \/ /\ c \notin pending \/ handle[c] # "Pending"
          /\ UNCHANGED <<pending, due, handle, ring, promoted, slot>>
    /\ Continue(current, reserved[current], context)
    /\ UNCHANGED <<tree, reserved, round, nextCall, requester, continuation, told,
                   nextSlot, held>>

(* Effect::Reply and Effect::Reject of the turn's own call. *)
Answer ==
    /\ pc = "effects"
    /\ context # NoCall
    /\ Complete(context)
    /\ context' = NoCall
    /\ left' = left - 1
    /\ UNCHANGED <<pc, current, victims, result, tree, reserved, overflow, round, nextCall,
                   requester, continuation, slots, ring>>

(* execute_reply_to: the handle is used up. A reply of the wrong type      *)
(* closes the slot and leaves the call to its timeout.                     *)
ReplyTo(s, typed) ==
    /\ Effect
    /\ s \in held
    /\ held' = held \ {s}
    /\ promoted' = promoted \ {s}
    /\ \/ /\ s \in promoted /\ typed
          /\ slot' = [slot EXCEPT ![s].state =
                        IF slot[s].call \in pending THEN "Replied" ELSE "Closed"]
          /\ Complete(slot[s].call)
       \/ /\ s \in promoted /\ ~typed
          /\ slot' = [slot EXCEPT ![s].state = "Closed"]
          /\ Complete(NoCall)
       \/ /\ s \notin promoted
          /\ UNCHANGED slot
          /\ Complete(NoCall)
    /\ UNCHANGED <<tree, reserved, overflow, round, nextCall, requester,
                   continuation, nextSlot, ring>>

(* A handler lets go of a DeferredReply it held. *)
DropHandle(s) ==
    /\ pc = "effects"
    /\ s \in held
    /\ held' = held \ {s}
    /\ UNCHANGED <<control, tree, queues, calls, nextSlot, promoted, slot, ring>>

(* register_sendable_entry and record_child: the new entry is the last. *)
Register(p) ==
    /\ nextIsolate <= MaxIsolates
    /\ nextIsolate' = nextIsolate + 1
    /\ entries' = Append(entries, nextIsolate)
    /\ parent' = [parent EXCEPT ![nextIsolate] = p]
    /\ UNCHANGED <<stopped, supervised>>

(* Effect::Spawn, with or without a bootstrap message. *)
Spawn(bootstrap) ==
    LET child == nextIsolate IN
    /\ Effect
    /\ Register(current)
    /\ mailbox' = IF bootstrap THEN Enqueue(mailbox, child, Plain) ELSE mailbox
    /\ callContexts' = IF bootstrap THEN Enqueue(callContexts, child, NoCall) ELSE callContexts
    /\ UNCHANGED <<observed, reserved, overflow, round, calls, slots, ring>>

(* Effect::SpawnObserved. With a terminal mapper a slot of the parent's    *)
(* mailbox is reserved first; a full mailbox or a failed spawn admits no   *)
(* child. Either way the parent gets a continuation. (A bootstrap message  *)
(* for the fresh child is as in Spawn and left out here.)                  *)
SpawnObserved(terminal) ==
    LET i == current IN
    /\ Effect
    /\ \/ /\ terminal => HasRoom(i)
          /\ Register(i)
          /\ observed' = IF terminal THEN observed \cup {nextIsolate} ELSE observed
          /\ reserved' = IF terminal THEN [reserved EXCEPT ![i] = @ + 1] ELSE reserved
       \/ UNCHANGED <<tree, reserved>>
    /\ Continue(i, reserved'[i], NoCall)
    /\ UNCHANGED <<round, calls, slots, ring>>

(* Effect::Stop and Fail (without a result) and StopWith end the batch. *)
Stop(withResult) ==
    /\ pc = "effects"
    /\ context = NoCall /\ left > 0
    /\ pc' = "stop" /\ victims' = {current} /\ result' = withResult /\ left' = 0
    /\ UNCHANGED <<current, context, tree, queues, calls, slots, ring>>

(* Effect::StopChildren: every live child recorded under the isolate. *)
StopChildren ==
    LET live == {j \in Isolates : parent[j] = current /\ Open(j)} IN
    /\ pc = "effects"
    /\ left > (IF context = NoCall THEN 0 ELSE 1)
    /\ left' = left - 1
    /\ live # {}
    /\ pc' = "stop" /\ victims' = live
    /\ UNCHANGED <<current, context, result, tree, queues, calls, slots, ring>>

EndTurn ==
    /\ pc = "effects"
    /\ context = NoCall
    /\ Return
    /\ UNCHANGED <<tree, queues, calls, slots, ring>>

-----------------------------------------------------------------------------
(* stop_entry_full *)

Victim == Least(victims)

(* settle_child_terminal_observation: a parent observing the isolate gets  *)
(* its result in the reserved slot (try_send_reserved), which is released  *)
(* even so if there is no result or the mapper refuses it.                 *)
SettleTerminal(i) ==
    LET p == parent[i] IN
    \/ /\ i \in observed /\ result /\ Len(mailbox[p]) < Capacity
       /\ mailbox' = Enqueue(mailbox, p, Plain)
    \/ UNCHANGED mailbox

(* The reservation made for the isolate goes, and so do the ones it holds  *)
(* for its own children (dispose_parent_terminal_reservations).            *)
DisposeReservations(i) ==
    LET mine == {j \in observed : parent[j] = i} IN
    /\ observed' = observed \ (mine \cup {i})
    /\ reserved' = [j \in Isolates |->
                       IF j = i THEN reserved[j] - Cardinality(mine)
                       ELSE IF i \in observed /\ j = parent[i] THEN reserved[j] - 1
                       ELSE reserved[j]]


(* prune_terminal_child_records: the record of a stopped child goes, save  *)
(* the one its parent's supervision may still refer to.                    *)
PruneRecord(i) ==
    parent' = IF parent[i] \in supervised THEN parent
              ELSE [parent EXCEPT ![i] = NoIsolate]

(* The entry is marked stopped and its mailbox closed; what it observed    *)
(* and who observed it is settled, and its own child record pruned.        *)
StopEntry ==
    LET i == Victim IN
    /\ pc = "stop"
    /\ pc' = "close"
    /\ stopped' = stopped \cup {i}
    /\ SettleTerminal(i)
    /\ DisposeReservations(i)
    /\ PruneRecord(i)
    /\ UNCHANGED <<current, context, left, victims, result, entries, nextIsolate,
                   supervised, callContexts, overflow, round, calls, slots, ring>>

OwnSlots == {s \in promoted : slot[s].owner = Victim}
OwnCalls == {c \in pending : requester[c] = Victim}

(* take_by_isolate *)
CloseOwnSlot(s) ==
    /\ pc = "close"
    /\ s \in OwnSlots
    /\ DropSlot(s)
    /\ UNCHANGED <<control, tree, reserved, overflow, round, nextCall, requester,
                   continuation, nextSlot, held, ring>>

(* cancel_pending_isolate_calls_for_owner, in the order of the call ids. *)
CancelOwnCall ==
    LET c == Least(OwnCalls) IN
    /\ pc = "close"
    /\ OwnSlots = {} /\ OwnCalls # {}
    /\ pending' = pending \ {c}
    /\ due' = due \ {c}
    /\ handle' = [handle EXCEPT ![c] = "Cancelled"]
    /\ Record(c, "OwnerStopped")
    /\ CloseSlotOf(c)
    /\ UNCHANGED <<control, tree, queues, nextCall, requester, continuation, told,
                   nextSlot, held>>

(* close_drained_local_call_context for the message of this round that was *)
(* collected and not handled, then for each one left in the closed mailbox.*)
DropCollected ==
    LET i == Victim IN
    /\ pc = "close"
    /\ OwnSlots = {} /\ OwnCalls = {} /\ round[i] # Nothing
    /\ Take(i)
    /\ Complete(round[i].context)
    /\ UNCHANGED <<control, tree, reserved, overflow, nextCall, requester,
                   continuation, slots, ring>>

(* Mutant: the drain abandons every message, requests included. *)
DrainAbandons ==
    LET i == Victim IN
    /\ pc = "close"
    /\ OwnSlots = {} /\ OwnCalls = {} /\ round[i] = Nothing /\ HasMessage(i)
    /\ overflow' = [overflow EXCEPT ![i] = Rest(@)]
    /\ mailbox' = [mailbox EXCEPT ![i] = IF FromMailbox(i) THEN Tail(@) ELSE @]
    /\ callContexts' = [callContexts EXCEPT ![i] = IF FromMailbox(i) THEN Rest(@) ELSE @]
    /\ UNCHANGED <<control, tree, reserved, round, calls, slots, ring>>

DrainMessage ==
    LET i == Victim IN
    /\ pc = "close"
    /\ OwnSlots = {} /\ OwnCalls = {} /\ round[i] = Nothing /\ HasMessage(i)
    /\ overflow' = [overflow EXCEPT ![i] = Rest(@)]
    /\ IF FromMailbox(i)
       THEN CompleteFrom([mailbox EXCEPT ![i] = Tail(@)],
                         [callContexts EXCEPT ![i] = Rest(@)], Front(i).context)
       ELSE Complete(Front(i).context)
    /\ UNCHANGED <<control, tree, reserved, round, nextCall, requester,
                   continuation, slots, ring>>

(* The next child, the rest of the batch, or the next delivery. *)
Resume ==
    \/ /\ victims # {Victim}
       /\ pc' = "stop" /\ victims' = victims \ {Victim}
       /\ UNCHANGED <<current, context, left, result>>
    \/ /\ victims = {Victim} /\ Victim # current
       /\ pc' = "effects" /\ victims' = {}
       /\ UNCHANGED <<current, context, left, result>>
    \/ victims = {Victim} /\ Victim = current /\ Return

(* Mutant: the stop leaves the message collected for this round. *)
EndStopMessageKept ==
    /\ pc = "close"
    /\ OwnSlots = {} /\ OwnCalls = {} /\ ~HasMessage(Victim)
    /\ Resume
    /\ UNCHANGED <<tree, queues, calls, slots, ring>>

EndStop ==
    /\ pc = "close"
    /\ OwnSlots = {} /\ OwnCalls = {} /\ ~HasMessage(Victim) /\ round[Victim] = Nothing
    /\ Resume
    /\ UNCHANGED <<tree, queues, calls, slots, ring>>

-----------------------------------------------------------------------------
(* The end of a step *)

(* sweep_dropped_deferred_slots: a slot only the table still refers to. *)
SweepSlot(s) ==
    /\ pc = "sweep"
    /\ s \in promoted \ held
    /\ DropSlot(s)
    /\ UNCHANGED <<control, tree, reserved, overflow, round, nextCall, requester,
                   continuation, nextSlot, held, ring>>

(* can_gc_stopped_entry: no record names the entry as parent or as child,  *)
(* it supervises nobody and no call is its own. Driver calls, which it     *)
(* also asks about, are not modelled: a stop cancels those of the isolate. *)
CanGc(i) ==
    /\ i \in stopped
    /\ \A j \in Isolates : parent[j] # i
    /\ parent[i] = NoIsolate
    /\ i \notin supervised
    /\ \A c \in pending : requester[c] # i

Collectable == {k \in DOMAIN entries : CanGc(entries[k])}

(* Vec::swap_remove: the last entry takes the place of entry k. *)
SwapRemove(seq, k) ==
    [n \in 1..(Len(seq) - 1) |-> IF n = k THEN seq[Len(seq)] ELSE seq[n]]

(* gc_stopped_entries, one removal. *)
CollectEntry ==
    /\ pc = "sweep"
    /\ promoted \subseteq held
    /\ Collectable # {}
    /\ entries' = SwapRemove(entries, Least(Collectable))
    /\ UNCHANGED <<control, stopped, nextIsolate, parent, observed, supervised, queues,
                   calls, slots, ring>>

EndStep ==
    /\ pc = "sweep"
    /\ promoted \subseteq held
    /\ Collectable = {}
    /\ pc' = "idle"
    /\ UNCHANGED <<current, context, left, victims, result, tree, queues, calls, slots, ring>>

-----------------------------------------------------------------------------
Handle(i) ==
    \/ HandlerPanics(i) \/ HandlerCaptures(i)
    \/ HandlerAnswers(i) \/ HandlerAbandons(i)

ExecuteEffect ==
    \/ \E j \in Isolates : Send(j) \/ Call(j)
    \/ \E c \in CallIds : CancelCall(c)
    \/ Answer
    \/ \E s \in SlotIds : DropHandle(s) \/ \E typed \in BOOLEAN : ReplyTo(s, typed)
    \/ \E b \in BOOLEAN : Spawn(b) \/ SpawnObserved(b) \/ Stop(b)
    \/ StopChildren \/ EndTurn

StopSteps ==
    \/ StopEntry \/ CancelOwnCall \/ DropCollected \/ DrainMessage \/ EndStop
    \/ \E s \in SlotIds : CloseOwnSlot(s)

Step ==
    \/ BeginStep \/ Snapshot \/ EndDelivery
    \/ \E c \in CallIds : HarvestTimeout(c)
    \/ \E i \in Isolates : Handle(i)
    \/ ExecuteEffect
    \/ StopSteps
    \/ \E s \in SlotIds : SweepSlot(s)
    \/ CollectEntry \/ EndStep

Next ==
    \/ Step
    \/ \E i \in Isolates : HostSend(i) \/ Supervise(i)
    \/ \E c \in CallIds : DeadlinePasses(c)

Spec == Init /\ [][Next]_vars

(* The run loop keeps stepping, and every deadline is reached: a step that *)
(* starts after it harvests the call.                                      *)
FairSpec ==
    /\ Spec
    /\ WF_vars(Step)
    /\ \A c \in CallIds : SF_vars(DeadlinePasses(c))
-----------------------------------------------------------------------------
(* Properties *)

Contexts == CallIds \cup {NoCall}
DeliveredMessages == {Delivered(m, ctx) : m \in Message, ctx \in Contexts}

(* Every variable keeps its type. *)
TypeOK ==
    /\ pc \in {"idle", "harvest", "deliver", "effects", "stop", "close", "sweep"}
    /\ current \in Isolates \cup {NoIsolate}
    /\ pc \in {"effects", "stop", "close"} => current \in Isolates
    /\ victims \subseteq Isolates
    /\ victims # {} <=> pc \in {"stop", "close"}
    /\ context \in Contexts /\ left \in 0..MaxEffects /\ result \in BOOLEAN
    /\ entries \in Seq(Isolates) /\ stopped \subseteq Isolates
    /\ nextIsolate \in 1..(MaxIsolates + 1)
    /\ mailbox \in [Isolates -> Seq(Message)]
    /\ reserved \in [Isolates -> Int]
    /\ callContexts \in [Isolates -> Seq(Contexts)]
    /\ overflow \in [Isolates -> Seq(DeliveredMessages)]
    /\ round \in [Isolates -> DeliveredMessages \cup {Nothing}]
    /\ parent \in [Isolates -> Isolates \cup {NoIsolate}] /\ observed \subseteq Isolates
    /\ supervised \subseteq Isolates
    /\ nextCall \in 1..(MaxCalls + 1)
    /\ pending \subseteq CallIds /\ due \subseteq pending
    /\ requester \in [CallIds -> Isolates \cup {NoIsolate}]
    /\ continuation \in [CallIds -> Contexts]
    /\ handle \in [CallIds -> {"Pending", "Settled", "Cancelled"}]
    /\ ring \in Seq([call : CallIds,
                     cause : {"CallerTimedOut", "CallerCancelled", "OwnerStopped"}])
    /\ nextSlot \in 1..(MaxSlots + 1)
    /\ promoted \subseteq SlotIds /\ held \subseteq SlotIds
    /\ slot \in [SlotIds -> [call : Contexts, owner : Isolates \cup {NoIsolate},
                             state : {"Open", "Replied", "Closed"}]]
    /\ told \in [CallIds -> Nat]

(* Exactly one settlement: a dispatched call is in the table until its     *)
(* handle says Settled or Cancelled, whichever of reply, reject, abandon,  *)
(* panic, drop, timeout, cancel and owner stop comes first; its requester  *)
(* is told at most once, and never after a cancel.                         *)
SettledOnce ==
    /\ TypeOK
    /\ \A c \in CallIds :
          /\ c \in pending <=> c < nextCall /\ handle[c] = "Pending"
          /\ told[c] <= 1
          /\ told[c] = 1 => handle[c] = "Settled"

(* The isolate runs, or its stop is still closing what it owned. *)
RunsOrCloses(i) == Open(i) \/ (pc = "close" /\ i = Victim)

(* Stopping an isolate cancels every call it owns: no pending call has a   *)
(* requester that is stopped or collected, save while the stop is at work. *)
OwnersLive ==
    \A c \in pending : RunsOrCloses(requester[c])

(* A captured reply is open only while its call is pending and its owner   *)
(* runs, and no call can be answered through two slots. So a holder that   *)
(* finds its RequestContext open can still reach the caller.               *)
OpenSlotsLive ==
    \A s \in SlotIds : slot[s].state = "Open" =>
        /\ s \in promoted /\ slot[s].call \in pending
        /\ RunsOrCloses(slot[s].owner)
        /\ \A t \in SlotIds : t # s /\ slot[t].call = slot[s].call
                               => slot[t].state # "Open"

(* What a call or a captured reply refers to is there: its owner runs, and *)
(* an open reply has a pending call.                                       *)
OwnersAlive == OwnersLive /\ OpenSlotsLive

(* The context of call c waits in the lane beside the mailbox of i. *)
Queued(c, i) == \E k \in DOMAIN callContexts[i] : callContexts[i][k] = c

(* The context of call c is queued at a live isolate, in the round, with   *)
(* the turn at work or in an open slot; or a deferred reply of the wrong   *)
(* type has left the call to its timeout.                                  *)
Answerable(c) ==
    \/ \E i \in Isolates : RunsOrCloses(i) /\ Queued(c, i)
    \/ \E i \in Isolates : round[i].context = c
    \/ context = c
    \/ \E s \in SlotIds : slot[s].call = c /\ slot[s].state \in {"Open", "Closed"}

(* No call is forgotten: while it is pending, there is something that will *)
(* settle it before its timeout, save for a reply of the wrong type.       *)
NoOrphanCall == \A c \in pending : Answerable(c)

(* The late-reply ring tells the truth: it names only calls that are over, *)
(* each once, and a cause that agrees with the call's handle.              *)
RingTruth ==
    /\ Len(ring) <= RingCapacity
    /\ \A k \in DOMAIN ring :
          /\ ring[k].call \notin pending
          /\ handle[ring[k].call] =
                IF ring[k].cause = "CallerTimedOut" THEN "Settled" ELSE "Cancelled"
          /\ \A n \in DOMAIN ring : ring[n].call = ring[k].call => n = k

(* A reserved slot is never given away: each live isolate has one reserved *)
(* slot per child it observes, its mailbox leaves room for all of them,    *)
(* and an observed child's parent is running. So the one message of an     *)
(* observed child's end is never refused by a full or closed mailbox.      *)
ReservationsHonoured ==
    /\ \A i \in Isolates :
          /\ reserved[i] = Cardinality({j \in observed : parent[j] = i})
          /\ Len(mailbox[i]) + reserved[i] <= Capacity
    /\ \A j \in observed : Open(j) /\ Open(parent[j])

(* Whoever stops an isolate takes the message the round collected for it:  *)
(* no message waits for a handler that is gone, so the delivery loop's     *)
(* branch for a stopped entry is never taken.                              *)
RoundLive ==
    \A i \in Isolates : round[i] # Nothing => RunsOrCloses(i)

(* The inductive invariant: the properties above and what they rest on.    *)

(* A turn at work belongs to an isolate that runs, a call context is held  *)
(* only during a turn with an effect left to consume it, and an isolate    *)
(* being stopped is the one whose turn it is, with no context left, or one *)
(* of its children.                                                        *)
TurnOwned ==
    /\ pc \notin {"effects", "stop", "close"} => context = NoCall
    /\ context # NoCall => left >= 1
    /\ pc = "effects" => Open(current)
    /\ pc \in {"stop", "close"} =>
          \/ victims = {current} /\ context = NoCall
          \/ current \notin victims /\ Open(current)

(* Ids are handed out in order and never before: an isolate not yet        *)
(* registered is neither stopped nor anybody's victim and has no message,  *)
(* and a child is younger than its parent.                                 *)
IsolatesFresh ==
    /\ \A i \in Registered \cup stopped \cup victims : i < nextIsolate
    /\ \A i \in Isolates : i >= nextIsolate => mailbox[i] = <<>>
    /\ \A i \in Isolates : parent[i] < i

(* The same of calls: no context names a call not yet dispatched. *)
CallsFresh ==
    /\ \A c \in CallIds : c >= nextCall => handle[c] = "Pending"
    /\ \A i \in Isolates :
          /\ \A k \in DOMAIN callContexts[i] : callContexts[i][k] < nextCall
          /\ \A k \in DOMAIN overflow[i] : overflow[i][k].context < nextCall
          /\ round[i].context < nextCall
    /\ context < nextCall
    /\ \A d \in CallIds : continuation[d] < nextCall
    /\ \A s \in SlotIds : slot[s].call < nextCall /\ (s >= nextSlot => slot[s].call = NoCall)

(* Outside the delivery loop no message of a round is left. *)
RoundOver == pc \in {"idle", "harvest", "sweep"} => \A i \in Isolates : round[i] = Nothing

(* The lane of contexts may run short of its mailbox, never past it. *)
ContextsCovered == \A i \in Isolates : Len(callContexts[i]) <= Len(mailbox[i])

Captured(c, s) == slot[s].call = c /\ slot[s].state = "Open"

(* Call c can be settled from one place only, other than by its own end. *)
SoleContext(c) ==
    /\ \A i, j \in Isolates :
          \A k \in DOMAIN callContexts[i], n \in DOMAIN callContexts[j] :
             callContexts[i][k] = c /\ callContexts[j][n] = c => i = j /\ k = n
    /\ \A i, j \in Isolates : round[i].context = c =>
          (round[j].context = c => i = j) /\ ~Queued(c, j)
    /\ \A s \in SlotIds, i \in Isolates : Captured(c, s) =>
          round[i].context # c /\ ~Queued(c, i)
    /\ \A i \in Isolates : \A k \in DOMAIN overflow[i] : overflow[i][k].context # c
    /\ \A d \in pending : continuation[d] # c

(* The context of a call is never duplicated: until the turn that answers  *)
(* it, a pending call can be settled from one place only, and a captured   *)
(* one from nowhere but its slot.                                          *)
OneContext ==
    /\ \A s \in promoted : slot[s].call \in pending => slot[s].state = "Open"
    /\ \A c \in pending :
          \/ context = c /\ \A s \in SlotIds : ~Captured(c, s)
          \/ context # c /\ SoleContext(c)

RuntimeInvariant ==
    /\ SettledOnce /\ OwnersAlive /\ NoOrphanCall /\ RingTruth
    /\ ReservationsHonoured /\ RoundLive
    /\ TurnOwned /\ IsolatesFresh /\ CallsFresh /\ RoundOver /\ ContextsCovered
    /\ OneContext

(* "Plain sends enter handle. Calls enter [handle_call] with an explicit   *)
(* CallContext": a plain message is handled with no caller and a request   *)
(* with the caller that sent it.                                           *)
EntersItsHandler ==
    \A i \in Isolates :
        /\ round[i].message.kind = "plain" => round[i].context = NoCall
        /\ round[i].message.kind = "request" => round[i].context = round[i].message.call

(* "each registered isolate gets at most one delivery chance, in           *)
(* registration order": ids grow with registration, and the delivery loop  *)
(* follows the entries.                                                    *)
RegistrationOrder ==
    \A k, n \in DOMAIN entries : k < n => entries[k] < entries[n]

(* Every call is over in the end, whatever its callee does. *)
CallsSettle == \A c \in CallIds : c \in pending ~> c \notin pending


(* "stopped entries must not grow unbounded across restarts after all      *)
(* in-flight work settles" (phase 123 plan): said of all of them. The code *)
(* never takes a supervisor out of its list, so it does not hold of one.   *)
SupervisorsCollected ==
    \A i \in Isolates : i \in stopped ~>
        i \notin Registered \/ \E j \in Isolates : parent[j] = i /\ Open(j)
=============================================================================
