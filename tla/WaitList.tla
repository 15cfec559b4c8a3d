------------------------------ MODULE WaitList ------------------------------
(***************************************************************************)
(* The bounded parking lot behind SharedWork: a service parks the callers  *)
(* of one key, hands each a ticket's worth of identity, and later settles  *)
(* one waiter, the oldest of a key, a whole key or everybody.  Callers     *)
(* time out, cancel or stop while they are parked; the list learns of it   *)
(* only from the state of the reply slot it keeps (tina-runtime,           *)
(* wait_list.rs and shared_work.rs).                                       *)
(*                                                                         *)
(* The free-slot stack is a set and store_entry takes any member of it:    *)
(* which slot is reused first is nobody's promise.  Replies are one-shot   *)
(* effects that the runtime executes after the service's turn, in the      *)
(* order the service returned them and before its next one; a caller may   *)
(* still leave in between.                                                 *)
(***************************************************************************)
EXTENDS Integers, FiniteSets

CONSTANTS
    Waiters,       \* isolate calls that may ask to be parked, each once
    WaitKeys,      \* the natural keys they wait for
    ListCapacity,  \* WaitList::capacity
    PerKeyLimits,  \* the limits a list may be built with
    NoEntry        \* an empty slot

WaitEntry == [key : WaitKeys, call : Waiters, seq : Nat]

\* What the code asks of the constants.
WaitAssumption == /\ ListCapacity \in Nat \ {0}
                  /\ PerKeyLimits \subseteq Nat
                  /\ NoEntry \notin WaitEntry

VARIABLES
    perKeyLimit,  \* WaitList::per_key_limit; 0 stands for None
    entries,      \* slots: Vec<Option<WaitEntry>>
    entryGens,    \* generations: Vec<u64>, bumped each time a slot is filled
    freeEntries,  \* the slots on the free stack
    occupancy,    \* current: the number of entries
    nextSeq,      \* admission order
    replySlot,    \* what the shared reply slot of each call says
    waitTickets,  \* WaitTickets the service still holds; `of' is ghost
    due,          \* reply effects returned and not yet executed
    taken,        \* reply authority moved out by take_next
    born,         \* ghost: when a call was admitted, 0 before
    refused       \* ghost: how its admission failed

waitVars == <<perKeyLimit, entries, entryGens, freeEntries, occupancy, nextSeq, replySlot,
              waitTickets, due, taken, born, refused>>

ListSlots == 0 .. (ListCapacity - 1)
WaitTicket == [slot : ListSlots, generation : Nat, of : Waiters]
\* An effect carries its place in the order of execution of its turn.
Effect == [call : Waiters, rank : Nat]

Filled == {i \in ListSlots : entries[i] # NoEntry}
ReplyState(i) == replySlot[entries[i].call]
Under(key) == {i \in Filled : entries[i].key = key}
OpenUnder(key) == {i \in Under(key) : ReplyState(i) = "Open"}
ClosedEntries == {i \in Filled : ReplyState(i) = "Closed"}
Parked == {entries[i].call : i \in Filled}

\* The service runs once the effects of its last turn are executed.
ServiceTurn == due = {}

WaitInit ==
    /\ perKeyLimit \in PerKeyLimits
    /\ entries = [i \in ListSlots |-> NoEntry]
    /\ entryGens = [i \in ListSlots |-> 0]
    /\ freeEntries = ListSlots
    /\ occupancy = 0
    /\ nextSeq = 0
    /\ replySlot = [c \in Waiters |-> "Unasked"]
    /\ waitTickets = {}
    /\ due = {}
    /\ taken = {}
    /\ born = [c \in Waiters |-> 0]
    /\ refused = [c \in Waiters |-> "No"]

-----------------------------------------------------------------------------
(* Slot bookkeeping.                                                       *)

\* remove_slot on each member of a set of occupied slots.
RemoveEntries(gone) ==
    /\ entries' = [i \in ListSlots |-> IF i \in gone THEN NoEntry ELSE entries[i]]
    /\ freeEntries' = freeEntries \cup gone
    /\ occupancy' = occupancy - Cardinality(gone)

\* Mutant: the generation of a refilled slot stays.
StoreWaiterSameGeneration(key, c, swept, idx) ==
    /\ idx \in freeEntries \cup swept
    /\ entryGens' = entryGens
    /\ nextSeq' = nextSeq + 1
    /\ entries' = [i \in ListSlots |->
                    IF i = idx THEN [key |-> key, call |-> c, seq |-> nextSeq + 1]
                    ELSE IF i \in swept THEN NoEntry ELSE entries[i]]
    /\ freeEntries' = (freeEntries \cup swept) \ {idx}
    /\ occupancy' = (occupancy - Cardinality(swept)) + 1
    /\ waitTickets' = waitTickets \cup
          {[slot |-> idx, generation |-> entryGens[idx], of |-> c]}

\* store_entry, after the sweep of the slots in `swept': fill a free slot, move
\* its generation on, and mint the ticket.
StoreWaiter(key, c, swept, idx) ==
    /\ idx \in freeEntries \cup swept
    /\ entryGens' = [entryGens EXCEPT ![idx] = @ + 1]
    /\ nextSeq' = nextSeq + 1
    /\ entries' = [i \in ListSlots |->
                    IF i = idx THEN [key |-> key, call |-> c, seq |-> nextSeq + 1]
                    ELSE IF i \in swept THEN NoEntry ELSE entries[i]]
    /\ freeEntries' = (freeEntries \cup swept) \ {idx}
    /\ occupancy' = (occupancy - Cardinality(swept)) + 1
    /\ waitTickets' = waitTickets \cup
          {[slot |-> idx, generation |-> entryGens[idx] + 1, of |-> c]}

-----------------------------------------------------------------------------
(* Admission.                                                              *)

\* The slots that park reclaims before it decides.
Reclaimed == IF freeEntries = {} \/ perKeyLimit > 0 THEN ClosedEntries ELSE {}

\* count_for_key against the limit: only open callers count.
KeyFull(key) == perKeyLimit > 0 /\ Cardinality(OpenUnder(key)) >= perKeyLimit

ListFull == freeEntries \cup Reclaimed = {}

\* park, and park_call of a call that has a caller on this shard.
Park(c, key) ==
    /\ ServiceTurn
    /\ replySlot[c] = "Unasked"
    /\ ~KeyFull(key)
    /\ ~ListFull
    /\ \E idx \in ListSlots : StoreWaiter(key, c, Reclaimed, idx)
    /\ replySlot' = [replySlot EXCEPT ![c] = "Open"]
    /\ born' = [born EXCEPT ![c] = nextSeq + 1]
    /\ UNCHANGED <<due, taken, refused>>

\* The refusals return the caller's authority; the sweep before them stays.
ParkRefused(c, key) ==
    /\ ServiceTurn
    /\ replySlot[c] = "Unasked"
    /\ KeyFull(key) \/ ListFull
    /\ RemoveEntries(Reclaimed)
    /\ replySlot' = [replySlot EXCEPT ![c] = "Returned"]
    /\ refused' = [refused EXCEPT ![c] = IF KeyFull(key) THEN "KeyFull" ELSE "Full"]
    /\ UNCHANGED <<entryGens, nextSeq, waitTickets, due, taken, born>>

-----------------------------------------------------------------------------
(* Settlement.                                                             *)

\* sweep: give back every slot whose caller is gone.  It is also all that
\* park_call does on a message without a caller or with one on another shard.
SweepWaiters ==
    /\ ServiceTurn
    /\ ClosedEntries # {}
    /\ RemoveEntries(ClosedEntries)
    /\ UNCHANGED <<entryGens, nextSeq, replySlot, waitTickets, due, taken, born, refused>>

\* A ticket is honoured while its slot is occupied by the same generation.
HonouredTicket(t) == entryGens[t.slot] = t.generation /\ entries[t.slot] # NoEntry

\* reply_one: the ticket is consumed; StaleTicket and Missing change nothing.
ReplyOne(t) ==
    /\ ServiceTurn
    /\ t \in waitTickets
    /\ waitTickets' = waitTickets \ {t}
    /\ IF HonouredTicket(t)
       THEN /\ RemoveEntries({t.slot})
            /\ due' = {[call |-> entries[t.slot].call, rank |-> 0]}
       ELSE UNCHANGED <<entries, freeEntries, occupancy, due>>
    /\ UNCHANGED <<entryGens, nextSeq, replySlot, taken, born, refused>>

\* The open waiter with the smallest admission number.
Oldest(key) ==
    {i \in OpenUnder(key) : \A j \in OpenUnder(key) : entries[i].seq <= entries[j].seq}

\* take_next: the key's closed waiters are reclaimed on the way; the oldest
\* open one leaves the list with its reply authority.
TakeNext(key) ==
    /\ ServiceTurn
    /\ Under(key) # {}
    /\ RemoveEntries((Under(key) \ OpenUnder(key)) \cup Oldest(key))
    /\ taken' = taken \cup {entries[i].call : i \in Oldest(key)}
    /\ UNCHANGED <<entryGens, nextSeq, replySlot, waitTickets, due, born, refused>>

\* Mutant: the drained entries keep the slot order.
DrainForKeyUnsorted(key) ==
    /\ RemoveEntries(Under(key))
    /\ due' = {[call |-> entries[i].call, rank |-> i] : i \in Under(key)}

\* drain_for_key: the key's entries leave, sorted by admission.
DrainForKey(key) ==
    /\ RemoveEntries(Under(key))
    /\ due' = {[call |-> entries[i].call, rank |-> entries[i].seq] : i \in Under(key)}

\* reply_all_clone, reply_all_with, close_all_clone, close_all_with.
ReplyAll(key) ==
    /\ ServiceTurn
    /\ Under(key) # {}
    /\ DrainForKey(key)
    /\ UNCHANGED <<entryGens, nextSeq, replySlot, waitTickets, taken, born, refused>>

\* drain_all_with: everybody, in slot order.
DrainAll ==
    /\ ServiceTurn
    /\ Filled # {}
    /\ RemoveEntries(Filled)
    /\ due' = {[call |-> entries[i].call, rank |-> i] : i \in Filled}
    /\ UNCHANGED <<entryGens, nextSeq, replySlot, waitTickets, taken, born, refused>>

-----------------------------------------------------------------------------
(* What the runtime and the callers do with the reply slots.               *)

Before(e, f) == e.rank < f.rank

\* The next reply_to effect is executed: it reaches an open caller and is
\* rejected at a closed one.
RunEffect(e) ==
    /\ e \in due
    /\ \A f \in due : ~Before(f, e)
    /\ due' = due \ {e}
    /\ replySlot' = IF replySlot[e.call] = "Open"
                    THEN [replySlot EXCEPT ![e.call] = "Replied"] ELSE replySlot
    /\ UNCHANGED <<entries, entryGens, freeEntries, occupancy, nextSeq, waitTickets, taken,
                   born, refused>>

\* The service settles the authority that take_next gave it.
SettleNext(c) ==
    /\ ServiceTurn
    /\ c \in taken
    /\ taken' = taken \ {c}
    /\ due' = {[call |-> c, rank |-> 0]}
    /\ UNCHANGED <<entries, entryGens, freeEntries, occupancy, nextSeq, replySlot,
                   waitTickets, born, refused>>

\* Or drops it: the runtime closes the slot and fails the call.
DropTaken(c) ==
    /\ ServiceTurn
    /\ c \in taken
    /\ taken' = taken \ {c}
    /\ replySlot' = IF replySlot[c] = "Open"
                    THEN [replySlot EXCEPT ![c] = "Closed"] ELSE replySlot
    /\ UNCHANGED <<entries, entryGens, freeEntries, occupancy, nextSeq, waitTickets, due, born,
                   refused>>

\* The caller times out, cancels or stops: the runtime closes its reply slot.
WaiterGone(c) ==
    /\ replySlot[c] = "Open"
    /\ replySlot' = [replySlot EXCEPT ![c] = "Closed"]
    /\ UNCHANGED <<entries, entryGens, freeEntries, occupancy, nextSeq, waitTickets, due,
                   taken, born, refused>>

WaitNext ==
    /\ \/ \E c \in Waiters, key \in WaitKeys : Park(c, key) \/ ParkRefused(c, key)
       \/ SweepWaiters
       \/ \E t \in waitTickets : ReplyOne(t)
       \/ \E key \in WaitKeys : TakeNext(key) \/ ReplyAll(key)
       \/ DrainAll
       \/ \E e \in due : RunEffect(e)
       \/ \E c \in Waiters : SettleNext(c) \/ DropTaken(c) \/ WaiterGone(c)
    /\ UNCHANGED perKeyLimit

WaitSpec == WaitInit /\ [][WaitNext]_waitVars

-----------------------------------------------------------------------------
(* Properties.                                                             *)

\* Type correctness of the list, the reply slots and the service's holdings.
WaitTypeOK ==
    /\ perKeyLimit \in PerKeyLimits
    /\ entries \in [ListSlots -> WaitEntry \cup {NoEntry}]
    /\ entryGens \in [ListSlots -> Nat]
    /\ freeEntries \subseteq ListSlots
    /\ occupancy \in Nat
    /\ nextSeq \in Nat
    /\ replySlot \in [Waiters -> {"Unasked", "Open", "Replied", "Closed", "Returned"}]
    /\ waitTickets \subseteq WaitTicket
    /\ due \subseteq Effect
    /\ taken \subseteq Waiters
    /\ born \in [Waiters -> Nat]
    /\ refused \in [Waiters -> {"No", "Full", "KeyFull"}]

\* A slot is on the free stack exactly when it is empty, and the occupancy
\* counter is the number of entries: remove_slot's checked_sub, store_entry's
\* expect and its debug_assert never fire, whatever sweeps, drains and stale
\* tickets come in between.
SlotsAccounted ==
    /\ freeEntries = {i \in ListSlots : entries[i] = NoEntry}
    /\ occupancy = Cardinality(Filled)

\* A ticket that reply_one honours names the caller it was issued for, however
\* often its slot was swept, taken, drained and refilled since.
OwnWaiterOnly ==
    \A t \in waitTickets : HonouredTicket(t) => entries[t.slot].call = t.of

\* A caller that still waits is parked in one slot, or its reply authority is
\* with the service, or its reply is on the way: settlement never drops one,
\* and no two of them hold the same reply slot.
NobodyStranded ==
    /\ \A c \in Waiters : replySlot[c] = "Open" =>
          c \in Parked \cup taken \cup {e.call : e \in due}
    /\ \A i, j \in Filled : entries[i].call = entries[j].call => i = j
    /\ Parked \cap taken = {}
    /\ \A e \in due : e.call \notin Parked \cup taken
    /\ \A e, f \in due : e.call = f.call => e = f

\* Both caps hold for the callers that are there, and a refusal is never due
\* to callers that already left: Full means every slot holds an open caller,
\* KeyFull that the key has as many open callers as it may.
RefusalTrue ==
    \A c \in Waiters :
        /\ refused'[c] = "Full" /\ refused[c] = "No" =>
               \A i \in ListSlots :
                  entries'[i] # NoEntry /\ replySlot[entries'[i].call] = "Open"
        /\ refused'[c] = "KeyFull" /\ refused[c] = "No" =>
               \E key \in WaitKeys :
                  /\ Cardinality(OpenUnder(key)) = perKeyLimit
                  /\ \A i \in OpenUnder(key) : entries'[i] = entries[i]

\* No key has more open callers parked than its limit.
KeyLimitHeld ==
    perKeyLimit > 0 => \A key \in WaitKeys : Cardinality(OpenUnder(key)) <= perKeyLimit

\* FIFO per key: whoever take_next hands out, and whoever a reply to a whole
\* key wakes, no caller of that key that was admitted earlier and is still
\* waiting is passed over.
FifoPerKey ==
    /\ \A c \in taken' \ taken : \A i \in Filled :
          entries[i].call = c =>
            \A j \in OpenUnder(entries[i].key) : born[entries[j].call] >= born[c]
    /\ \A e, f \in due' \ due :
          e # f /\ (\E key \in WaitKeys : ReplyAll(key)) /\ born[e.call] < born[f.call]
            => Before(e, f)

\* A waiter has one slot, its ticket reaches no other waiter, nobody who still
\* waits is lost and no key has more waiters than its limit.
WaitersSound == WaitTypeOK /\ SlotsAccounted /\ OwnWaiterOnly /\ NobodyStranded /\ KeyLimitHeld

\* Refusals are true when they are given and service is in order of admission.
RefusesAndServes == RefusalTrue /\ FifoPerKey
=============================================================================
