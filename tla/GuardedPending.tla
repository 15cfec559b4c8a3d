--------------------------- MODULE GuardedPending ---------------------------
(***************************************************************************)
(* GuardedPendingReplies (tina-runtime, guarded_pending.rs): a table of    *)
(* parked callers, one per key, each paired with a guard that must be let  *)
(* go of exactly once: dropped by the table when it reclaims or replies,   *)
(* or handed to whoever takes the entry out.  The table learns that a      *)
(* caller left only from the reply slot.  Several tables may exist; their  *)
(* tickets can meet the wrong one.                                         *)
(***************************************************************************)
EXTENDS Integers, FiniteSets

CONSTANTS
    Calls,     \* callers, each with the guard it is parked with
    Keys,
    Tables,    \* owner ids
    Capacity,
    None       \* an empty slot

\* What the code asks of the constants.
CapacityAssumption ==
    /\ Capacity \in Nat \ {0}
    /\ None \notin [key : Keys, call : Calls]

VARIABLES
    slots,        \* [Tables -> [SlotIds -> entry or None]]
    generations,  \* by table and slot
    freeSlots,    \* by table, the slots on the free stack
    reply,        \* what each call's reply slot says
    guard,        \* where each call's guard is
    tickets,      \* tickets the service holds; `of' is ghost
    lastKey,      \* ghost: what the last insert asked for and got
    drops         \* ghost: how often each guard was dropped or handed out

vars == <<slots, generations, freeSlots, reply, guard, tickets, lastKey, drops>>

SlotIds == 0 .. (Capacity - 1)
Entry == [key : Keys, call : Calls]

Occupied(o) == {i \in SlotIds : slots[o][i] # None}
CallsIn(o, gone) == {slots[o][i].call : i \in gone}
ClosedSlots(o) == {i \in Occupied(o) : reply[slots[o][i].call] = "Closed"}
WithKey(o, key) == {i \in Occupied(o) : slots[o][i].key = key}

Init ==
    /\ slots = [o \in Tables |-> [i \in SlotIds |-> None]]
    /\ generations = [o \in Tables |-> [i \in SlotIds |-> 0]]
    /\ freeSlots = [o \in Tables |-> SlotIds]
    /\ reply = [c \in Calls |-> "Unasked"]
    /\ guard = [c \in Calls |-> "Service"]
    /\ tickets = {}
    /\ lastKey = [why |-> "None", live |-> TRUE]
    /\ drops = [c \in Calls |-> 0]

-----------------------------------------------------------------------------
(* The slot table.                                                         *)

\* remove_slot on a set of occupied slots.
RemoveSlots(o, gone) ==
    /\ slots' = [slots EXCEPT ![o] = [i \in SlotIds |-> IF i \in gone THEN None ELSE @[i]]]
    /\ freeSlots' = [freeSlots EXCEPT ![o] = @ \cup gone]
    /\ UNCHANGED generations

\* The guards of these calls leave the table: dropped by it, or with the taker.
LetGo(cs, to) ==
    /\ guard' = [c \in Calls |-> IF c \in cs THEN to ELSE guard[c]]
    /\ drops' = [c \in Calls |-> IF c \in cs THEN drops[c] + 1 ELSE drops[c]]

\* store_entry, after the slots in `swept' were reclaimed.
StoreEntry(o, key, c, swept) ==
    \E idx \in freeSlots[o] \cup swept :
        /\ slots' = [slots EXCEPT ![o] = [i \in SlotIds |->
               IF i = idx THEN [key |-> key, call |-> c]
               ELSE IF i \in swept THEN None ELSE @[i]]]
        /\ freeSlots' = [freeSlots EXCEPT ![o] = (@ \cup swept) \ {idx}]
        /\ generations' = [generations EXCEPT ![o][idx] = @ + 1]
        /\ tickets' = tickets \cup
               {[owner |-> o, slot |-> idx, generation |-> generations[o][idx] + 1, of |-> c]}

-----------------------------------------------------------------------------
(* Operations.                                                             *)

\* sweep: reclaim, and drop the guards.
Sweep(o) ==
    /\ ClosedSlots(o) # {}
    /\ LetGo(CallsIn(o, ClosedSlots(o)), "Dropped")
    /\ RemoveSlots(o, ClosedSlots(o))
    /\ UNCHANGED <<reply, tickets, lastKey>>

\* Inserts sweep only when no slot is free.
Swept(o) == IF freeSlots[o] = {} THEN ClosedSlots(o) ELSE {}

DuplicateKey(o, key) == WithKey(o, key) \ Swept(o) # {}

\* The caller's guard goes with it into the slot.
Insert(o, key, c) ==
    /\ reply[c] = "Unasked"
    /\ ~DuplicateKey(o, key)
    /\ freeSlots[o] \cup Swept(o) # {}
    /\ StoreEntry(o, key, c, Swept(o))
    /\ reply' = [reply EXCEPT ![c] = "Open"]
    /\ guard' = [x \in Calls |-> IF x = c THEN "Table"
                                 ELSE IF x \in CallsIn(o, Swept(o)) THEN "Dropped" ELSE guard[x]]
    /\ drops' = [x \in Calls |-> IF x \in CallsIn(o, Swept(o)) THEN drops[x] + 1 ELSE drops[x]]
    /\ lastKey' = [why |-> "Stored", live |-> TRUE]

\* DuplicateKey and Full return the caller and the guard; a sweep before stays.
InsertRefused(o, key, c) ==
    /\ reply[c] = "Unasked"
    /\ DuplicateKey(o, key) \/ freeSlots[o] \cup Swept(o) = {}
    /\ LetGo(CallsIn(o, Swept(o)), "Dropped")
    /\ RemoveSlots(o, Swept(o))
    /\ reply' = [reply EXCEPT ![c] = "Returned"]
    /\ lastKey' = [why |-> IF DuplicateKey(o, key) THEN "DuplicateKey" ELSE "Full",
                   live |-> IF DuplicateKey(o, key)
                            THEN \E i \in WithKey(o, key) : reply[slots[o][i].call] = "Open"
                            ELSE \A i \in SlotIds : reply[slots[o][i].call] = "Open"]
    /\ UNCHANGED tickets

\* The checks of take_ticket.
Honoured(o, t) ==
    /\ t.owner = o
    /\ generations[o][t.slot] = t.generation
    /\ slots[o][t.slot] # None

\* take_ticket and reply_ticket consume the ticket; the first hands the guard
\* out, the second drops it after the reply.
TakeTicket(o, t, to) ==
    /\ t \in tickets
    /\ tickets' = tickets \ {t}
    /\ IF Honoured(o, t)
       THEN LET c == slots[o][t.slot].call
            IN  /\ LetGo({c}, to)
                /\ RemoveSlots(o, {t.slot})
                /\ reply' = IF to = "Dropped" /\ reply[c] = "Open"
                            THEN [reply EXCEPT ![c] = "Replied"] ELSE reply
       ELSE UNCHANGED <<slots, generations, freeSlots, reply, guard, drops>>
    /\ UNCHANGED lastKey

\* take_by_key: at most one slot has the key.
TakeByKey(o, key) ==
    /\ WithKey(o, key) # {}
    /\ \E i \in WithKey(o, key) :
          /\ \A j \in WithKey(o, key) : i <= j
          /\ LetGo(CallsIn(o, {i}), "Service")
          /\ RemoveSlots(o, {i})
    /\ UNCHANGED <<reply, tickets, lastKey>>

\* drain: every entry leaves with its guard.
Drain(o) ==
    /\ Occupied(o) # {}
    /\ LetGo(CallsIn(o, Occupied(o)), "Service")
    /\ RemoveSlots(o, Occupied(o))
    /\ UNCHANGED <<reply, tickets, lastKey>>

\* The caller times out, cancels or stops.
CallerGone(c) ==
    /\ reply[c] = "Open"
    /\ reply' = [reply EXCEPT ![c] = "Closed"]
    /\ UNCHANGED <<slots, generations, freeSlots, guard, tickets, lastKey, drops>>

Next ==
    \/ \E o \in Tables :
          \/ Sweep(o) \/ Drain(o)
          \/ \E key \in Keys : TakeByKey(o, key)
          \/ \E key \in Keys, c \in Calls : Insert(o, key, c) \/ InsertRefused(o, key, c)
          \/ \E t \in tickets, to \in {"Service", "Dropped"} : TakeTicket(o, t, to)
    \/ \E c \in Calls : CallerGone(c)

Spec == Init /\ [][Next]_vars

-----------------------------------------------------------------------------
(* Properties.                                                             *)

\* Type correctness.
TypeOK ==
    /\ slots \in [Tables -> [SlotIds -> Entry \cup {None}]]
    /\ generations \in [Tables -> [SlotIds -> Nat]]
    /\ freeSlots \in [Tables -> SUBSET SlotIds]
    /\ reply \in [Calls -> {"Unasked", "Open", "Replied", "Closed", "Returned"}]
    /\ guard \in [Calls -> {"Service", "Table", "Dropped"}]
    /\ tickets \subseteq [owner : Tables, slot : SlotIds, generation : Nat, of : Calls]
    /\ drops \in [Calls -> Nat]

\* A guard leaves the table once: it is in the table exactly while its caller
\* is in one slot, no sweep, reply, take or drain reaches it twice, and none
\* is left behind in a slot that is free.
GuardOnce ==
    /\ \A c \in Calls :
          /\ drops[c] <= 1
          /\ guard[c] = "Table" <=> \E o \in Tables : \E i \in Occupied(o) : slots[o][i].call = c
    /\ \A o \in Tables : freeSlots[o] = SlotIds \ Occupied(o)

\* A ticket opens the entry it was issued for and no other, also when it is
\* shown to another table or its slot was refilled.
OwnTicketOnly ==
    \A o \in Tables, t \in tickets : Honoured(o, t) => slots[o][t.slot].call = t.of

\* One entry per key, so that a take by key is unambiguous.
OneEntryPerKey ==
    \A o \in Tables : \A i, j \in Occupied(o) : slots[o][i].key = slots[o][j].key => i = j

\* What those rest on.  A caller is parked in one slot of one table, its reply
\* slot was not used while it is, a guard that was not parked yet or still is has
\* not been let go of, and no ticket is ahead of its slot's generation.
EntriesKept ==
    /\ \A o, p \in Tables : \A i \in Occupied(o), j \in Occupied(p) :
          slots[o][i].call = slots[p][j].call => o = p /\ i = j
    /\ \A o \in Tables : \A i \in Occupied(o) : reply[slots[o][i].call] \in {"Open", "Closed"}
    /\ \A c \in Calls :
          /\ reply[c] = "Unasked" => guard[c] = "Service"
          /\ reply[c] = "Unasked" \/ guard[c] = "Table" => drops[c] = 0
    /\ \A t \in tickets : t.generation <= generations[t.owner][t.slot]

\* What the errors say of the table: "a live entry already exists for this
\* key", or it is at capacity with callers that are still there.
RefusalsNameLiveCallers == lastKey.live

\* Each key has one entry, only its own ticket opens it, and its guard is let go
\* of once.
GuardsSound == TypeOK /\ EntriesKept /\ GuardOnce /\ OwnTicketOnly /\ OneEntryPerKey
=============================================================================
