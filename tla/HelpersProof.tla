---------------------------- MODULE HelpersProof ----------------------------
(***************************************************************************)
(* The helpers that an isolate keeps in its own state, for any callers,    *)
(* keys, tables, gates, capacities and limits.                             *)
(*                                                                         *)
(* The guarded table and its concurrency-limited owner: GuardsSound is     *)
(* inductive for the table by itself; with PermitsBalance it is inductive  *)
(* for the owner.  A step takes entries out of a table, stores one, or     *)
(* changes a reply slot only: the first three lemmas below say what each   *)
(* does to the table, whoever takes it, the lemmas after them what it does *)
(* to the counts.                                                          *)
(*                                                                         *)
(* The wait list: WaitInv adds to WaitersSound that tickets are never      *)
(* ahead of their slot, that entries carry the admission number of their   *)
(* caller and that nobody is parked, taken or answered who did not ask.    *)
(*                                                                         *)
(* Permits: PermitInv adds to ChargesExact that permits are told apart and *)
(* that none is of a generation its gate has not reached.                  *)
(*                                                                         *)
(* Keyed limits: KeyedInv adds to KeysExact that permits are told apart by *)
(* their ids and that no key has two slots, so that a slot is given up by  *)
(* the last permit of its key and by no other.                             *)
(*                                                                         *)
(* Rate limits: RateInv adds to RateHeld that no key was seen after the    *)
(* latest instant, and that what a refused key was told is the delay for   *)
(* what its bucket lacks.  The nonlinear arithmetic is kept in lemmas      *)
(* about one bucket.                                                       *)
(***************************************************************************)
EXTENDS ConcurrencyPending, WaitList, Permits, RateLimit, KeyedLimit,
        FiniteSetTheorems, TLAPS

-----------------------------------------------------------------------------
(* The table.                                                              *)

\* The types of the slots and of what is beside them.
LEMMA SlotTypes ==
    ASSUME CapacityAssumption, TypeOK
    PROVE  /\ SlotIds \subseteq Nat
           /\ \A o \in Tables : Occupied(o) \subseteq SlotIds
           /\ \A o \in Tables : \A i \in SlotIds :
                 /\ slots[o][i] \in Entry \cup {None} /\ generations[o][i] \in Nat
                 /\ i \in Occupied(o) <=> slots[o][i] # None
           /\ \A o \in Tables : \A i \in Occupied(o) :
                 slots[o][i] \in Entry /\ slots[o][i].key \in Keys /\ slots[o][i].call \in Calls
           /\ None \notin Entry
  BY DEF CapacityAssumption, TypeOK, SlotIds, Occupied, Entry

\* Entries are taken out of a table.
Removal(o, gone, to) ==
    /\ gone \subseteq Occupied(o) /\ to \in {"Service", "Dropped"}
    /\ RemoveSlots(o, gone) /\ LetGo(CallsIn(o, gone), to)
    /\ tickets' \subseteq tickets
    /\ reply' \in [Calls -> {"Unasked", "Open", "Replied", "Closed", "Returned"}]
    /\ \A c \in Calls : reply'[c] # reply[c] => reply'[c] # "Unasked" /\ guard'[c] # "Table"

\* What is left in the slots.
LEMMA RemovedSlots ==
    ASSUME CapacityAssumption, TypeOK, NEW o \in Tables, NEW gone, gone \subseteq Occupied(o),
           RemoveSlots(o, gone)
    PROVE  /\ slots' \in [Tables -> [SlotIds -> Entry \cup {None}]]
           /\ freeSlots' \in [Tables -> SUBSET SlotIds]
           /\ generations' = generations
           /\ \A p \in Tables : \A j \in SlotIds :
                 slots'[p][j] = IF p = o /\ j \in gone THEN None ELSE slots[p][j]
           /\ \A p \in Tables : freeSlots'[p] = IF p = o THEN freeSlots[o] \cup gone ELSE freeSlots[p]
           /\ \A p \in Tables : Occupied(p)' = IF p = o THEN Occupied(p) \ gone ELSE Occupied(p)
  <1> DEFINE row == [i \in SlotIds |-> IF i \in gone THEN None ELSE slots[o][i]]
  <1>1. /\ slots \in [Tables -> [SlotIds -> Entry \cup {None}]]
        /\ freeSlots \in [Tables -> SUBSET SlotIds] /\ gone \subseteq SlotIds
    BY SlotTypes DEF TypeOK
  <1>2. /\ slots' = [slots EXCEPT ![o] = row]
        /\ freeSlots' = [freeSlots EXCEPT ![o] = freeSlots[o] \cup gone]
        /\ generations' = generations
    BY DEF RemoveSlots
  <1>3. row \in [SlotIds -> Entry \cup {None}]
    BY <1>1
  <1>4. \A j \in SlotIds : row[j] = IF j \in gone THEN None ELSE slots[o][j]
    OBVIOUS
  <1> HIDE DEF row
  <1>5. /\ slots' \in [Tables -> [SlotIds -> Entry \cup {None}]]
        /\ \A p \in Tables : slots'[p] = IF p = o THEN row ELSE slots[p]
    BY <1>1, <1>2, <1>3
  <1>6. \A p \in Tables : \A j \in SlotIds :
           slots'[p][j] = IF p = o /\ j \in gone THEN None ELSE slots[p][j]
    BY <1>4, <1>5
  <1>7. /\ freeSlots' \in [Tables -> SUBSET SlotIds]
        /\ \A p \in Tables : freeSlots'[p] = IF p = o THEN freeSlots[o] \cup gone ELSE freeSlots[p]
    BY <1>1, <1>2
  <1>8. \A p \in Tables : Occupied(p)' = IF p = o THEN Occupied(p) \ gone ELSE Occupied(p)
    BY <1>6 DEF Occupied
  <1>9. QED
    BY <1>2, <1>5, <1>6, <1>7, <1>8

\* A removal keeps the table sound.
LEMMA RemovalKeeps ==
    ASSUME CapacityAssumption, GuardsSound, NEW o \in Tables, NEW gone, NEW to,
           Removal(o, gone, to)
    PROVE  GuardsSound'
  <1>0. TypeOK /\ EntriesKept /\ GuardOnce /\ OwnTicketOnly /\ OneEntryPerKey
    BY DEF GuardsSound
  <1>1. /\ slots' \in [Tables -> [SlotIds -> Entry \cup {None}]]
        /\ freeSlots' \in [Tables -> SUBSET SlotIds]
        /\ generations' = generations
        /\ \A p \in Tables : \A j \in SlotIds :
              slots'[p][j] = IF p = o /\ j \in gone THEN None ELSE slots[p][j]
        /\ \A p \in Tables : freeSlots'[p] = IF p = o THEN freeSlots[o] \cup gone ELSE freeSlots[p]
        /\ \A p \in Tables : Occupied(p)' = IF p = o THEN Occupied(p) \ gone ELSE Occupied(p)
    BY <1>0, RemovedSlots DEF Removal
  <1>2. /\ SlotIds \subseteq Nat
        /\ \A p \in Tables : Occupied(p) \subseteq SlotIds
        /\ \A p \in Tables : \A i \in Occupied(p) :
              slots[p][i] \in Entry /\ slots[p][i].key \in Keys /\ slots[p][i].call \in Calls
    BY <1>0, SlotTypes
  <1>3. \A p \in Tables : /\ Occupied(p)' \subseteq Occupied(p)
                          /\ \A i \in Occupied(p)' : slots'[p][i] = slots[p][i]
    BY <1>1, <1>2
  <1> DEFINE cs == CallsIn(o, gone)
  <1>4. /\ cs \subseteq Calls
        /\ \A c \in Calls : c \in cs <=> \E i \in gone : slots[o][i].call = c
    BY <1>2 DEF CallsIn, Removal
  <1>5. /\ guard' = [c \in Calls |-> IF c \in cs THEN to ELSE guard[c]]
        /\ drops' = [c \in Calls |-> IF c \in cs THEN drops[c] + 1 ELSE drops[c]]
    BY DEF Removal, LetGo
  <1> HIDE DEF cs
  <1>6. /\ to \in {"Service", "Dropped"} /\ gone \subseteq Occupied(o) /\ tickets' \subseteq tickets
        /\ reply' \in [Calls -> {"Unasked", "Open", "Replied", "Closed", "Returned"}]
        /\ \A c \in Calls : reply'[c] # reply[c] => reply'[c] # "Unasked" /\ guard'[c] # "Table"
    BY DEF Removal
  <1>7. \A c \in Calls : c \in cs => guard[c] = "Table" /\ drops[c] = 0
    BY <1>0, <1>4, <1>6 DEF GuardOnce, EntriesKept
  <1>8. TypeOK'
    <2>1. guard' \in [Calls -> {"Service", "Table", "Dropped"}]
      BY <1>0, <1>5, <1>6 DEF TypeOK
    <2>2. drops' \in [Calls -> Nat]
      BY <1>0, <1>5 DEF TypeOK
    <2>3. QED
      BY <1>0, <1>1, <1>6, <2>1, <2>2 DEF TypeOK
  <1>9. \A c \in Calls : guard'[c] = "Table" <=> \E p \in Tables : \E i \in Occupied(p)' : slots'[p][i].call = c
    <2>1. ASSUME NEW c \in Calls, guard'[c] = "Table"
          PROVE  \E p \in Tables : \E i \in Occupied(p)' : slots'[p][i].call = c
      <3>1. c \notin cs /\ guard[c] = "Table"
        BY <1>5, <1>6, <2>1
      <3>a. PICK p \in Tables : \E i \in Occupied(p) : slots[p][i].call = c
        BY <1>0, <3>1 DEF GuardOnce
      <3>2. PICK i \in Occupied(p) : slots[p][i].call = c
        BY <3>a
      <3>3. ~(p = o /\ i \in gone)
        BY <1>4, <3>1, <3>2
      <3>4. i \in Occupied(p)'
        BY <1>1, <3>2, <3>3
      <3>5. QED
        BY <1>3, <3>2, <3>4
    <2>2. ASSUME NEW c \in Calls, NEW p \in Tables, NEW i \in Occupied(p)', slots'[p][i].call = c
          PROVE  guard'[c] = "Table"
      <3>1. i \in Occupied(p) /\ slots[p][i].call = c
        BY <1>3, <2>2
      <3>2. guard[c] = "Table"
        BY <1>0, <3>1 DEF GuardOnce
      <3>3. c \notin cs
        <4>1. ASSUME NEW j \in gone, slots[o][j].call = c PROVE FALSE
          <5>1. j \in Occupied(o) /\ p = o /\ i = j
            BY <1>0, <1>6, <3>1, <4>1 DEF EntriesKept
          <5>2. QED
            BY <1>1, <2>2, <5>1
        <4>2. QED
          BY <1>4, <4>1
      <3>4. QED
        BY <1>5, <3>2, <3>3
    <2>3. QED
      BY <2>1, <2>2
  <1>10. GuardOnce'
    <2>1. \A c \in Calls : drops'[c] <= 1
      BY <1>0, <1>5, <1>7 DEF GuardOnce, TypeOK
    <2>2. \A p \in Tables : freeSlots'[p] = SlotIds \ Occupied(p)'
      BY <1>0, <1>1, <1>2, <1>6 DEF GuardOnce
    <2>3. QED
      BY <1>9, <2>1, <2>2 DEF GuardOnce
  <1>11. EntriesKept'
    <2>1. \A p, q \in Tables : \A i \in Occupied(p)', j \in Occupied(q)' :
             slots'[p][i].call = slots'[q][j].call => p = q /\ i = j
      BY <1>0, <1>3 DEF EntriesKept
    <2>2. ASSUME NEW p \in Tables, NEW i \in Occupied(p)'
          PROVE  reply'[slots'[p][i].call] \in {"Open", "Closed"}
      <3>1. i \in Occupied(p) /\ slots'[p][i] = slots[p][i] /\ slots[p][i].call \in Calls
        BY <1>2, <1>3
      <3>2. guard'[slots[p][i].call] = "Table"
        BY <1>9, <3>1
      <3>3. reply'[slots[p][i].call] = reply[slots[p][i].call]
        BY <1>6, <3>1, <3>2
      <3>4. QED
        BY <1>0, <3>1, <3>3 DEF EntriesKept
    <2>3. ASSUME NEW c \in Calls, reply'[c] = "Unasked"
          PROVE  guard'[c] = "Service" /\ drops'[c] = 0
      <3>1. reply[c] = "Unasked"
        BY <1>6, <2>3
      <3>2. guard[c] = "Service" /\ drops[c] = 0
        BY <1>0, <3>1 DEF EntriesKept
      <3>3. QED
        BY <1>5, <1>7, <3>2
    <2>4. ASSUME NEW c \in Calls, guard'[c] = "Table" PROVE drops'[c] = 0
      <3>1. c \notin cs /\ guard[c] = "Table"
        BY <1>5, <1>6, <2>4
      <3>2. QED
        BY <1>0, <1>5, <3>1 DEF EntriesKept
    <2>5. \A t \in tickets' : t.generation <= generations'[t.owner][t.slot]
      BY <1>0, <1>1, <1>6 DEF EntriesKept
    <2>6. QED
      BY <2>1, <2>2, <2>3, <2>4, <2>5 DEF EntriesKept
  <1>12. OwnTicketOnly'
    <2>1. ASSUME NEW p \in Tables, NEW t \in tickets', Honoured(p, t)'
          PROVE  slots'[p][t.slot].call = t.of
      <3>1. t \in tickets /\ t.slot \in SlotIds /\ slots'[p][t.slot] # None
            /\ t.owner = p /\ generations[p][t.slot] = t.generation
        BY <1>0, <1>1, <1>6, <2>1 DEF Honoured, TypeOK
      <3>2. slots'[p][t.slot] = slots[p][t.slot]
        BY <1>1, <3>1
      <3>3. Honoured(p, t)
        BY <3>1, <3>2 DEF Honoured
      <3>4. QED
        BY <1>0, <3>1, <3>2, <3>3 DEF OwnTicketOnly
    <2>2. QED
      BY <2>1 DEF OwnTicketOnly, Honoured
  <1>13. OneEntryPerKey'
    BY <1>0, <1>3 DEF OneEntryPerKey
  <1>14. QED
    BY <1>8, <1>10, <1>11, <1>12, <1>13 DEF GuardsSound

\* An entry is stored, after the slots in `swept' were reclaimed.
Storage(o, key, c, swept) ==
    /\ swept \subseteq Occupied(o) /\ WithKey(o, key) \ swept = {}
    /\ guard[c] = "Service" /\ drops[c] = 0
    /\ StoreEntry(o, key, c, swept)
    /\ guard' = [x \in Calls |-> IF x = c THEN "Table"
                                 ELSE IF x \in CallsIn(o, swept) THEN "Dropped" ELSE guard[x]]
    /\ drops' = [x \in Calls |-> IF x \in CallsIn(o, swept) THEN drops[x] + 1 ELSE drops[x]]
    /\ reply' \in [Calls -> {"Unasked", "Open", "Replied", "Closed", "Returned"}]
    /\ reply'[c] \in {"Open", "Closed"}
    /\ \A x \in Calls \ {c} : reply'[x] = reply[x]

\* The generations after a store.
Aged(o, idx) == [generations EXCEPT ![o][idx] = @ + 1]

LEMMA AgedSlot ==
    ASSUME TypeOK, NEW o \in Tables, NEW idx \in SlotIds
    PROVE  /\ Aged(o, idx) \in [Tables -> [SlotIds -> Nat]]
           /\ \A p \in Tables : \A j \in SlotIds :
                 Aged(o, idx)[p][j] = IF p = o /\ j = idx THEN generations[p][j] + 1
                                      ELSE generations[p][j]
  <1> DEFINE row == [generations[o] EXCEPT ![idx] = generations[o][idx] + 1]
  <1>1. generations \in [Tables -> [SlotIds -> Nat]]
    BY DEF TypeOK
  <1>2. /\ row \in [SlotIds -> Nat]
        /\ \A j \in SlotIds : row[j] = IF j = idx THEN generations[o][j] + 1 ELSE generations[o][j]
    BY <1>1
  <1>3. Aged(o, idx) = [generations EXCEPT ![o] = row]
    BY DEF Aged
  <1> HIDE DEF row
  <1>4. QED
    BY <1>1, <1>2, <1>3

\* What is in the slots then: the new entry is in slot idx, which was free or
\* swept.
Stored(o, key, c, swept, idx) ==
    /\ idx \notin Occupied(o) \ swept
    /\ slots' \in [Tables -> [SlotIds -> Entry \cup {None}]]
    /\ generations' \in [Tables -> [SlotIds -> Nat]]
    /\ freeSlots' \in [Tables -> SUBSET SlotIds]
    /\ \A p \in Tables : \A j \in SlotIds :
          slots'[p][j] = IF p = o /\ j = idx THEN [key |-> key, call |-> c]
                         ELSE IF p = o /\ j \in swept THEN None ELSE slots[p][j]
    /\ \A p \in Tables : \A j \in SlotIds :
          generations'[p][j] = IF p = o /\ j = idx THEN generations[p][j] + 1
                               ELSE generations[p][j]
    /\ \A p \in Tables : freeSlots'[p] = IF p = o THEN (freeSlots[o] \cup swept) \ {idx}
                                         ELSE freeSlots[p]
    /\ \A p \in Tables : Occupied(p)' = IF p = o THEN (Occupied(p) \ swept) \cup {idx}
                                        ELSE Occupied(p)
    /\ tickets' = tickets \cup
          {[owner |-> o, slot |-> idx, generation |-> generations[o][idx] + 1, of |-> c]}

LEMMA StoredSlots ==
    ASSUME CapacityAssumption, TypeOK, NEW o \in Tables, NEW key \in Keys, NEW c \in Calls,
           NEW swept, swept \subseteq Occupied(o), freeSlots[o] = SlotIds \ Occupied(o),
           StoreEntry(o, key, c, swept)
    PROVE  \E idx \in SlotIds : Stored(o, key, c, swept, idx)
  <1>1. /\ slots \in [Tables -> [SlotIds -> Entry \cup {None}]]
        /\ freeSlots \in [Tables -> SUBSET SlotIds] /\ swept \subseteq SlotIds
        /\ None \notin Entry /\ [key |-> key, call |-> c] \in Entry
    BY SlotTypes DEF TypeOK, Entry
  <1>2. PICK idx \in freeSlots[o] \cup swept :
        /\ slots' = [slots EXCEPT ![o] = [i \in SlotIds |->
               IF i = idx THEN [key |-> key, call |-> c]
               ELSE IF i \in swept THEN None ELSE slots[o][i]]]
        /\ freeSlots' = [freeSlots EXCEPT ![o] = (freeSlots[o] \cup swept) \ {idx}]
        /\ generations' = Aged(o, idx)
        /\ tickets' = tickets \cup
               {[owner |-> o, slot |-> idx, generation |-> generations[o][idx] + 1, of |-> c]}
    BY DEF StoreEntry, Aged
  <1>3. idx \in SlotIds /\ idx \notin Occupied(o) \ swept
    BY <1>1, <1>2
  <1> DEFINE entry == [key |-> key, call |-> c]
             row == [i \in SlotIds |-> IF i = idx THEN entry
                                       ELSE IF i \in swept THEN None ELSE slots[o][i]]
  <1>4. slots' = [slots EXCEPT ![o] = row] /\ entry \in Entry
    BY <1>1, <1>2
  <1> HIDE DEF entry
  <1>5. /\ row \in [SlotIds -> Entry \cup {None}]
        /\ \A j \in SlotIds : row[j] = IF j = idx THEN entry
                                       ELSE IF j \in swept THEN None ELSE slots[o][j]
    BY <1>1, <1>4
  <1> HIDE DEF row
  <1>6. /\ slots' \in [Tables -> [SlotIds -> Entry \cup {None}]]
        /\ \A p \in Tables : slots'[p] = IF p = o THEN row ELSE slots[p]
    BY <1>1, <1>4, <1>5
  <1>7. \A p \in Tables : \A j \in SlotIds :
           slots'[p][j] = IF p = o /\ j = idx THEN entry
                          ELSE IF p = o /\ j \in swept THEN None ELSE slots[p][j]
    BY <1>5, <1>6
  <1>8. /\ freeSlots' \in [Tables -> SUBSET SlotIds]
        /\ \A p \in Tables : freeSlots'[p] = IF p = o THEN (freeSlots[o] \cup swept) \ {idx}
                                             ELSE freeSlots[p]
    BY <1>1, <1>2
  <1>9. \A p \in Tables : Occupied(p)' = IF p = o THEN (Occupied(p) \ swept) \cup {idx}
                                         ELSE Occupied(p)
    <2>1. entry # None
      BY <1>1, <1>4
    <2>2. QED
      BY <1>3, <1>7, <2>1 DEF Occupied
  <1>10. /\ generations' \in [Tables -> [SlotIds -> Nat]]
         /\ \A p \in Tables : \A j \in SlotIds :
               generations'[p][j] = IF p = o /\ j = idx THEN generations[p][j] + 1
                                    ELSE generations[p][j]
    BY <1>2, <1>3, AgedSlot
  <1>11. \A p \in Tables : \A j \in SlotIds :
            slots'[p][j] = IF p = o /\ j = idx THEN [key |-> key, call |-> c]
                           ELSE IF p = o /\ j \in swept THEN None ELSE slots[p][j]
    BY <1>7 DEF entry
  <1>12. Stored(o, key, c, swept, idx)
    BY <1>2, <1>3, <1>6, <1>8, <1>9, <1>10, <1>11 DEF Stored
  <1>13. QED
    BY <1>3, <1>12

\* A store keeps the table sound.
LEMMA StorageKeeps ==
    ASSUME CapacityAssumption, GuardsSound, NEW o \in Tables, NEW key \in Keys, NEW c \in Calls,
           NEW swept, Storage(o, key, c, swept)
    PROVE  GuardsSound'
  <1>0. TypeOK /\ EntriesKept /\ GuardOnce /\ OwnTicketOnly /\ OneEntryPerKey
    BY DEF GuardsSound
  <1>1. /\ swept \subseteq Occupied(o) /\ freeSlots[o] = SlotIds \ Occupied(o)
        /\ StoreEntry(o, key, c, swept)
    BY <1>0 DEF Storage, GuardOnce
  <1> DEFINE entry == [key |-> key, call |-> c]
  <1>a. PICK idx \in SlotIds : Stored(o, key, c, swept, idx)
    BY <1>0, <1>1, StoredSlots
  <1>2. /\ idx \notin Occupied(o) \ swept
        /\ slots' \in [Tables -> [SlotIds -> Entry \cup {None}]]
        /\ generations' \in [Tables -> [SlotIds -> Nat]]
        /\ freeSlots' \in [Tables -> SUBSET SlotIds]
        /\ \A p \in Tables : \A j \in SlotIds :
              slots'[p][j] = IF p = o /\ j = idx THEN entry
                             ELSE IF p = o /\ j \in swept THEN None ELSE slots[p][j]
        /\ \A p \in Tables : \A j \in SlotIds :
              generations'[p][j] = IF p = o /\ j = idx THEN generations[p][j] + 1
                                   ELSE generations[p][j]
        /\ \A p \in Tables : freeSlots'[p] = IF p = o THEN (freeSlots[o] \cup swept) \ {idx}
                                             ELSE freeSlots[p]
        /\ \A p \in Tables : Occupied(p)' = IF p = o THEN (Occupied(p) \ swept) \cup {idx}
                                            ELSE Occupied(p)
        /\ tickets' = tickets \cup
              {[owner |-> o, slot |-> idx, generation |-> generations[o][idx] + 1, of |-> c]}
    BY <1>a DEF Stored
  <1>3. /\ entry.key = key /\ entry.call = c /\ entry \in Entry
    BY DEF Entry
  <1> HIDE DEF entry
  <1>4. /\ SlotIds \subseteq Nat /\ None \notin Entry
        /\ \A p \in Tables : Occupied(p) \subseteq SlotIds
        /\ \A p \in Tables : \A i \in SlotIds : i \in Occupied(p) <=> slots[p][i] # None
        /\ \A p \in Tables : \A i \in SlotIds : generations[p][i] \in Nat
        /\ \A p \in Tables : \A i \in Occupied(p) :
              slots[p][i] \in Entry /\ slots[p][i].key \in Keys /\ slots[p][i].call \in Calls
    BY <1>0, SlotTypes
  <1>5. slots'[o][idx] = entry /\ idx \in Occupied(o)'
    BY <1>2
  \* Every other entry is an old one that was not swept.
  <1>6. \A p \in Tables : \A i \in Occupied(p)' :
           \/ p = o /\ i = idx
           \/ i \in Occupied(p) /\ slots'[p][i] = slots[p][i] /\ ~(p = o /\ i \in swept)
    BY <1>2, <1>4
  <1> DEFINE cs == CallsIn(o, swept)
  <1>7. \A x \in Calls : x \in cs <=> \E i \in swept : slots[o][i].call = x
    BY <1>1, <1>4 DEF CallsIn
  <1>8. /\ guard' = [x \in Calls |-> IF x = c THEN "Table" ELSE IF x \in cs THEN "Dropped" ELSE guard[x]]
        /\ drops' = [x \in Calls |-> IF x \in cs THEN drops[x] + 1 ELSE drops[x]]
        /\ guard[c] = "Service" /\ drops[c] = 0 /\ WithKey(o, key) \ swept = {}
        /\ reply' \in [Calls -> {"Unasked", "Open", "Replied", "Closed", "Returned"}]
        /\ reply'[c] \in {"Open", "Closed"}
        /\ \A x \in Calls \ {c} : reply'[x] = reply[x]
    BY DEF Storage
  <1> HIDE DEF cs
  <1>9. \A x \in Calls : x \in cs => guard[x] = "Table" /\ drops[x] = 0
    BY <1>0, <1>1, <1>7 DEF GuardOnce, EntriesKept
  <1>10. c \notin cs /\ \A p \in Tables : \A i \in Occupied(p) : slots[p][i].call # c
    <2>1. \A p \in Tables : \A i \in Occupied(p) : slots[p][i].call # c
      BY <1>0, <1>8 DEF GuardOnce
    <2>2. QED
      BY <1>8, <1>9, <2>1
  <1>11. TypeOK'
    <2>1. guard' \in [Calls -> {"Service", "Table", "Dropped"}]
      BY <1>0, <1>8 DEF TypeOK
    <2>2. drops' \in [Calls -> Nat]
      BY <1>0, <1>8 DEF TypeOK
    <2>3. tickets' \subseteq [owner : Tables, slot : SlotIds, generation : Nat, of : Calls]
      <3>1. generations[o][idx] + 1 \in Nat
        BY <1>4
      <3>2. QED
        BY <1>0, <1>2, <3>1 DEF TypeOK
    <2>4. QED
      BY <1>2, <1>8, <2>1, <2>2, <2>3 DEF TypeOK
  <1>12. \A x \in Calls : guard'[x] = "Table" <=> \E p \in Tables : \E i \in Occupied(p)' : slots'[p][i].call = x
    <2>1. ASSUME NEW x \in Calls, guard'[x] = "Table"
          PROVE  \E p \in Tables : \E i \in Occupied(p)' : slots'[p][i].call = x
      <3>1. CASE x = c
        BY <1>3, <1>5, <3>1
      <3>2. CASE x # c
        <4>1. x \notin cs /\ guard[x] = "Table"
          BY <1>8, <2>1, <3>2
        <4>2. PICK p \in Tables : \E i \in Occupied(p) : slots[p][i].call = x
          BY <1>0, <4>1 DEF GuardOnce
        <4>3. PICK i \in Occupied(p) : slots[p][i].call = x
          BY <4>2
        <4>4. ~(p = o /\ i \in swept)
          BY <1>7, <4>1, <4>3
        <4>5. i \in Occupied(p)' /\ ~(p = o /\ i = idx)
          BY <1>2, <4>3, <4>4
        <4>6. QED
          BY <1>6, <4>3, <4>5
      <3>3. QED
        BY <3>1, <3>2
    <2>2. ASSUME NEW x \in Calls, NEW p \in Tables, NEW i \in Occupied(p)', slots'[p][i].call = x
          PROVE  guard'[x] = "Table"
      <3>1. CASE p = o /\ i = idx
        BY <1>3, <1>5, <1>8, <2>2, <3>1
      <3>2. CASE i \in Occupied(p) /\ slots'[p][i] = slots[p][i] /\ ~(p = o /\ i \in swept)
        <4>1. guard[x] = "Table"
          BY <1>0, <2>2, <3>2 DEF GuardOnce
        <4>2. ASSUME NEW j \in swept, slots[o][j].call = x PROVE FALSE
          <5>1. j \in Occupied(o) /\ p = o /\ i = j
            BY <1>0, <1>1, <2>2, <3>2, <4>2 DEF EntriesKept
          <5>2. QED
            BY <3>2, <4>2, <5>1
        <4>3. x \notin cs
          BY <1>7, <4>2
        <4>4. QED
          BY <1>8, <4>1, <4>3
      <3>3. QED
        BY <1>6, <3>1, <3>2
    <2>3. QED
      BY <2>1, <2>2
  <1>13. GuardOnce'
    <2>1. \A x \in Calls : drops'[x] <= 1
      BY <1>0, <1>8, <1>9 DEF GuardOnce, TypeOK
    <2>2. \A p \in Tables : freeSlots'[p] = SlotIds \ Occupied(p)'
      BY <1>0, <1>1, <1>2, <1>4 DEF GuardOnce
    <2>3. QED
      BY <1>12, <2>1, <2>2 DEF GuardOnce
  <1>14. EntriesKept'
    <2>1. ASSUME NEW p \in Tables, NEW q \in Tables, NEW i \in Occupied(p)', NEW j \in Occupied(q)',
                 slots'[p][i].call = slots'[q][j].call
          PROVE  p = q /\ i = j
      <3>1. \A r \in Tables : \A k \in Occupied(r)' : slots'[r][k].call = c => r = o /\ k = idx
        BY <1>6, <1>10
      <3>2. CASE (p = o /\ i = idx) \/ (q = o /\ j = idx)
        BY <1>3, <1>5, <2>1, <3>1, <3>2
      <3>3. CASE ~(p = o /\ i = idx) /\ ~(q = o /\ j = idx)
        BY <1>0, <1>6, <2>1, <3>3 DEF EntriesKept
      <3>4. QED
        BY <3>2, <3>3
    <2>2. ASSUME NEW p \in Tables, NEW i \in Occupied(p)'
          PROVE  reply'[slots'[p][i].call] \in {"Open", "Closed"}
      <3>1. CASE p = o /\ i = idx
        BY <1>3, <1>5, <1>8, <3>1
      <3>2. CASE i \in Occupied(p) /\ slots'[p][i] = slots[p][i]
        <4>1. slots[p][i].call \in Calls \ {c}
          BY <1>4, <1>10, <3>2
        <4>2. reply'[slots[p][i].call] = reply[slots[p][i].call]
          BY <1>8, <4>1
        <4>3. QED
          BY <1>0, <3>2, <4>2 DEF EntriesKept
      <3>3. QED
        BY <1>6, <3>1, <3>2
    <2>3. ASSUME NEW x \in Calls, reply'[x] = "Unasked"
          PROVE  guard'[x] = "Service" /\ drops'[x] = 0
      <3>1. x # c /\ reply[x] = "Unasked"
        BY <1>8, <2>3
      <3>2. guard[x] = "Service" /\ drops[x] = 0
        BY <1>0, <3>1 DEF EntriesKept
      <3>3. QED
        BY <1>8, <1>9, <3>1, <3>2
    <2>4. ASSUME NEW x \in Calls, guard'[x] = "Table" PROVE drops'[x] = 0
      <3>1. x \notin cs /\ (x = c \/ guard[x] = "Table")
        BY <1>8, <1>10, <2>4
      <3>2. drops[x] = 0
        BY <1>0, <1>8, <3>1 DEF EntriesKept
      <3>3. QED
        BY <1>8, <3>1, <3>2
    <2>5. ASSUME NEW t \in tickets' PROVE t.generation <= generations'[t.owner][t.slot]
      <3>1. CASE t \in tickets
        <4>1. /\ t.owner \in Tables /\ t.slot \in SlotIds /\ t.generation \in Nat
              /\ t.generation <= generations[t.owner][t.slot]
          BY <1>0, <3>1 DEF TypeOK, EntriesKept
        <4>2. generations'[t.owner][t.slot] = IF t.owner = o /\ t.slot = idx
                                              THEN generations[t.owner][t.slot] + 1
                                              ELSE generations[t.owner][t.slot]
          BY <1>2, <4>1
        <4>3. generations[t.owner][t.slot] \in Nat
          BY <1>4, <4>1
        <4>4. QED
          BY <4>1, <4>2, <4>3
      <3>2. CASE t = [owner |-> o, slot |-> idx, generation |-> generations[o][idx] + 1, of |-> c]
        <4>1. t.owner = o /\ t.slot = idx /\ t.generation = generations[o][idx] + 1
          BY <3>2
        <4>2. generations'[o][idx] = generations[o][idx] + 1 /\ generations[o][idx] \in Nat
          BY <1>2, <1>4
        <4>3. QED
          BY <4>1, <4>2
      <3>3. QED
        BY <1>2, <3>1, <3>2
    <2>6. QED
      BY <2>1, <2>2, <2>3, <2>4, <2>5 DEF EntriesKept
  <1>15. OwnTicketOnly'
    <2>1. ASSUME NEW p \in Tables, NEW t \in tickets', t.owner = p,
                 generations'[p][t.slot] = t.generation, slots'[p][t.slot] # None
          PROVE  slots'[p][t.slot].call = t.of
      <3>1. CASE t = [owner |-> o, slot |-> idx, generation |-> generations[o][idx] + 1, of |-> c]
        <4>1. t.owner = o /\ t.slot = idx /\ t.of = c
          BY <3>1
        <4>2. QED
          BY <1>3, <1>5, <2>1, <4>1
      <3>2. CASE t \in tickets
        <4>1. /\ t.slot \in SlotIds /\ t.generation \in Nat /\ t.generation <= generations[p][t.slot]
          BY <1>0, <2>1, <3>2 DEF TypeOK, EntriesKept
        <4>2. ~(p = o /\ t.slot = idx)
          BY <1>2, <1>4, <2>1, <4>1
        <4>3. slots'[p][t.slot] = slots[p][t.slot] /\ generations'[p][t.slot] = generations[p][t.slot]
          BY <1>2, <2>1, <4>1, <4>2
        <4>4. Honoured(p, t)
          BY <2>1, <4>3 DEF Honoured
        <4>5. QED
          BY <1>0, <3>2, <4>3, <4>4 DEF OwnTicketOnly
      <3>3. QED
        BY <1>2, <3>1, <3>2
    <2>2. QED
      BY <2>1 DEF OwnTicketOnly, Honoured
  <1>16. OneEntryPerKey'
    <2>1. ASSUME NEW p \in Tables, NEW i \in Occupied(p)', NEW j \in Occupied(p)',
                 slots'[p][i].key = slots'[p][j].key
          PROVE  i = j
      <3>1. \A k \in Occupied(o)' : slots'[o][k].key = key => k = idx
        BY <1>6, <1>8 DEF WithKey
      <3>2. CASE p = o /\ (i = idx \/ j = idx)
        BY <1>3, <1>5, <2>1, <3>1, <3>2
      <3>3. CASE ~(p = o /\ (i = idx \/ j = idx))
        BY <1>0, <1>6, <2>1, <3>3 DEF OneEntryPerKey
      <3>4. QED
        BY <3>2, <3>3
    <2>2. QED
      BY <2>1 DEF OneEntryPerKey
  <1>17. QED
    BY <1>11, <1>13, <1>14, <1>15, <1>16 DEF GuardsSound

\* Only reply slots change.
RepliesOnly ==
    /\ UNCHANGED <<slots, generations, freeSlots, guard, tickets, drops>>
    /\ reply' \in [Calls -> {"Unasked", "Open", "Replied", "Closed", "Returned"}]
    /\ \A c \in Calls : reply'[c] # reply[c] =>
          reply'[c] # "Unasked" /\ (guard[c] = "Table" => reply'[c] \in {"Open", "Closed"})

\* That keeps the table sound.
LEMMA RepliesKeep ==
    ASSUME CapacityAssumption, GuardsSound, RepliesOnly
    PROVE  GuardsSound'
  <1>0. TypeOK /\ EntriesKept /\ GuardOnce /\ OwnTicketOnly /\ OneEntryPerKey
    BY DEF GuardsSound
  <1>1. /\ slots' = slots /\ generations' = generations /\ freeSlots' = freeSlots
        /\ guard' = guard /\ tickets' = tickets /\ drops' = drops
        /\ \A o : Occupied(o)' = Occupied(o)
    BY DEF RepliesOnly, Occupied
  <1>2. TypeOK'
    BY <1>0, <1>1 DEF TypeOK, RepliesOnly
  <1>3. GuardOnce' /\ OneEntryPerKey' /\ OwnTicketOnly'
    BY <1>0, <1>1 DEF GuardOnce, OneEntryPerKey, OwnTicketOnly, Honoured
  <1>4. EntriesKept'
    <2>1. ASSUME NEW o \in Tables, NEW i \in Occupied(o)
          PROVE  reply'[slots[o][i].call] \in {"Open", "Closed"}
      <3>1. slots[o][i].call \in Calls
        BY <1>0, SlotTypes
      <3>2. guard[slots[o][i].call] = "Table" /\ reply[slots[o][i].call] \in {"Open", "Closed"}
        BY <1>0, <3>1 DEF GuardOnce, EntriesKept
      <3>3. QED
        BY <3>1, <3>2 DEF RepliesOnly
    <2>2. \A c \in Calls : reply'[c] = "Unasked" => reply[c] = "Unasked"
      BY DEF RepliesOnly
    <2>3. QED
      BY <1>0, <1>1, <2>1, <2>2 DEF EntriesKept
  <1>5. QED
    BY <1>2, <1>3, <1>4 DEF GuardsSound

\* The table starts sound.
LEMMA TableStarts ==
    ASSUME CapacityAssumption, Init
    PROVE  GuardsSound
  <1>1. /\ slots = [o \in Tables |-> [i \in SlotIds |-> None]]
        /\ generations = [o \in Tables |-> [i \in SlotIds |-> 0]]
        /\ freeSlots = [o \in Tables |-> SlotIds]
        /\ reply = [c \in Calls |-> "Unasked"] /\ guard = [c \in Calls |-> "Service"]
        /\ tickets = {} /\ drops = [c \in Calls |-> 0]
    BY DEF Init
  <1>2. \A o \in Tables : Occupied(o) = {}
    BY <1>1 DEF Occupied
  <1>3. TypeOK
    <2> DEFINE row == [i \in SlotIds |-> None]
               ages == [i \in SlotIds |-> 0]
    <2>1. row \in [SlotIds -> Entry \cup {None}] /\ ages \in [SlotIds -> Nat]
      OBVIOUS
    <2>2. slots = [o \in Tables |-> row] /\ generations = [o \in Tables |-> ages]
      BY <1>1
    <2> HIDE DEF row, ages
    <2>3. QED
      BY <1>1, <2>1, <2>2 DEF TypeOK
  <1>4. EntriesKept /\ GuardOnce /\ OwnTicketOnly /\ OneEntryPerKey
    BY <1>1, <1>2 DEF EntriesKept, GuardOnce, OwnTicketOnly, OneEntryPerKey
  <1>5. QED
    BY <1>3, <1>4 DEF GuardsSound

\* Slots with a closed caller, or with a key, are occupied.
LEMMA PartsOfTable ==
    ASSUME NEW o
    PROVE  /\ ClosedSlots(o) \subseteq Occupied(o) /\ Swept(o) \subseteq Occupied(o)
           /\ \A key : WithKey(o, key) \subseteq Occupied(o)
  BY DEF ClosedSlots, Swept, WithKey

\* A reply slot that is set.
LEMMA ReplySet ==
    ASSUME TypeOK, NEW c \in Calls, NEW s \in {"Unasked", "Open", "Replied", "Closed", "Returned"}
    PROVE  /\ [reply EXCEPT ![c] = s] \in [Calls -> {"Unasked", "Open", "Replied", "Closed", "Returned"}]
           /\ \A x \in Calls : [reply EXCEPT ![c] = s][x] = IF x = c THEN s ELSE reply[x]
           /\ reply \in [Calls -> {"Unasked", "Open", "Replied", "Closed", "Returned"}]
  BY DEF TypeOK

\* The calls of one slot.
LEMMA OneCall ==
    ASSUME NEW o, NEW i
    PROVE  CallsIn(o, {i}) = {slots[o][i].call}
  BY DEF CallsIn

\* Each operation of the table is a removal, a store or a change of a reply slot.
LEMMA TableStep ==
    ASSUME CapacityAssumption, GuardsSound, [Next]_vars
    PROVE  GuardsSound'
  <1>0. TypeOK /\ EntriesKept /\ GuardOnce /\ OwnTicketOnly /\ OneEntryPerKey
    BY DEF GuardsSound
  <1>1. ASSUME NEW o \in Tables, Sweep(o) PROVE GuardsSound'
    <2>1. Removal(o, ClosedSlots(o), "Dropped")
      BY <1>0, <1>1, PartsOfTable DEF Sweep, Removal, TypeOK
    <2>2. QED
      BY <2>1, RemovalKeeps
  <1>2. ASSUME NEW o \in Tables, Drain(o) PROVE GuardsSound'
    <2>1. Removal(o, Occupied(o), "Service")
      BY <1>0, <1>2 DEF Drain, Removal, TypeOK
    <2>2. QED
      BY <2>1, RemovalKeeps
  <1>3. ASSUME NEW o \in Tables, NEW key \in Keys, TakeByKey(o, key) PROVE GuardsSound'
    <2>1. PICK i \in WithKey(o, key) : LetGo(CallsIn(o, {i}), "Service") /\ RemoveSlots(o, {i})
      BY <1>3 DEF TakeByKey
    <2>2. {i} \subseteq Occupied(o)
      BY <2>1, PartsOfTable
    <2>3. Removal(o, {i}, "Service")
      BY <1>0, <1>3, <2>1, <2>2 DEF TakeByKey, Removal, TypeOK
    <2>4. QED
      BY <2>3, RemovalKeeps
  <1>4. ASSUME NEW o \in Tables, NEW key \in Keys, NEW c \in Calls, Insert(o, key, c)
        PROVE  GuardsSound'
    <2>1. reply[c] = "Unasked" /\ guard[c] = "Service" /\ drops[c] = 0
      BY <1>0, <1>4 DEF Insert, EntriesKept
    <2>2. reply' = [reply EXCEPT ![c] = "Open"]
      BY <1>4 DEF Insert
    <2>3. /\ reply' \in [Calls -> {"Unasked", "Open", "Replied", "Closed", "Returned"}]
          /\ reply'[c] \in {"Open", "Closed"}
          /\ \A x \in Calls \ {c} : reply'[x] = reply[x]
      BY <1>0, <2>2, ReplySet
    <2>4. Storage(o, key, c, Swept(o))
      BY <1>4, <2>1, <2>3, PartsOfTable DEF Insert, Storage, DuplicateKey
    <2>5. QED
      BY <2>4, StorageKeeps
  <1>5. ASSUME NEW o \in Tables, NEW key \in Keys, NEW c \in Calls, InsertRefused(o, key, c)
        PROVE  GuardsSound'
    <2>1. reply[c] = "Unasked" /\ guard[c] = "Service"
      BY <1>0, <1>5 DEF InsertRefused, EntriesKept
    <2>2. /\ reply' = [reply EXCEPT ![c] = "Returned"] /\ tickets' = tickets
          /\ LetGo(CallsIn(o, Swept(o)), "Dropped") /\ RemoveSlots(o, Swept(o))
      BY <1>5 DEF InsertRefused
    <2>3. guard'[c] # "Table"
      BY <2>1, <2>2 DEF LetGo
    <2>4. /\ reply' \in [Calls -> {"Unasked", "Open", "Replied", "Closed", "Returned"}]
          /\ \A x \in Calls : reply'[x] # reply[x] => x = c /\ reply'[x] = "Returned"
      BY <1>0, <2>2, ReplySet
    <2>5. Removal(o, Swept(o), "Dropped")
      BY <2>2, <2>3, <2>4, PartsOfTable DEF Removal
    <2>6. QED
      BY <2>5, RemovalKeeps
  <1>6. ASSUME NEW o \in Tables, NEW t \in tickets, NEW to \in {"Service", "Dropped"},
               TakeTicket(o, t, to)
        PROVE  GuardsSound'
    <2>0. tickets' = tickets \ {t}
      BY <1>6 DEF TakeTicket
    <2>1. CASE Honoured(o, t)
      <3> DEFINE c == slots[o][t.slot].call
      <3>1. t.slot \in Occupied(o) /\ c \in Calls
        BY <1>0, <2>1, SlotTypes DEF TypeOK, Honoured
      <3>2. /\ LetGo({c}, to) /\ RemoveSlots(o, {t.slot})
            /\ reply' = IF to = "Dropped" /\ reply[c] = "Open"
                        THEN [reply EXCEPT ![c] = "Replied"] ELSE reply
        BY <1>6, <2>1 DEF TakeTicket
      <3>3. CallsIn(o, {t.slot}) = {c}
        BY OneCall
      <3> HIDE DEF c
      <3>4. guard'[c] # "Table"
        BY <3>1, <3>2 DEF LetGo
      <3>5. /\ reply' \in [Calls -> {"Unasked", "Open", "Replied", "Closed", "Returned"}]
            /\ \A x \in Calls : reply'[x] # reply[x] => x = c /\ reply'[x] = "Replied"
        BY <1>0, <3>1, <3>2, ReplySet
      <3>6. Removal(o, {t.slot}, to)
        BY <2>0, <3>1, <3>2, <3>3, <3>4, <3>5 DEF Removal
      <3>7. QED
        BY <3>6, RemovalKeeps
    <2>2. CASE ~Honoured(o, t)
      <3>1. /\ slots' = slots /\ generations' = generations /\ freeSlots' = freeSlots
            /\ reply' = reply /\ guard' = guard /\ drops' = drops
        BY <1>6, <2>2 DEF TakeTicket
      <3>2. QED
        BY <1>0, <2>0, <3>1 DEF GuardsSound, TypeOK, EntriesKept, GuardOnce, OwnTicketOnly,
              OneEntryPerKey, Occupied, Honoured
    <2>3. QED
      BY <2>1, <2>2
  <1>7. ASSUME NEW c \in Calls, CallerGone(c) PROVE GuardsSound'
    <2>1. reply' = [reply EXCEPT ![c] = "Closed"]
      BY <1>7 DEF CallerGone
    <2>2. RepliesOnly
      BY <1>0, <1>7, <2>1, ReplySet DEF CallerGone, RepliesOnly
    <2>3. QED
      BY <2>2, RepliesKeep
  <1>8. CASE UNCHANGED vars
    <2>1. RepliesOnly
      BY <1>0, <1>8 DEF vars, RepliesOnly, TypeOK
    <2>2. QED
      BY <2>1, RepliesKeep
  <1>9. QED
    BY <1>1, <1>2, <1>3, <1>4, <1>5, <1>6, <1>7, <1>8 DEF Next

\* For any number of tables, callers and keys and any capacity: each key has
\* one entry, only the entry's own ticket opens it, the free stack is exactly
\* the empty slots and every guard is let go of once, whatever order the
\* inserts, sweeps, takes, replies, drains and lost callers of
\* GuardedPendingReplies come in.
THEOREM TablesStaySound == CapacityAssumption => (Spec => []GuardsSound)
  <1> SUFFICES ASSUME CapacityAssumption PROVE Spec => []GuardsSound
    OBVIOUS
  <1>1. Init => GuardsSound
    BY TableStarts
  <1>2. GuardsSound /\ [Next]_vars => GuardsSound'
    BY TableStep
  <1>3. QED
    BY <1>1, <1>2, PTL DEF Spec

-----------------------------------------------------------------------------
(* The owner.                                                              *)

\* The sizes of the parts of a table.
LEMMA PartSizes ==
    ASSUME CapacityAssumption, TypeOK, NEW o \in Tables, NEW part, part \subseteq Occupied(o)
    PROVE  /\ IsFiniteSet(part) /\ IsFiniteSet(Occupied(o)) /\ IsFiniteSet(SlotIds)
           /\ Cardinality(part) \in Nat /\ Cardinality(Occupied(o)) \in Nat
           /\ Cardinality(part) <= Cardinality(Occupied(o))
           /\ Cardinality(SlotIds) = Capacity
  <1>1. Capacity \in Nat \ {0}
    BY DEF CapacityAssumption
  <1>2. IsFiniteSet(SlotIds) /\ Cardinality(SlotIds) = Capacity
    <2>1. IsFiniteSet(0 .. (Capacity - 1))
          /\ Cardinality(0 .. (Capacity - 1)) = IF 0 > Capacity - 1 THEN 0 ELSE (Capacity - 1) - 0 + 1
      BY <1>1, FS_Interval
    <2>2. QED
      BY <1>1, <2>1 DEF SlotIds
  <1>3. Occupied(o) \subseteq SlotIds
    BY SlotTypes
  <1>4. IsFiniteSet(Occupied(o))
    BY <1>2, <1>3, FS_Subset
  <1>5. IsFiniteSet(part) /\ Cardinality(part) <= Cardinality(Occupied(o))
    BY <1>4, FS_Subset
  <1>6. Cardinality(part) \in Nat /\ Cardinality(Occupied(o)) \in Nat
    BY <1>4, <1>5, FS_CardinalityType
  <1>7. QED
    BY <1>2, <1>4, <1>5, <1>6

\* How many callers are parked after a removal.
LEMMA RemovalCounts ==
    ASSUME CapacityAssumption, TypeOK, NEW o \in Tables, NEW gone, gone \subseteq Occupied(o),
           RemoveSlots(o, gone)
    PROVE  /\ Cardinality(Occupied(o)') = Cardinality(Occupied(o)) - Cardinality(gone)
           /\ \A p \in Tables \ {o} : Occupied(p)' = Occupied(p)
  <1>1. \A p \in Tables : Occupied(p)' = IF p = o THEN Occupied(p) \ gone ELSE Occupied(p)
    BY RemovedSlots
  <1>2. IsFiniteSet(Occupied(o)) /\ IsFiniteSet(gone)
    BY PartSizes
  <1>3. Cardinality(Occupied(o) \ gone) = Cardinality(Occupied(o)) - Cardinality(Occupied(o) \cap gone)
    BY <1>2, FS_Difference
  <1>4. Occupied(o) \cap gone = gone
    OBVIOUS
  <1>5. QED
    BY <1>1, <1>3, <1>4

\* And after a store that swept nothing.
LEMMA StorageCounts ==
    ASSUME CapacityAssumption, TypeOK, NEW o \in Tables, NEW key \in Keys, NEW c \in Calls,
           freeSlots[o] = SlotIds \ Occupied(o), StoreEntry(o, key, c, {})
    PROVE  /\ Cardinality(Occupied(o)') = Cardinality(Occupied(o)) + 1
           /\ \A p \in Tables \ {o} : Occupied(p)' = Occupied(p)
  <1>1. PICK idx \in SlotIds : Stored(o, key, c, {}, idx)
    BY StoredSlots
  <1>2. /\ idx \notin Occupied(o) \ {}
        /\ \A p \in Tables : Occupied(p)' = IF p = o THEN (Occupied(p) \ {}) \cup {idx} ELSE Occupied(p)
    BY <1>1 DEF Stored
  <1>3. idx \notin Occupied(o) /\ Occupied(o)' = Occupied(o) \cup {idx}
    BY <1>2
  <1>4. IsFiniteSet(Occupied(o))
    BY PartSizes
  <1>5. Cardinality(Occupied(o) \cup {idx}) = Cardinality(Occupied(o)) + 1
    BY <1>3, <1>4, FS_AddElement
  <1>6. QED
    BY <1>2, <1>3, <1>5

\* A table without a free slot holds Capacity callers.
LEMMA FullTable ==
    ASSUME CapacityAssumption, TypeOK, NEW o \in Tables,
           freeSlots[o] = SlotIds \ Occupied(o), freeSlots[o] = {}
    PROVE  Cardinality(Occupied(o)) = Capacity
  <1>1. Occupied(o) = SlotIds
    BY SlotTypes
  <1>2. QED
    BY <1>1, PartSizes

\* The permits and the ledger after a step of one owner, whose counts change by
\* what was granted, completed and retired, with one more caller answered for
\* each permit that is completed.
LEMMA CountsKeep ==
    ASSUME PermitsBalance, NEW o \in Tables, NEW g \in Nat, NEW d \in {0, 1}, NEW r \in Nat,
           granted' = [granted EXCEPT ![o] = @ + g],
           completed' = [completed EXCEPT ![o] = @ + d],
           retired' = [retired EXCEPT ![o] = @ + r],
           d + r <= charged[o] + g,
           charged' = [charged EXCEPT ![o] = @ + g - d - r],
           closed' \in [Tables -> BOOLEAN],
           Cardinality(Occupied(o)') = Cardinality(Occupied(o)) + g - d - r,
           \A p \in Tables \ {o} : Occupied(p)' = Occupied(p),
           lastKey'.why # "PendingFull",
           IF d = 0 THEN Answered' = Answered
           ELSE \E c : c \notin Answered /\ Answered' = Answered \cup {c}
    PROVE  LimitTypeOK' /\ LedgerTrue' /\ PermitMeansSlot'
  <1>0. LimitTypeOK /\ LedgerTrue /\ PermitMeansSlot
    BY DEF PermitsBalance
  <1>1. /\ charged \in [Tables -> Nat] /\ granted \in [Tables -> Nat]
        /\ completed \in [Tables -> Nat] /\ retired \in [Tables -> Nat]
        /\ \A p \in Tables : granted[p] = completed[p] + retired[p] + charged[p]
        /\ \A p \in Tables : charged[p] = Cardinality(Occupied(p))
    BY <1>0 DEF LimitTypeOK, LedgerTrue, PermitMeansSlot
  <1>2. /\ charged[o] \in Nat /\ granted[o] \in Nat /\ completed[o] \in Nat /\ retired[o] \in Nat
        /\ d \in Nat /\ charged[o] + g - d - r \in Nat
    BY <1>1
  <1>3. /\ granted' \in [Tables -> Nat] /\ granted'[o] = granted[o] + g
        /\ \A p \in Tables \ {o} : granted'[p] = granted[p]
    BY <1>1, <1>2
  <1>4. /\ completed' \in [Tables -> Nat] /\ completed'[o] = completed[o] + d
        /\ \A p \in Tables \ {o} : completed'[p] = completed[p]
    BY <1>1, <1>2
  <1>5. /\ retired' \in [Tables -> Nat] /\ retired'[o] = retired[o] + r
        /\ \A p \in Tables \ {o} : retired'[p] = retired[p]
    BY <1>1, <1>2
  <1>6. /\ charged' \in [Tables -> Nat] /\ charged'[o] = charged[o] + g - d - r
        /\ \A p \in Tables \ {o} : charged'[p] = charged[p]
    BY <1>1, <1>2
  <1>7. LimitTypeOK'
    BY <1>3, <1>4, <1>5, <1>6 DEF LimitTypeOK
  <1>8. PermitMeansSlot'
    <2>1. \A p \in Tables : charged'[p] = Cardinality(Occupied(p)')
      <3>1. ASSUME NEW p \in Tables PROVE charged'[p] = Cardinality(Occupied(p)')
        <4>1. CASE p = o
          BY <1>1, <1>6, <4>1
        <4>2. CASE p # o
          BY <1>1, <1>6, <4>2
        <4>3. QED
          BY <4>1, <4>2
      <3>2. QED
        BY <3>1
    <2>2. QED
      BY <2>1 DEF PermitMeansSlot
  <1>9. \A p \in Tables : granted'[p] = completed'[p] + retired'[p] + charged'[p]
    <2>1. ASSUME NEW p \in Tables PROVE granted'[p] = completed'[p] + retired'[p] + charged'[p]
      <3>1. CASE p = o
        BY <1>1, <1>2, <1>3, <1>4, <1>5, <1>6, <3>1
      <3>2. CASE p # o
        BY <1>1, <1>3, <1>4, <1>5, <1>6, <3>2
      <3>3. QED
        BY <3>1, <3>2
    <2>2. QED
      BY <2>1
  <1>10. /\ IsFiniteSet(Answered) /\ IsFiniteSet(Completions)
         /\ Cardinality(Answered) = Cardinality(Completions)
    BY <1>0 DEF LedgerTrue
  <1>11. \A x : x \in Completions <=> \E p \in Tables : \E k \in 1 .. completed[p] : x = <<p, k>>
    BY DEF Completions
  <1>12. \A x : x \in Completions' <=> \E p \in Tables : \E k \in 1 .. completed'[p] : x = <<p, k>>
    BY DEF Completions
  <1>13. /\ IsFiniteSet(Answered') /\ IsFiniteSet(Completions')
         /\ Cardinality(Answered') = Cardinality(Completions')
    <2>1. CASE d = 0
      <3>1. \A p \in Tables : completed'[p] = completed[p]
        BY <1>2, <1>4, <2>1
      <3>2. Completions' = Completions
        BY <1>11, <1>12, <3>1
      <3>3. QED
        BY <1>10, <2>1, <3>2
    <2>2. CASE d = 1
      <3>1. PICK c : c \notin Answered /\ Answered' = Answered \cup {c}
        BY <2>2
      <3> DEFINE new == <<o, completed[o] + 1>>
      <3>2. new \notin Completions
        BY <1>2, <1>11
      <3>3. Completions' = Completions \cup {new}
        <4>1. ASSUME NEW x \in Completions' PROVE x \in Completions \cup {new}
          <5>1. PICK p \in Tables : \E k \in 1 .. completed'[p] : x = <<p, k>>
            BY <1>12
          <5>2. PICK k \in 1 .. completed'[p] : x = <<p, k>>
            BY <5>1
          <5>3. CASE k \in 1 .. completed[p]
            BY <1>11, <5>2, <5>3
          <5>4. CASE k \notin 1 .. completed[p]
            <6>1. p = o
              BY <1>4, <5>2, <5>4
            <6>2. k = completed[o] + 1
              BY <1>2, <1>4, <2>2, <5>2, <5>4, <6>1
            <6>3. QED
              BY <5>2, <6>1, <6>2
          <5>5. QED
            BY <5>3, <5>4
        <4>2. ASSUME NEW x \in Completions PROVE x \in Completions'
          <5>1. PICK p \in Tables : \E k \in 1 .. completed[p] : x = <<p, k>>
            BY <1>11
          <5>2. PICK k \in 1 .. completed[p] : x = <<p, k>>
            BY <5>1
          <5>3. 1 .. completed[p] \subseteq 1 .. completed'[p]
            BY <1>1, <1>2, <1>4, <2>2
          <5>4. QED
            BY <1>12, <5>2, <5>3
        <4>3. new \in Completions'
          <5>1. completed[o] + 1 \in 1 .. completed'[o]
            BY <1>2, <1>4, <2>2
          <5>2. QED
            BY <1>12, <5>1
        <4>4. QED
          BY <4>1, <4>2, <4>3
      <3> HIDE DEF new
      <3>4. /\ IsFiniteSet(Answered \cup {c}) /\ IsFiniteSet(Completions \cup {new})
            /\ Cardinality(Answered \cup {c}) = Cardinality(Answered) + 1
            /\ Cardinality(Completions \cup {new}) = Cardinality(Completions) + 1
        BY <1>10, <3>1, <3>2, FS_AddElement
      <3>5. QED
        BY <1>10, <3>1, <3>3, <3>4
    <2>3. QED
      BY <2>1, <2>2
  <1>14. QED
    BY <1>7, <1>8, <1>9, <1>13 DEF LedgerTrue

\* Nothing that is counted changes.
LEMMA CountsStand ==
    ASSUME PermitsBalance, UNCHANGED <<charged, granted, completed, retired>>,
           closed' \in [Tables -> BOOLEAN], slots' = slots,
           lastKey'.why # "PendingFull", Answered' = Answered
    PROVE  LimitTypeOK' /\ LedgerTrue' /\ PermitMeansSlot'
  <1>0. LimitTypeOK /\ LedgerTrue /\ PermitMeansSlot
    BY DEF PermitsBalance
  <1>1. /\ charged' = charged /\ granted' = granted /\ completed' = completed /\ retired' = retired
        /\ Completions' = Completions /\ \A p : Occupied(p)' = Occupied(p)
    BY DEF Completions, Occupied
  <1>2. QED
    BY <1>0, <1>1 DEF LimitTypeOK, LedgerTrue, PermitMeansSlot

\* Entries leave a table and their permits are retired.
LEMMA RetireKeeps ==
    ASSUME CapacityAssumption, TypeOK, PermitsBalance, NEW o \in Tables, NEW gone,
           gone \subseteq Occupied(o), RemoveSlots(o, gone), Retire(o, Cardinality(gone)),
           lastKey' = lastKey, Answered' = Answered
    PROVE  LimitTypeOK' /\ LedgerTrue' /\ PermitMeansSlot'
  <1> DEFINE n == Cardinality(gone)
  <1>1. n \in Nat /\ n <= Cardinality(Occupied(o)) /\ Cardinality(Occupied(o)) \in Nat
    BY PartSizes
  <1>2. /\ charged \in [Tables -> Nat] /\ granted \in [Tables -> Nat]
        /\ completed \in [Tables -> Nat] /\ retired \in [Tables -> Nat]
        /\ closed \in [Tables -> BOOLEAN]
        /\ charged[o] = Cardinality(Occupied(o)) /\ lastKey.why # "PendingFull"
    BY DEF PermitsBalance, LimitTypeOK, PermitMeansSlot
  <1>3. /\ charged' = [charged EXCEPT ![o] = @ - n] /\ retired' = [retired EXCEPT ![o] = @ + n]
        /\ closed' = closed /\ completed' = completed /\ granted' = granted
    BY DEF Retire
  <1>4. /\ Cardinality(Occupied(o)') = Cardinality(Occupied(o)) - n
        /\ \A p \in Tables \ {o} : Occupied(p)' = Occupied(p)
    BY RemovalCounts
  <1> HIDE DEF n
  <1>5. /\ granted' = [granted EXCEPT ![o] = @ + 0] /\ completed' = [completed EXCEPT ![o] = @ + 0]
        /\ charged' = [charged EXCEPT ![o] = @ + 0 - 0 - n]
    <2>1. charged[o] \in Nat /\ charged[o] + 0 - 0 - n = charged[o] - n
      BY <1>1, <1>2
    <2>2. completed[o] \in Nat /\ completed[o] + 0 = completed[o]
      BY <1>2
    <2>3. granted[o] \in Nat /\ granted[o] + 0 = granted[o]
      BY <1>2
    <2>4. charged' = [charged EXCEPT ![o] = @ + 0 - 0 - n]
      BY <1>3, <2>1
    <2>5. granted' = [granted EXCEPT ![o] = @ + 0]
      BY <1>2, <1>3, <2>3
    <2>6. completed' = [completed EXCEPT ![o] = @ + 0]
      BY <1>2, <1>3, <2>2
    <2>7. QED
      BY <2>4, <2>5, <2>6
  <1>6. /\ 0 + n <= charged[o] + 0 /\ closed' \in [Tables -> BOOLEAN] /\ lastKey'.why # "PendingFull"
        /\ Cardinality(Occupied(o)') = Cardinality(Occupied(o)) + 0 - 0 - n
    BY <1>1, <1>2, <1>3, <1>4
  <1>7. QED
    BY <1>1, <1>3, <1>4, <1>5, <1>6, CountsKeep

\* An entry leaves a table, is answered, and its permit is completed.
LEMMA ReleaseKeeps ==
    ASSUME CapacityAssumption, TypeOK, PermitsBalance, NEW o \in Tables, NEW i \in Occupied(o),
           RemoveSlots(o, {i}), Release(o), lastKey' = lastKey,
           NEW c, c \notin Answered, Answered' = Answered \cup {c}
    PROVE  LimitTypeOK' /\ LedgerTrue' /\ PermitMeansSlot'
  <1>1. Cardinality({i}) = 1 /\ 1 <= Cardinality(Occupied(o)) /\ Cardinality(Occupied(o)) \in Nat
    <2>1. Cardinality({i}) = 1
      BY FS_Singleton
    <2>2. {i} \subseteq Occupied(o)
      OBVIOUS
    <2>3. QED
      BY <2>1, <2>2, PartSizes
  <1>2. /\ charged \in [Tables -> Nat] /\ granted \in [Tables -> Nat]
        /\ completed \in [Tables -> Nat] /\ retired \in [Tables -> Nat]
        /\ closed \in [Tables -> BOOLEAN]
        /\ charged[o] = Cardinality(Occupied(o)) /\ lastKey.why # "PendingFull"
    BY DEF PermitsBalance, LimitTypeOK, PermitMeansSlot
  <1>3. /\ charged' = [charged EXCEPT ![o] = @ - 1] /\ completed' = [completed EXCEPT ![o] = @ + 1]
        /\ closed' = closed /\ retired' = retired /\ granted' = granted
    BY DEF Release
  <1>4. /\ Cardinality(Occupied(o)') = Cardinality(Occupied(o)) - 1
        /\ \A p \in Tables \ {o} : Occupied(p)' = Occupied(p)
    <2>1. {i} \subseteq Occupied(o)
      OBVIOUS
    <2>2. QED
      BY <1>1, <2>1, RemovalCounts
  <1>5. /\ granted' = [granted EXCEPT ![o] = @ + 0] /\ retired' = [retired EXCEPT ![o] = @ + 0]
        /\ charged' = [charged EXCEPT ![o] = @ + 0 - 1 - 0]
    <2>1. charged[o] \in Nat /\ charged[o] + 0 - 1 - 0 = charged[o] - 1
      BY <1>2
    <2>2. retired[o] \in Nat /\ retired[o] + 0 = retired[o]
      BY <1>2
    <2>3. granted[o] \in Nat /\ granted[o] + 0 = granted[o]
      BY <1>2
    <2>4. charged' = [charged EXCEPT ![o] = @ + 0 - 1 - 0]
      BY <1>3, <2>1
    <2>5. granted' = [granted EXCEPT ![o] = @ + 0]
      BY <1>2, <1>3, <2>3
    <2>6. retired' = [retired EXCEPT ![o] = @ + 0]
      BY <1>2, <1>3, <2>2
    <2>7. QED
      BY <2>4, <2>5, <2>6
  <1>6. /\ 1 + 0 <= charged[o] + 0 /\ closed' \in [Tables -> BOOLEAN] /\ lastKey'.why # "PendingFull"
        /\ Cardinality(Occupied(o)') = Cardinality(Occupied(o)) + 0 - 1 - 0
    BY <1>1, <1>2, <1>3, <1>4
  <1>7. IF 1 = 0 THEN Answered' = Answered ELSE \E x : x \notin Answered /\ Answered' = Answered \cup {x}
    OBVIOUS
  <1>8. QED
    BY <1>3, <1>4, <1>5, <1>6, <1>7, CountsKeep

\* What an owner's step keeps.
OwnerInv == GuardsSound /\ PermitsBalance

\* The parts of it.
LEMMA OwnerParts ==
    ASSUME OwnerAssumption, OwnerInv
    PROVE  /\ CapacityAssumption /\ GuardsSound /\ PermitsBalance
           /\ TypeOK /\ EntriesKept /\ GuardOnce /\ LimitTypeOK /\ InsertKept /\ PermitMeansSlot
           /\ lastKey.why # "PendingFull" /\ closed \in [Tables -> BOOLEAN]
           /\ reply \in [Calls -> {"Unasked", "Open", "Replied", "Closed", "Returned"}]
  BY DEF OwnerAssumption, OwnerInv, GuardsSound, PermitsBalance, PermitMeansSlot, LimitTypeOK, TypeOK

\* An entry's caller has a used reply slot that was not answered, and its guard
\* is in the table.
LEMMA ParkedCaller ==
    ASSUME OwnerAssumption, OwnerInv, NEW o \in Tables, NEW i \in Occupied(o)
    PROVE  /\ slots[o][i].call \in Calls /\ guard[slots[o][i].call] = "Table"
           /\ reply[slots[o][i].call] \in {"Open", "Closed"}
  BY OwnerParts, SlotTypes DEF EntriesKept, GuardOnce

\* sweep, retire_by_key and drain: entries leave and their permits are retired.
LEMMA RetirementKeeps ==
    ASSUME OwnerAssumption, OwnerInv, NEW o \in Tables, NEW gone, gone \subseteq Occupied(o),
           NEW to \in {"Service", "Dropped"}, LetGo(CallsIn(o, gone), to), RemoveSlots(o, gone),
           Retire(o, Cardinality(gone)), reply' = reply, tickets' \subseteq tickets,
           lastKey' = lastKey, inserting = None, inserting' = None
    PROVE  OwnerInv'
  <1>1. Removal(o, gone, to)
    BY OwnerParts DEF Removal
  <1>2. GuardsSound'
    BY <1>1, OwnerParts, RemovalKeeps
  <1>3. Answered' = Answered
    BY DEF Answered
  <1>4. LimitTypeOK' /\ LedgerTrue' /\ PermitMeansSlot'
    BY <1>3, OwnerParts, RetireKeeps
  <1>5. QED
    BY <1>2, <1>4 DEF OwnerInv, PermitsBalance, InsertKept

\* reply_ticket and reply_by_key on an entry: released and answered, or retired.
LEMMA SettleKeeps ==
    ASSUME OwnerAssumption, OwnerInv, NEW o \in Tables, NEW i \in Occupied(o), SettleTaken(o, i),
           tickets' \subseteq tickets, lastKey' = lastKey, inserting = None, inserting' = None
    PROVE  OwnerInv'
  <1> DEFINE c == slots[o][i].call
  <1>1. c \in Calls /\ guard[c] = "Table" /\ reply[c] \in {"Open", "Closed"}
    BY ParkedCaller
  <1>2. /\ LetGo({c}, "Dropped") /\ RemoveSlots(o, {i})
        /\ reply[c] = "Closed" => Retire(o, 1) /\ reply' = reply
        /\ reply[c] # "Closed" => Release(o) /\ reply' = [reply EXCEPT ![c] = "Replied"]
    BY DEF SettleTaken
  <1>3. CallsIn(o, {i}) = {c} /\ {i} \subseteq Occupied(o)
    BY OneCall
  <1> HIDE DEF c
  <1>4. CASE reply[c] = "Closed"
    <2>1. Cardinality({i}) = 1
      BY FS_Singleton
    <2>2. LetGo(CallsIn(o, {i}), "Dropped") /\ Retire(o, Cardinality({i})) /\ reply' = reply
      BY <1>2, <1>3, <1>4, <2>1
    <2>3. QED
      BY <1>2, <1>3, <2>2, RetirementKeeps
  <1>5. CASE reply[c] # "Closed"
    <2>1. reply' = [reply EXCEPT ![c] = "Replied"] /\ Release(o)
      BY <1>2, <1>5
    <2>2. /\ reply' \in [Calls -> {"Unasked", "Open", "Replied", "Closed", "Returned"}]
          /\ \A x \in Calls : reply'[x] = IF x = c THEN "Replied" ELSE reply[x]
      BY <1>1, <2>1, OwnerParts, ReplySet
    <2>3. guard'[c] # "Table"
      BY <1>1, <1>2 DEF LetGo
    <2>4. Removal(o, {i}, "Dropped")
      BY <1>2, <1>3, <2>2, <2>3 DEF Removal
    <2>5. GuardsSound'
      BY <2>4, OwnerParts, RemovalKeeps
    <2>6. c \notin Answered /\ Answered' = Answered \cup {c}
      BY <1>1, <2>2 DEF Answered
    <2>7. LimitTypeOK' /\ LedgerTrue' /\ PermitMeansSlot'
      BY <1>2, <2>1, <2>6, OwnerParts, ReleaseKeeps
    <2>8. QED
      BY <2>5, <2>7 DEF OwnerInv, PermitsBalance, InsertKept
  <1>6. QED
    BY <1>4, <1>5

\* An insert that stores nothing.
LEMMA GiveBackKeeps ==
    ASSUME OwnerAssumption, OwnerInv, inserting # None, NEW why, why # "PendingFull", GiveBack(why),
           closed' \in [Tables -> BOOLEAN], UNCHANGED <<charged, granted, completed, retired>>
    PROVE  OwnerInv'
  <1> DEFINE c == inserting.call
  <1>1. c \in Calls /\ reply[c] \in {"Open", "Closed"} /\ guard[c] = "Service"
    BY OwnerParts DEF InsertKept
  <1>2. /\ reply' = [reply EXCEPT ![c] = "Returned"] /\ inserting' = None /\ lastKey'.why = why
        /\ UNCHANGED <<slots, generations, freeSlots, guard, tickets, drops>>
    BY DEF GiveBack
  <1> HIDE DEF c
  <1>3. /\ reply' \in [Calls -> {"Unasked", "Open", "Replied", "Closed", "Returned"}]
        /\ \A x \in Calls : reply'[x] = IF x = c THEN "Returned" ELSE reply[x]
    BY <1>1, <1>2, OwnerParts, ReplySet
  <1>4. RepliesOnly
    BY <1>1, <1>2, <1>3 DEF RepliesOnly
  <1>5. GuardsSound'
    BY <1>4, OwnerParts, RepliesKeep
  <1>6. Answered' = Answered
    BY <1>1, <1>3 DEF Answered
  <1>7. LimitTypeOK' /\ LedgerTrue' /\ PermitMeansSlot'
    BY <1>2, <1>6, OwnerParts, CountsStand
  <1>8. QED
    BY <1>2, <1>5, <1>7 DEF OwnerInv, PermitsBalance, InsertKept

\* The rest of an insert that was admitted.
LEMMA AdmittedKeeps ==
    ASSUME OwnerAssumption, OwnerInv, InsertAdmitted
    PROVE  OwnerInv'
  <1>0. PICK o \in Tables, key \in Keys, c \in Calls :
           o = inserting.owner /\ key = inserting.key /\ c = inserting.call
    BY OwnerParts DEF InsertAdmitted, InsertKept
  <1>1. reply[c] \in {"Open", "Closed"} /\ guard[c] = "Service" /\ drops[c] = 0
    BY <1>0, OwnerParts DEF InsertAdmitted, InsertKept
  <1>2. /\ WithKey(o, key) = {} /\ ~closed[o] /\ charged[o] < Capacity
        /\ granted' = [granted EXCEPT ![o] = @ + 1]
        /\ closed' = closed /\ completed' = completed
        /\ freeSlots[o] # {} =>
              /\ StoreEntry(o, key, c, {})
              /\ guard' = [guard EXCEPT ![c] = "Table"]
              /\ charged' = [charged EXCEPT ![o] = @ + 1]
              /\ inserting' = None
              /\ lastKey' = [why |-> "Stored", live |-> TRUE]
              /\ reply' = reply /\ drops' = drops /\ retired' = retired
    BY <1>0 DEF InsertAdmitted
  <1>3. freeSlots[o] = SlotIds \ Occupied(o) /\ charged[o] = Cardinality(Occupied(o))
    BY <1>1, OwnerParts DEF GuardOnce, PermitMeansSlot
  <1>4. freeSlots[o] # {}
    <2>1. freeSlots[o] = {} => Cardinality(Occupied(o)) = Capacity
      BY <1>1, <1>3, OwnerParts, FullTable
    <2>2. Capacity \in Nat
      BY OwnerParts DEF CapacityAssumption
    <2>3. QED
      BY <1>2, <1>3, <2>1, <2>2
  <1>5. GuardsSound'
    <2>1. CallsIn(o, {}) = {}
      BY DEF CallsIn
    <2>2. guard \in [Calls -> {"Service", "Table", "Dropped"}] /\ drops \in [Calls -> Nat]
      BY OwnerParts DEF TypeOK
    <2>3. guard' = [x \in Calls |-> IF x = c THEN "Table"
                                    ELSE IF x \in CallsIn(o, {}) THEN "Dropped" ELSE guard[x]]
      BY <1>1, <1>2, <1>4, <2>1, <2>2
    <2>4. drops' = [x \in Calls |-> IF x \in CallsIn(o, {}) THEN drops[x] + 1 ELSE drops[x]]
      BY <1>2, <1>4, <2>1, <2>2
    <2>5. Storage(o, key, c, {})
      BY <1>1, <1>2, <1>4, <2>3, <2>4, OwnerParts DEF Storage
    <2>6. QED
      BY <1>1, <2>5, OwnerParts, StorageKeeps
  <1>6. LimitTypeOK' /\ LedgerTrue' /\ PermitMeansSlot'
    <2>1. /\ Cardinality(Occupied(o)') = Cardinality(Occupied(o)) + 1
          /\ \A p \in Tables \ {o} : Occupied(p)' = Occupied(p)
      <3>1. CapacityAssumption /\ TypeOK
        BY OwnerParts
      <3>2. StoreEntry(o, key, c, {})
        BY <1>2, <1>4
      <3>3. QED
        BY <1>1, <1>3, <3>1, <3>2, StorageCounts
    <2>2. /\ charged \in [Tables -> Nat] /\ completed \in [Tables -> Nat] /\ retired \in [Tables -> Nat]
          /\ charged[o] \in Nat
      BY <1>1, OwnerParts DEF LimitTypeOK
    <2>3. /\ completed' = [completed EXCEPT ![o] = @ + 0] /\ retired' = [retired EXCEPT ![o] = @ + 0]
          /\ charged' = [charged EXCEPT ![o] = @ + 1 - 0 - 0]
      BY <1>1, <1>2, <1>4, <2>2
    <2>4. /\ 0 + 0 <= charged[o] + 1 /\ closed' \in [Tables -> BOOLEAN] /\ lastKey'.why # "PendingFull"
          /\ Cardinality(Occupied(o)') = Cardinality(Occupied(o)) + 1 - 0 - 0
      BY <1>2, <1>3, <1>4, <2>1, <2>2, OwnerParts
    <2>5. Answered' = Answered
      BY <1>2, <1>4 DEF Answered
    <2>6. PermitsBalance /\ granted' = [granted EXCEPT ![o] = @ + 1]
      BY <1>2, OwnerParts
    <2>7. 1 \in Nat /\ 0 \in Nat /\ 0 \in {0, 1}
      OBVIOUS
    <2>8. IF 0 = 0 THEN Answered' = Answered ELSE \E x : x \notin Answered /\ Answered' = Answered \cup {x}
      BY <2>5
    <2>9. QED
      BY <2>1, <2>3, <2>4, <2>6, <2>7, <2>8, CountsKeep
  <1>7. QED
    BY <1>2, <1>4, <1>5, <1>6 DEF OwnerInv, PermitsBalance, InsertKept

\* The sweep at the start of an insert.
LEMMA BeginKeeps ==
    ASSUME OwnerAssumption, OwnerInv, NEW o \in Tables, NEW key \in Keys, NEW c \in Calls,
           BeginInsert(o, key, c)
    PROVE  OwnerInv'
  <1> DEFINE gone == ClosedSlots(o)
  <1>1. /\ reply[c] = "Unasked" /\ guard[c] = "Service" /\ drops[c] = 0
    BY OwnerParts DEF BeginInsert, EntriesKept
  <1>2. /\ LetGo(CallsIn(o, gone), "Dropped") /\ RemoveSlots(o, gone) /\ Retire(o, Cardinality(gone))
        /\ inserting' = [owner |-> o, key |-> key, call |-> c]
        /\ reply' = [reply EXCEPT ![c] = "Open"] /\ tickets' = tickets /\ lastKey' = lastKey
    BY DEF BeginInsert, Reclaim
  <1>3. gone \subseteq Occupied(o)
    BY PartsOfTable
  <1> HIDE DEF gone
  <1>4. /\ reply' \in [Calls -> {"Unasked", "Open", "Replied", "Closed", "Returned"}]
        /\ \A x \in Calls : reply'[x] = IF x = c THEN "Open" ELSE reply[x]
    BY <1>2, OwnerParts, ReplySet
  <1>5. c \notin CallsIn(o, gone)
    BY <1>1, <1>3, ParkedCaller DEF CallsIn
  <1>6. guard'[c] = "Service" /\ drops'[c] = 0
    BY <1>1, <1>2, <1>5 DEF LetGo
  <1>7. Removal(o, gone, "Dropped")
    BY <1>2, <1>3, <1>4, <1>6 DEF Removal
  <1>8. GuardsSound'
    BY <1>7, OwnerParts, RemovalKeeps
  <1>9. Answered' = Answered
    BY <1>1, <1>4 DEF Answered
  <1>10. LimitTypeOK' /\ LedgerTrue' /\ PermitMeansSlot'
    BY <1>2, <1>3, <1>9, OwnerParts, RetireKeeps
  <1>11. InsertKept'
    <2>1. inserting' \in [owner : Tables, key : Keys, call : Calls] /\ inserting'.call = c
      BY <1>2
    <2>2. QED
      BY <1>4, <1>6, <2>1 DEF InsertKept
  <1>12. QED
    BY <1>8, <1>10, <1>11 DEF OwnerInv, PermitsBalance

\* A caller that leaves.
LEMMA GoneKeeps ==
    ASSUME OwnerAssumption, OwnerInv, NEW c \in Calls, ParkedCallerGone(c)
    PROVE  OwnerInv'
  <1>1. /\ reply[c] = "Open" /\ reply' = [reply EXCEPT ![c] = "Closed"]
        /\ UNCHANGED <<slots, generations, freeSlots, guard, tickets, lastKey, drops>>
        /\ UNCHANGED <<charged, closed, completed, retired, granted>> /\ inserting' = inserting
    BY DEF ParkedCallerGone, CallerGone, limitVars
  <1>2. /\ reply' \in [Calls -> {"Unasked", "Open", "Replied", "Closed", "Returned"}]
        /\ \A x \in Calls : reply'[x] = IF x = c THEN "Closed" ELSE reply[x]
    BY <1>1, OwnerParts, ReplySet
  <1>3. RepliesOnly
    BY <1>1, <1>2 DEF RepliesOnly
  <1>4. GuardsSound'
    BY <1>3, OwnerParts, RepliesKeep
  <1>5. Answered' = Answered
    BY <1>1, <1>2 DEF Answered
  <1>6. LimitTypeOK' /\ LedgerTrue' /\ PermitMeansSlot'
    BY <1>1, <1>5, OwnerParts, CountsStand
  <1>7. InsertKept'
    <2>1. InsertKept
      BY OwnerParts
    <2>2. QED
      BY <1>1, <1>2, <2>1 DEF InsertKept
  <1>8. QED
    BY <1>4, <1>6, <1>7 DEF OwnerInv, PermitsBalance

\* A step that changes nothing but whether a limit is closed.
LEMMA CloseKeeps ==
    ASSUME OwnerAssumption, OwnerInv, UNCHANGED <<vars, charged, completed, retired, granted, inserting>>,
           closed' \in [Tables -> BOOLEAN]
    PROVE  OwnerInv'
  <1>1. /\ UNCHANGED <<slots, generations, freeSlots, reply, guard, tickets, lastKey, drops>>
        /\ UNCHANGED <<charged, completed, retired, granted>> /\ inserting' = inserting
    BY DEF vars
  <1>2. GuardsSound'
    <2>1. RepliesOnly
      BY <1>1, OwnerParts DEF RepliesOnly
    <2>2. QED
      BY <2>1, OwnerParts, RepliesKeep
  <1>3. Answered' = Answered
    BY <1>1 DEF Answered
  <1>4. LimitTypeOK' /\ LedgerTrue' /\ PermitMeansSlot'
    BY <1>1, <1>3, OwnerParts, CountsStand
  <1>5. InsertKept'
    BY <1>1, OwnerParts DEF InsertKept
  <1>6. QED
    BY <1>2, <1>4, <1>5 DEF OwnerInv, PermitsBalance

\* Every step of an owner.
LEMMA OwnerStep ==
    ASSUME OwnerAssumption, OwnerInv, [OwnerNext]_ownerVars
    PROVE  OwnerInv'
  <1>1. ASSUME NEW o \in Tables, OwnerSweep(o) PROVE OwnerInv'
    BY <1>1, PartsOfTable, RetirementKeeps DEF OwnerSweep, Reclaim
  <1>2. ASSUME NEW o \in Tables, OwnerDrain(o) PROVE OwnerInv'
    BY <1>2, RetirementKeeps DEF OwnerDrain
  <1>3. ASSUME NEW o \in Tables, Close(o) PROVE OwnerInv'
    <2>1. closed' \in [Tables -> BOOLEAN]
      BY <1>3, OwnerParts DEF Close
    <2>2. QED
      BY <1>3, <2>1, CloseKeeps DEF Close
  <1>4. ASSUME NEW o \in Tables, NEW key \in Keys, ReplyByKey(o, key) PROVE OwnerInv'
    <2>1. PICK i \in WithKey(o, key) : SettleTaken(o, i)
      BY <1>4 DEF ReplyByKey
    <2>2. i \in Occupied(o)
      BY <2>1, PartsOfTable
    <2>3. tickets' \subseteq tickets /\ lastKey' = lastKey /\ inserting = None /\ inserting' = None
      BY <1>4 DEF ReplyByKey
    <2>4. QED
      BY <2>1, <2>2, <2>3, SettleKeeps
  <1>5. ASSUME NEW o \in Tables, NEW key \in Keys, RetireByKey(o, key) PROVE OwnerInv'
    <2>1. PICK i \in WithKey(o, key) :
             LetGo(CallsIn(o, {i}), "Service") /\ RemoveSlots(o, {i}) /\ Retire(o, 1)
      BY <1>5 DEF RetireByKey
    <2>2. {i} \subseteq Occupied(o) /\ Cardinality({i}) = 1
      BY <2>1, PartsOfTable, FS_Singleton
    <2>3. Retire(o, Cardinality({i}))
      BY <2>1, <2>2
    <2>4. reply' = reply /\ tickets' \subseteq tickets /\ lastKey' = lastKey /\ inserting = None
          /\ inserting' = None
      BY <1>5 DEF RetireByKey
    <2>5. QED
      BY <2>1, <2>2, <2>3, <2>4, RetirementKeeps
  <1>6. ASSUME NEW o \in Tables, NEW key \in Keys, NEW c \in Calls, BeginInsert(o, key, c)
        PROVE  OwnerInv'
    BY <1>6, BeginKeeps
  <1>7. ASSUME NEW o \in Tables, NEW t \in tickets, ReplyTicket(o, t) PROVE OwnerInv'
    <2>1. /\ tickets' = tickets \ {t} /\ lastKey' = lastKey /\ inserting = None /\ inserting' = None
      BY <1>7 DEF ReplyTicket
    <2>2. CASE Honoured(o, t)
      <3>1. t.slot \in Occupied(o)
        BY <2>2, OwnerParts, SlotTypes DEF TypeOK, Honoured
      <3>2. SettleTaken(o, t.slot)
        BY <1>7, <2>2 DEF ReplyTicket
      <3>3. QED
        BY <2>1, <3>1, <3>2, SettleKeeps
    <2>3. CASE ~Honoured(o, t)
      <3>1. /\ slots' = slots /\ generations' = generations /\ freeSlots' = freeSlots
            /\ reply' = reply /\ guard' = guard /\ drops' = drops
            /\ UNCHANGED <<charged, closed, completed, retired, granted>>
        BY <1>7, <2>3 DEF ReplyTicket, limitVars
      <3>2. GuardsSound'
        BY <2>1, <3>1, OwnerParts DEF GuardsSound, TypeOK, EntriesKept, GuardOnce, OwnTicketOnly,
              OneEntryPerKey, Occupied, Honoured
      <3>3. Answered' = Answered
        BY <3>1 DEF Answered
      <3>4. LimitTypeOK' /\ LedgerTrue' /\ PermitMeansSlot'
        BY <2>1, <3>1, <3>3, OwnerParts, CountsStand
      <3>5. QED
        BY <2>1, <3>2, <3>4 DEF OwnerInv, PermitsBalance, InsertKept
    <2>4. QED
      BY <2>2, <2>3
  <1>8. CASE InsertDuplicate
    <2>1. closed' \in [Tables -> BOOLEAN] /\ UNCHANGED <<charged, granted, completed, retired>>
      BY <1>8, OwnerParts DEF InsertDuplicate, limitVars
    <2>2. QED
      BY <1>8, <2>1, GiveBackKeeps DEF InsertDuplicate
  <1>9. CASE InsertNotAdmitted
    <2>1. inserting.owner \in Tables
      BY <1>9, OwnerParts DEF InsertNotAdmitted, InsertKept
    <2>2. closed' \in [Tables -> BOOLEAN] /\ UNCHANGED <<charged, granted, completed, retired>>
      BY <1>9, <2>1, OwnerParts DEF InsertNotAdmitted
    <2>3. QED
      BY <1>9, <2>2, GiveBackKeeps DEF InsertNotAdmitted
  <1>10. CASE InsertAdmitted
    BY <1>10, AdmittedKeeps
  <1>11. ASSUME NEW c \in Calls, ParkedCallerGone(c) PROVE OwnerInv'
    BY <1>11, GoneKeeps
  <1>12. CASE UNCHANGED ownerVars
    <2>1. /\ UNCHANGED <<vars, charged, completed, retired, granted, inserting>>
          /\ closed' = closed
      BY <1>12 DEF ownerVars, limitVars
    <2>2. QED
      BY <2>1, OwnerParts, CloseKeeps
  <1>13. QED
    BY <1>1, <1>2, <1>3, <1>4, <1>5, <1>6, <1>7, <1>8, <1>9, <1>10, <1>11, <1>12 DEF OwnerNext

\* An owner starts with nothing parked and no permit out.
LEMMA OwnerStarts ==
    ASSUME OwnerAssumption, OwnerInit
    PROVE  OwnerInv
  <1>1. /\ Init /\ CapacityAssumption /\ inserting = None
        /\ charged = [o \in Tables |-> 0] /\ closed = [o \in Tables |-> FALSE]
        /\ completed = [o \in Tables |-> 0] /\ retired = [o \in Tables |-> 0]
        /\ granted = [o \in Tables |-> 0]
    BY DEF OwnerInit, OwnerAssumption
  <1>2. GuardsSound
    BY <1>1, TableStarts
  <1>3. /\ slots = [o \in Tables |-> [i \in SlotIds |-> None]]
        /\ reply = [c \in Calls |-> "Unasked"] /\ lastKey = [why |-> "None", live |-> TRUE]
    BY <1>1 DEF Init
  <1>4. LimitTypeOK
    BY <1>1 DEF LimitTypeOK
  <1>5. Answered = {} /\ Completions = {} /\ \A o \in Tables : Occupied(o) = {}
    BY <1>1, <1>3 DEF Answered, Completions, Occupied
  <1>6. IsFiniteSet({}) /\ Cardinality({}) = 0
    BY FS_EmptySet
  <1>7. LedgerTrue
    BY <1>1, <1>5, <1>6 DEF LedgerTrue
  <1>8. PermitMeansSlot
    BY <1>1, <1>3, <1>5, <1>6 DEF PermitMeansSlot
  <1>9. QED
    BY <1>1, <1>2, <1>4, <1>7, <1>8 DEF OwnerInv, PermitsBalance, InsertKept

\* For any number of owners, callers and keys and any capacity, also when
\* callers leave between an insert's sweep and its admission: the permits charged
\* to each limit are those of the parked callers, every permit issued is
\* completed, retired or charged, the completed ones are the callers answered,
\* and an admitted caller always finds a slot, so PendingFull is never returned.
THEOREM PermitsStayBalanced == OwnerAssumption => (OwnerSpec => []PermitsBalance)
  <1> SUFFICES ASSUME OwnerAssumption PROVE OwnerSpec => []PermitsBalance
    OBVIOUS
  <1>1. OwnerInit => OwnerInv
    BY OwnerStarts
  <1>2. OwnerInv /\ [OwnerNext]_ownerVars => OwnerInv'
    BY OwnerStep
  <1>3. OwnerInv => PermitsBalance
    BY DEF OwnerInv
  <1>4. QED
    BY <1>1, <1>2, <1>3, PTL DEF OwnerSpec

\* The table under an owner keeps the same promises as a table by itself.
THEOREM OwnedTablesStaySound == OwnerAssumption => (OwnerSpec => []GuardsSound)
  <1> SUFFICES ASSUME OwnerAssumption PROVE OwnerSpec => []GuardsSound
    OBVIOUS
  <1>1. OwnerInit => OwnerInv
    BY OwnerStarts
  <1>2. OwnerInv /\ [OwnerNext]_ownerVars => OwnerInv'
    BY OwnerStep
  <1>3. OwnerInv => GuardsSound
    BY DEF OwnerInv
  <1>4. QED
    BY <1>1, <1>2, <1>3, PTL DEF OwnerSpec

-----------------------------------------------------------------------------
(* The wait list: the inductive invariant.                                 *)

\* No ticket is ahead of the generation of its slot.
TicketsOld == \A t \in waitTickets : t.generation <= entryGens[t.slot]

\* What a parked, taken or answered call's reply slot can say.
Pending(c) == replySlot[c] \in {"Open", "Closed"}

\* Whoever is parked asked, was not told anything yet, and has its admission
\* number on its entry.
EntriesTrue ==
    \A i \in Filled : Pending(entries[i].call) /\ born[entries[i].call] = entries[i].seq

\* The same of those who are taken or whose reply is on its way.
OthersAsked ==
    /\ \A c \in taken : Pending(c)
    /\ \A e \in due : Pending(e.call)

\* The inductive invariant of WaitList.
WaitInv == WaitersSound /\ TicketsOld /\ EntriesTrue /\ OthersAsked

-----------------------------------------------------------------------------
(* Removing entries.                                                       *)

\* The list has finitely many slots.
LEMMA ListFinite ==
    ASSUME WaitAssumption
    PROVE  IsFiniteSet(ListSlots)
  <1>1. 0 \in Int /\ ListCapacity - 1 \in Int
    BY DEF WaitAssumption
  <1>2. QED
    BY <1>1, FS_Interval DEF ListSlots

\* What remove_slot leaves.
LEMMA EntriesRemoved ==
    ASSUME WaitAssumption, WaitInv, NEW gone \in SUBSET Filled, RemoveEntries(gone)
    PROVE  /\ entries' \in [ListSlots -> WaitEntry \cup {NoEntry}]
           /\ freeEntries' \subseteq ListSlots
           /\ occupancy' \in Nat
           /\ SlotsAccounted'
           /\ Filled' = Filled \ gone
           /\ \A i \in Filled' : entries'[i] = entries[i]
  <1>1. /\ entries \in [ListSlots -> WaitEntry \cup {NoEntry}]
        /\ freeEntries = {i \in ListSlots : entries[i] = NoEntry}
        /\ occupancy = Cardinality(Filled)
    BY DEF WaitInv, WaitersSound, WaitTypeOK, SlotsAccounted
  <1>2. entries' = [i \in ListSlots |-> IF i \in gone THEN NoEntry ELSE entries[i]]
    BY DEF RemoveEntries
  <1>3. entries' \in [ListSlots -> WaitEntry \cup {NoEntry}]
    BY <1>1, <1>2
  <1>4. Filled' = Filled \ gone
    BY <1>1, <1>2 DEF Filled
  <1>5. \A i \in Filled' : entries'[i] = entries[i]
    BY <1>2, <1>4 DEF Filled
  <1>6. freeEntries' = {i \in ListSlots : entries'[i] = NoEntry}
    BY <1>1, <1>2 DEF RemoveEntries, Filled
  <1>7. IsFiniteSet(Filled) /\ IsFiniteSet(gone) /\ Filled \cap gone = gone
    BY ListFinite, FS_Subset DEF Filled
  <1>8. Cardinality(Filled') = Cardinality(Filled) - Cardinality(gone)
    BY <1>4, <1>7, FS_Difference
  <1>9. Cardinality(Filled') \in Nat
    BY <1>4, <1>7, FS_Difference, FS_CardinalityType
  <1>10. occupancy' = Cardinality(Filled')
    BY <1>1, <1>8 DEF RemoveEntries
  <1>11. freeEntries' \subseteq ListSlots
    BY <1>6
  <1>12. QED
    BY <1>3, <1>4, <1>5, <1>6, <1>9, <1>10, <1>11 DEF SlotsAccounted

\* What every step but an admission does to the list: some entries leave and
\* no reply slot opens.
Shrinks(gone) ==
    /\ RemoveEntries(gone)
    /\ UNCHANGED <<perKeyLimit, entryGens, nextSeq, born>>
    /\ waitTickets' \subseteq waitTickets
    /\ replySlot' \in [Waiters -> {"Unasked", "Open", "Replied", "Closed", "Returned"}]
    /\ \A c \in Waiters : replySlot'[c] = "Open" => replySlot[c] = "Open"
    /\ \A i \in Filled \ gone : replySlot'[entries[i].call] \in {"Open", "Closed"}
    /\ due' \subseteq Effect /\ taken' \subseteq Waiters
    /\ refused' \in [Waiters -> {"No", "Full", "KeyFull"}]

\* Then the entries that stay are as they were.
LEMMA ShrinkKeeps ==
    ASSUME WaitAssumption, WaitInv, NEW gone \in SUBSET Filled, Shrinks(gone)
    PROVE  /\ WaitTypeOK' /\ SlotsAccounted' /\ OwnWaiterOnly' /\ KeyLimitHeld'
           /\ TicketsOld' /\ EntriesTrue'
           /\ Filled' = Filled \ gone
           /\ \A i \in Filled' : entries'[i] = entries[i]
  <1>1. WaitTypeOK /\ OwnWaiterOnly /\ KeyLimitHeld /\ TicketsOld /\ EntriesTrue
    BY DEF WaitInv, WaitersSound
  <1>2. /\ entries' \in [ListSlots -> WaitEntry \cup {NoEntry}]
        /\ freeEntries' \subseteq ListSlots
        /\ occupancy' \in Nat
        /\ SlotsAccounted'
        /\ Filled' = Filled \ gone
        /\ \A i \in Filled' : entries'[i] = entries[i]
    BY EntriesRemoved DEF Shrinks
  <1>3. WaitTypeOK'
    BY <1>1, <1>2 DEF WaitTypeOK, Shrinks
  <1>4. TicketsOld'
    BY <1>1 DEF TicketsOld, Shrinks
  <1>5. OwnWaiterOnly'
    <2> SUFFICES ASSUME NEW t \in waitTickets', HonouredTicket(t)'
                 PROVE  entries'[t.slot].call = t.of
      BY DEF OwnWaiterOnly
    <2>1. t \in waitTickets /\ t.slot \in ListSlots
      BY <1>1 DEF Shrinks, WaitTypeOK, WaitTicket
    <2>2. t.slot \in Filled'
      BY <2>1 DEF HonouredTicket, Filled
    <2>3. t.slot \in Filled /\ entries'[t.slot] = entries[t.slot]
      BY <1>2, <2>2
    <2>4. HonouredTicket(t)
      BY <2>3 DEF HonouredTicket, Shrinks, Filled
    <2>5. QED
      BY <1>1, <2>1, <2>3, <2>4 DEF OwnWaiterOnly
  <1>6. KeyLimitHeld'
    <2> SUFFICES ASSUME perKeyLimit' > 0, NEW key \in WaitKeys
                 PROVE  Cardinality(OpenUnder(key)') <= perKeyLimit'
      BY DEF KeyLimitHeld
    <2>1. \A i \in Filled : entries[i].call \in Waiters
      BY <1>1 DEF WaitTypeOK, Filled, WaitEntry
    <2>2. OpenUnder(key)' \subseteq OpenUnder(key)
      BY <1>2, <2>1 DEF OpenUnder, Under, ReplyState, Shrinks
    <2>3. IsFiniteSet(OpenUnder(key))
      BY ListFinite, FS_Subset DEF OpenUnder, Under, Filled
    <2>4. /\ Cardinality(OpenUnder(key)') <= Cardinality(OpenUnder(key))
          /\ Cardinality(OpenUnder(key)') \in Nat /\ Cardinality(OpenUnder(key)) \in Nat
      BY <2>2, <2>3, FS_Subset, FS_CardinalityType
    <2>5. perKeyLimit' = perKeyLimit /\ perKeyLimit \in Nat
      BY <1>1 DEF Shrinks, WaitTypeOK, WaitAssumption
    <2>6. Cardinality(OpenUnder(key)) <= perKeyLimit
      BY <1>1, <2>5 DEF KeyLimitHeld
    <2>7. QED
      BY <2>4, <2>5, <2>6
  <1>7. EntriesTrue'
    BY <1>1, <1>2 DEF EntriesTrue, Shrinks, Pending
  <1>8. QED
    BY <1>2, <1>3, <1>4, <1>5, <1>6, <1>7

\* Who still waits after such a step, and where.
LEMMA ShrinkParked ==
    ASSUME WaitAssumption, WaitInv, NEW gone \in SUBSET Filled, Shrinks(gone)
    PROVE  /\ Parked' = {entries[i].call : i \in Filled \ gone}
           /\ Parked = Parked' \cup {entries[i].call : i \in gone}
           /\ Parked' \cap {entries[i].call : i \in gone} = {}
           /\ \A i, j \in Filled' : entries'[i].call = entries'[j].call => i = j
  <1>1. Filled' = Filled \ gone /\ \A i \in Filled' : entries'[i] = entries[i]
    BY ShrinkKeeps
  <1>2. \A i, j \in Filled : entries[i].call = entries[j].call => i = j
    BY DEF WaitInv, WaitersSound, NobodyStranded
  <1>3. Parked' = {entries[i].call : i \in Filled \ gone}
    BY <1>1 DEF Parked
  <1>4. Parked = Parked' \cup {entries[i].call : i \in gone}
    BY <1>3 DEF Parked
  <1>5. Parked' \cap {entries[i].call : i \in gone} = {}
    BY <1>2, <1>3
  <1>6. QED
    BY <1>1, <1>2, <1>3, <1>4, <1>5

\* Steps that only give up entries whose caller has left.
LEMMA SweepKeeps ==
    ASSUME WaitAssumption, WaitInv, NEW gone \in SUBSET Filled, Shrinks(gone),
           \A i \in gone : replySlot[entries[i].call] # "Open",
           \A c \in taken \cup {e.call : e \in due} : replySlot'[c] = replySlot[c],
           UNCHANGED <<due, taken>>
    PROVE  WaitInv'
  <1>1. NobodyStranded /\ OthersAsked /\ WaitTypeOK
    BY DEF WaitInv, WaitersSound
  <1>2. /\ WaitTypeOK' /\ SlotsAccounted' /\ OwnWaiterOnly' /\ KeyLimitHeld'
        /\ TicketsOld' /\ EntriesTrue'
    BY ShrinkKeeps
  <1>3. /\ Parked' = {entries[i].call : i \in Filled \ gone}
        /\ Parked = Parked' \cup {entries[i].call : i \in gone}
        /\ \A i, j \in Filled' : entries'[i].call = entries'[j].call => i = j
    BY ShrinkParked
  <1>4. \A c \in Waiters : replySlot'[c] = "Open" => c \in Parked' \cup taken' \cup {e.call : e \in due'}
    BY <1>1, <1>3 DEF NobodyStranded, Shrinks
  <1>5. NobodyStranded'
    BY <1>1, <1>3, <1>4 DEF NobodyStranded
  <1>6. OthersAsked'
    BY <1>1 DEF OthersAsked, Pending
  <1>7. QED
    BY <1>2, <1>5, <1>6 DEF WaitInv, WaitersSound

\* Steps that turn entries into replies.
LEMMA AnswersKeep ==
    ASSUME WaitAssumption, WaitInv, NEW gone \in SUBSET Filled, Shrinks(gone),
           due = {}, UNCHANGED <<replySlot, taken>>,
           \A e \in due' : \E i \in gone : e.call = entries[i].call,
           \A i \in gone : \E e \in due' : e.call = entries[i].call,
           \A e, f \in due' : e.call = f.call => e = f
    PROVE  WaitInv'
  <1>1. NobodyStranded /\ OthersAsked /\ WaitTypeOK /\ EntriesTrue
    BY DEF WaitInv, WaitersSound
  <1>2. /\ WaitTypeOK' /\ SlotsAccounted' /\ OwnWaiterOnly' /\ KeyLimitHeld'
        /\ TicketsOld' /\ EntriesTrue'
    BY ShrinkKeeps
  <1>3. /\ Parked' = {entries[i].call : i \in Filled \ gone}
        /\ Parked = Parked' \cup {entries[i].call : i \in gone}
        /\ Parked' \cap {entries[i].call : i \in gone} = {}
        /\ \A i, j \in Filled' : entries'[i].call = entries'[j].call => i = j
    BY ShrinkParked
  <1>4. {e.call : e \in due'} = {entries[i].call : i \in gone}
    OBVIOUS
  <1>5. \A c \in Waiters : replySlot'[c] = "Open" => c \in Parked' \cup taken' \cup {e.call : e \in due'}
    BY <1>1, <1>3, <1>4 DEF NobodyStranded
  <1>6. Parked' \cap taken' = {}
    BY <1>1, <1>3 DEF NobodyStranded
  <1>7. \A e \in due' : e.call \in {entries[i].call : i \in gone}
    BY <1>4
  <1>8. \A e \in due' : e.call \notin Parked' \cup taken'
    BY <1>1, <1>3, <1>7 DEF NobodyStranded
  <1>9. NobodyStranded'
    BY <1>3, <1>5, <1>6, <1>8 DEF NobodyStranded
  <1>10. OthersAsked'
    BY <1>1, <1>7 DEF OthersAsked, Pending, EntriesTrue
  <1>11. QED
    BY <1>2, <1>9, <1>10 DEF WaitInv, WaitersSound

-----------------------------------------------------------------------------
(* The steps.                                                              *)

\* An unchanged list is one from which nothing was removed.
LEMMA NothingRemoved ==
    ASSUME WaitTypeOK, UNCHANGED <<entries, freeEntries, occupancy>>
    PROVE  RemoveEntries({})
  <1>1. entries = [i \in ListSlots |-> entries[i]]
    BY DEF WaitTypeOK
  <1>2. Cardinality({}) = 0
    BY FS_EmptySet
  <1>3. occupancy - 0 = occupancy
    BY DEF WaitTypeOK
  <1>4. QED
    BY <1>1, <1>2, <1>3 DEF RemoveEntries

\* What the invariant says of the types.
LEMMA WaitTypes ==
    ASSUME WaitInv
    PROVE  /\ WaitTypeOK /\ Filled \subseteq ListSlots
           /\ \A i \in Filled : entries[i] \in WaitEntry /\ entries[i].call \in Waiters
           /\ \A i \in Filled : Pending(entries[i].call)
           /\ \A c \in taken : Pending(c)
           /\ \A e \in due : Pending(e.call) /\ e.call \in Waiters
  BY DEF WaitInv, WaitersSound, WaitTypeOK, Filled, WaitEntry, EntriesTrue, OthersAsked, Effect

\* A refused caller, with the sweep that came first.
LEMMA RefusalKeeps ==
    ASSUME WaitAssumption, WaitInv, NEW c \in Waiters, NEW key \in WaitKeys,
           ParkRefused(c, key), UNCHANGED perKeyLimit
    PROVE  WaitInv'
  <1> USE WaitTypes DEF WaitTypeOK, Pending
  <1>1. Reclaimed \subseteq Filled /\ \A i \in Reclaimed : replySlot[entries[i].call] = "Closed"
    BY DEF Reclaimed, ClosedEntries, ReplyState
  <1>2. replySlot' = [replySlot EXCEPT ![c] = "Returned"] /\ replySlot[c] = "Unasked"
    BY DEF ParkRefused
  <1>3. replySlot' \in [Waiters -> {"Unasked", "Open", "Replied", "Closed", "Returned"}]
    BY <1>2
  <1>4. refused' \in [Waiters -> {"No", "Full", "KeyFull"}]
    <2>1. \E r \in {"Full", "KeyFull"} : refused' = [refused EXCEPT ![c] = r]
      BY DEF ParkRefused
    <2>2. QED
      BY <2>1
  <1>5. \A x \in Waiters : Pending(x) => replySlot'[x] = replySlot[x]
    BY <1>2
  <1>6. Shrinks(Reclaimed)
    BY <1>2, <1>3, <1>4, <1>5 DEF Shrinks, ParkRefused
  <1>7. \A x \in taken \cup {e.call : e \in due} : replySlot'[x] = replySlot[x]
    BY <1>5
  <1>8. UNCHANGED <<due, taken>>
    BY DEF ParkRefused
  <1>9. QED
    BY <1>1, <1>6, <1>7, <1>8, SweepKeeps

LEMMA SweepWaitersKeeps ==
    ASSUME WaitAssumption, WaitInv, SweepWaiters, UNCHANGED perKeyLimit
    PROVE  WaitInv'
  <1> USE WaitTypes DEF WaitTypeOK, Pending
  <1>1. /\ ClosedEntries \subseteq Filled
        /\ \A i \in ClosedEntries : replySlot[entries[i].call] = "Closed"
    BY DEF ClosedEntries, ReplyState
  <1>2. Shrinks(ClosedEntries)
    BY DEF Shrinks, SweepWaiters
  <1>3. UNCHANGED <<due, taken, replySlot>>
    BY DEF SweepWaiters
  <1>4. QED
    BY <1>1, <1>2, <1>3, SweepKeeps

LEMMA ReplyOneKeeps ==
    ASSUME WaitAssumption, WaitInv, NEW t \in waitTickets, ReplyOne(t), UNCHANGED perKeyLimit
    PROVE  WaitInv'
  <1> USE WaitTypes DEF WaitTypeOK, Pending
  <1>1. /\ UNCHANGED <<perKeyLimit, entryGens, nextSeq, replySlot, taken, born, refused>>
        /\ waitTickets' \subseteq waitTickets /\ due = {}
    BY DEF ReplyOne, ServiceTurn
  <1>2. CASE HonouredTicket(t)
    <2>1. t.slot \in Filled
      BY <1>2 DEF HonouredTicket, Filled, WaitTicket
    <2>2. RemoveEntries({t.slot}) /\ due' = {[call |-> entries[t.slot].call, rank |-> 0]}
      BY <1>2 DEF ReplyOne
    <2>3. due' \subseteq Effect
      BY <2>1, <2>2 DEF Effect
    <2>4. Shrinks({t.slot})
      BY <1>1, <2>2, <2>3 DEF Shrinks
    <2>5. /\ \A e \in due' : \E i \in {t.slot} : e.call = entries[i].call
          /\ \A i \in {t.slot} : \E e \in due' : e.call = entries[i].call
          /\ \A e, f \in due' : e.call = f.call => e = f
      BY <2>2
    <2>6. {t.slot} \in SUBSET Filled
      BY <2>1
    <2>7. QED
      BY <1>1, <2>4, <2>5, <2>6, AnswersKeep
  <1>3. CASE ~HonouredTicket(t)
    <2>1. UNCHANGED <<entries, freeEntries, occupancy, due>>
      BY <1>3 DEF ReplyOne
    <2>2. RemoveEntries({})
      BY <2>1, NothingRemoved
    <2>3. Shrinks({})
      BY <1>1, <2>1, <2>2 DEF Shrinks
    <2>4. QED
      BY <1>1, <2>1, <2>3, SweepKeeps
  <1>4. QED
    BY <1>2, <1>3

LEMMA ReplyAllKeeps ==
    ASSUME WaitAssumption, WaitInv, NEW key \in WaitKeys, ReplyAll(key), UNCHANGED perKeyLimit
    PROVE  WaitInv'
  <1> USE WaitTypes DEF WaitTypeOK, Pending
  <1>1. /\ UNCHANGED <<perKeyLimit, entryGens, nextSeq, replySlot, waitTickets, taken, born, refused>>
        /\ due = {} /\ Under(key) \subseteq Filled
        /\ RemoveEntries(Under(key))
        /\ due' = {[call |-> entries[i].call, rank |-> entries[i].seq] : i \in Under(key)}
    BY DEF ReplyAll, DrainForKey, ServiceTurn, Under
  <1>2. due' \subseteq Effect
    BY <1>1 DEF Effect, WaitEntry
  <1>3. Shrinks(Under(key))
    BY <1>1, <1>2 DEF Shrinks
  <1>4. /\ \A e \in due' : \E i \in Under(key) : e.call = entries[i].call
        /\ \A i \in Under(key) : \E e \in due' : e.call = entries[i].call
    <2>1. \A e \in due' : \E i \in Under(key) : e = [call |-> entries[i].call, rank |-> entries[i].seq]
      BY <1>1
    <2>2. ASSUME NEW i \in Under(key)
          PROVE  \E e \in due' : e.call = entries[i].call
      <3>1. [call |-> entries[i].call, rank |-> entries[i].seq] \in due'
        BY <1>1
      <3>2. WITNESS [call |-> entries[i].call, rank |-> entries[i].seq] \in due'
      <3>3. QED
        OBVIOUS
    <2>3. \A e \in due' : \E i \in Under(key) : e.call = entries[i].call
      BY <2>1
    <2>4. QED
      BY <2>2, <2>3
  <1>5. \A i, j \in Filled : entries[i].call = entries[j].call => i = j
    BY DEF WaitInv, WaitersSound, NobodyStranded
  <1>6. \A e, f \in due' : e.call = f.call => e = f
    BY <1>1, <1>5
  <1>7. QED
    BY <1>1, <1>3, <1>4, <1>6, AnswersKeep

LEMMA DrainAllKeeps ==
    ASSUME WaitAssumption, WaitInv, DrainAll, UNCHANGED perKeyLimit
    PROVE  WaitInv'
  <1> USE WaitTypes DEF WaitTypeOK, Pending
  <1>1. /\ UNCHANGED <<perKeyLimit, entryGens, nextSeq, replySlot, waitTickets, taken, born, refused>>
        /\ due = {}
        /\ RemoveEntries(Filled)
        /\ due' = {[call |-> entries[i].call, rank |-> i] : i \in Filled}
    BY DEF DrainAll, ServiceTurn
  <1>2. ListSlots \subseteq Nat
    BY DEF ListSlots, WaitAssumption
  <1>3. due' \subseteq Effect
    <2>1. \A i \in Filled : [call |-> entries[i].call, rank |-> i] \in Effect
      BY <1>2 DEF Effect
    <2>2. QED
      BY <1>1, <2>1
  <1>4. Shrinks(Filled)
    BY <1>1, <1>3 DEF Shrinks
  <1>5. /\ \A e \in due' : \E i \in Filled : e.call = entries[i].call
        /\ \A i \in Filled : \E e \in due' : e.call = entries[i].call
    <2>1. \A e \in due' : \E i \in Filled : e = [call |-> entries[i].call, rank |-> i]
      BY <1>1
    <2>2. ASSUME NEW i \in Filled
          PROVE  \E e \in due' : e.call = entries[i].call
      <3>1. [call |-> entries[i].call, rank |-> i] \in due'
        BY <1>1
      <3>2. WITNESS [call |-> entries[i].call, rank |-> i] \in due'
      <3>3. QED
        OBVIOUS
    <2>3. \A e \in due' : \E i \in Filled : e.call = entries[i].call
      BY <2>1
    <2>4. QED
      BY <2>2, <2>3
  <1>6. \A i, j \in Filled : entries[i].call = entries[j].call => i = j
    BY DEF WaitInv, WaitersSound, NobodyStranded
  <1>7. \A e, f \in due' : e.call = f.call => e = f
    BY <1>1, <1>6
  <1>8. QED
    BY <1>1, <1>4, <1>5, <1>7, AnswersKeep

LEMMA TakeNextKeeps ==
    ASSUME WaitAssumption, WaitInv, NEW key \in WaitKeys, TakeNext(key), UNCHANGED perKeyLimit
    PROVE  WaitInv'
  <1> USE WaitTypes DEF WaitTypeOK, Pending
  <1> DEFINE gone == (Under(key) \ OpenUnder(key)) \cup Oldest(key)
  <1>1. /\ UNCHANGED <<perKeyLimit, entryGens, nextSeq, replySlot, waitTickets, due, born, refused>>
        /\ due = {}
        /\ RemoveEntries(gone)
        /\ taken' = taken \cup {entries[i].call : i \in Oldest(key)}
    BY DEF TakeNext, ServiceTurn
  <1>2. gone \subseteq Filled /\ Oldest(key) \subseteq gone
    BY DEF Under, OpenUnder, Oldest
  <1>3. \A i \in gone \ Oldest(key) : replySlot[entries[i].call] # "Open"
    BY DEF Under, OpenUnder, Oldest, ReplyState
  <1> HIDE DEF gone
  <1>4. taken' \subseteq Waiters
    BY <1>1, <1>2
  <1>5. Shrinks(gone)
    BY <1>1, <1>2, <1>4 DEF Shrinks
  <1>6. /\ WaitTypeOK' /\ SlotsAccounted' /\ OwnWaiterOnly' /\ KeyLimitHeld'
        /\ TicketsOld' /\ EntriesTrue'
    BY <1>2, <1>5, ShrinkKeeps
  <1>7. /\ Parked' = {entries[i].call : i \in Filled \ gone}
        /\ Parked = Parked' \cup {entries[i].call : i \in gone}
        /\ Parked' \cap {entries[i].call : i \in gone} = {}
        /\ \A i, j \in Filled' : entries'[i].call = entries'[j].call => i = j
    BY <1>2, <1>5, ShrinkParked
  <1>8. NobodyStranded
    BY DEF WaitInv, WaitersSound
  <1>9. \A c \in Waiters : replySlot'[c] = "Open" => c \in Parked' \cup taken' \cup {e.call : e \in due'}
    <2> SUFFICES ASSUME NEW c \in Waiters, replySlot[c] = "Open", c \notin Parked'
                 PROVE  c \in taken'
      BY <1>1
    <2>1. c \in Parked \cup taken
      BY <1>1, <1>8 DEF NobodyStranded
    <2>2. CASE c \in Parked
      <3>1. PICK i \in gone : entries[i].call = c
        BY <1>7, <2>2
      <3>2. i \in Oldest(key)
        BY <1>3, <3>1
      <3>3. QED
        BY <1>1, <3>1, <3>2
    <2>3. QED
      BY <1>1, <2>1, <2>2
  <1>10. Parked' \cap taken' = {}
    BY <1>1, <1>2, <1>7, <1>8 DEF NobodyStranded
  <1>11. NobodyStranded'
    BY <1>1, <1>7, <1>9, <1>10 DEF NobodyStranded
  <1>12. OthersAsked'
    BY <1>1, <1>2 DEF OthersAsked
  <1>13. QED
    BY <1>6, <1>11, <1>12 DEF WaitInv, WaitersSound

\* A reply slot that is answered or closed, and a reply that leaves with it:
\* c is the call it is about.
LEMMA SettlingKeeps ==
    ASSUME WaitAssumption, WaitInv, NEW c \in Waiters, UNCHANGED perKeyLimit,
           \/ \E e \in due : e.call = c /\ RunEffect(e)
           \/ SettleNext(c) \/ DropTaken(c) \/ WaiterGone(c)
    PROVE  WaitInv'
  <1> USE WaitTypes DEF WaitTypeOK, Pending
  <1>1. UNCHANGED <<perKeyLimit, entries, entryGens, freeEntries, occupancy, nextSeq, waitTickets,
                    born, refused>>
    BY DEF RunEffect, SettleNext, DropTaken, WaiterGone
  <1>2. \/ replySlot' = replySlot
        \/ replySlot' = [replySlot EXCEPT ![c] = "Replied"] /\ \E e \in due : e.call = c
        \/ replySlot' = [replySlot EXCEPT ![c] = "Closed"] /\ replySlot[c] = "Open"
    BY DEF RunEffect, SettleNext, DropTaken, WaiterGone
  <1>3. replySlot' \in [Waiters -> {"Unasked", "Open", "Replied", "Closed", "Returned"}]
    BY <1>2
  <1>4. /\ \A x \in Waiters \ {c} : replySlot'[x] = replySlot[x]
        /\ replySlot'[c] = "Open" => replySlot[c] = "Open"
        /\ (\A e \in due : e.call # c) /\ Pending(c) => Pending(c)'
    BY <1>2
  <1>5. due' \subseteq Effect /\ taken' \subseteq Waiters
    BY DEF RunEffect, SettleNext, DropTaken, WaiterGone, Effect
  <1>6. NobodyStranded /\ OthersAsked
    BY DEF WaitInv, WaitersSound
  <1>7. RemoveEntries({})
    BY <1>1, NothingRemoved
  <1>8. \A i \in Filled : entries[i].call # c \/ \A e \in due : e.call # c
    BY <1>6 DEF NobodyStranded, Parked
  <1>9. Shrinks({})
    BY <1>1, <1>3, <1>4, <1>5, <1>7, <1>8 DEF Shrinks
  <1>10. /\ WaitTypeOK' /\ SlotsAccounted' /\ OwnWaiterOnly' /\ KeyLimitHeld'
         /\ TicketsOld' /\ EntriesTrue'
    BY <1>9, ShrinkKeeps
  <1>11. Parked' = Parked /\ Filled' = Filled
    BY <1>1 DEF Parked, Filled
  <1>12. ASSUME NEW e \in due, e.call = c, RunEffect(e)
         PROVE  NobodyStranded' /\ OthersAsked'
    <2>1. due' = due \ {e} /\ taken' = taken /\ replySlot'[c] # "Open"
      BY <1>12 DEF RunEffect
    <2>2. \A x \in Waiters : replySlot'[x] = "Open" => x \in Parked' \cup taken' \cup {f.call : f \in due'}
      BY <1>4, <1>6, <1>11, <1>12, <2>1 DEF NobodyStranded
    <2>3. \A f \in due' : f.call # c /\ f.call \in Waiters
      BY <1>6, <1>12, <2>1 DEF NobodyStranded
    <2>4. c \notin taken
      BY <1>6, <1>12 DEF NobodyStranded
    <2>5. OthersAsked'
      BY <1>4, <1>6, <2>1, <2>3, <2>4 DEF OthersAsked
    <2>6. NobodyStranded'
      BY <1>1, <1>6, <1>11, <2>1, <2>2 DEF NobodyStranded
    <2>7. QED
      BY <2>5, <2>6
  <1>13. ASSUME SettleNext(c)
         PROVE  NobodyStranded' /\ OthersAsked'
    <2>1. due = {} /\ due' = {[call |-> c, rank |-> 0]} /\ taken' = taken \ {c} /\ c \in taken
      BY <1>13 DEF SettleNext, ServiceTurn
    <2>2. replySlot' = replySlot
      BY <1>13 DEF SettleNext
    <2>3. \A e \in due' : e.call = c
      BY <2>1
    <2>4. {e.call : e \in due'} = {c}
      BY <2>1
    <2>5. \A x \in Waiters : replySlot'[x] = "Open" => x \in Parked' \cup taken' \cup {f.call : f \in due'}
      BY <1>6, <1>11, <2>1, <2>2, <2>4 DEF NobodyStranded
    <2>6. OthersAsked'
      BY <1>6, <2>1, <2>2, <2>3 DEF OthersAsked
    <2>7. NobodyStranded'
      BY <1>1, <1>6, <1>11, <2>1, <2>3, <2>5 DEF NobodyStranded
    <2>8. QED
      BY <2>6, <2>7
  <1>14. ASSUME DropTaken(c)
         PROVE  NobodyStranded' /\ OthersAsked'
    <2>1. due = {} /\ due' = {} /\ taken' = taken \ {c} /\ c \in taken /\ replySlot'[c] # "Open"
      BY <1>14 DEF DropTaken, ServiceTurn
    <2>2. \A x \in Waiters : replySlot'[x] = "Open" => x \in Parked' \cup taken' \cup {f.call : f \in due'}
      BY <1>4, <1>6, <1>11, <2>1 DEF NobodyStranded
    <2>3. OthersAsked'
      BY <1>4, <1>6, <2>1 DEF OthersAsked
    <2>4. NobodyStranded'
      BY <1>1, <1>6, <1>11, <2>1, <2>2 DEF NobodyStranded
    <2>5. QED
      BY <2>3, <2>4
  <1>15. ASSUME WaiterGone(c)
         PROVE  NobodyStranded' /\ OthersAsked'
    <2>1. /\ due' = due /\ taken' = taken
          /\ replySlot' = [replySlot EXCEPT ![c] = "Closed"]
      BY <1>15 DEF WaiterGone
    <2>2. \A x \in Waiters : replySlot'[x] = "Open" => x \in Parked' \cup taken' \cup {f.call : f \in due'}
      BY <1>4, <1>6, <1>11, <2>1 DEF NobodyStranded
    <2>3. OthersAsked'
      BY <1>6, <2>1 DEF OthersAsked
    <2>4. NobodyStranded'
      BY <1>1, <1>6, <1>11, <2>1, <2>2 DEF NobodyStranded
    <2>5. QED
      BY <2>3, <2>4
  <1>16. QED
    BY <1>10, <1>12, <1>13, <1>14, <1>15 DEF WaitInv, WaitersSound

\* Admission: a free slot, or a reclaimed one, gets a new generation, entry and
\* ticket.
LEMMA ParkKeeps ==
    ASSUME WaitAssumption, WaitInv, NEW c \in Waiters, NEW key \in WaitKeys, Park(c, key),
           UNCHANGED perKeyLimit
    PROVE  WaitInv'
  <1> USE WaitTypes DEF WaitTypeOK, Pending
  <1> DEFINE gone == Reclaimed
             entry == [key |-> key, call |-> c, seq |-> nextSeq + 1]
  <1>1. /\ gone \subseteq Filled
        /\ \A i \in gone : replySlot[entries[i].call] = "Closed"
    BY DEF Reclaimed, ClosedEntries, ReplyState
  <1>2. PICK idx \in ListSlots : StoreWaiter(key, c, gone, idx)
    BY DEF Park
  <1>3. /\ replySlot[c] = "Unasked" /\ replySlot' = [replySlot EXCEPT ![c] = "Open"]
        /\ born' = [born EXCEPT ![c] = nextSeq + 1]
        /\ UNCHANGED <<perKeyLimit, due, taken, refused>> /\ due = {}
        /\ ~KeyFull(key)
    BY DEF Park, ServiceTurn
  <1> HIDE DEF gone
  <1>4. /\ entries' = [i \in ListSlots |->
                          IF i = idx THEN entry ELSE IF i \in gone THEN NoEntry ELSE entries[i]]
        /\ freeEntries' = (freeEntries \cup gone) \ {idx}
        /\ occupancy' = (occupancy - Cardinality(gone)) + 1
        /\ entryGens' = [entryGens EXCEPT ![idx] = @ + 1]
        /\ waitTickets' = waitTickets \cup {[slot |-> idx, generation |-> entryGens[idx] + 1, of |-> c]}
        /\ nextSeq' = nextSeq + 1
        /\ idx \in freeEntries \cup gone
    BY <1>2 DEF StoreWaiter
  <1>5. entry \in WaitEntry /\ entry # NoEntry /\ entry.call = c /\ entry.key = key
        /\ entry.seq = nextSeq + 1
    BY DEF WaitEntry, WaitAssumption
  <1> HIDE DEF entry
  <1>6. /\ SlotsAccounted /\ OwnWaiterOnly /\ KeyLimitHeld /\ NobodyStranded
        /\ TicketsOld /\ EntriesTrue /\ OthersAsked
    BY DEF WaitInv, WaitersSound
  <1>7. idx \notin Filled \ gone
    BY <1>4, <1>6 DEF SlotsAccounted, Filled
  <1>8. Filled' = (Filled \ gone) \cup {idx}
    BY <1>4, <1>5 DEF Filled
  <1>9. entries'[idx] = entry /\ \A i \in Filled \ gone : i # idx /\ entries'[i] = entries[i]
    BY <1>4, <1>7 DEF Filled
  <1>10. c \notin Parked /\ c \notin taken
    BY <1>3 DEF Parked
  <1>11. Parked' = {entries[i].call : i \in Filled \ gone} \cup {c}
    <2>1. Parked' = {entries'[i].call : i \in (Filled \ gone) \cup {idx}}
      BY <1>8 DEF Parked
    <2>2. QED
      BY <1>5, <1>9, <2>1
  <1>12. replySlot' \in [Waiters -> {"Unasked", "Open", "Replied", "Closed", "Returned"}]
         /\ replySlot'[c] = "Open" /\ \A x \in Waiters \ {c} : replySlot'[x] = replySlot[x]
    BY <1>3
  <1>13. SlotsAccounted' /\ occupancy' \in Nat
    <2>1. freeEntries' = {i \in ListSlots : entries'[i] = NoEntry}
      BY <1>1, <1>4, <1>5, <1>6 DEF SlotsAccounted, Filled
    <2>2. IsFiniteSet(Filled) /\ IsFiniteSet(gone) /\ Filled \cap gone = gone
      BY <1>1, ListFinite, FS_Subset DEF Filled
    <2>3. /\ IsFiniteSet(Filled \ gone)
          /\ Cardinality(Filled \ gone) = Cardinality(Filled) - Cardinality(gone)
      BY <2>2, FS_Difference
    <2>4. Cardinality(Filled') = Cardinality(Filled \ gone) + 1
      BY <1>7, <1>8, <2>3, FS_AddElement
    <2>5. Cardinality(Filled \ gone) \in Nat
      BY <2>3, FS_CardinalityType
    <2>6. occupancy = Cardinality(Filled)
      BY <1>6 DEF SlotsAccounted
    <2>7. occupancy' = Cardinality(Filled') /\ occupancy' \in Nat
      BY <1>4, <2>3, <2>4, <2>5, <2>6
    <2>8. QED
      BY <2>1, <2>7 DEF SlotsAccounted
  <1>14. WaitTypeOK'
    <2>1. entries' \in [ListSlots -> WaitEntry \cup {NoEntry}]
      BY <1>4, <1>5
    <2>2. entryGens' \in [ListSlots -> Nat] /\ nextSeq' \in Nat /\ born' \in [Waiters -> Nat]
      BY <1>3, <1>4
    <2>3. freeEntries' \subseteq ListSlots
      BY <1>1, <1>4 DEF Filled
    <2>4. waitTickets' \subseteq WaitTicket
      BY <1>4 DEF WaitTicket
    <2>5. QED
      BY <1>3, <1>12, <1>13, <2>1, <2>2, <2>3, <2>4
  <1>15. TicketsOld' /\ OwnWaiterOnly'
    <2> SUFFICES ASSUME NEW t \in waitTickets'
                 PROVE  /\ t.generation <= entryGens'[t.slot]
                        /\ HonouredTicket(t)' => entries'[t.slot].call = t.of
      BY DEF TicketsOld, OwnWaiterOnly
    <2>1. CASE t = [slot |-> idx, generation |-> entryGens[idx] + 1, of |-> c]
      BY <1>4, <1>5, <1>9, <2>1
    <2>2. CASE t \in waitTickets
      <3>1. /\ t.slot \in ListSlots /\ t.generation \in Nat /\ t.generation <= entryGens[t.slot]
            /\ HonouredTicket(t) => entries[t.slot].call = t.of
        BY <1>6, <2>2 DEF TicketsOld, OwnWaiterOnly, WaitTicket
      <3>2. CASE t.slot = idx
        BY <1>4, <3>1, <3>2 DEF HonouredTicket
      <3>3. CASE t.slot # idx
        <4>1. entryGens'[t.slot] = entryGens[t.slot]
          BY <1>4, <3>1, <3>3
        <4>2. entries'[t.slot] \in {NoEntry, entries[t.slot]}
          BY <1>4, <3>1, <3>3
        <4>3. QED
          BY <3>1, <4>1, <4>2 DEF HonouredTicket
      <3>4. QED
        BY <3>2, <3>3
    <2>3. QED
      BY <1>4, <2>1, <2>2
  <1>16. EntriesTrue'
    <2> SUFFICES ASSUME NEW i \in Filled'
                 PROVE  replySlot'[entries'[i].call] \in {"Open", "Closed"} /\ born'[entries'[i].call] = entries'[i].seq
      BY DEF EntriesTrue
    <2>1. CASE i = idx
      BY <1>3, <1>5, <1>9, <1>12, <2>1
    <2>2. CASE i \in Filled \ gone
      <3>1. entries'[i] = entries[i] /\ entries[i].call # c /\ entries[i].call \in Waiters
        BY <1>9, <1>10, <2>2 DEF Parked
      <3>2. born'[entries[i].call] = born[entries[i].call]
        BY <1>3, <3>1
      <3>3. Pending(entries[i].call) /\ born[entries[i].call] = entries[i].seq
        BY <1>6, <2>2 DEF EntriesTrue
      <3>4. QED
        BY <1>12, <3>1, <3>2, <3>3
    <2>3. QED
      BY <1>8, <2>1, <2>2
  <1>17. NobodyStranded'
    <2>1. \A i, j \in Filled' : entries'[i].call = entries'[j].call => i = j
      BY <1>5, <1>6, <1>8, <1>9, <1>10 DEF NobodyStranded, Parked
    <2>2. Parked' \cap taken' = {}
      <3>1. {entries[i].call : i \in Filled \ gone} \subseteq Parked
        BY DEF Parked
      <3>2. QED
        BY <1>3, <1>6, <1>10, <1>11, <3>1 DEF NobodyStranded
    <2>3. \A x \in Waiters : replySlot'[x] = "Open" => x \in Parked' \cup taken'
      <3> SUFFICES ASSUME NEW x \in Waiters, replySlot'[x] = "Open", x # c
                   PROVE  x \in Parked' \cup taken'
        BY <1>11
      <3>1. x \in Parked \cup taken
        BY <1>3, <1>6, <1>12 DEF NobodyStranded
      <3>2. CASE x \in Parked
        BY <1>1, <1>11, <1>12, <3>2 DEF Parked
      <3>3. QED
        BY <1>3, <3>1, <3>2
    <2>4. QED
      BY <1>3, <2>1, <2>2, <2>3 DEF NobodyStranded
  <1>18. OthersAsked'
    BY <1>3, <1>6, <1>10, <1>12 DEF OthersAsked
  <1>19. KeyLimitHeld'
    <2> SUFFICES ASSUME perKeyLimit' > 0, NEW k \in WaitKeys
                 PROVE  Cardinality(OpenUnder(k)') <= perKeyLimit'
      BY DEF KeyLimitHeld
    <2>1. perKeyLimit' = perKeyLimit /\ perKeyLimit \in Nat
      BY <1>3 DEF WaitAssumption
    <2>2. IsFiniteSet(OpenUnder(k))
      BY ListFinite, FS_Subset DEF OpenUnder, Under, Filled
    <2>3. Cardinality(OpenUnder(k)) <= perKeyLimit /\ Cardinality(OpenUnder(k)) \in Nat
      BY <1>6, <2>1, <2>2, FS_CardinalityType DEF KeyLimitHeld
    <2>4. \A i \in Filled \ gone : replySlot'[entries[i].call] = replySlot[entries[i].call]
      BY <1>10, <1>12 DEF Parked
    <2>5. CASE k = key
      <3>1. OpenUnder(k)' \subseteq OpenUnder(k) \cup {idx}
        BY <1>8, <1>9, <2>4 DEF OpenUnder, Under, ReplyState
      <3>2. /\ IsFiniteSet(OpenUnder(k) \cup {idx})
            /\ Cardinality(OpenUnder(k) \cup {idx}) <= Cardinality(OpenUnder(k)) + 1
        <4>1. /\ IsFiniteSet(OpenUnder(k) \cup {idx})
              /\ Cardinality(OpenUnder(k) \cup {idx}) =
                   IF idx \in OpenUnder(k) THEN Cardinality(OpenUnder(k))
                   ELSE Cardinality(OpenUnder(k)) + 1
          BY <2>2, FS_AddElement
        <4>2. QED
          BY <2>3, <4>1
      <3>3. Cardinality(OpenUnder(k)) < perKeyLimit
        BY <1>3, <2>1, <2>3, <2>5 DEF KeyFull
      <3>4. Cardinality(OpenUnder(k)') <= Cardinality(OpenUnder(k) \cup {idx})
            /\ Cardinality(OpenUnder(k)') \in Nat /\ Cardinality(OpenUnder(k) \cup {idx}) \in Nat
        BY <3>1, <3>2, FS_Subset, FS_CardinalityType
      <3>5. QED
        BY <2>1, <2>3, <3>2, <3>3, <3>4
    <2>6. CASE k # key
      <3>1. OpenUnder(k)' \subseteq OpenUnder(k)
        BY <1>5, <1>8, <1>9, <2>4, <2>6 DEF OpenUnder, Under, ReplyState
      <3>2. Cardinality(OpenUnder(k)') <= Cardinality(OpenUnder(k)) /\ Cardinality(OpenUnder(k)') \in Nat
        BY <2>2, <3>1, FS_Subset, FS_CardinalityType
      <3>3. QED
        BY <2>1, <2>3, <3>2
    <2>7. QED
      BY <2>5, <2>6
  <1>20. QED
    BY <1>13, <1>14, <1>15, <1>16, <1>17, <1>18, <1>19 DEF WaitInv, WaitersSound

-----------------------------------------------------------------------------
(* The theorems.                                                           *)

\* An empty list satisfies the invariant.
LEMMA WaitStarts ==
    ASSUME WaitAssumption, WaitInit
    PROVE  WaitInv
  <1> USE DEF WaitInit
  <1>1. Filled = {} /\ Parked = {}
    BY DEF Filled, Parked
  <1>2. Cardinality({}) = 0
    BY FS_EmptySet
  <1>3. \A key \in WaitKeys : OpenUnder(key) = {}
    BY <1>1 DEF OpenUnder, Under
  <1>4. WaitTypeOK
    BY DEF WaitTypeOK
  <1>5. SlotsAccounted
    BY <1>1, <1>2 DEF SlotsAccounted
  <1>6. KeyLimitHeld
    BY <1>2, <1>3, <1>4 DEF KeyLimitHeld, WaitTypeOK, WaitAssumption
  <1>7. NobodyStranded /\ EntriesTrue /\ OthersAsked
    BY <1>1 DEF NobodyStranded, EntriesTrue, OthersAsked
  <1>8. OwnWaiterOnly /\ TicketsOld
    BY DEF OwnWaiterOnly, TicketsOld
  <1>9. QED
    BY <1>4, <1>5, <1>6, <1>7, <1>8 DEF WaitInv, WaitersSound

\* Every step of the service, the runtime and the callers keeps the invariant.
LEMMA WaitStep ==
    ASSUME WaitAssumption, WaitInv, [WaitNext]_waitVars
    PROVE  WaitInv'
  <1>1. CASE WaitNext
    <2>1. UNCHANGED perKeyLimit
      BY <1>1 DEF WaitNext
    <2>2. ASSUME NEW c \in Waiters, NEW key \in WaitKeys, Park(c, key) \/ ParkRefused(c, key)
          PROVE  WaitInv'
      BY <2>1, <2>2, ParkKeeps, RefusalKeeps
    <2>3. ASSUME SweepWaiters PROVE WaitInv'
      BY <2>1, <2>3, SweepWaitersKeeps
    <2>4. ASSUME NEW t \in waitTickets, ReplyOne(t) PROVE WaitInv'
      BY <2>1, <2>4, ReplyOneKeeps
    <2>5. ASSUME NEW key \in WaitKeys, TakeNext(key) \/ ReplyAll(key) PROVE WaitInv'
      BY <2>1, <2>5, TakeNextKeeps, ReplyAllKeeps
    <2>6. ASSUME DrainAll PROVE WaitInv'
      BY <2>1, <2>6, DrainAllKeeps
    <2>7. ASSUME NEW e \in due, RunEffect(e) PROVE WaitInv'
      <3>1. e.call \in Waiters
        BY <2>7, WaitTypes
      <3>2. QED
        BY <2>1, <2>7, <3>1, SettlingKeeps
    <2>8. ASSUME NEW c \in Waiters, SettleNext(c) \/ DropTaken(c) \/ WaiterGone(c) PROVE WaitInv'
      BY <2>1, <2>8, SettlingKeeps
    <2>9. QED
      BY <1>1, <2>2, <2>3, <2>4, <2>5, <2>6, <2>7, <2>8 DEF WaitNext
  <1>2. CASE UNCHANGED waitVars
    BY <1>2 DEF WaitInv, waitVars, WaitersSound, WaitTypeOK, SlotsAccounted, OwnWaiterOnly, HonouredTicket,
                NobodyStranded, KeyLimitHeld, TicketsOld, EntriesTrue, OthersAsked, Pending,
                Parked, Filled, OpenUnder, Under, ReplyState
  <1>3. QED
    BY <1>1, <1>2

\* The list, for any callers, keys, capacity and limit per key: an occupied
\* slot has one waiter, a ticket reaches its own waiter or nobody, whoever still
\* waits can be answered, and no key has more waiters than its limit.
THEOREM WaitersStaySound == WaitAssumption => (WaitSpec => []WaitersSound)
  <1> SUFFICES ASSUME WaitAssumption
               PROVE  WaitSpec => []WaitersSound
    OBVIOUS
  <1>1. WaitInit => WaitInv
    BY WaitStarts
  <1>2. WaitInv /\ [WaitNext]_waitVars => WaitInv'
    BY WaitStep
  <1>3. WaitInv => WaitersSound
    BY DEF WaitInv
  <1>4. QED
    BY <1>1, <1>2, <1>3, PTL DEF WaitSpec

\* A refusal is true of the list it leaves.
LEMMA RefusalsTrue ==
    ASSUME WaitAssumption, WaitInv, WaitNext
    PROVE  RefusalTrue
  <1> SUFFICES ASSUME NEW c \in Waiters, refused'[c] # refused[c]
               PROVE  /\ refused'[c] = "Full" =>
                           \A i \in ListSlots :
                              entries'[i] # NoEntry /\ replySlot[entries'[i].call] = "Open"
                      /\ refused'[c] = "KeyFull" =>
                           \E key \in WaitKeys :
                              /\ Cardinality(OpenUnder(key)) = perKeyLimit
                              /\ \A i \in OpenUnder(key) : entries'[i] = entries[i]
    BY DEF RefusalTrue
  <1> USE WaitTypes DEF WaitTypeOK
  <1>1. PICK d \in Waiters, key \in WaitKeys : ParkRefused(d, key)
    BY DEF WaitNext, Park, SweepWaiters, ReplyOne, TakeNext, ReplyAll, DrainAll, RunEffect,
           SettleNext, DropTaken, WaiterGone
  <1>2. c = d /\ refused'[c] = (IF KeyFull(key) THEN "KeyFull" ELSE "Full")
    BY <1>1 DEF ParkRefused
  <1>3. /\ entries' = [i \in ListSlots |-> IF i \in Reclaimed THEN NoEntry ELSE entries[i]]
        /\ KeyFull(key) \/ ListFull
    BY <1>1 DEF ParkRefused, RemoveEntries
  <1>4. CASE KeyFull(key)
    <2>1. IsFiniteSet(OpenUnder(key))
      BY ListFinite, FS_Subset DEF OpenUnder, Under, Filled
    <2>2. Cardinality(OpenUnder(key)) \in Nat /\ perKeyLimit \in Nat
      BY <2>1, FS_CardinalityType DEF WaitAssumption
    <2>3. perKeyLimit > 0 /\ Cardinality(OpenUnder(key)) >= perKeyLimit
      BY <1>4 DEF KeyFull
    <2>4. Cardinality(OpenUnder(key)) = perKeyLimit
      BY <2>2, <2>3 DEF WaitInv, WaitersSound, KeyLimitHeld
    <2>5. \A i \in OpenUnder(key) : i \in ListSlots /\ i \notin Reclaimed
      BY DEF OpenUnder, Under, Filled, Reclaimed, ClosedEntries, ReplyState
    <2>6. \A i \in OpenUnder(key) : entries'[i] = entries[i]
      BY <1>3, <2>5
    <2>7. QED
      BY <1>2, <1>4, <2>4, <2>6
  <1>5. CASE ~KeyFull(key)
    <2>1. freeEntries = {} /\ Reclaimed = {} /\ ClosedEntries = {}
      BY <1>3, <1>5 DEF ListFull, Reclaimed
    <2>2. \A i \in ListSlots : i \in Filled
      BY <2>1 DEF WaitInv, WaitersSound, SlotsAccounted, Filled
    <2>3. \A i \in ListSlots : replySlot[entries[i].call] = "Open"
      BY <2>1, <2>2 DEF ClosedEntries, ReplyState, Pending
    <2>4. \A i \in ListSlots : entries'[i] = entries[i]
      BY <1>3, <2>1
    <2>5. QED
      BY <1>2, <1>5, <2>2, <2>3, <2>4 DEF Filled
  <1>6. QED
    BY <1>4, <1>5

\* Whoever is handed out, or woken with a whole key, was admitted first.
LEMMA ServiceInOrder ==
    ASSUME WaitAssumption, WaitInv, WaitNext
    PROVE  FifoPerKey
  <1> USE WaitTypes DEF WaitTypeOK
  <1>1. \A i \in Filled : born[entries[i].call] = entries[i].seq
    BY DEF WaitInv, EntriesTrue
  <1>2. \A i, j \in Filled : entries[i].call = entries[j].call => i = j
    BY DEF WaitInv, WaitersSound, NobodyStranded
  <1>3. ASSUME NEW c \in taken' \ taken, NEW i \in Filled, entries[i].call = c,
               NEW j \in OpenUnder(entries[i].key)
        PROVE  born[entries[j].call] >= born[c]
    <2>1. PICK key \in WaitKeys : TakeNext(key)
      BY <1>3 DEF WaitNext, Park, ParkRefused, SweepWaiters, ReplyOne, ReplyAll, DrainAll,
                  RunEffect, SettleNext, DropTaken, WaiterGone
    <2>2. PICK k \in Oldest(key) : c = entries[k].call
      BY <1>3, <2>1 DEF TakeNext
    <2>3. k \in OpenUnder(key) /\ k \in Filled /\ entries[k].key = key
      BY <2>2 DEF Oldest, OpenUnder, Under
    <2>4. k = i
      BY <1>2, <1>3, <2>2, <2>3
    <2>5. entries[i].seq <= entries[j].seq /\ j \in Filled
      BY <1>3, <2>2, <2>3, <2>4 DEF Oldest, OpenUnder, Under
    <2>6. entries[i].seq \in Nat /\ entries[j].seq \in Nat
      BY <1>3, <2>5 DEF WaitEntry
    <2>7. QED
      BY <1>1, <1>3, <2>5, <2>6
  <1>4. ASSUME NEW e \in due' \ due, NEW f \in due' \ due, NEW key \in WaitKeys, ReplyAll(key),
               born[e.call] < born[f.call]
        PROVE  Before(e, f)
    <2>1. due' = {[call |-> entries[i].call, rank |-> entries[i].seq] : i \in Under(key)}
      BY <1>4 DEF ReplyAll, DrainForKey
    <2>2. PICK i \in Under(key) : e = [call |-> entries[i].call, rank |-> entries[i].seq]
      BY <2>1
    <2>3. PICK j \in Under(key) : f = [call |-> entries[j].call, rank |-> entries[j].seq]
      BY <2>1
    <2>4. i \in Filled /\ j \in Filled
      BY DEF Under
    <2>5. e.rank = born[e.call] /\ f.rank = born[f.call]
      BY <1>1, <2>2, <2>3, <2>4
    <2>6. QED
      BY <1>4, <2>5 DEF Before
  <1>5. QED
    BY <1>3, <1>4 DEF FifoPerKey

\* No step of the list refuses a caller for the sake of callers that have left,
\* and none passes over an earlier one of the same key.
THEOREM RefusalsAndServiceTrue ==
    WaitAssumption => (WaitSpec => [][RefusesAndServes]_waitVars)
  <1> SUFFICES ASSUME WaitAssumption
               PROVE  WaitSpec => [][RefusesAndServes]_waitVars
    OBVIOUS
  <1>1. WaitInit => WaitInv
    BY WaitStarts
  <1>2. WaitInv /\ [WaitNext]_waitVars => WaitInv'
    BY WaitStep
  <1>3. WaitInv /\ [WaitNext]_waitVars => [RefusesAndServes]_waitVars
    BY RefusalsTrue, ServiceInOrder DEF RefusesAndServes
  <1>4. QED
    BY <1>1, <1>2, <1>3, PTL DEF WaitSpec

-----------------------------------------------------------------------------
(* Permits: the inductive invariant.                                       *)

\* Permits are finite in number and issued once; none is of a generation that
\* its gate has not reached.
PermitsApart ==
    /\ IsFiniteSet(permits) /\ IsFiniteSet(lost)
    /\ permits \cap lost = {}
    /\ \A p \in permits \cup lost : p.id <= issued /\ p.generation <= generation[p.gate]

\* The inductive invariant of Permits.
PermitInv == ChargesExact /\ PermitsApart

\* What the invariant says of types and counts.
LEMMA PermitTypes ==
    ASSUME PermitAssumption, PermitInv
    PROVE  /\ PermitTypeOK /\ issued \in Nat /\ MaxIds[service] \in Nat
           /\ \A p \in permits \cup lost :
                 p.id \in Nat /\ p.gate \in Gates /\ p.generation \in Nat
           /\ \A g \in Gates : generation[g] \in Nat
           /\ \A g \in Gates : IsFiniteSet(Outstanding(g))
           /\ \A g \in Gates : current[g] = Cardinality(Outstanding(g))
           /\ \A g \in Gates : current[g] \in Nat /\ current[g] <= GateCapacity
           /\ Cardinality(permits) \in Nat
  <1>1. PermitTypeOK /\ GateExact /\ PermitsApart
    BY DEF PermitInv, ChargesExact
  <1>2. issued \in Nat /\ MaxIds[service] \in Nat
    BY <1>1 DEF PermitTypeOK, PermitAssumption
  <1>3. \A p \in permits \cup lost : p.id \in Nat /\ p.gate \in Gates /\ p.generation \in Nat
    BY <1>1 DEF PermitTypeOK, Permit
  <1>4. \A g \in Gates : generation[g] \in Nat
    BY <1>1 DEF PermitTypeOK, PermitAssumption
  <1>5. IsFiniteSet(permits \cup lost)
    BY <1>1, FS_Union DEF PermitsApart
  <1>6. \A g \in Gates : IsFiniteSet(Outstanding(g))
    BY <1>5, FS_Subset DEF Outstanding
  <1>7. Cardinality(permits) \in Nat
    BY <1>1, FS_CardinalityType DEF PermitsApart
  <1>8. QED
    BY <1>1, <1>2, <1>3, <1>4, <1>6, <1>7 DEF GateExact, PermitTypeOK

-----------------------------------------------------------------------------
(* Permits that are issued, taken back and dropped.                        *)

\* What the gates' side of the invariant is.
GatesTrue == GateExact /\ PermitsApart /\ PermitTypeOK

\* A permit is issued: it is a new one, and its gate had room.
LEMMA IssueKeeps ==
    ASSUME PermitAssumption, PermitInv, NEW g \in Gates, ~GateFull(g), Issue(g),
           UNCHANGED <<service, generation, limitClosed, lost>>, scope' \in Nat
    PROVE  /\ GatesTrue'
           /\ Cardinality(permits') = Cardinality(permits) + 1
  <1> USE PermitTypes DEF PermitTypeOK
  <1> DEFINE p == [id |-> issued + 1, gate |-> g, generation |-> generation[g]]
  <1>1. /\ issued < MaxIds[service] /\ issued' = issued + 1
        /\ current' = [current EXCEPT ![g] = @ + 1]
        /\ permits' = permits \cup {p}
    BY DEF Issue
  <1>2. /\ p \in Permit /\ p.id = issued + 1 /\ p.gate = g /\ p.generation = generation[g]
        /\ p.generation \in Nat
    BY DEF Permit
  <1> HIDE DEF p
  <1>3. p \notin permits \cup lost
    BY <1>2 DEF PermitInv, PermitsApart
  <1>4. PermitTypeOK'
    <2>1. current' \in [Gates -> Nat]
      BY <1>1
    <2>2. permits' \subseteq Permit /\ lost' \subseteq Permit
      BY <1>1, <1>2
    <2>3. issued' \in 0 .. MaxIds'[service']
      <3>1. MaxIds[service'] = MaxIds[service]
        OBVIOUS
      <3>2. QED
        BY <1>1, <3>1
    <2>4. QED
      BY <2>1, <2>2, <2>3
  <1>5. IsFiniteSet(permits') /\ Cardinality(permits') = Cardinality(permits) + 1
    BY <1>1, <1>3, FS_AddElement DEF PermitInv, PermitsApart
  <1>6. PermitsApart'
    BY <1>1, <1>2, <1>3, <1>5 DEF PermitInv, PermitsApart
  <1>7. GateExact'
    <2> SUFFICES ASSUME NEW h \in Gates
                 PROVE  current'[h] = Cardinality(Outstanding(h)') /\ current'[h] <= GateCapacity
      BY DEF GateExact
    <2>1. CASE h = g
      <3>1. Outstanding(h)' = Outstanding(h) \cup {p} /\ p \notin Outstanding(h)
        BY <1>1, <1>2, <1>3, <2>1 DEF Outstanding
      <3>2. Cardinality(Outstanding(h) \cup {p}) = Cardinality(Outstanding(h)) + 1
        BY <3>1, FS_AddElement
      <3>3. current'[h] = current[h] + 1 /\ current[h] < GateCapacity
        BY <1>1, <2>1 DEF GateFull, PermitAssumption
      <3>4. QED
        BY <3>1, <3>2, <3>3 DEF PermitAssumption
    <2>2. CASE h # g
      <3>1. Outstanding(h)' = Outstanding(h)
        BY <1>1, <1>2, <2>2 DEF Outstanding
      <3>2. current'[h] = current[h]
        BY <1>1, <2>2
      <3>3. QED
        BY <3>1, <3>2
    <2>3. QED
      BY <2>1, <2>2
  <1>8. QED
    BY <1>4, <1>5, <1>6, <1>7 DEF GatesTrue

\* A permit comes back to its gate: the gate is charged one less, unless it was
\* reset in between.
LEMMA TakeBackKeeps ==
    ASSUME PermitAssumption, PermitInv, NEW p \in permits, TakeBack(p.gate, p),
           permits' = permits \ {p}, UNCHANGED <<service, generation, limitClosed, lost, issued>>,
           scope' \in Nat
    PROVE  /\ GatesTrue'
           /\ Cardinality(permits') = Cardinality(permits) - 1
  <1> USE PermitTypes DEF PermitTypeOK
  <1>1. p \notin lost /\ p.gate \in Gates
    BY DEF PermitInv, PermitsApart
  <1>2. IsFiniteSet(permits') /\ Cardinality(permits') = Cardinality(permits) - 1
    BY FS_RemoveElement DEF PermitInv, PermitsApart
  <1>3. PermitsApart'
    BY <1>2 DEF PermitInv, PermitsApart
  <1>4. \A h \in Gates : Outstanding(h)' = Outstanding(h) \ {p}
    BY <1>1 DEF Outstanding
  <1>5. \A h \in Gates : p \in Outstanding(h) <=> (h = p.gate /\ p.generation = generation[h])
    BY DEF Outstanding
  <1>6. \A h \in Gates : Cardinality(Outstanding(h) \ {p}) =
           IF p \in Outstanding(h) THEN Cardinality(Outstanding(h)) - 1 ELSE Cardinality(Outstanding(h))
    BY FS_RemoveElement
  <1>7. \A h \in Gates : Cardinality(Outstanding(h) \ {p}) \in Nat
    BY FS_RemoveElement, FS_CardinalityType
  <1>8. CASE p.generation = generation[p.gate]
    <2>1. current[p.gate] - 1 \in Nat
      <3>1. p \in Outstanding(p.gate)
        BY <1>1, <1>5, <1>8
      <3>2. Cardinality(Outstanding(p.gate) \ {p}) = Cardinality(Outstanding(p.gate)) - 1
        BY <1>1, <1>6, <3>1
      <3>3. Cardinality(Outstanding(p.gate) \ {p}) \in Nat
        BY <1>1, <1>7
      <3>4. current[p.gate] = Cardinality(Outstanding(p.gate))
        BY <1>1
      <3>5. QED
        BY <3>2, <3>3, <3>4
    <2>2. current' = [current EXCEPT ![p.gate] = @ - 1]
      <3>1. Saturating(current[p.gate] - 1) = current[p.gate] - 1
        BY <2>1 DEF Saturating
      <3>2. current' = [current EXCEPT ![p.gate] = Saturating(current[p.gate] - 1)]
        BY <1>8 DEF TakeBack
      <3>3. QED
        BY <3>1, <3>2
    <2>3. current' \in [Gates -> Nat]
      BY <1>1, <2>1, <2>2
    <2>4. PermitTypeOK'
      BY <2>3
    <2>5. ASSUME NEW h \in Gates
          PROVE  current'[h] = Cardinality(Outstanding(h)') /\ current'[h] <= GateCapacity
      <3>1. CASE h = p.gate
        BY <1>4, <1>5, <1>6, <1>8, <2>2, <3>1 DEF PermitAssumption
      <3>2. CASE h # p.gate
        BY <1>4, <1>5, <1>6, <2>2, <3>2
      <3>3. QED
        BY <3>1, <3>2
    <2>6. QED
      BY <1>2, <1>3, <2>4, <2>5 DEF GatesTrue, GateExact
  <1>9. CASE p.generation # generation[p.gate]
    <2>1. current' = current
      BY <1>9 DEF TakeBack
    <2>2. PermitTypeOK'
      BY <2>1
    <2>3. ASSUME NEW h \in Gates
          PROVE  current'[h] = Cardinality(Outstanding(h)') /\ current'[h] <= GateCapacity
      BY <1>4, <1>5, <1>6, <1>9, <2>1
    <2>4. QED
      BY <1>2, <1>3, <2>2, <2>3 DEF GatesTrue, GateExact
  <1>10. QED
    BY <1>8, <1>9

\* A permit is dropped: its gate stays charged.
LEMMA DropKeeps ==
    ASSUME PermitAssumption, PermitInv, NEW p \in permits, permits' = permits \ {p},
           lost' = lost \cup {p},
           UNCHANGED <<service, current, generation, limitClosed, issued>>, scope' \in Nat
    PROVE  /\ GatesTrue'
           /\ Cardinality(permits') = Cardinality(permits) - 1
  <1> USE PermitTypes DEF PermitTypeOK
  <1>1. IsFiniteSet(permits') /\ Cardinality(permits') = Cardinality(permits) - 1
    BY FS_RemoveElement DEF PermitInv, PermitsApart
  <1>2. IsFiniteSet(lost')
    BY FS_AddElement DEF PermitInv, PermitsApart
  <1>3. permits' \cup lost' = permits \cup lost
    OBVIOUS
  <1>4. PermitsApart'
    BY <1>1, <1>2, <1>3 DEF PermitInv, PermitsApart
  <1>5. \A h \in Gates : Outstanding(h)' = Outstanding(h)
    BY <1>3 DEF Outstanding
  <1>6. GateExact'
    BY <1>5 DEF GateExact
  <1>7. PermitTypeOK'
    OBVIOUS
  <1>8. QED
    BY <1>1, <1>4, <1>6, <1>7 DEF GatesTrue

\* Steps that touch no permit: a gate is reset or a limit closes.
LEMMA ResetKeeps ==
    ASSUME PermitAssumption, PermitInv, NEW g \in Gates, GateReset(g), UNCHANGED service
    PROVE  PermitInv'
  <1> USE PermitTypes DEF PermitTypeOK
  <1>1. /\ generation[g] < MaxGeneration
        /\ generation' = [generation EXCEPT ![g] = @ + 1]
        /\ current' = [current EXCEPT ![g] = 0]
        /\ UNCHANGED <<service, limitClosed, scope, permits, lost, issued>>
    BY DEF GateReset
  <1>2. generation' \in [Gates -> 0 .. MaxGeneration] /\ current' \in [Gates -> Nat]
    BY <1>1 DEF PermitAssumption
  <1>3. PermitTypeOK'
    BY <1>1, <1>2
  <1>4. PermitsApart'
    BY <1>1 DEF PermitInv, PermitsApart
  <1>5. Outstanding(g)' = {}
    BY <1>1 DEF Outstanding, PermitInv, PermitsApart
  <1>6. \A h \in Gates \ {g} : Outstanding(h)' = Outstanding(h)
    BY <1>1 DEF Outstanding
  <1>7. ASSUME NEW h \in Gates
        PROVE  current'[h] = Cardinality(Outstanding(h)') /\ current'[h] <= GateCapacity
    <2>1. CASE h = g
      <3>1. Cardinality({}) = 0
        BY FS_EmptySet
      <3>2. current'[h] = 0
        BY <1>1, <2>1
      <3>3. Outstanding(h)' = {}
        BY <1>5, <2>1
      <3>4. Cardinality(Outstanding(h)') = 0
        BY <3>1, <3>3
      <3>5. QED
        BY <3>2, <3>4 DEF PermitAssumption
    <2>2. CASE h # g
      BY <1>1, <1>6, <2>2
    <2>3. QED
      BY <2>1, <2>2
  <1>8. ScopeExact'
    BY <1>1 DEF PermitInv, ChargesExact, ScopeExact
  <1>9. QED
    BY <1>3, <1>4, <1>7, <1>8 DEF PermitInv, ChargesExact, GateExact

\* Multiplication, for the scope.
LEMMA OneMore ==
    ASSUME NEW w \in Nat, NEW n \in Nat
    PROVE  w * n \in Nat /\ w * (n + 1) = w * n + w /\ w * (n - 1) = w * n - w
  OBVIOUS

\* The scope has one charge for every permit out, so taking one back leaves a
\* charge to give back.
LEMMA ScopeCharged ==
    ASSUME PermitAssumption, PermitInv
    PROVE  /\ scope \in Nat /\ scope <= ScopeMax
           /\ service = "limits" => scope = Weight * Cardinality(permits)
           /\ service = "gates" => scope = 0
           /\ service = "limits" /\ permits # {} => scope - Weight \in Nat
  <1>1. /\ scope \in Nat /\ scope <= ScopeMax
        /\ service = "limits" => scope = Weight * Cardinality(permits)
        /\ service = "gates" => scope = 0
    BY DEF PermitInv, ChargesExact, ScopeExact, PermitTypeOK
  <1>2. ASSUME service = "limits", permits # {}
        PROVE  scope - Weight \in Nat
    <2>1. IsFiniteSet(permits) /\ Cardinality(permits) \in Nat
      BY PermitTypes DEF PermitInv, PermitsApart
    <2>2. Cardinality(permits) # 0
      BY <1>2, <2>1, FS_EmptySet
    <2>3. PICK n \in Nat : Cardinality(permits) = n + 1
      <3>1. Cardinality(permits) - 1 \in Nat /\ Cardinality(permits) = (Cardinality(permits) - 1) + 1
        BY <2>1, <2>2
      <3>2. QED
        BY <3>1
    <2>4. scope = Weight * (n + 1)
      BY <1>1, <1>2, <2>3
    <2>5. Weight * n \in Nat /\ Weight * (n + 1) = Weight * n + Weight /\ Weight \in Nat
      BY OneMore DEF PermitAssumption
    <2>6. QED
      BY <2>4, <2>5
  <1>3. QED
    BY <1>1, <1>2

\* The charges after a step, from the gates' side and the scope's.
LEMMA ChargesFollow ==
    ASSUME PermitAssumption, GatesTrue', scope' \in Nat, scope' <= ScopeMax,
           scope' = (IF service' = "limits" THEN Weight * Cardinality(permits') ELSE 0)
    PROVE  PermitInv'
  BY DEF PermitInv, ChargesExact, ScopeExact, GatesTrue

-----------------------------------------------------------------------------
(* The theorem.                                                            *)

\* Plain gates: the scope is never charged.
LEMMA GatesKeep ==
    ASSUME PermitAssumption, PermitInv, service = "gates", OwnGateNext, UNCHANGED service
    PROVE  PermitInv'
  <1>1. scope = 0 /\ 0 \in Nat /\ 0 <= ScopeMax
    BY ScopeCharged DEF PermitAssumption
  <1>2. ASSUME NEW g \in Gates, GateAdmit(g) PROVE PermitInv'
    <2>1. GatesTrue' /\ scope' = 0
      BY <1>1, <1>2, IssueKeeps DEF GateAdmit
    <2>2. QED
      BY <1>1, <2>1, ChargesFollow
  <1>3. ASSUME NEW g \in Gates, GateReset(g) PROVE PermitInv'
    BY <1>3, ResetKeeps
  <1>4. ASSUME NEW p \in permits, GateRelease(p.gate, p) PROVE PermitInv'
    <2>1. GatesTrue' /\ scope' = 0
      BY <1>1, <1>4, TakeBackKeeps DEF GateRelease
    <2>2. QED
      BY <1>1, <2>1, ChargesFollow
  <1>5. ASSUME NEW p \in permits, GateDrop(p) PROVE PermitInv'
    <2>1. GatesTrue' /\ scope' = 0
      BY <1>1, <1>5, DropKeeps DEF GateDrop
    <2>2. QED
      BY <1>1, <2>1, ChargesFollow
  <1>6. QED
    BY <1>2, <1>3, <1>4, <1>5 DEF OwnGateNext

\* Limits: gate and scope are charged together and let go of together.
LEMMA LimitsKeep ==
    ASSUME PermitAssumption, PermitInv, service = "limits", LimitNext, UNCHANGED service
    PROVE  PermitInv'
  <1> DEFINE n == Cardinality(permits)
  <1>1. /\ scope \in Nat /\ scope <= ScopeMax /\ scope = Weight * n
        /\ (permits # {} => scope - Weight \in Nat)
        /\ n \in Nat /\ Weight \in Nat /\ ScopeMax \in Nat
    BY ScopeCharged, PermitTypes DEF PermitAssumption
  <1>2. Weight * (n + 1) = Weight * n + Weight /\ Weight * (n - 1) = Weight * n - Weight
    BY <1>1, OneMore
  <1> HIDE DEF n
  <1>3. ASSUME NEW g \in Gates, LimitAdmit(g), ScopeCharges(g), UNCHANGED limitClosed
        PROVE  PermitInv'
    <2>1. scope' = scope + Weight /\ scope + Weight <= ScopeMax /\ scope' \in Nat
      BY <1>1, <1>3 DEF ScopeCharges
    <2>2. GatesTrue' /\ Cardinality(permits') = n + 1
      BY <1>3, <2>1, IssueKeeps DEF LimitAdmit, ScopeCharges, n
    <2>3. scope' = Weight * Cardinality(permits')
      BY <1>1, <1>2, <2>1, <2>2
    <2>4. QED
      BY <2>1, <2>2, <2>3, ChargesFollow
  <1>4. ASSUME NEW g \in Gates, LimitAdmit(g), ScopeRefuses(g),
               limitClosed' \in {limitClosed, [limitClosed EXCEPT ![g] = TRUE]}
        PROVE  PermitInv'
    <2>1. /\ UNCHANGED <<service, current, scope, permits, generation, lost>>
          /\ issued < MaxIds[service] /\ issued' = issued + 1
      BY <1>4 DEF LimitAdmit, ScopeRefuses
    <2>2. PermitTypeOK /\ issued \in Nat /\ MaxIds[service] \in Nat
      BY PermitTypes
    <2>3. limitClosed' \in [Gates -> BOOLEAN]
      BY <1>4, <2>2 DEF PermitTypeOK
    <2>4. issued' \in 0 .. MaxIds[service]
      BY <2>1, <2>2
    <2>5. PermitTypeOK'
      BY <2>1, <2>2, <2>3, <2>4 DEF PermitTypeOK
    <2>6. PermitsApart
      BY DEF PermitInv
    <2>7. \A p \in permits \cup lost : p.id \in Nat
      BY PermitTypes
    <2>8. PermitsApart'
      BY <2>1, <2>2, <2>6, <2>7 DEF PermitsApart
    <2>9. GateExact' /\ ScopeExact'
      BY <2>1 DEF PermitInv, ChargesExact, GateExact, Outstanding, ScopeExact
    <2>10. QED
      BY <2>5, <2>8, <2>9 DEF PermitInv, ChargesExact
  <1>5. ASSUME NEW g \in Gates, LimitClose(g) PROVE PermitInv'
    <2>1. UNCHANGED <<service, current, scope, permits, generation, lost, issued>>
      BY <1>5 DEF LimitClose
    <2>2. PermitTypeOK
      BY PermitTypes
    <2>3. limitClosed' \in [Gates -> BOOLEAN]
      BY <1>5, <2>2 DEF PermitTypeOK, LimitClose
    <2>4. PermitTypeOK'
      BY <2>1, <2>2, <2>3 DEF PermitTypeOK
    <2>5. PermitsApart' /\ GateExact' /\ ScopeExact'
      BY <2>1 DEF PermitInv, ChargesExact, GateExact, Outstanding, ScopeExact, PermitsApart
    <2>6. QED
      BY <2>4, <2>5 DEF PermitInv, ChargesExact
  <1>6. ASSUME NEW g \in Gates, NEW p \in permits, Consume(g, p) PROVE PermitInv'
    <2>1. scope' = scope - Weight /\ scope' \in Nat /\ scope' <= ScopeMax
      BY <1>1, <1>6 DEF Consume
    <2>2. GatesTrue' /\ Cardinality(permits') = n - 1
      BY <1>6, <2>1, TakeBackKeeps DEF Consume, n
    <2>3. scope' = Weight * Cardinality(permits')
      BY <1>1, <1>2, <2>1, <2>2
    <2>4. QED
      BY <2>1, <2>2, <2>3, ChargesFollow
  <1>7. ASSUME NEW p \in permits, LimitDrop(p) PROVE PermitInv'
    <2>1. scope' = scope - Weight /\ scope' \in Nat /\ scope' <= ScopeMax
      BY <1>1, <1>7 DEF LimitDrop
    <2>2. GatesTrue' /\ Cardinality(permits') = n - 1
      BY <1>7, <2>1, DropKeeps DEF LimitDrop, n
    <2>3. scope' = Weight * Cardinality(permits')
      BY <1>1, <1>2, <2>1, <2>2
    <2>4. QED
      BY <2>1, <2>2, <2>3, ChargesFollow
  <1>8. ASSUME NEW g \in Gates, LimitAdmit(g) PROVE PermitInv'
    <2>1. \/ ScopeCharges(g) /\ UNCHANGED limitClosed
          \/ ScopeRefuses(g) /\ limitClosed' \in {limitClosed, [limitClosed EXCEPT ![g] = TRUE]}
      BY <1>8 DEF LimitAdmit
    <2>2. QED
      BY <1>3, <1>4, <1>8, <2>1
  <1>9. QED
    BY <1>5, <1>6, <1>7, <1>8 DEF LimitNext

\* New gates have nothing out.
LEMMA PermitsStart ==
    ASSUME PermitAssumption, PermitInit
    PROVE  PermitInv
  <1> USE DEF PermitInit
  <1>1. IsFiniteSet({}) /\ Cardinality({}) = 0
    BY FS_EmptySet
  <1>2. PermitTypeOK
    <2>1. 0 \in 0 .. MaxIds[service] /\ 0 \in 0 .. MaxGeneration
      BY DEF PermitAssumption
    <2>2. QED
      BY <2>1 DEF PermitTypeOK
  <1>3. \A g \in Gates : Outstanding(g) = {}
    BY DEF Outstanding
  <1>4. GateExact
    BY <1>1, <1>3 DEF GateExact, PermitAssumption
  <1>5. ScopeExact
    BY <1>1 DEF ScopeExact, PermitAssumption
  <1>6. PermitsApart
    BY <1>1 DEF PermitsApart
  <1>7. QED
    BY <1>2, <1>4, <1>5, <1>6 DEF PermitInv, ChargesExact

\* For any gates, capacity, scope and weight, and any order of admissions,
\* releases, drops, resets and closes: a gate is charged for the permits of its
\* generation that are out or were dropped and never beyond its capacity, and
\* the scope for the permits out.
THEOREM ChargesStayExact == PermitAssumption => (PermitSpec => []ChargesExact)
  <1> SUFFICES ASSUME PermitAssumption
               PROVE  PermitSpec => []ChargesExact
    OBVIOUS
  <1>1. PermitInit => PermitInv
    BY PermitsStart
  <1>2. PermitInv /\ [PermitNext]_permitVars => PermitInv'
    <2> SUFFICES ASSUME PermitInv, [PermitNext]_permitVars
                 PROVE  PermitInv'
      OBVIOUS
    <2>1. CASE PermitNext
      BY <2>1, GatesKeep, LimitsKeep DEF PermitNext
    <2>2. CASE UNCHANGED permitVars
      BY <2>2 DEF permitVars, PermitInv, ChargesExact, PermitTypeOK, GateExact, Outstanding,
                  ScopeExact, PermitsApart
    <2>3. QED
      BY <2>1, <2>2
  <1>3. PermitInv => ChargesExact
    BY DEF PermitInv
  <1>4. QED
    BY <1>1, <1>2, <1>3, PTL DEF PermitSpec

-----------------------------------------------------------------------------
(* Keyed limits: the inductive invariant.                                  *)

\* Permits are finite in number and told apart by their ids.
KeyPermitsApart ==
    /\ IsFiniteSet(keyPermits) /\ IsFiniteSet(keyedDropped)
    /\ keyPermits \cap keyedDropped = {}
    /\ \A p \in PermitsOut : p.id <= keyIssued

\* No key has two slots of a limit.
OneSlotPerKey ==
    \A l \in Limits : \A s, t \in KeyedSlots :
        /\ keySlots[l][s] # NoSlot /\ keySlots[l][t] # NoSlot
        /\ keySlots[l][s].key = keySlots[l][t].key
        => s = t

\* The inductive invariant of KeyedLimit.
KeyedInv == /\ KeyedTypeOK /\ SlotsExact /\ PermitsMatchTheirKey
            /\ KeyPermitsApart /\ OneSlotPerKey

\* What the invariant says of types and counts.
LEMMA KeyedFacts ==
    ASSUME KeyedAssumption, KeyedInv
    PROVE  /\ KeyedSlots \subseteq Nat /\ IsFiniteSet(KeyedSlots)
           /\ Cardinality(KeyedSlots) = NumSlots
           /\ \A l \in Limits : IsFiniteSet(FreeKeySlots(l))
           /\ \A l \in Limits : Cardinality(FreeKeySlots(l)) \in Nat
           /\ \A l \in Limits : \A s \in KeyedSlots :
                 /\ keySlots[l][s] \in KeyedSlot \cup {NoSlot}
                 /\ s \in FreeKeySlots(l) <=> keySlots[l][s] = NoSlot
           /\ \A l \in Limits : \A s \in KeyedSlots : keySlots[l][s] # NoSlot =>
                 /\ keySlots[l][s].key \in LimitKeys /\ keySlots[l][s].generation \in Nat
                 /\ keySlots[l][s].current = Cardinality(OutOn(l, s))
                 /\ keySlots[l][s].current \in 1 .. PerKey
           /\ \A p \in PermitsOut :
                 /\ p \in KeyedPermit /\ p.id \in Nat /\ p.limit \in Limits
                 /\ p.slot \in KeyedSlots /\ p.key \in LimitKeys /\ p.generation \in Nat
           /\ \A l \in Limits : \A s \in KeyedSlots : IsFiniteSet(OutOn(l, s))
  <1>1. /\ KeyedTypeOK /\ SlotsExact /\ KeyPermitsApart
        /\ NumSlots \in Nat /\ NumSlots # 0 /\ NoSlot \notin KeyedSlot
    BY DEF KeyedInv, KeyedAssumption
  <1>2. KeyedSlots \subseteq Nat
    BY <1>1 DEF KeyedSlots
  <1>3. IsFiniteSet(KeyedSlots) /\ Cardinality(KeyedSlots) = NumSlots
    BY <1>1, FS_Interval DEF KeyedSlots
  <1>4. \A l \in Limits : IsFiniteSet(FreeKeySlots(l))
    BY <1>3, FS_Subset DEF FreeKeySlots
  <1>5. \A l \in Limits : Cardinality(FreeKeySlots(l)) \in Nat
    BY <1>4, FS_CardinalityType
  <1>6. \A l \in Limits : \A s \in KeyedSlots :
           /\ keySlots[l][s] \in KeyedSlot \cup {NoSlot}
           /\ s \in FreeKeySlots(l) <=> keySlots[l][s] = NoSlot
    BY <1>1 DEF KeyedTypeOK, FreeKeySlots
  <1>7. \A l \in Limits : \A s \in KeyedSlots : keySlots[l][s] # NoSlot =>
           keySlots[l][s].key \in LimitKeys /\ keySlots[l][s].generation \in Nat
    BY <1>6 DEF KeyedSlot
  <1>8. \A l \in Limits : \A s \in KeyedSlots : keySlots[l][s] # NoSlot =>
           /\ keySlots[l][s].current = Cardinality(OutOn(l, s))
           /\ keySlots[l][s].current \in 1 .. PerKey
    BY <1>1, <1>6 DEF SlotsExact
  <1>9. \A p \in PermitsOut :
           /\ p \in KeyedPermit /\ p.id \in Nat /\ p.limit \in Limits
           /\ p.slot \in KeyedSlots /\ p.key \in LimitKeys /\ p.generation \in Nat
    BY <1>1 DEF KeyedTypeOK, KeyedPermit, PermitsOut
  <1>10. IsFiniteSet(PermitsOut)
    BY <1>1, FS_Union DEF KeyPermitsApart, PermitsOut
  <1>11. \A l \in Limits : \A s \in KeyedSlots : IsFiniteSet(OutOn(l, s))
    BY <1>10, FS_Subset DEF OutOn
  <1>12. QED
    BY <1>2, <1>3, <1>4, <1>5, <1>6, <1>7, <1>8, <1>9, <1>11

\* A slot is given a value.
SlotWrite(l, s, v) == keySlots' = [keySlots EXCEPT ![l][s] = v]

\* The table afterwards.
LEMMA SlotWritten ==
    ASSUME KeyedTypeOK, NEW l \in Limits, NEW s \in KeyedSlots,
           NEW v \in KeyedSlot \cup {NoSlot}, SlotWrite(l, s, v)
    PROVE  /\ keySlots' \in [Limits -> [KeyedSlots -> KeyedSlot \cup {NoSlot}]]
           /\ \A m \in Limits : \A t \in KeyedSlots :
                 keySlots'[m][t] = IF m = l /\ t = s THEN v ELSE keySlots[m][t]
  <1> DEFINE row == [keySlots[l] EXCEPT ![s] = v]
  <1>1. keySlots \in [Limits -> [KeyedSlots -> KeyedSlot \cup {NoSlot}]]
    BY DEF KeyedTypeOK
  <1>2. keySlots' = [keySlots EXCEPT ![l] = row]
    BY DEF SlotWrite
  <1>3. row \in [KeyedSlots -> KeyedSlot \cup {NoSlot}]
    BY <1>1
  <1>4. \A t \in KeyedSlots : row[t] = IF t = s THEN v ELSE keySlots[l][t]
    BY <1>1
  <1> HIDE DEF row
  <1>5. keySlots' \in [Limits -> [KeyedSlots -> KeyedSlot \cup {NoSlot}]]
    BY <1>1, <1>2, <1>3
  <1>6. \A m \in Limits : keySlots'[m] = IF m = l THEN row ELSE keySlots[m]
    BY <1>1, <1>2
  <1>7. QED
    BY <1>4, <1>5, <1>6

\* A slot with another charge stays its key's under its generation.
LEMMA RechargedSlot ==
    ASSUME NEW entry \in KeyedSlot, NEW n \in Nat
    PROVE  /\ Recharged(entry, n) \in KeyedSlot /\ Recharged(entry, n).current = n
           /\ Recharged(entry, n).key = entry.key
           /\ Recharged(entry, n).generation = entry.generation
  BY DEF Recharged, KeyedSlot

-----------------------------------------------------------------------------
(* Permits that are issued, given back and dropped.                        *)

\* A permit is issued: the permits that are out afterwards.
LEMMA PermitIssued ==
    ASSUME KeyedAssumption, KeyedInv, NEW l \in Limits, NEW k \in LimitKeys,
           NEW s \in KeyedSlots, NEW gen \in Nat, IssuePermit(l, k, s, gen),
           keyedDropped' = keyedDropped
    PROVE  \E p \in KeyedPermit :
              /\ p.limit = l /\ p.slot = s /\ p.generation = gen /\ p.key = k
              /\ PermitsOut' = PermitsOut \cup {p}
              /\ \A m \in Limits : \A t \in KeyedSlots :
                    OutOn(m, t)' = IF m = l /\ t = s THEN OutOn(m, t) \cup {p} ELSE OutOn(m, t)
              /\ Cardinality(OutOn(l, s)') = Cardinality(OutOn(l, s)) + 1
              /\ KeyPermitsApart'
              /\ keyPermits' \subseteq KeyedPermit /\ keyIssued' \in 0 .. MaxKeyIds
  <1> DEFINE p == [id |-> keyIssued + 1, limit |-> l, slot |-> s, generation |-> gen, key |-> k]
  <1>1. /\ keyIssued \in Nat /\ keyIssued <= MaxKeyIds /\ MaxKeyIds \in Nat
        /\ keyPermits \subseteq KeyedPermit
    BY DEF KeyedInv, KeyedTypeOK, KeyedAssumption
  <1>2. /\ p \in KeyedPermit /\ p.id = keyIssued + 1 /\ p.limit = l /\ p.slot = s
        /\ p.generation = gen /\ p.key = k
    BY <1>1 DEF KeyedPermit
  <1>3. /\ keyIssued < MaxKeyIds /\ keyIssued' = keyIssued + 1
        /\ keyPermits' = keyPermits \cup {p}
    BY DEF IssuePermit
  <1> HIDE DEF p
  <1>4. p \notin PermitsOut
    BY <1>1, <1>2 DEF KeyedInv, KeyPermitsApart
  <1>5. PermitsOut' = PermitsOut \cup {p}
    BY <1>3 DEF PermitsOut
  <1>6. \A m \in Limits : \A t \in KeyedSlots :
           OutOn(m, t)' = IF m = l /\ t = s THEN OutOn(m, t) \cup {p} ELSE OutOn(m, t)
    BY <1>2, <1>5 DEF OutOn
  <1>7. Cardinality(OutOn(l, s)') = Cardinality(OutOn(l, s)) + 1
    <2>1. IsFiniteSet(OutOn(l, s)) /\ p \notin OutOn(l, s)
      BY <1>4, KeyedFacts DEF OutOn
    <2>2. Cardinality(OutOn(l, s) \cup {p}) = Cardinality(OutOn(l, s)) + 1
      BY <2>1, FS_AddElement
    <2>3. QED
      BY <1>6, <2>2
  <1>8. KeyPermitsApart'
    <2>1. IsFiniteSet(keyPermits') /\ IsFiniteSet(keyedDropped')
      BY <1>3, FS_AddElement DEF KeyedInv, KeyPermitsApart
    <2>2. keyPermits' \cap keyedDropped' = {}
      BY <1>3, <1>4 DEF KeyedInv, KeyPermitsApart, PermitsOut
    <2>3. \A q \in PermitsOut : q.id <= keyIssued /\ q.id \in Nat
      BY KeyedFacts DEF KeyedInv, KeyPermitsApart
    <2>4. \A q \in PermitsOut' : q.id <= keyIssued'
      BY <1>1, <1>2, <1>3, <1>5, <2>3
    <2>5. QED
      BY <2>1, <2>2, <2>4 DEF KeyPermitsApart
  <1>9. keyPermits' \subseteq KeyedPermit /\ keyIssued' \in 0 .. MaxKeyIds
    BY <1>1, <1>2, <1>3
  <1>10. QED
    BY <1>2, <1>5, <1>6, <1>7, <1>8, <1>9

\* A permit is taken out of the holders' hands.
LEMMA PermitGone ==
    ASSUME KeyedAssumption, KeyedInv, NEW p \in keyPermits, keyPermits' = keyPermits \ {p},
           keyedDropped' = keyedDropped, keyIssued' = keyIssued
    PROVE  /\ PermitsOut' = PermitsOut \ {p} /\ p \in PermitsOut
           /\ \A m \in Limits : \A t \in KeyedSlots :
                 OutOn(m, t)' = IF m = p.limit /\ t = p.slot THEN OutOn(m, t) \ {p} ELSE OutOn(m, t)
           /\ Cardinality(OutOn(p.limit, p.slot)') = Cardinality(OutOn(p.limit, p.slot)) - 1
           /\ KeyPermitsApart'
  <1>1. p \notin keyedDropped
    BY DEF KeyedInv, KeyPermitsApart
  <1>2. PermitsOut' = PermitsOut \ {p} /\ p \in PermitsOut
    BY <1>1 DEF PermitsOut
  <1>3. p.limit \in Limits /\ p.slot \in KeyedSlots
    BY <1>2, KeyedFacts
  <1>4. \A m \in Limits : \A t \in KeyedSlots :
           OutOn(m, t)' = IF m = p.limit /\ t = p.slot THEN OutOn(m, t) \ {p} ELSE OutOn(m, t)
    BY <1>2 DEF OutOn
  <1>5. Cardinality(OutOn(p.limit, p.slot)') = Cardinality(OutOn(p.limit, p.slot)) - 1
    <2>1. IsFiniteSet(OutOn(p.limit, p.slot)) /\ p \in OutOn(p.limit, p.slot)
      BY <1>2, <1>3, KeyedFacts DEF OutOn
    <2>2. Cardinality(OutOn(p.limit, p.slot) \ {p}) = Cardinality(OutOn(p.limit, p.slot)) - 1
      BY <2>1, FS_RemoveElement
    <2>3. QED
      BY <1>3, <1>4, <2>2
  <1>6. IsFiniteSet(keyPermits')
    BY FS_RemoveElement DEF KeyedInv, KeyPermitsApart
  <1>7. KeyPermitsApart'
    BY <1>2, <1>6 DEF KeyedInv, KeyPermitsApart
  <1>8. QED
    BY <1>2, <1>4, <1>5, <1>7

-----------------------------------------------------------------------------
(* The steps.                                                              *)

\* A key with a slot is admitted.
LEMMA HeldKeyStep ==
    ASSUME KeyedAssumption, KeyedInv, NEW l \in Limits, NEW k \in LimitKeys, AdmitHeldKey(l, k)
    PROVE  KeyedInv'
  <1> USE KeyedFacts
  <1>1. PICK s \in KeyedSlots :
           /\ keySlots[l][s] # NoSlot /\ keySlots[l][s].key = k
           /\ keySlots[l][s].current < PerKey
           /\ SlotWrite(l, s, Recharged(keySlots[l][s], keySlots[l][s].current + 1))
           /\ IssuePermit(l, k, s, keySlots[l][s].generation)
    BY DEF AdmitHeldKey, FirstOf, SlotsOf, SlotWrite
  <1>2. UNCHANGED <<liveKeys, nextGen, keyedClosed, fullCount, perKeyFull, invalid, keyedDropped>>
    BY DEF AdmitHeldKey
  <1>3. KeyedTypeOK /\ SlotsExact /\ PermitsMatchTheirKey /\ OneSlotPerKey
    BY DEF KeyedInv
  <1>4. /\ keySlots[l][s].current \in Nat /\ keySlots[l][s].generation \in Nat
        /\ PerKey \in Nat /\ keySlots[l][s].current = Cardinality(OutOn(l, s))
    BY <1>1 DEF KeyedAssumption
  <1> DEFINE v == Recharged(keySlots[l][s], keySlots[l][s].current + 1)
  <1>5. /\ v \in KeyedSlot /\ v.current = keySlots[l][s].current + 1 /\ v.key = k
        /\ v.generation = keySlots[l][s].generation /\ SlotWrite(l, s, v)
    <2>1. keySlots[l][s] \in KeyedSlot /\ keySlots[l][s].current + 1 \in Nat
      BY <1>1, <1>4
    <2>2. QED
      BY <1>1, <2>1, RechargedSlot
  <1> HIDE DEF v
  <1>6. v # NoSlot
    BY <1>5 DEF KeyedAssumption
  <1>7. /\ keySlots' \in [Limits -> [KeyedSlots -> KeyedSlot \cup {NoSlot}]]
        /\ \A m \in Limits : \A t \in KeyedSlots :
              keySlots'[m][t] = IF m = l /\ t = s THEN v ELSE keySlots[m][t]
    BY <1>3, <1>5, SlotWritten
  <1>8. PICK p \in KeyedPermit :
           /\ p.limit = l /\ p.slot = s /\ p.generation = keySlots[l][s].generation /\ p.key = k
           /\ PermitsOut' = PermitsOut \cup {p}
           /\ \A m \in Limits : \A t \in KeyedSlots :
                 OutOn(m, t)' = IF m = l /\ t = s THEN OutOn(m, t) \cup {p} ELSE OutOn(m, t)
           /\ Cardinality(OutOn(l, s)') = Cardinality(OutOn(l, s)) + 1
           /\ KeyPermitsApart'
           /\ keyPermits' \subseteq KeyedPermit /\ keyIssued' \in 0 .. MaxKeyIds
    BY <1>1, <1>2, <1>4, PermitIssued
  <1>9. KeyedTypeOK'
    BY <1>2, <1>3, <1>7, <1>8 DEF KeyedTypeOK
  <1>10. SlotsExact'
    <2>1. \A m \in Limits : FreeKeySlots(m)' = FreeKeySlots(m)
      BY <1>1, <1>6, <1>7 DEF FreeKeySlots
    <2>2. ASSUME NEW m \in Limits
          PROVE  liveKeys'[m] = NumSlots - Cardinality(FreeKeySlots(m)')
      BY <1>2, <1>3, <2>1 DEF SlotsExact
    <2>3. ASSUME NEW m \in Limits, NEW t \in KeyedSlots \ FreeKeySlots(m)'
          PROVE  /\ keySlots'[m][t].current = Cardinality(OutOn(m, t)')
                 /\ keySlots'[m][t].current \in 1 .. PerKey
      <3>1. CASE m = l /\ t = s
        BY <1>1, <1>4, <1>5, <1>7, <1>8, <3>1
      <3>2. CASE ~(m = l /\ t = s)
        BY <1>7, <1>8, <2>1, <3>2
      <3>3. QED
        BY <3>1, <3>2
    <2>4. QED
      BY <2>2, <2>3 DEF SlotsExact
  <1>11. PermitsMatchTheirKey'
    <2>1. ASSUME NEW q \in PermitsOut'
          PROVE  /\ keySlots'[q.limit][q.slot] # NoSlot
                 /\ keySlots'[q.limit][q.slot].key = q.key
                 /\ keySlots'[q.limit][q.slot].generation = q.generation
      <3>1. CASE q = p
        BY <1>5, <1>6, <1>7, <1>8, <3>1
      <3>2. CASE q \in PermitsOut
        <4>1. /\ keySlots[q.limit][q.slot] # NoSlot
              /\ keySlots[q.limit][q.slot].key = q.key
              /\ keySlots[q.limit][q.slot].generation = q.generation
              /\ q.limit \in Limits /\ q.slot \in KeyedSlots
          BY <1>3, <3>2 DEF PermitsMatchTheirKey
        <4>2. QED
          BY <1>1, <1>5, <1>6, <1>7, <4>1
      <3>3. QED
        BY <1>8, <3>1, <3>2
    <2>2. \A m \in Limits : invalid'[m] = 0
      BY <1>2, <1>3 DEF PermitsMatchTheirKey
    <2>3. QED
      BY <2>1, <2>2 DEF PermitsMatchTheirKey
  <1>12. OneSlotPerKey'
    BY <1>1, <1>3, <1>5, <1>7 DEF OneSlotPerKey
  <1>13. QED
    BY <1>8, <1>9, <1>10, <1>11, <1>12 DEF KeyedInv

\* A key without a slot is admitted: nobody holds a permit on a free slot.
LEMMA NewKeyStep ==
    ASSUME KeyedAssumption, KeyedInv, NEW l \in Limits, NEW k \in LimitKeys, AdmitNewKey(l, k),
           SlotsOf(l, k) = {}
    PROVE  KeyedInv'
  <1> USE KeyedFacts
  <1> DEFINE v == [key |-> k, current |-> 1, generation |-> nextGen[l]]
  <1>1. PICK s \in KeyedSlots :
           /\ keySlots[l][s] = NoSlot
           /\ SlotWrite(l, s, v)
           /\ IssuePermit(l, k, s, nextGen[l])
    BY DEF AdmitNewKey, FirstOf, FreeKeySlots, SlotWrite
  <1>2. /\ liveKeys' = [liveKeys EXCEPT ![l] = @ + 1]
        /\ nextGen' = [nextGen EXCEPT ![l] = @ + 1]
        /\ UNCHANGED <<keyedClosed, fullCount, perKeyFull, invalid, keyedDropped>>
    BY DEF AdmitNewKey
  <1>3. KeyedTypeOK /\ SlotsExact /\ PermitsMatchTheirKey /\ OneSlotPerKey
    BY DEF KeyedInv
  <1>4. nextGen[l] \in Nat /\ PerKey \in Nat /\ PerKey # 0 /\ NumSlots \in Nat
    BY <1>3 DEF KeyedTypeOK, KeyedAssumption
  <1>5. v \in KeyedSlot /\ v.key = k /\ v.current = 1 /\ v.generation = nextGen[l]
    BY <1>4 DEF KeyedSlot
  <1> HIDE DEF v
  <1>6. v # NoSlot
    BY <1>5 DEF KeyedAssumption
  <1>7. /\ keySlots' \in [Limits -> [KeyedSlots -> KeyedSlot \cup {NoSlot}]]
        /\ \A m \in Limits : \A t \in KeyedSlots :
              keySlots'[m][t] = IF m = l /\ t = s THEN v ELSE keySlots[m][t]
    BY <1>1, <1>3, <1>5, SlotWritten
  <1>8. PICK p \in KeyedPermit :
           /\ p.limit = l /\ p.slot = s /\ p.generation = nextGen[l] /\ p.key = k
           /\ PermitsOut' = PermitsOut \cup {p}
           /\ \A m \in Limits : \A t \in KeyedSlots :
                 OutOn(m, t)' = IF m = l /\ t = s THEN OutOn(m, t) \cup {p} ELSE OutOn(m, t)
           /\ Cardinality(OutOn(l, s)') = Cardinality(OutOn(l, s)) + 1
           /\ KeyPermitsApart'
           /\ keyPermits' \subseteq KeyedPermit /\ keyIssued' \in 0 .. MaxKeyIds
    BY <1>1, <1>2, <1>4, PermitIssued
  <1>9. \A m \in Limits : FreeKeySlots(m)' = IF m = l THEN FreeKeySlots(m) \ {s} ELSE FreeKeySlots(m)
    BY <1>6, <1>7 DEF FreeKeySlots
  <1>10. /\ Cardinality(FreeKeySlots(l) \ {s}) = Cardinality(FreeKeySlots(l)) - 1
         /\ Cardinality(FreeKeySlots(l)) <= NumSlots
         /\ Cardinality(FreeKeySlots(l)) - 1 \in Nat
    <2>1. s \in FreeKeySlots(l) /\ FreeKeySlots(l) \subseteq KeyedSlots
      BY <1>1 DEF FreeKeySlots
    <2>2. Cardinality(FreeKeySlots(l) \ {s}) = Cardinality(FreeKeySlots(l)) - 1
      BY <2>1, FS_RemoveElement
    <2>3. Cardinality(FreeKeySlots(l)) <= Cardinality(KeyedSlots)
      BY <2>1, FS_Subset
    <2>4. Cardinality(FreeKeySlots(l) \ {s}) \in Nat
      BY FS_RemoveElement, FS_CardinalityType
    <2>5. QED
      BY <2>2, <2>3, <2>4
  <1>11. liveKeys[l] = NumSlots - Cardinality(FreeKeySlots(l))
    BY <1>3 DEF SlotsExact
  <1>12. KeyedTypeOK'
    <2>1. liveKeys[l] + 1 \in 0 .. NumSlots
      BY <1>4, <1>10, <1>11
    <2>2. liveKeys' \in [Limits -> 0 .. NumSlots]
      BY <1>2, <1>3, <2>1 DEF KeyedTypeOK
    <2>3. nextGen' \in [Limits -> Nat]
      BY <1>2, <1>3 DEF KeyedTypeOK
    <2>4. QED
      BY <1>2, <1>3, <1>7, <1>8, <2>2, <2>3 DEF KeyedTypeOK
  <1>13. SlotsExact'
    <2>1. ASSUME NEW m \in Limits
          PROVE  liveKeys'[m] = NumSlots - Cardinality(FreeKeySlots(m)')
      <3>1. CASE m = l
        <4>1. liveKeys'[l] = liveKeys[l] + 1
          BY <1>2, <1>3 DEF KeyedTypeOK
        <4>2. Cardinality(FreeKeySlots(m)') = Cardinality(FreeKeySlots(l)) - 1
          BY <1>9, <1>10, <3>1
        <4>3. QED
          BY <1>4, <1>11, <3>1, <4>1, <4>2
      <3>2. CASE m # l
        <4>1. liveKeys'[m] = liveKeys[m]
          BY <1>2, <1>3, <3>2 DEF KeyedTypeOK
        <4>2. QED
          BY <1>3, <1>9, <3>2, <4>1 DEF SlotsExact
      <3>3. QED
        BY <3>1, <3>2
    <2>2. Cardinality(OutOn(l, s)) = 0
      <3>1. OutOn(l, s) = {}
        BY <1>1, <1>3 DEF OutOn, PermitsMatchTheirKey
      <3>2. Cardinality({}) = 0
        BY FS_EmptySet
      <3>3. QED
        BY <3>1, <3>2
    <2>3. ASSUME NEW m \in Limits, NEW t \in KeyedSlots \ FreeKeySlots(m)'
          PROVE  /\ keySlots'[m][t].current = Cardinality(OutOn(m, t)')
                 /\ keySlots'[m][t].current \in 1 .. PerKey
      <3>1. CASE m = l /\ t = s
        BY <1>4, <1>5, <1>7, <1>8, <2>2, <3>1
      <3>2. CASE ~(m = l /\ t = s)
        <4>1. t \notin FreeKeySlots(m)
          BY <1>9, <3>2
        <4>2. QED
          BY <1>7, <1>8, <3>2, <4>1
      <3>3. QED
        BY <3>1, <3>2
    <2>4. QED
      BY <2>1, <2>3 DEF SlotsExact
  <1>14. PermitsMatchTheirKey'
    <2>1. ASSUME NEW q \in PermitsOut'
          PROVE  /\ keySlots'[q.limit][q.slot] # NoSlot
                 /\ keySlots'[q.limit][q.slot].key = q.key
                 /\ keySlots'[q.limit][q.slot].generation = q.generation
      <3>1. CASE q = p
        BY <1>5, <1>6, <1>7, <1>8, <3>1
      <3>2. CASE q \in PermitsOut
        <4>1. /\ keySlots[q.limit][q.slot] # NoSlot
              /\ keySlots[q.limit][q.slot].key = q.key
              /\ keySlots[q.limit][q.slot].generation = q.generation
              /\ q.limit \in Limits /\ q.slot \in KeyedSlots
          BY <1>3, <3>2 DEF PermitsMatchTheirKey
        <4>2. QED
          BY <1>1, <1>7, <4>1
      <3>3. QED
        BY <1>8, <3>1, <3>2
    <2>2. \A m \in Limits : invalid'[m] = 0
      BY <1>2, <1>3 DEF PermitsMatchTheirKey
    <2>3. QED
      BY <2>1, <2>2 DEF PermitsMatchTheirKey
  <1>15. OneSlotPerKey'
    <2>1. \A t \in KeyedSlots : keySlots[l][t] # NoSlot => keySlots[l][t].key # k
      BY DEF SlotsOf
    <2>2. QED
      BY <1>3, <1>5, <1>7, <2>1 DEF OneSlotPerKey
  <1>16. QED
    BY <1>8, <1>12, <1>13, <1>14, <1>15 DEF KeyedInv

\* A permit is released: its slot is its key's still, under its generation, so
\* that the release counts, and the last one out empties the slot.
LEMMA ReleaseStep ==
    ASSUME KeyedAssumption, KeyedInv, NEW l \in Limits, NEW p \in keyPermits, ReleaseAt(l, p)
    PROVE  KeyedInv'
  <1> USE KeyedFacts
  <1> DEFINE s == p.slot
  <1>1. KeyedTypeOK /\ SlotsExact /\ PermitsMatchTheirKey /\ OneSlotPerKey
    BY DEF KeyedInv
  <1>2. /\ p \in PermitsOut /\ p.limit = l /\ s \in KeyedSlots
        /\ keyPermits' = keyPermits \ {p}
        /\ UNCHANGED <<nextGen, keyedClosed, fullCount, perKeyFull, keyedDropped, keyIssued>>
    BY DEF ReleaseAt, ForeignPermit, PermitsOut
  <1>3. keySlots[l][s] # NoSlot /\ keySlots[l][s].generation = p.generation
    BY <1>1, <1>2 DEF PermitsMatchTheirKey
  <1>4. GiveKeyBack(l, s) /\ UNCHANGED invalid
    BY <1>3 DEF ReleaseAt
  <1>5. /\ PermitsOut' = PermitsOut \ {p}
        /\ \A m \in Limits : \A t \in KeyedSlots :
              OutOn(m, t)' = IF m = l /\ t = s THEN OutOn(m, t) \ {p} ELSE OutOn(m, t)
        /\ Cardinality(OutOn(l, s)') = Cardinality(OutOn(l, s)) - 1
        /\ KeyPermitsApart'
    BY <1>2, PermitGone
  <1>6. /\ keySlots[l][s].current = Cardinality(OutOn(l, s))
        /\ keySlots[l][s].current \in 1 .. PerKey /\ PerKey \in Nat /\ NumSlots \in Nat
        /\ keySlots[l][s] \in KeyedSlot
    BY <1>2, <1>3 DEF KeyedAssumption
  <1>7. \A m \in Limits : invalid'[m] = 0
    BY <1>1, <1>4 DEF PermitsMatchTheirKey
  <1>8. \A q \in PermitsOut' :
           /\ q \in PermitsOut /\ q # p /\ keySlots[q.limit][q.slot] # NoSlot
           /\ keySlots[q.limit][q.slot].key = q.key
           /\ keySlots[q.limit][q.slot].generation = q.generation
           /\ q.limit \in Limits /\ q.slot \in KeyedSlots
    BY <1>1, <1>5 DEF PermitsMatchTheirKey
  <1> HIDE DEF s
  <1>9. CASE keySlots[l][s].current = 1
    <2>1. SlotWrite(l, s, NoSlot) /\ liveKeys' = [liveKeys EXCEPT ![l] = @ - 1]
      BY <1>4, <1>9 DEF GiveKeyBack, SlotWrite
    <2>2. /\ keySlots' \in [Limits -> [KeyedSlots -> KeyedSlot \cup {NoSlot}]]
          /\ \A m \in Limits : \A t \in KeyedSlots :
                keySlots'[m][t] = IF m = l /\ t = s THEN NoSlot ELSE keySlots[m][t]
      BY <1>1, <1>2, <2>1, SlotWritten
    <2>3. \A m \in Limits :
             FreeKeySlots(m)' = IF m = l THEN FreeKeySlots(m) \cup {s} ELSE FreeKeySlots(m)
      BY <1>2, <2>2 DEF FreeKeySlots
    <2>4. /\ Cardinality(FreeKeySlots(l) \cup {s}) = Cardinality(FreeKeySlots(l)) + 1
          /\ Cardinality(FreeKeySlots(l)) + 1 <= NumSlots
      <3>1. s \notin FreeKeySlots(l) /\ FreeKeySlots(l) \cup {s} \subseteq KeyedSlots
        BY <1>2, <1>3 DEF FreeKeySlots
      <3>2. Cardinality(FreeKeySlots(l) \cup {s}) = Cardinality(FreeKeySlots(l)) + 1
        BY <3>1, FS_AddElement
      <3>3. Cardinality(FreeKeySlots(l) \cup {s}) <= Cardinality(KeyedSlots)
        BY <3>1, FS_Subset
      <3>4. QED
        BY <3>2, <3>3
    <2>5. liveKeys[l] = NumSlots - Cardinality(FreeKeySlots(l))
      BY <1>1 DEF SlotsExact
    <2>6. OutOn(l, s)' = {}
      <3>1. IsFiniteSet(OutOn(l, s)')
        BY <1>2, <1>5, FS_RemoveElement
      <3>2. Cardinality(OutOn(l, s)') = 0
        BY <1>5, <1>6, <1>9
      <3>3. QED
        BY <3>1, <3>2, FS_EmptySet
    <2>7. KeyedTypeOK'
      <3>1. liveKeys[l] - 1 \in 0 .. NumSlots
        BY <1>6, <2>4, <2>5
      <3>2. liveKeys' \in [Limits -> 0 .. NumSlots]
        BY <1>1, <2>1, <3>1 DEF KeyedTypeOK
      <3>3. QED
        BY <1>1, <1>2, <1>4, <2>2, <3>2 DEF KeyedTypeOK
    <2>8. SlotsExact'
      <3>1. ASSUME NEW m \in Limits
            PROVE  liveKeys'[m] = NumSlots - Cardinality(FreeKeySlots(m)')
        <4>1. CASE m = l
          <5>1. liveKeys'[l] = liveKeys[l] - 1
            BY <1>1, <2>1 DEF KeyedTypeOK
          <5>2. Cardinality(FreeKeySlots(m)') = Cardinality(FreeKeySlots(l)) + 1
            BY <2>3, <2>4, <4>1
          <5>3. QED
            BY <1>6, <2>5, <4>1, <5>1, <5>2
        <4>2. CASE m # l
          <5>1. liveKeys'[m] = liveKeys[m]
            BY <1>1, <2>1, <4>2 DEF KeyedTypeOK
          <5>2. QED
            BY <1>1, <2>3, <4>2, <5>1 DEF SlotsExact
        <4>3. QED
          BY <4>1, <4>2
      <3>2. ASSUME NEW m \in Limits, NEW t \in KeyedSlots \ FreeKeySlots(m)'
            PROVE  /\ keySlots'[m][t].current = Cardinality(OutOn(m, t)')
                   /\ keySlots'[m][t].current \in 1 .. PerKey
        <4>1. ~(m = l /\ t = s) /\ t \notin FreeKeySlots(m)
          BY <2>3
        <4>2. QED
          BY <1>5, <2>2, <4>1
      <3>3. QED
        BY <3>1, <3>2 DEF SlotsExact
    <2>9. PermitsMatchTheirKey'
      <3>1. ASSUME NEW q \in PermitsOut'
            PROVE  /\ keySlots'[q.limit][q.slot] # NoSlot
                   /\ keySlots'[q.limit][q.slot].key = q.key
                   /\ keySlots'[q.limit][q.slot].generation = q.generation
        <4>1. ~(q.limit = l /\ q.slot = s)
          BY <2>6 DEF OutOn
        <4>2. QED
          BY <1>8, <2>2, <4>1
      <3>2. QED
        BY <1>7, <3>1 DEF PermitsMatchTheirKey
    <2>10. OneSlotPerKey'
      BY <1>1, <2>2 DEF OneSlotPerKey
    <2>11. QED
      BY <1>5, <2>7, <2>8, <2>9, <2>10 DEF KeyedInv
  <1>10. CASE keySlots[l][s].current # 1
    <2> DEFINE v == Recharged(keySlots[l][s], keySlots[l][s].current - 1)
    <2>1. SlotWrite(l, s, v) /\ UNCHANGED liveKeys
      BY <1>4, <1>10 DEF GiveKeyBack, SlotWrite
    <2>2. keySlots[l][s].current - 1 \in 1 .. PerKey
      BY <1>6, <1>10
    <2>3. /\ v \in KeyedSlot /\ v.current = keySlots[l][s].current - 1
          /\ v.key = keySlots[l][s].key /\ v.generation = keySlots[l][s].generation
      <3>1. keySlots[l][s].current - 1 \in Nat
        BY <1>6, <2>2
      <3>2. QED
        BY <1>6, <3>1, RechargedSlot
    <2> HIDE DEF v
    <2>4. v # NoSlot
      BY <2>3 DEF KeyedAssumption
    <2>5. /\ keySlots' \in [Limits -> [KeyedSlots -> KeyedSlot \cup {NoSlot}]]
          /\ \A m \in Limits : \A t \in KeyedSlots :
                keySlots'[m][t] = IF m = l /\ t = s THEN v ELSE keySlots[m][t]
      BY <1>1, <1>2, <2>1, <2>3, SlotWritten
    <2>6. \A m \in Limits : FreeKeySlots(m)' = FreeKeySlots(m)
      BY <1>3, <2>4, <2>5 DEF FreeKeySlots
    <2>7. KeyedTypeOK'
      BY <1>1, <1>2, <1>4, <2>1, <2>5 DEF KeyedTypeOK
    <2>8. SlotsExact'
      <3>1. \A m \in Limits : liveKeys'[m] = NumSlots - Cardinality(FreeKeySlots(m)')
        BY <1>1, <2>1, <2>6 DEF SlotsExact
      <3>2. ASSUME NEW m \in Limits, NEW t \in KeyedSlots \ FreeKeySlots(m)'
            PROVE  /\ keySlots'[m][t].current = Cardinality(OutOn(m, t)')
                   /\ keySlots'[m][t].current \in 1 .. PerKey
        <4>1. CASE m = l /\ t = s
          BY <1>5, <1>6, <2>2, <2>3, <2>5, <4>1
        <4>2. CASE ~(m = l /\ t = s)
          BY <1>5, <2>5, <2>6, <4>2
        <4>3. QED
          BY <4>1, <4>2
      <3>3. QED
        BY <3>1, <3>2 DEF SlotsExact
    <2>9. PermitsMatchTheirKey'
      <3>1. ASSUME NEW q \in PermitsOut'
            PROVE  /\ keySlots'[q.limit][q.slot] # NoSlot
                   /\ keySlots'[q.limit][q.slot].key = q.key
                   /\ keySlots'[q.limit][q.slot].generation = q.generation
        BY <1>8, <2>3, <2>4, <2>5
      <3>2. QED
        BY <1>7, <3>1 DEF PermitsMatchTheirKey
    <2>10. OneSlotPerKey'
      BY <1>1, <1>3, <2>3, <2>5 DEF OneSlotPerKey
    <2>11. QED
      BY <1>5, <2>7, <2>8, <2>9, <2>10 DEF KeyedInv
  <1>11. QED
    BY <1>9, <1>10

\* Whatever leaves the table, the permits that are out and their ids alone.
LEMMA TableKept ==
    ASSUME KeyedAssumption, KeyedInv, PermitsOut' = PermitsOut, KeyPermitsApart', KeyedTypeOK',
           UNCHANGED <<keySlots, liveKeys, invalid>>
    PROVE  KeyedInv'
  <1>1. /\ \A m \in Limits : FreeKeySlots(m)' = FreeKeySlots(m)
        /\ \A m \in Limits : \A t \in KeyedSlots : OutOn(m, t)' = OutOn(m, t)
    BY DEF FreeKeySlots, OutOn
  <1>2. SlotsExact'
    BY <1>1 DEF KeyedInv, SlotsExact
  <1>3. PermitsMatchTheirKey' /\ OneSlotPerKey'
    BY DEF KeyedInv, PermitsMatchTheirKey, OneSlotPerKey
  <1>4. QED
    BY <1>2, <1>3 DEF KeyedInv

\* A refusal counts, and may close the limit.
LEMMA RefusalStep ==
    ASSUME KeyedAssumption, KeyedInv, NEW l \in Limits, RefuseKey(l),
           perKeyFull' \in [Limits -> Nat]
    PROVE  KeyedInv'
  <1>1. /\ fullCount' = [fullCount EXCEPT ![l] = IF Pressure = "shed" THEN @ + 1 ELSE @]
        /\ keyedClosed' = [keyedClosed EXCEPT ![l] = @ \/ Pressure = "close"]
        /\ UNCHANGED <<keySlots, liveKeys, nextGen, invalid, keyPermits, keyedDropped, keyIssued>>
    BY DEF RefuseKey
  <1>2. fullCount' \in [Limits -> Nat]
    BY <1>1 DEF KeyedInv, KeyedTypeOK
  <1>3. keyedClosed' \in [Limits -> BOOLEAN]
    BY <1>1, Zenon DEF KeyedInv, KeyedTypeOK
  <1>4. KeyedTypeOK'
    BY <1>1, <1>2, <1>3 DEF KeyedInv, KeyedTypeOK
  <1>5. PermitsOut' = PermitsOut /\ KeyPermitsApart'
    BY <1>1 DEF KeyedInv, KeyPermitsApart, PermitsOut
  <1>6. QED
    BY <1>1, <1>4, <1>5, TableKept

\* Every step keeps the invariant.
LEMMA KeyedStepKeeps ==
    ASSUME KeyedAssumption, KeyedInv, [KeyedNext]_keyedVars
    PROVE  KeyedInv'
  <1>1. ASSUME NEW l \in Limits, NEW k \in LimitKeys, TryAdmit(l, k)
        PROVE  KeyedInv'
    <2>1. CASE AdmitHeldKey(l, k)
      BY <2>1, HeldKeyStep
    <2>2. CASE AtCapacity(l, k)
      <3>1. RefuseKey(l) /\ perKeyFull' = [perKeyFull EXCEPT ![l] = @ + 1]
        BY <2>2 DEF AtCapacity
      <3>2. perKeyFull' \in [Limits -> Nat]
        BY <3>1 DEF KeyedInv, KeyedTypeOK
      <3>3. QED
        BY <3>1, <3>2, RefusalStep
    <2>3. CASE SlotsOf(l, k) = {} /\ AdmitNewKey(l, k)
      BY <2>3, NewKeyStep
    <2>4. CASE TableFull(l)
      <3>1. RefuseKey(l) /\ perKeyFull' \in [Limits -> Nat]
        BY <2>4 DEF TableFull, KeyedInv, KeyedTypeOK
      <3>2. QED
        BY <3>1, RefusalStep
    <2>5. QED
      BY <1>1, <2>1, <2>2, <2>3, <2>4 DEF TryAdmit
  <1>2. ASSUME NEW l \in Limits, NEW p \in keyPermits, ReleaseAt(l, p)
        PROVE  KeyedInv'
    BY <1>2, ReleaseStep
  <1>3. ASSUME NEW p \in keyPermits, DropPermit(p)
        PROVE  KeyedInv'
    <2>1. /\ keyPermits' = keyPermits \ {p} /\ keyedDropped' = keyedDropped \cup {p}
          /\ UNCHANGED <<keySlots, liveKeys, nextGen, keyedClosed, fullCount, perKeyFull, invalid,
                         keyIssued>>
      BY <1>3 DEF DropPermit
    <2>2. PermitsOut' = PermitsOut
      BY <1>3, <2>1 DEF PermitsOut
    <2>3. IsFiniteSet(keyPermits') /\ IsFiniteSet(keyedDropped')
      BY <2>1, FS_AddElement, FS_RemoveElement DEF KeyedInv, KeyPermitsApart
    <2>4. KeyPermitsApart'
      BY <2>1, <2>2, <2>3 DEF KeyedInv, KeyPermitsApart
    <2>5. KeyedTypeOK'
      BY <1>3, <2>1 DEF KeyedInv, KeyedTypeOK
    <2>6. QED
      BY <2>1, <2>2, <2>4, <2>5, TableKept
  <1>4. ASSUME NEW l \in Limits, CloseKeyed(l)
        PROVE  KeyedInv'
    <2>1. /\ keyedClosed' = [keyedClosed EXCEPT ![l] = TRUE]
          /\ UNCHANGED <<keySlots, liveKeys, nextGen, fullCount, perKeyFull, invalid,
                         keyPermits, keyedDropped, keyIssued>>
      BY <1>4 DEF CloseKeyed
    <2>2. KeyedTypeOK'
      BY <2>1 DEF KeyedInv, KeyedTypeOK
    <2>3. PermitsOut' = PermitsOut /\ KeyPermitsApart'
      BY <2>1 DEF KeyedInv, KeyPermitsApart, PermitsOut
    <2>4. QED
      BY <2>1, <2>2, <2>3, TableKept
  <1>5. CASE UNCHANGED keyedVars
    <2>1. PermitsOut' = PermitsOut /\ KeyPermitsApart' /\ KeyedTypeOK'
      BY <1>5 DEF KeyedInv, KeyPermitsApart, PermitsOut, KeyedTypeOK, keyedVars
    <2>2. UNCHANGED <<keySlots, liveKeys, invalid>>
      BY <1>5 DEF keyedVars
    <2>3. QED
      BY <2>1, <2>2, TableKept
  <1>6. QED
    BY <1>1, <1>2, <1>3, <1>4, <1>5 DEF KeyedNext

\* The first state satisfies the invariant.
LEMMA KeyedStart ==
    ASSUME KeyedAssumption, KeyedInit
    PROVE  KeyedInv
  <1>1. KeyedTypeOK
    BY DEF KeyedInit, KeyedTypeOK, KeyedAssumption
  <1>2. PermitsOut = {} /\ KeyPermitsApart
    BY FS_EmptySet DEF KeyedInit, PermitsOut, KeyPermitsApart
  <1>3. PermitsMatchTheirKey /\ OneSlotPerKey
    BY <1>2 DEF KeyedInit, PermitsMatchTheirKey, OneSlotPerKey
  <1>4. SlotsExact
    <2>1. \A l \in Limits : FreeKeySlots(l) = KeyedSlots
      BY DEF KeyedInit, FreeKeySlots
    <2>2. Cardinality(KeyedSlots) = NumSlots /\ NumSlots \in Nat
      BY FS_Interval DEF KeyedSlots, KeyedAssumption
    <2>3. QED
      BY <2>1, <2>2 DEF SlotsExact, KeyedInit
  <1>5. QED
    BY <1>1, <1>2, <1>3, <1>4 DEF KeyedInv

\* The permits of a key are those out on its one slot.
LEMMA KeyCapFollows ==
    ASSUME KeyedAssumption, KeyedInv
    PROVE  KeysExact
  <1> SUFFICES ASSUME NEW l \in Limits, NEW k \in LimitKeys
               PROVE  Cardinality({p \in PermitsOut : p.limit = l /\ p.key = k}) <= PerKey
    BY DEF KeyedInv, KeysExact, KeyCapHeld
  <1> DEFINE mine == {p \in PermitsOut : p.limit = l /\ p.key = k}
  <1>1. CASE mine = {}
    <2>1. Cardinality({}) = 0
      BY FS_EmptySet
    <2>2. QED
      BY <1>1, <2>1 DEF KeyedAssumption
  <1>2. CASE mine # {}
    <2>1. PICK p \in PermitsOut : p.limit = l /\ p.key = k
      BY <1>2
    <2>2. p.slot \in KeyedSlots /\ keySlots[l][p.slot] # NoSlot /\ keySlots[l][p.slot].key = k
      BY <2>1, KeyedFacts DEF KeyedInv, PermitsMatchTheirKey
    <2>3. ASSUME NEW q \in mine
          PROVE  q \in OutOn(l, p.slot)
      <3>1. /\ q.slot \in KeyedSlots /\ keySlots[l][q.slot] # NoSlot
            /\ keySlots[l][q.slot].key = k
        BY KeyedFacts DEF KeyedInv, PermitsMatchTheirKey
      <3>2. q.slot = p.slot
        BY <2>2, <3>1 DEF KeyedInv, OneSlotPerKey
      <3>3. QED
        BY <3>2 DEF OutOn
    <2>4. IsFiniteSet(OutOn(l, p.slot)) /\ mine \subseteq OutOn(l, p.slot)
      BY <2>2, <2>3, KeyedFacts
    <2>5. Cardinality(mine) <= Cardinality(OutOn(l, p.slot)) /\ IsFiniteSet(mine)
      BY <2>4, FS_Subset
    <2>6. Cardinality(mine) \in Nat /\ Cardinality(OutOn(l, p.slot)) \in Nat
      BY <2>4, <2>5, FS_CardinalityType
    <2>7. Cardinality(OutOn(l, p.slot)) <= PerKey
      BY <2>2, KeyedFacts DEF KeyedAssumption
    <2>8. QED
      BY <2>5, <2>6, <2>7 DEF KeyedAssumption
  <1>3. QED
    BY <1>1, <1>2

\* For any limits, keys, slots and pressure action (try_admit, release, drop and
\* close of KeyedLimit): a slot is charged for exactly the permits out on it, each
\* permit's slot is still its key's under its generation, so that StaleOrUnknown is
\* never reported, and no key has more permits out than the cap.
THEOREM KeysStayExact == KeyedAssumption => (KeyedSpec => []KeysExact)
  <1> SUFFICES ASSUME KeyedAssumption
               PROVE  KeyedSpec => []KeysExact
    OBVIOUS
  <1>1. KeyedInit => KeyedInv
    BY KeyedStart
  <1>2. KeyedInv /\ [KeyedNext]_keyedVars => KeyedInv'
    BY KeyedStepKeeps
  <1>3. KeyedInv => KeysExact
    BY KeyCapFollows
  <1>4. QED
    BY <1>1, <1>2, <1>3, PTL DEF KeyedSpec

-----------------------------------------------------------------------------
(* Rate limits: what one bucket promises.                                  *)

\* The bounds of a key that holds so much, was seen then and got these admissions.
Bounded(have, seen, got) ==
    /\ \A i \in DOMAIN got :
          /\ got[i] <= seen
          /\ (Len(got) - i + 1) * One + have <= BurstFractions + Rate * (seen - got[i])
    /\ \A i, j \in DOMAIN got :
          i <= j => (j - i + 1) * One <= BurstFractions + Rate * (got[j] - got[i])

\* The constants and the configuration are numbers, and a burst is a token at least.
LEMMA RateNumbers ==
    ASSUME RateAssumption, RateTypeOK
    PROVE  /\ Rate \in Nat /\ Rate >= 1 /\ One \in Nat /\ One >= 1 /\ MaxNow \in Nat
           /\ BurstFractions \in Nat /\ BurstFractions >= One
           /\ Times \subseteq Nat /\ NoBucket \notin Nat
  <1>1. /\ config.rate \in Nat \ {0} /\ config.burst \in Nat \ {0} /\ One \in Nat \ {0}
        /\ MaxNow \in Nat /\ NoBucket \notin Nat
    BY DEF RateAssumption, RateTypeOK
  <1>2. \A b, one \in Nat \ {0} : b * one \in Nat /\ b * one >= one
    <2>1. ASSUME NEW b \in Nat \ {0}, NEW one \in Nat \ {0}
          PROVE  b * one \in Nat /\ b * one >= one
      <3>1. b - 1 \in Nat
        OBVIOUS
      <3>2. (b - 1) * one \in Nat
        BY <3>1
      <3>3. b * one = (b - 1) * one + one
        OBVIOUS
      <3>4. QED
        BY <3>2, <3>3
    <2>2. QED
      BY <2>1
  <1>3. BurstFractions \in Nat /\ BurstFractions >= One
    BY <1>1, <1>2 DEF BurstFractions
  <1>4. QED
    BY <1>1, <1>3 DEF Rate, Times

\* Time passes and the bucket fills by no more than the rate.
LEMMA RefillBounded ==
    ASSUME RateAssumption, RateTypeOK, NEW have \in Nat, NEW seen \in Nat,
           NEW got \in Seq(Times), Bounded(have, seen, got), NEW e \in Nat, NEW c \in Nat,
           c <= have + e * Rate
    PROVE  Bounded(c, seen + e, got)
  <1> USE RateNumbers
  <1>1. ASSUME NEW i \in DOMAIN got
        PROVE  /\ got[i] <= seen + e
               /\ (Len(got) - i + 1) * One + c <= BurstFractions + Rate * ((seen + e) - got[i])
    <2>1. /\ got[i] <= seen /\ got[i] \in Nat /\ i \in Nat /\ Len(got) \in Nat
          /\ (Len(got) - i + 1) * One + have <= BurstFractions + Rate * (seen - got[i])
      <3>1. /\ got[i] <= seen
            /\ (Len(got) - i + 1) * One + have <= BurstFractions + Rate * (seen - got[i])
        BY Zenon DEF Bounded
      <3>2. got[i] \in Times /\ i \in Nat /\ Len(got) \in Nat
        OBVIOUS
      <3>3. QED
        BY <3>1, <3>2
    <2>2. Rate * ((seen + e) - got[i]) = Rate * (seen - got[i]) + e * Rate
      BY <2>1
    <2> DEFINE spent == (Len(got) - i + 1) * One
    <2> DEFINE before == Rate * (seen - got[i])
    <2> DEFINE gained == e * Rate
    <2>3. spent \in Int /\ before \in Int /\ gained \in Int
      <3>1. Len(got) - i + 1 \in Int /\ seen - got[i] \in Int
        <4>1. got[i] \in Times /\ i \in Nat /\ Len(got) \in Nat
          OBVIOUS
        <4>2. QED
          BY <4>1
      <3>2. \A a, b \in Int : a * b \in Int
        OBVIOUS
      <3>3. One \in Int /\ Rate \in Int /\ e \in Int
        OBVIOUS
      <3>4. QED
        BY <3>1, <3>2, <3>3, Zenon
    <2>4. spent + have <= BurstFractions + before
      BY <2>1, Zenon
    <2>5. c <= have + gained
      BY Zenon
    <2> HIDE DEF spent, before, gained
    <2>6. spent + c <= BurstFractions + (before + gained)
      BY <2>3, <2>4, <2>5
    <2>7. QED
      BY <2>1, <2>2, <2>6 DEF spent, before, gained
  <1>2. QED
    BY <1>1 DEF Bounded

\* A token is spent at the time the key is seen.
LEMMA SpendBounded ==
    ASSUME RateAssumption, RateTypeOK, NEW have \in Nat, have >= One, have <= BurstFractions,
           NEW seen \in Times, NEW got \in Seq(Times), Bounded(have, seen, got)
    PROVE  Bounded(have - One, seen, Append(got, seen))
  <1> USE RateNumbers
  <1> DEFINE more == Append(got, seen)
  <1>1. /\ Len(got) \in Nat /\ Len(more) = Len(got) + 1
        /\ DOMAIN got = 1 .. Len(got) /\ DOMAIN more = 1 .. (Len(got) + 1)
        /\ \A i \in 1 .. Len(got) : more[i] = got[i] /\ got[i] \in Nat
        /\ more[Len(got) + 1] = seen
    OBVIOUS
  <1> HIDE DEF more
  <1>2. ASSUME NEW i \in DOMAIN more
        PROVE  /\ more[i] <= seen
               /\ (Len(more) - i + 1) * One + (have - One)
                     <= BurstFractions + Rate * (seen - more[i])
    <2>1. CASE i = Len(got) + 1
      <3>1. more[i] = seen /\ Len(more) - i + 1 = 1 /\ seen - more[i] = 0
        BY <1>1, <2>1
      <3>2. (Len(more) - i + 1) * One = One /\ Rate * (seen - more[i]) = 0
        <4>1. 1 * One = One /\ Rate * 0 = 0
          OBVIOUS
        <4>2. QED
          BY <3>1, <4>1, Zenon
      <3>3. seen \in Nat /\ One + (have - One) <= BurstFractions + 0
        OBVIOUS
      <3>4. QED
        BY <3>1, <3>2, <3>3
    <2>2. CASE i \in 1 .. Len(got)
      <3>1. /\ got[i] <= seen /\ more[i] = got[i] /\ got[i] \in Nat /\ i \in Nat
            /\ (Len(got) - i + 1) * One + have <= BurstFractions + Rate * (seen - got[i])
        BY <1>1, <2>2 DEF Bounded
      <3>2. (Len(more) - i + 1) * One = (Len(got) - i + 1) * One + One
        BY <1>1, <3>1
      <3> DEFINE spent == (Len(got) - i + 1) * One
      <3>3. spent \in Int
        <4>1. Len(got) - i + 1 \in Int
          BY <1>1, <3>1
        <4>2. QED
          BY <4>1
      <3> HIDE DEF spent
      <3>4. (spent + One) + (have - One) = spent + have
        BY <3>3
      <3>5. QED
        BY <3>1, <3>2, <3>4 DEF spent
    <2>3. QED
      BY <1>1, <1>2, <2>1, <2>2
  <1>3. ASSUME NEW i \in DOMAIN more, NEW j \in DOMAIN more, i <= j
        PROVE  (j - i + 1) * One <= BurstFractions + Rate * (more[j] - more[i])
    <2>1. CASE j = Len(got) + 1
      <3>1. /\ more[j] = seen /\ Len(more) = j
            /\ (Len(more) - i + 1) * One + (have - One)
                     <= BurstFractions + Rate * (seen - more[i])
        BY <1>1, <1>2, <2>1
      <3>2. i \in Nat /\ j \in Nat /\ more[i] \in Nat /\ seen \in Nat
        BY <1>1, <2>1, <1>3
      <3>3. (j - i + 1) * One \in Int /\ Rate * (seen - more[i]) \in Int /\ have - One \in Nat
        BY <3>2
      <3>4. QED
        BY <3>1, <3>3
    <2>2. CASE j \in 1 .. Len(got)
      <3>1. i \in 1 .. Len(got)
        BY <1>1, <1>3, <2>2
      <3>2. QED
        BY <1>1, <1>3, <2>2, <3>1 DEF Bounded
    <2>3. QED
      BY <1>1, <1>3, <2>1, <2>2
  <1>4. QED
    BY <1>2, <1>3 DEF Bounded, more

\* A new key gets a full bucket less a token.
LEMMA NewBounded ==
    ASSUME RateAssumption, RateTypeOK, NEW now \in Times
    PROVE  Bounded(BurstFractions - One, now, <<now>>)
  <1> USE RateNumbers
  <1>1. Len(<<now>>) = 1 /\ DOMAIN <<now>> = {1} /\ <<now>>[1] = now
    OBVIOUS
  <1>2. (1 - 1 + 1) * One = One /\ Rate * (now - now) = 0
    OBVIOUS
  <1>3. QED
    BY <1>1, <1>2 DEF Bounded

-----------------------------------------------------------------------------
(* Refilling.                                                              *)

\* What a tracked key is refilled to, and where its clock goes.
LEMMA RefillFacts ==
    ASSUME RateAssumption, RateTypeOK, NEW k \in Tracked, NEW now \in Times
    PROVE  /\ k \in RateKeys /\ available[k] \in Nat /\ available[k] <= BurstFractions
           /\ lastSeen[k] \in Nat /\ now \in Nat
           /\ Elapsed(k, now) \in Nat /\ Elapsed(k, now) * Rate \in Nat
           /\ Refilled(k, now) \in Nat /\ Refilled(k, now) <= BurstFractions
           /\ Refilled(k, now) <= available[k] + Elapsed(k, now) * Rate
           /\ SeenAt(k, now) = lastSeen[k] + Elapsed(k, now)
           /\ SeenAt(k, now) \in Times
  <1> USE RateNumbers
  <1>1. k \in RateKeys /\ available[k] \in 0 .. BurstFractions /\ lastSeen[k] \in Times
    BY DEF Tracked, RateTypeOK
  <1>2. Elapsed(k, now) \in Nat
    BY <1>1 DEF Elapsed
  <1>3. Elapsed(k, now) * Rate \in Nat
    BY <1>2
  <1>4. /\ Refilled(k, now) \in Nat /\ Refilled(k, now) <= BurstFractions
        /\ Refilled(k, now) <= available[k] + Elapsed(k, now) * Rate
    BY <1>1, <1>3 DEF Refilled, Least
  <1>5. SeenAt(k, now) = lastSeen[k] + Elapsed(k, now) /\ SeenAt(k, now) \in Times
    BY <1>1 DEF SeenAt, Elapsed, Times
  <1>6. QED
    BY <1>1, <1>2, <1>3, <1>4, <1>5

\* Rounding up.
LEMMA CeilFacts ==
    ASSUME NEW x \in Nat, NEW r \in Nat \ {0}
    PROVE  /\ CeilDiv(x, r) \in Nat
           /\ x <= CeilDiv(x, r) * r /\ CeilDiv(x, r) * r < x + r
  BY DEF CeilDiv

\* There is one such number.
LEMMA CeilUnique ==
    ASSUME NEW x \in Int, NEW r \in Nat \ {0}, NEW p \in Int, NEW q \in Int,
           x <= p * r, p * r < x + r, x <= q * r, q * r < x + r
    PROVE  p = q
  <1>1. ASSUME NEW a \in Int, NEW b \in Int, a < b, x <= a * r, b * r < x + r
        PROVE  FALSE
    <2>1. (b - a - 1) * r \in Nat
      BY <1>1
    <2>2. b * r = a * r + r + (b - a - 1) * r
      OBVIOUS
    <2>3. QED
      BY <1>1, <2>1, <2>2
  <1>2. QED
    BY <1>1

-----------------------------------------------------------------------------
(* Rate limits: the inductive invariant.                                   *)

\* No key was seen after the latest call.
SeenBefore == \A k \in RateKeys : lastSeen[k] <= latest

\* With a clock that does not go back, the time a key was told to come back at is
\* the delay for what its bucket lacks, counted from when it was last seen.
RetryTrue ==
    monotonic => \A k \in RateKeys : retryAt[k] # NoBucket =>
        /\ k \in Tracked /\ available[k] < One
        /\ retryAt[k] = lastSeen[k] + CeilDiv(One - available[k], Rate)

\* The inductive invariant of RateLimit.
RateInv == RateHeld /\ SeenBefore /\ RetryTrue

\* The bounds, bucket by bucket.
LEMMA BucketsBounded ==
    RateHeld <=> (RateTypeOK /\ \A k \in Tracked : Bounded(available[k], lastSeen[k], admits[k]))
  BY Zenon DEF RateHeld, CreditBound, WindowBound, Bounded

\* The same of the next state, under the same configuration.
LEMMA BucketsBoundedNext ==
    ASSUME RateTypeOK', config' = config,
           \A k \in Tracked' : Bounded(available'[k], lastSeen'[k], admits'[k])
    PROVE  RateHeld'
  <1>1. Rate' = Rate /\ BurstFractions' = BurstFractions
    BY DEF Rate, BurstFractions
  <1>2. CreditBound' /\ WindowBound'
    BY <1>1, Zenon DEF CreditBound, WindowBound, Bounded
  <1>3. QED
    BY <1>2 DEF RateHeld

\* A call writes the bucket of its key.
LEMMA BucketWritten ==
    ASSUME RateAssumption, RateInv, NEW k \in RateKeys, NEW have \in 0 .. BurstFractions,
           NEW seen \in Times, NEW got \in Seq(Times), NEW back \in Nat \cup {NoBucket},
           Bounded(have, seen, got),
           monotonic /\ back # NoBucket => have < One /\ back = seen + CeilDiv(One - have, Rate),
           available' = [available EXCEPT ![k] = have],
           lastSeen' = [lastSeen EXCEPT ![k] = seen],
           admits' = [admits EXCEPT ![k] = got],
           retryAt' = [retryAt EXCEPT ![k] = back],
           latest' \in Times, latest <= latest', seen <= latest',
           UNCHANGED <<config, monotonic, rateClosed>>
    PROVE  RateInv'
  <1>1. RateTypeOK /\ SeenBefore /\ RetryTrue
    BY DEF RateInv, RateHeld
  <1>2. /\ have \in Nat /\ NoBucket \notin Nat /\ Times \subseteq Nat
        /\ BurstFractions' = BurstFractions /\ Rate' = Rate
    BY <1>1, RateNumbers DEF BurstFractions, Rate
  <1>3. /\ \A j \in RateKeys : available'[j] = IF j = k THEN have ELSE available[j]
        /\ \A j \in RateKeys : lastSeen'[j] = IF j = k THEN seen ELSE lastSeen[j]
        /\ \A j \in RateKeys : admits'[j] = IF j = k THEN got ELSE admits[j]
        /\ \A j \in RateKeys : retryAt'[j] = IF j = k THEN back ELSE retryAt[j]
    BY <1>1 DEF RateTypeOK
  <1>4. RateTypeOK'
    <2>1. available' \in [RateKeys -> (0 .. BurstFractions) \cup {NoBucket}]
      BY <1>1 DEF RateTypeOK
    <2>2. lastSeen' \in [RateKeys -> Times]
      BY <1>1 DEF RateTypeOK
    <2>3. admits' \in [RateKeys -> Seq(Times)]
      BY <1>1 DEF RateTypeOK
    <2>4. retryAt' \in [RateKeys -> Nat \cup {NoBucket}]
      BY <1>1 DEF RateTypeOK
    <2>5. QED
      BY <1>1, <1>2, <2>1, <2>2, <2>3, <2>4 DEF RateTypeOK
  <1>5. Tracked' = Tracked \cup {k}
    BY <1>2, <1>3 DEF Tracked
  <1>6. \A j \in Tracked' : Bounded(available'[j], lastSeen'[j], admits'[j])
    <2>1. \A j \in Tracked : j \in RateKeys /\ Bounded(available[j], lastSeen[j], admits[j])
      BY BucketsBounded DEF RateInv, Tracked
    <2>2. ASSUME NEW j \in Tracked'
          PROVE  Bounded(available'[j], lastSeen'[j], admits'[j])
      <3>1. CASE j = k
        BY <1>3, <3>1, Zenon
      <3>2. CASE j # k
        BY <1>3, <1>5, <2>1, <2>2, <3>2, Zenon
      <3>3. QED
        BY <3>1, <3>2
    <2>3. QED
      BY <2>2
  <1>7. SeenBefore'
    <2>1. \A j \in RateKeys : lastSeen[j] \in Nat /\ lastSeen[j] <= latest
      BY <1>1, <1>2 DEF SeenBefore, RateTypeOK
    <2>2. latest \in Nat /\ latest' \in Nat /\ seen \in Nat
      BY <1>1, <1>2 DEF RateTypeOK
    <2>3. QED
      BY <1>3, <2>1, <2>2 DEF SeenBefore
  <1>8. RetryTrue'
    <2>1. SUFFICES ASSUME monotonic, NEW j \in RateKeys, retryAt'[j] # NoBucket
                   PROVE  /\ j \in Tracked' /\ available'[j] < One
                          /\ retryAt'[j] = lastSeen'[j] + CeilDiv(One - available'[j], Rate)
      BY <1>2 DEF RetryTrue
    <2>2. CASE j = k
      BY <1>3, <1>5, <2>1, <2>2
    <2>3. CASE j # k
      <3>1. /\ available'[j] = available[j] /\ lastSeen'[j] = lastSeen[j]
            /\ retryAt'[j] = retryAt[j]
        BY <1>3, <2>3
      <3>2. /\ j \in Tracked /\ available[j] < One
            /\ retryAt[j] = lastSeen[j] + CeilDiv(One - available[j], Rate)
        BY <1>1, <2>1, <3>1 DEF RetryTrue
      <3>3. QED
        BY <1>5, <3>1, <3>2
    <2>4. QED
      BY <2>2, <2>3
  <1>9. QED
    BY <1>4, <1>6, <1>7, <1>8, BucketsBoundedNext DEF RateInv

\* What latest is after a call.
LEMMA LatestAfter ==
    ASSUME RateAssumption, RateTypeOK, NEW k \in RateKeys, NEW now \in Times, TryAdmitAt(k, now)
    PROVE  /\ latest' \in Times /\ latest <= latest' /\ now <= latest'
           /\ latest \in Nat /\ now \in Nat
           /\ monotonic => now >= latest
  <1>1. latest \in Nat /\ now \in Nat /\ latest \in Times /\ Times \subseteq Nat
    BY RateNumbers DEF RateTypeOK
  <1>2. latest' = IF now > latest THEN now ELSE latest
    BY DEF TryAdmitAt
  <1>3. monotonic => now >= latest
    BY DEF TryAdmitAt
  <1>4. QED
    BY <1>1, <1>2, <1>3

-----------------------------------------------------------------------------
(* The steps.                                                              *)

\* A call on a tracked key: the state of its bucket before and after.
LEMMA TrackedCall ==
    ASSUME RateAssumption, RateInv, NEW k \in RateKeys, NEW now \in Times,
           available[k] # NoBucket, TryAdmitAt(k, now)
    PROVE  /\ k \in Tracked
           /\ Bounded(Refilled(k, now), SeenAt(k, now), admits[k])
           /\ SeenAt(k, now) <= latest'
           /\ monotonic => SeenAt(k, now) = now /\ now = lastSeen[k] + Elapsed(k, now)
  <1>1. RateTypeOK /\ k \in Tracked /\ lastSeen[k] <= latest
    BY DEF RateInv, RateHeld, Tracked, SeenBefore
  <1>2. /\ available[k] \in Nat /\ lastSeen[k] \in Nat /\ now \in Nat
        /\ Elapsed(k, now) \in Nat
        /\ Refilled(k, now) \in Nat
        /\ Refilled(k, now) <= available[k] + Elapsed(k, now) * Rate
        /\ SeenAt(k, now) = lastSeen[k] + Elapsed(k, now)
    BY <1>1, RefillFacts
  <1>3. admits[k] \in Seq(Times) /\ Bounded(available[k], lastSeen[k], admits[k])
    BY <1>1, BucketsBounded DEF RateInv, RateTypeOK
  <1>4. Bounded(Refilled(k, now), lastSeen[k] + Elapsed(k, now), admits[k])
    BY <1>1, <1>2, <1>3, RefillBounded
  <1>5. /\ latest' \in Nat /\ latest <= latest' /\ now <= latest' /\ latest \in Nat
        /\ monotonic => now >= latest
    BY <1>1, LatestAfter, RateNumbers
  <1>6. Elapsed(k, now) = IF now >= lastSeen[k] THEN now - lastSeen[k] ELSE 0
    BY DEF Elapsed
  <1>7. SeenAt(k, now) <= latest'
    BY <1>1, <1>2, <1>5, <1>6
  <1>8. ASSUME monotonic
        PROVE  SeenAt(k, now) = now /\ now = lastSeen[k] + Elapsed(k, now)
    <2>1. now >= latest
      BY <1>5, <1>8
    <2>2. now >= lastSeen[k]
      BY <1>1, <1>2, <1>5, <2>1
    <2>3. QED
      BY <1>2, <1>6, <2>2
  <1>9. QED
    BY <1>1, <1>2, <1>4, <1>7, <1>8

\* A call keeps the invariant.
LEMMA CallKeeps ==
    ASSUME RateAssumption, RateInv, NEW k \in RateKeys, NEW now \in Times, TryAdmitAt(k, now),
           UNCHANGED <<config, monotonic>>
    PROVE  RateInv'
  <1>1. RateTypeOK
    BY DEF RateInv, RateHeld
  <1>2. /\ One \in Nat /\ One >= 1 /\ BurstFractions \in Nat /\ BurstFractions >= One
        /\ Times \subseteq Nat /\ NoBucket \notin Nat /\ Rate \in Nat /\ Rate >= 1
    BY <1>1, RateNumbers
  <1>3. /\ latest' \in Times /\ latest <= latest' /\ now <= latest'
    BY <1>1, LatestAfter
  <1>4. CASE AdmitTracked(k, now)
    <2> DEFINE have == Refilled(k, now) - One
    <2> DEFINE seen == SeenAt(k, now)
    <2> DEFINE got == Append(admits[k], SeenAt(k, now))
    <2>1. /\ available[k] # NoBucket /\ Refilled(k, now) >= One
          /\ available' = [available EXCEPT ![k] = have]
          /\ lastSeen' = [lastSeen EXCEPT ![k] = seen]
          /\ admits' = [admits EXCEPT ![k] = got]
          /\ retryAt' = [retryAt EXCEPT ![k] = NoBucket]
          /\ UNCHANGED rateClosed
      BY <1>4 DEF AdmitTracked
    <2>2. k \in Tracked /\ Bounded(Refilled(k, now), seen, admits[k]) /\ seen <= latest'
      BY <2>1, TrackedCall
    <2>3. /\ Refilled(k, now) \in Nat /\ Refilled(k, now) <= BurstFractions /\ seen \in Times
      BY <1>1, <2>2, RefillFacts
    <2>4. admits[k] \in Seq(Times)
      BY <1>1 DEF RateTypeOK
    <2>5. Bounded(have, seen, got)
      BY <1>1, <2>1, <2>2, <2>3, <2>4, SpendBounded
    <2>6. have \in 0 .. BurstFractions /\ got \in Seq(Times)
      BY <1>2, <2>1, <2>3, <2>4
    <2> HIDE DEF have, seen, got
    <2>7. QED
      BY <1>3, <2>1, <2>2, <2>3, <2>5, <2>6, BucketWritten
  <1>5. CASE RateLimited(k, now)
    <2> DEFINE have == Refilled(k, now)
    <2> DEFINE seen == SeenAt(k, now)
    <2> DEFINE back == now + CeilDiv(One - Refilled(k, now), Rate)
    <2>1. /\ available[k] # NoBucket /\ have < One
          /\ available' = [available EXCEPT ![k] = have]
          /\ lastSeen' = [lastSeen EXCEPT ![k] = seen]
          /\ retryAt' = [retryAt EXCEPT ![k] = back]
          /\ UNCHANGED <<rateClosed, admits>>
      BY <1>5 DEF RateLimited, RetryDelay
    <2>2. /\ k \in Tracked /\ Bounded(have, seen, admits[k]) /\ seen <= latest'
          /\ monotonic => seen = now
      BY <2>1, TrackedCall
    <2>3. have \in Nat /\ have <= BurstFractions /\ seen \in Times /\ now \in Nat
      BY <1>1, <2>2, RefillFacts
    <2>4. admits[k] \in Seq(Times) /\ admits' = [admits EXCEPT ![k] = admits[k]]
      BY <1>1, <2>1 DEF RateTypeOK
    <2>5. have \in 0 .. BurstFractions
      BY <1>2, <2>3
    <2>6. back \in Nat
      <3>1. One - have \in Nat /\ Rate \in Nat \ {0}
        BY <1>2, <2>1, <2>3
      <3>2. CeilDiv(One - have, Rate) \in Nat
        BY <3>1, CeilFacts
      <3>3. QED
        BY <2>3, <3>2
    <2>7. monotonic => back = seen + CeilDiv(One - have, Rate)
      BY <2>2
    <2> HIDE DEF have, seen, back
    <2>8. QED
      BY <1>3, <2>1, <2>2, <2>3, <2>4, <2>5, <2>6, <2>7, BucketWritten
  <1>6. CASE AdmitUntracked(k, now)
    <2>1. /\ available' = [available EXCEPT ![k] = BurstFractions - One]
          /\ lastSeen' = [lastSeen EXCEPT ![k] = now]
          /\ admits' = [admits EXCEPT ![k] = <<now>>]
          /\ retryAt' = [retryAt EXCEPT ![k] = NoBucket]
          /\ UNCHANGED rateClosed
      BY <1>6 DEF AdmitUntracked
    <2>2. BurstFractions - One \in 0 .. BurstFractions /\ <<now>> \in Seq(Times)
      BY <1>2
    <2>3. Bounded(BurstFractions - One, now, <<now>>)
      BY <1>1, NewBounded
    <2>4. QED
      BY <1>3, <2>1, <2>2, <2>3, BucketWritten
  <1>7. CASE RefuseRate(k)
    <2>1. UNCHANGED <<config, monotonic, available, lastSeen, rateClosed, admits, retryAt>>
      BY <1>7 DEF RefuseRate
    <2>2. RateTypeOK'
      BY <1>1, <1>3, <2>1 DEF RateTypeOK, BurstFractions
    <2>3. \A j \in Tracked' : Bounded(available'[j], lastSeen'[j], admits'[j])
      BY <2>1, BucketsBounded DEF RateInv, Tracked
    <2>4. SeenBefore'
      <3>1. \A j \in RateKeys : lastSeen[j] \in Nat /\ lastSeen[j] <= latest
        BY <1>1, <1>2 DEF RateInv, SeenBefore, RateTypeOK
      <3>2. latest \in Nat /\ latest' \in Nat
        BY <1>1, <1>2, <1>3 DEF RateTypeOK
      <3>3. QED
        BY <1>3, <2>1, <3>1, <3>2 DEF SeenBefore
    <2>5. RetryTrue'
      BY <2>1 DEF RateInv, RetryTrue, Tracked, Rate
    <2>6. QED
      BY <2>2, <2>3, <2>4, <2>5, BucketsBoundedNext DEF RateInv
  <1>8. QED
    BY <1>4, <1>5, <1>6, <1>7 DEF TryAdmitAt

\* Every step keeps the invariant.
LEMMA RateStepKeeps ==
    ASSUME RateAssumption, RateInv, [RateNext]_rateVars
    PROVE  RateInv'
  <1>1. RateTypeOK
    BY DEF RateInv, RateHeld
  <1>2. ASSUME NEW k \in RateKeys, NEW now \in Times, TryAdmitAt(k, now),
               UNCHANGED <<config, monotonic>>
        PROVE  RateInv'
    BY <1>2, CallKeeps
  <1>3. ASSUME NEW k \in RateKeys, EvictKey(k), UNCHANGED <<config, monotonic>>
        PROVE  RateInv'
    <2>1. /\ available' = [available EXCEPT ![k] = NoBucket]
          /\ admits' = [admits EXCEPT ![k] = <<>>]
          /\ retryAt' = [retryAt EXCEPT ![k] = NoBucket]
          /\ UNCHANGED <<config, monotonic, lastSeen, rateClosed, latest>>
      BY <1>3 DEF EvictKey
    <2>2. /\ \A j \in RateKeys : available'[j] = IF j = k THEN NoBucket ELSE available[j]
          /\ \A j \in RateKeys : j # k => admits'[j] = admits[j]
          /\ \A j \in RateKeys : retryAt'[j] = IF j = k THEN NoBucket ELSE retryAt[j]
      BY <1>1, <2>1 DEF RateTypeOK
    <2>3. RateTypeOK'
      <3>1. BurstFractions' = BurstFractions
        BY <2>1 DEF BurstFractions
      <3>2. available' \in [RateKeys -> (0 .. BurstFractions) \cup {NoBucket}]
        BY <1>1, <2>1 DEF RateTypeOK
      <3>3. <<>> \in Seq(Times)
        OBVIOUS
      <3>4. admits' \in [RateKeys -> Seq(Times)]
        BY <1>1, <2>1, <3>3 DEF RateTypeOK
      <3>5. retryAt' \in [RateKeys -> Nat \cup {NoBucket}]
        BY <1>1, <2>1 DEF RateTypeOK
      <3>6. QED
        BY <1>1, <2>1, <3>1, <3>2, <3>4, <3>5 DEF RateTypeOK
    <2>4. Tracked' = Tracked \ {k}
      BY <2>2 DEF Tracked
    <2>5. \A j \in Tracked' : Bounded(available'[j], lastSeen'[j], admits'[j])
      <3>1. \A j \in Tracked : j \in RateKeys /\ Bounded(available[j], lastSeen[j], admits[j])
        BY BucketsBounded DEF RateInv, Tracked
      <3>2. ASSUME NEW j \in Tracked'
            PROVE  Bounded(available'[j], lastSeen'[j], admits'[j])
        <4>1. j \in Tracked /\ j # k /\ j \in RateKeys
          BY <2>4, <3>1, <3>2
        <4>2. /\ available'[j] = available[j] /\ lastSeen'[j] = lastSeen[j]
              /\ admits'[j] = admits[j]
          BY <2>1, <2>2, <4>1
        <4>3. QED
          BY <3>1, <4>1, <4>2, Zenon
      <3>3. QED
        BY <3>2
    <2>6. SeenBefore'
      BY <2>1 DEF RateInv, SeenBefore
    <2>7. RetryTrue'
      BY <2>1, <2>2, <2>4 DEF RateInv, RetryTrue, Rate
    <2>8. QED
      BY <2>1, <2>3, <2>5, <2>6, <2>7, BucketsBoundedNext DEF RateInv
  <1>4. ASSUME UNCHANGED <<config, monotonic, available, lastSeen, latest, admits, retryAt>>,
               rateClosed' \in BOOLEAN
        PROVE  RateInv'
    <2>1. RateTypeOK'
      BY <1>1, <1>4 DEF RateTypeOK, BurstFractions
    <2>2. \A j \in Tracked' : Bounded(available'[j], lastSeen'[j], admits'[j])
      BY <1>4, BucketsBounded DEF RateInv, Tracked
    <2>3. SeenBefore' /\ RetryTrue'
      BY <1>4 DEF RateInv, SeenBefore, RetryTrue, Tracked, Rate
    <2>4. QED
      BY <1>4, <2>1, <2>2, <2>3, BucketsBoundedNext DEF RateInv
  <1>5. CASE CloseRate /\ UNCHANGED <<config, monotonic>>
    BY <1>4, <1>5 DEF CloseRate
  <1>6. CASE UNCHANGED rateVars
    <2>1. rateClosed' \in BOOLEAN
      BY <1>1, <1>6, Zenon DEF rateVars, RateTypeOK
    <2>2. QED
      BY <1>4, <1>6, <2>1 DEF rateVars
  <1>7. QED
    BY <1>2, <1>3, <1>5, <1>6 DEF RateNext

\* The first state satisfies the invariant.
LEMMA RateStart ==
    ASSUME RateAssumption, RateInit
    PROVE  RateInv
  <1>1. RateTypeOK
    <2>1. <<>> \in Seq(Times) /\ 0 \in Times
      BY DEF Times, RateAssumption
    <2>2. monotonic \in BOOLEAN /\ rateClosed \in BOOLEAN
      BY DEF RateInit
    <2>3. QED
      BY <2>1, <2>2 DEF RateInit, RateTypeOK
  <1>2. Tracked = {}
    BY DEF RateInit, Tracked
  <1>3. RateHeld
    BY <1>1, <1>2, BucketsBounded
  <1>4. SeenBefore /\ RetryTrue
    BY DEF RateInit, SeenBefore, RetryTrue
  <1>5. QED
    BY <1>3, <1>4 DEF RateInv

\* For any keys, rate, burst, number of slots and clock, also one that goes back
\* (try_admit_at and admit_existing of RateLimit): from any of its admissions on a
\* key gets at most the burst and the rate times the time, and so between any two.
THEOREM RatesStayHeld == RateAssumption => (RateSpec => []RateHeld)
  <1> SUFFICES ASSUME RateAssumption
               PROVE  RateSpec => []RateHeld
    OBVIOUS
  <1>1. RateInit => RateInv
    BY RateStart
  <1>2. RateInv /\ [RateNext]_rateVars => RateInv'
    BY RateStepKeeps
  <1>3. RateInv => RateHeld
    BY DEF RateInv
  <1>4. QED
    BY <1>1, <1>2, <1>3, PTL DEF RateSpec

-----------------------------------------------------------------------------
(* retry_after.                                                            *)

\* A call of a key that was told when to come back.
LEMMA RetryStep ==
    ASSUME RateAssumption, RateInv, NEW k \in RateKeys, NEW now \in Times, monotonic,
           retryAt[k] # NoBucket, ~rateClosed, TryAdmitAt(k, now)
    PROVE  IF now >= retryAt[k] THEN admits'[k] # admits[k]
                                ELSE admits'[k] = admits[k] /\ retryAt'[k] = retryAt[k]
  <1> DEFINE a == available[k]
  <1> DEFINE e == Elapsed(k, now)
  <1> DEFINE q == CeilDiv(One - a, Rate)
  <1>1. RateTypeOK
    BY DEF RateInv, RateHeld
  <1>2. /\ k \in Tracked /\ a < One /\ retryAt[k] = lastSeen[k] + q
    BY DEF RateInv, RetryTrue
  <1>3. /\ One \in Nat /\ BurstFractions \in Nat /\ BurstFractions >= One
        /\ Rate \in Nat \ {0} /\ Rate \in Nat /\ NoBucket \notin Nat
    BY <1>1, RateNumbers
  <1>4. /\ a \in Nat /\ lastSeen[k] \in Nat /\ now \in Nat /\ e \in Nat /\ e * Rate \in Nat
        /\ Refilled(k, now) = Least(a + e * Rate, BurstFractions)
    BY <1>1, <1>2, RefillFacts DEF Refilled
  <1>5. available[k] # NoBucket /\ now = lastSeen[k] + e
    <2>1. available[k] # NoBucket
      BY <1>2 DEF Tracked
    <2>2. QED
      BY <2>1, TrackedCall
  <1>6. One - a \in Nat
    BY <1>2, <1>3, <1>4
  <1>7. /\ q \in Nat /\ One - a <= q * Rate /\ q * Rate < (One - a) + Rate
    BY <1>3, <1>6, CeilFacts
  <1>8. AdmitTracked(k, now) \/ RateLimited(k, now)
    BY <1>5 DEF TryAdmitAt, AdmitUntracked, RefuseRate
  <1>9. admits[k] \in Seq(Times) /\ k \in RateKeys
    BY <1>1 DEF RateTypeOK
  <1> HIDE DEF a, e, q
  <1>10. CASE now >= retryAt[k]
    <2>1. e >= q
      BY <1>2, <1>4, <1>5, <1>7, <1>10
    <2>2. (e - q) * Rate \in Nat /\ e * Rate = q * Rate + (e - q) * Rate
      BY <1>3, <1>4, <1>7, <2>1
    <2>3. q * Rate \in Int
      BY <1>3, <1>7
    <2>4. a + e * Rate >= One
      BY <1>3, <1>4, <1>7, <2>2, <2>3
    <2>5. Refilled(k, now) >= One
      BY <1>3, <1>4, <2>4 DEF Least
    <2>6. ~RateLimited(k, now)
      <3>1. Refilled(k, now) \in Int
        BY <1>3, <1>4 DEF Least
      <3>2. QED
        BY <1>3, <2>5, <3>1 DEF RateLimited
    <2>7. admits' = [admits EXCEPT ![k] = Append(admits[k], SeenAt(k, now))]
      BY <1>8, <2>6 DEF AdmitTracked
    <2>8. admits'[k] = Append(admits[k], SeenAt(k, now))
      BY <1>1, <2>7 DEF RateTypeOK
    <2>9. SeenAt(k, now) \in Times
      BY <1>1, <1>2, RefillFacts
    <2>10. Len(Append(admits[k], SeenAt(k, now))) = Len(admits[k]) + 1 /\ Len(admits[k]) \in Nat
      BY <1>9, <2>9
    <2>11. QED
      BY <1>10, <2>8, <2>10
  <1>11. CASE ~(now >= retryAt[k])
    <2>1. q - e - 1 \in Nat
      BY <1>2, <1>4, <1>5, <1>7, <1>11
    <2>2. (q - e - 1) * Rate \in Nat /\ q * Rate = e * Rate + Rate + (q - e - 1) * Rate
      BY <1>3, <1>4, <1>7, <2>1
    <2>3. q * Rate \in Int
      BY <1>3, <1>7
    <2>4. a + e * Rate < One
      BY <1>3, <1>4, <1>7, <2>2, <2>3
    <2>5. Refilled(k, now) = a + e * Rate
      BY <1>3, <1>4, <2>4 DEF Least
    <2>6. ~AdmitTracked(k, now)
      BY <1>3, <1>4, <2>4, <2>5 DEF AdmitTracked
    <2>7. /\ retryAt' = [retryAt EXCEPT ![k] = now + CeilDiv(One - Refilled(k, now), Rate)]
          /\ admits' = admits
      BY <1>8, <2>6 DEF RateLimited, RetryDelay
    <2> DEFINE x == One - (a + e * Rate)
    <2>8. x \in Nat
      BY <1>3, <1>4, <2>4
    <2>9. /\ CeilDiv(x, Rate) \in Nat
          /\ x <= CeilDiv(x, Rate) * Rate /\ CeilDiv(x, Rate) * Rate < x + Rate
      BY <1>3, <2>8, CeilFacts
    <2>10. /\ q - e \in Int /\ x <= (q - e) * Rate /\ (q - e) * Rate < x + Rate
      <3>1. q - e \in Int /\ (q - e) * Rate = q * Rate - e * Rate
        BY <1>3, <1>4, <1>7
      <3>2. QED
        BY <1>3, <1>4, <1>7, <2>3, <3>1
    <2>11. CeilDiv(x, Rate) = q - e
      <3> HIDE DEF x
      <3>1. QED
        BY <1>3, <2>8, <2>9, <2>10, CeilUnique
    <2>12. now + (q - e) = lastSeen[k] + q
      BY <1>4, <1>5, <1>7
    <2>13. retryAt'[k] = now + CeilDiv(x, Rate)
      <3>1. retryAt'[k] = now + CeilDiv(One - Refilled(k, now), Rate)
        BY <1>1, <2>7 DEF RateTypeOK
      <3>2. QED
        BY <2>5, <3>1
    <2>14. QED
      BY <1>2, <1>11, <2>7, <2>11, <2>12, <2>13
  <1>12. QED
    BY <1>10, <1>11

\* The retry_after of a refused key is exact and stays so, for any rate, burst and
\* fractions of a token, under a clock that does not go back (try_admit_at): it is
\* refused until then, with the same time told again, and admitted from then on.
THEOREM RetriesStayExact == RateAssumption => (RateSpec => [][RetryKept]_rateVars)
  <1> SUFFICES ASSUME RateAssumption
               PROVE  RateSpec => [][RetryKept]_rateVars
    OBVIOUS
  <1>1. RateInit => RateInv
    BY RateStart
  <1>2. RateInv /\ [RateNext]_rateVars => RateInv'
    BY RateStepKeeps
  <1>3. RateInv => RetryKept
    BY RetryStep, Zenon DEF RetryKept
  <1>4. QED
    BY <1>1, <1>2, <1>3, PTL DEF RateSpec
=============================================================================
