---------------------------- MODULE KeyedLimit ----------------------------
(***************************************************************************)
(* The per-key concurrency limit of admission.rs (tina-runtime).  A table  *)
(* of slots is shared by the keys: a slot belongs to a key while it has    *)
(* permits out, and is given to another key, under a new generation, once  *)
(* it has none.  Permits name a slot and a generation, not a key, and can  *)
(* be dropped or shown to another limit.                                   *)
(***************************************************************************)
EXTENDS Integers, FiniteSets

CONSTANTS
    Limits,      \* several KeyedLimits, told apart by gate_id
    LimitKeys,
    NoSlot,      \* an empty slot
    NumSlots,    \* slots.len(), max_keys
    PerKey,      \* per_key_capacity
    Pressure,    \* PressureAction of every limit
    MaxKeyIds,   \* bound: permits issued
    MaxRefusals  \* bound: refusals counted by a limit

KeyedSlots == 1 .. NumSlots
KeyedSlot == [key : LimitKeys, current : Nat, generation : Nat]
KeyedPermit ==
    [id : Nat, limit : Limits, slot : KeyedSlots, generation : Nat, key : LimitKeys]

\* What the code asks of the constants.
KeyedAssumption == /\ NumSlots \in Nat \ {0} /\ PerKey \in Nat \ {0}
                   /\ Pressure \in {"shed", "degrade", "close", "wait"}
                   /\ NoSlot \notin KeyedSlot
                   /\ MaxKeyIds \in Nat /\ MaxRefusals \in Nat

VARIABLES
    keySlots,      \* slots of each limit
    liveKeys,      \* live_keys of each limit
    nextGen,       \* next_generation
    keyedClosed,   \* closed
    fullCount,     \* full_count
    perKeyFull,    \* per_key_full_count
    invalid,       \* invalid_release_count
    keyPermits,    \* permits in somebody's hands; the key is a ghost
    keyedDropped,  \* permits dropped without a release
    keyIssued      \* permits issued in all: next_permit_id of the limits

keyedVars == <<keySlots, liveKeys, nextGen, keyedClosed, fullCount, perKeyFull, invalid,
               keyPermits, keyedDropped, keyIssued>>

KeyedInit ==
    /\ keySlots = [l \in Limits |-> [s \in KeyedSlots |-> NoSlot]]
    /\ liveKeys = [l \in Limits |-> 0]
    /\ nextGen = [l \in Limits |-> 1]
    /\ keyedClosed = [l \in Limits |-> FALSE]
    /\ fullCount = [l \in Limits |-> 0]
    /\ perKeyFull = [l \in Limits |-> 0]
    /\ invalid = [l \in Limits |-> 0]
    /\ keyPermits = {}
    /\ keyedDropped = {}
    /\ keyIssued = 0

-----------------------------------------------------------------------------
(* try_admit.                                                              *)

FreeKeySlots(l) == {s \in KeyedSlots : keySlots[l][s] = NoSlot}
SlotsOf(l, k) == {s \in KeyedSlots : keySlots[l][s] # NoSlot /\ keySlots[l][s].key = k}

\* The slot that a scan from the front finds, if there is one.
FirstOf(found) == {s \in found : \A other \in found : s <= other}

IssuePermit(l, k, s, gen) ==
    /\ keyIssued < MaxKeyIds
    /\ keyIssued' = keyIssued + 1
    /\ keyPermits' = keyPermits \cup
         {[id |-> keyIssued + 1, limit |-> l, slot |-> s, generation |-> gen, key |-> k]}

\* A slot with another charge.
Recharged(entry, n) == [entry EXCEPT !.current = n]

\* A key with a slot below the cap.
AdmitHeldKey(l, k) ==
    \E s \in FirstOf(SlotsOf(l, k)) :
        /\ keySlots[l][s].current < PerKey
        /\ keySlots' = [keySlots EXCEPT ![l][s] = Recharged(@, @.current + 1)]
        /\ IssuePermit(l, k, s, keySlots[l][s].generation)
        /\ UNCHANGED <<liveKeys, nextGen, keyedClosed, fullCount, perKeyFull, invalid,
                       keyedDropped>>

\* A new key takes the first free slot under a generation of its own.
AdmitNewKey(l, k) ==
    \E s \in FirstOf(FreeKeySlots(l)) :
        /\ keySlots' = [keySlots EXCEPT ![l][s] =
               [key |-> k, current |-> 1, generation |-> nextGen[l]]]
        /\ liveKeys' = [liveKeys EXCEPT ![l] = @ + 1]
        /\ nextGen' = [nextGen EXCEPT ![l] = @ + 1]
        /\ IssuePermit(l, k, s, nextGen[l])
        /\ UNCHANGED <<keyedClosed, fullCount, perKeyFull, invalid, keyedDropped>>

\* refuse: what the caller hears is the pressure action; only Shed counts as
\* full, and Close closes the limit for every key.
RefuseKey(l) ==
    /\ fullCount[l] + perKeyFull[l] < MaxRefusals
    /\ fullCount' = [fullCount EXCEPT ![l] = IF Pressure = "shed" THEN @ + 1 ELSE @]
    /\ keyedClosed' = [keyedClosed EXCEPT ![l] = @ \/ Pressure = "close"]
    /\ UNCHANGED <<keySlots, liveKeys, nextGen, invalid, keyPermits, keyedDropped, keyIssued>>

AtCapacity(l, k) ==
    /\ \E s \in FirstOf(SlotsOf(l, k)) : keySlots[l][s].current >= PerKey
    /\ perKeyFull' = [perKeyFull EXCEPT ![l] = @ + 1]
    /\ RefuseKey(l)

TableFull(l) ==
    /\ FreeKeySlots(l) = {}
    /\ UNCHANGED perKeyFull
    /\ RefuseKey(l)

TryAdmit(l, k) ==
    /\ ~keyedClosed[l]
    /\ \/ SlotsOf(l, k) # {} /\ (AdmitHeldKey(l, k) \/ AtCapacity(l, k))
       \/ SlotsOf(l, k) = {} /\ (AdmitNewKey(l, k) \/ TableFull(l))

-----------------------------------------------------------------------------
(* release, retire and drop.                                               *)

\* Mutant: the slot stays the key's with no permit out.
GiveKeyBackKeepsSlot(l, s) ==
    /\ keySlots' = [keySlots EXCEPT ![l][s] = Recharged(@, @.current - 1)]
    /\ liveKeys' = [liveKeys EXCEPT ![l] = IF keySlots[l][s].current = 1 THEN @ - 1 ELSE @]

GiveKeyBack(l, s) ==
    IF keySlots[l][s].current = 1
    THEN /\ keySlots' = [keySlots EXCEPT ![l][s] = NoSlot]
         /\ liveKeys' = [liveKeys EXCEPT ![l] = @ - 1]
    ELSE /\ keySlots' = [keySlots EXCEPT ![l][s] = Recharged(@, @.current - 1)]
         /\ UNCHANGED liveKeys

\* WrongGate: the permit is handed back.
ForeignPermit(l, p) == p.limit # l

ReleaseAt(l, p) ==
    /\ ~ForeignPermit(l, p)
    /\ keyPermits' = keyPermits \ {p}
    /\ IF keySlots[l][p.slot] # NoSlot /\ keySlots[l][p.slot].generation = p.generation
       THEN GiveKeyBack(l, p.slot) /\ UNCHANGED invalid
       ELSE invalid' = [invalid EXCEPT ![l] = @ + 1] /\ UNCHANGED <<keySlots, liveKeys>>
    /\ UNCHANGED <<nextGen, keyedClosed, fullCount, perKeyFull, keyedDropped, keyIssued>>

\* A dropped permit is recorded as lost; its slot stays charged.
DropPermit(p) ==
    /\ keyPermits' = keyPermits \ {p}
    /\ keyedDropped' = keyedDropped \cup {p}
    /\ UNCHANGED <<keySlots, liveKeys, nextGen, keyedClosed, fullCount, perKeyFull, invalid,
                   keyIssued>>

CloseKeyed(l) ==
    /\ ~keyedClosed[l]
    /\ keyedClosed' = [keyedClosed EXCEPT ![l] = TRUE]
    /\ UNCHANGED <<keySlots, liveKeys, nextGen, fullCount, perKeyFull, invalid,
                   keyPermits, keyedDropped, keyIssued>>

KeyedNext ==
    \/ \E l \in Limits, k \in LimitKeys : TryAdmit(l, k)
    \/ \E l \in Limits, p \in keyPermits : ReleaseAt(l, p)
    \/ \E p \in keyPermits : DropPermit(p)
    \/ \E l \in Limits : CloseKeyed(l)

KeyedSpec == KeyedInit /\ [][KeyedNext]_keyedVars

-----------------------------------------------------------------------------
(* Properties.                                                             *)

\* The permits that are out, and those out on one slot.
PermitsOut == keyPermits \cup keyedDropped
OutOn(l, s) == {p \in PermitsOut : p.limit = l /\ p.slot = s}

\* Type correctness.
KeyedTypeOK ==
    /\ keySlots \in [Limits -> [KeyedSlots -> KeyedSlot \cup {NoSlot}]]
    /\ liveKeys \in [Limits -> 0 .. NumSlots]
    /\ nextGen \in [Limits -> Nat]
    /\ keyedClosed \in [Limits -> BOOLEAN]
    /\ fullCount \in [Limits -> Nat]
    /\ perKeyFull \in [Limits -> Nat]
    /\ invalid \in [Limits -> Nat]
    /\ keyPermits \subseteq KeyedPermit /\ keyedDropped \subseteq KeyedPermit
    /\ keyIssued \in 0 .. MaxKeyIds

\* A slot is charged for exactly the permits that are out on it, dropped ones
\* included, at least one and at most the cap, and live_keys counts the slots.
SlotsExact ==
    \A l \in Limits :
        /\ liveKeys[l] = NumSlots - Cardinality(FreeKeySlots(l))
        /\ \A s \in KeyedSlots \ FreeKeySlots(l) :
              /\ keySlots[l][s].current = Cardinality(OutOn(l, s))
              /\ keySlots[l][s].current \in 1 .. PerKey

\* A permit that is out names a slot that is still its key's, under its
\* generation, so that its release frees that key's place and no other, and
\* StaleOrUnknown is never reported (release treats it as a defence).
PermitsMatchTheirKey ==
    /\ \A p \in PermitsOut :
          /\ keySlots[p.limit][p.slot] # NoSlot
          /\ keySlots[p.limit][p.slot].key = p.key
          /\ keySlots[p.limit][p.slot].generation = p.generation
    /\ \A l \in Limits : invalid[l] = 0

\* The cap is a cap per key: no key has two slots of a limit, and no more than
\* PerKey permits of it are out.
KeyCapHeld ==
    \A l \in Limits, k \in LimitKeys :
        Cardinality({p \in PermitsOut : p.limit = l /\ p.key = k}) <= PerKey

\* per_key_full_count is documented as a subset of full_count.
PerKeyFullIsSubset == \A l \in Limits : perKeyFull[l] <= fullCount[l]

\* Slots, permits and keys of a limit agree, and the cap is held per key.
KeysExact == KeyedTypeOK /\ SlotsExact /\ PermitsMatchTheirKey /\ KeyCapHeld
=============================================================================
