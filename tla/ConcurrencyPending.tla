------------------------- MODULE ConcurrencyPending -------------------------
(***************************************************************************)
(* ConcurrencyPendingReplies (tina-runtime, concurrency_pending.rs): one   *)
(* owner for a ConcurrencyLimit and a guarded table of the same size.  A   *)
(* parked caller holds one permit of the limit; the owner releases it when *)
(* the caller is answered and retires it on every other way out.  Permits  *)
(* do not give their charge back when they are merely dropped, so the      *)
(* owner never lets the table reclaim entries by itself.  An insert sweeps *)
(* first, and a caller may still leave between the sweep and the rest.     *)
(***************************************************************************)
EXTENDS GuardedPending

VARIABLES
    charged,    \* LocalPermitGate::current of each owner's limit
    closed,     \* ConcurrencyLimit::closed
    completed, retired,  \* the owner's counts
    granted,    \* ghost: permits the limit issued
    inserting   \* the insert that has swept and not finished, or None

limitVars == <<charged, closed, completed, retired, granted>>
ownerVars == <<vars, limitVars, inserting>>

\* No insert is taken for a table slot that is empty.
OwnerAssumption ==
    CapacityAssumption /\ None \notin [owner : Tables, key : Keys, call : Calls]

OwnerInit ==
    /\ Init
    /\ charged = [o \in Tables |-> 0]
    /\ closed = [o \in Tables |-> FALSE]
    /\ completed = [o \in Tables |-> 0]
    /\ retired = [o \in Tables |-> 0]
    /\ granted = [o \in Tables |-> 0]
    /\ inserting = None

\* limit.retire for n permits.
Retire(o, n) ==
    /\ charged' = [charged EXCEPT ![o] = @ - n]
    /\ retired' = [retired EXCEPT ![o] = @ + n]
    /\ UNCHANGED <<closed, completed, granted>>

\* limit.release.
Release(o) ==
    /\ charged' = [charged EXCEPT ![o] = @ - 1]
    /\ completed' = [completed EXCEPT ![o] = @ + 1]
    /\ UNCHANGED <<closed, retired, granted>>

\* Mutant: the table sweeps by itself and drops the permits.
ReclaimDropsPermits(o) ==
    /\ LetGo(CallsIn(o, ClosedSlots(o)), "Dropped")
    /\ RemoveSlots(o, ClosedSlots(o))
    /\ UNCHANGED limitVars

\* sweep: reclaim_closed, then retire each permit and drop each guard.
Reclaim(o) ==
    /\ LetGo(CallsIn(o, ClosedSlots(o)), "Dropped")
    /\ RemoveSlots(o, ClosedSlots(o))
    /\ Retire(o, Cardinality(ClosedSlots(o)))

OwnerSweep(o) ==
    /\ inserting = None
    /\ ClosedSlots(o) # {}
    /\ Reclaim(o)
    /\ UNCHANGED <<reply, tickets, lastKey, inserting>>

\* insert_deferred_guarded and park_request start with the sweep.
BeginInsert(o, key, c) ==
    /\ inserting = None
    /\ reply[c] = "Unasked"
    /\ Reclaim(o)
    /\ inserting' = [owner |-> o, key |-> key, call |-> c]
    /\ reply' = [reply EXCEPT ![c] = "Open"]
    /\ UNCHANGED <<tickets, lastKey>>

\* Nothing was stored: the caller and its guard go back to the service.
GiveBack(why) ==
    /\ inserting' = None
    /\ reply' = [reply EXCEPT ![inserting.call] = "Returned"]
    /\ lastKey' = [why |-> why, live |-> TRUE]
    /\ UNCHANGED <<slots, generations, freeSlots, guard, tickets, drops>>

\* reject_duplicate_key comes before the limit is asked.
InsertDuplicate ==
    /\ inserting # None
    /\ WithKey(inserting.owner, inserting.key) # {}
    /\ GiveBack("DuplicateKey")
    /\ UNCHANGED limitVars

\* try_admit refuses: the limit is closed, or full, or bound to a shared scope
\* that is full, which anybody may have filled (the gate's place is given back
\* before refuse).  A limit configured with PressureAction::Close closes itself
\* then, the other actions only report.
InsertNotAdmitted ==
    /\ inserting # None
    /\ WithKey(inserting.owner, inserting.key) = {}
    /\ LET o == inserting.owner
       IN  /\ closed' \in {closed, [closed EXCEPT ![o] = TRUE]}
           /\ UNCHANGED <<charged, completed, retired, granted>>
    /\ GiveBack("Admission")

\* Admitted: the permit goes into the table with the guard, or is retired
\* again if the table has no slot.
InsertAdmitted ==
    /\ inserting # None
    /\ WithKey(inserting.owner, inserting.key) = {}
    /\ LET o == inserting.owner
           c == inserting.call
       IN  /\ ~closed[o] /\ charged[o] < Capacity
           /\ granted' = [granted EXCEPT ![o] = @ + 1]
           /\ IF freeSlots[o] = {}
              THEN /\ GiveBack("PendingFull")
                   /\ retired' = [retired EXCEPT ![o] = @ + 1]
                   /\ UNCHANGED charged
              ELSE /\ StoreEntry(o, inserting.key, c, {})
                   /\ guard' = [guard EXCEPT ![c] = "Table"]
                   /\ charged' = [charged EXCEPT ![o] = @ + 1]
                   /\ inserting' = None
                   /\ lastKey' = [why |-> "Stored", live |-> TRUE]
                   /\ UNCHANGED <<reply, drops, retired>>
    /\ UNCHANGED <<closed, completed>>

\* Mutant: the guard of a caller that is gone is forgotten.
SettleTakenGuardKept(o, i) ==
    LET c == slots[o][i].call
    IN  /\ IF reply[c] = "Closed"
           THEN Retire(o, 1) /\ UNCHANGED <<reply, guard, drops>>
           ELSE Release(o) /\ reply' = [reply EXCEPT ![c] = "Replied"] /\ LetGo({c}, "Dropped")
        /\ RemoveSlots(o, {i})

\* An entry taken out to be answered: a caller that is gone is retired, any
\* other is released and replied to; the guard is dropped either way.
SettleTaken(o, i) ==
    LET c == slots[o][i].call
    IN  /\ IF reply[c] = "Closed"
           THEN Retire(o, 1) /\ UNCHANGED reply
           ELSE Release(o) /\ reply' = [reply EXCEPT ![c] = "Replied"]
        /\ LetGo({c}, "Dropped")
        /\ RemoveSlots(o, {i})

\* reply_ticket.
ReplyTicket(o, t) ==
    /\ inserting = None
    /\ t \in tickets
    /\ tickets' = tickets \ {t}
    /\ IF Honoured(o, t)
       THEN SettleTaken(o, t.slot)
       ELSE UNCHANGED <<slots, generations, freeSlots, reply, guard, drops, limitVars>>
    /\ UNCHANGED <<lastKey, inserting>>

\* reply_by_key.
ReplyByKey(o, key) ==
    /\ inserting = None
    /\ \E i \in WithKey(o, key) : SettleTaken(o, i)
    /\ UNCHANGED <<tickets, lastKey, inserting>>

\* retire_by_key: the reply slot and the guard go to the service.
RetireByKey(o, key) ==
    /\ inserting = None
    /\ \E i \in WithKey(o, key) :
          /\ LetGo(CallsIn(o, {i}), "Service")
          /\ RemoveSlots(o, {i})
          /\ Retire(o, 1)
    /\ UNCHANGED <<reply, tickets, lastKey, inserting>>

\* drain, which is also what dropping the owner does.
OwnerDrain(o) ==
    /\ inserting = None
    /\ Occupied(o) # {}
    /\ LetGo(CallsIn(o, Occupied(o)), "Service")
    /\ RemoveSlots(o, Occupied(o))
    /\ Retire(o, Cardinality(Occupied(o)))
    /\ UNCHANGED <<reply, tickets, lastKey, inserting>>

\* close: future admissions are refused, parked callers stay.
Close(o) ==
    /\ inserting = None
    /\ ~closed[o]
    /\ closed' = [closed EXCEPT ![o] = TRUE]
    /\ UNCHANGED <<vars, charged, completed, retired, granted, inserting>>

\* The runtime closes a reply slot, also in the middle of an insert.
ParkedCallerGone(c) ==
    /\ CallerGone(c)
    /\ UNCHANGED <<limitVars, inserting>>

OwnerNext ==
    \/ \E o \in Tables :
          \/ OwnerSweep(o) \/ OwnerDrain(o) \/ Close(o)
          \/ \E key \in Keys : ReplyByKey(o, key) \/ RetireByKey(o, key)
          \/ \E key \in Keys, c \in Calls : BeginInsert(o, key, c)
          \/ \E t \in tickets : ReplyTicket(o, t)
    \/ InsertDuplicate \/ InsertNotAdmitted \/ InsertAdmitted
    \/ \E c \in Calls : ParkedCallerGone(c)

OwnerSpec == OwnerInit /\ [][OwnerNext]_ownerVars

-----------------------------------------------------------------------------
(* Properties.                                                             *)

\* Type correctness.
LimitTypeOK ==
    /\ charged \in [Tables -> Nat] /\ granted \in [Tables -> Nat]
    /\ completed \in [Tables -> Nat] /\ retired \in [Tables -> Nat]
    /\ closed \in [Tables -> BOOLEAN]

\* The permits charged to the limit are those of the parked callers: none is
\* lost with a caller that left and none outlives its entry.  Hence a permit
\* always finds a slot, and PendingFull is never returned.
PermitMeansSlot ==
    /\ \A o \in Tables : charged[o] = Cardinality(Occupied(o))
    /\ lastKey.why # "PendingFull"

\* The callers that were answered, and one element for each completed permit.
Answered == {c \in Calls : reply[c] = "Replied"}
Completions == UNION {{o} \X (1 .. completed[o]) : o \in Tables}

\* The owner's report balances: every permit the limit ever issued is
\* completed, retired or charged, and the completed ones are the callers that
\* were still there when they were answered.
LedgerTrue ==
    /\ \A o \in Tables : granted[o] = completed[o] + retired[o] + charged[o]
    /\ IsFiniteSet(Answered) /\ IsFiniteSet(Completions)
    /\ Cardinality(Answered) = Cardinality(Completions)

\* The caller of an unfinished insert has its guard still.
InsertKept ==
    inserting # None =>
       /\ inserting \in [owner : Tables, key : Keys, call : Calls]
       /\ reply[inserting.call] \in {"Open", "Closed"}
       /\ guard[inserting.call] = "Service" /\ drops[inserting.call] = 0

\* Permits, slots and the owner's report agree.
PermitsBalance == LimitTypeOK /\ InsertKept /\ LedgerTrue /\ PermitMeansSlot
=============================================================================
