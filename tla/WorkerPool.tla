----------------------------- MODULE WorkerPool -----------------------------
(***************************************************************************)
(* The worker pool isolate (tina-runtime/src/pool.rs) and the clients that *)
(* call it on one shard.  A turn of the pool is one step: the handler runs *)
(* and the runtime executes the effects it returns before anything else on *)
(* the shard.  Between two turns callers may time out, cancel or stop.     *)
(*                                                                         *)
(* A request is one Acquire call: its entry in the call table, the slot    *)
(* that the pool captures for it and the outcome its client receives.      *)
(* The lifetime policy of Maintain is left open: any idle resource may be  *)
(* past it.                                                                *)
(***************************************************************************)
EXTENDS Integers, Sequences, FiniteSets, SequencesExt

CONSTANTS Clients,       \* isolates that acquire and release
          Requests,      \* the acquire calls a behaviour may make
          Capacity,      \* PoolConfig.capacity
          MaxWaiters,    \* PoolConfig.max_waiters
          MailboxCap,    \* capacity of the pool's mailbox
          InboxCap,      \* capacity of each client's mailbox
          NoRequest      \* an empty waiter slot

\* What the code asks of the constants.
PoolAssumption == /\ Capacity \in Nat \ {0}
                  /\ MaxWaiters \in Nat
                  /\ MailboxCap \in Nat \ {0}
                  /\ InboxCap \in Nat \ {0}
                  /\ NoRequest \notin Requests

VARIABLES pool,         \* the fields of WorkerPool
          mailbox,      \* messages queued at the pool
          call,         \* request -> its entry in the runtime's call table
          owner,        \* request -> the client that made it
          slot,         \* request -> state of the captured reply slot
          inbox,        \* client -> outcomes and other messages queued
          held,         \* client -> leases its handler has taken
          alive,        \* clients that have not stopped
          dropped,      \* ghost: leases their client let go of
          undelivered   \* ghost: leases of Replied calls whose outcome met a full inbox

vars == <<pool, mailbox, call, owner, slot, inbox, held, alive, dropped, undelivered>>
clientVars == <<owner, held, alive, dropped>>

Resources == 1..Capacity
WaiterSlots == 1..MaxWaiters
Lease == [res : Resources, gen : Nat]
Other == [kind |-> "Other"]
Acquired(l) == [kind |-> "Acquired", lease |-> l]

TypeOK ==
    /\ pool.states \in [Resources -> [st : {"Idle", "Leased", "Retired"}, gen : Nat]]
    /\ pool.idle \in Seq(Resources)
    /\ pool.slab \in [WaiterSlots -> Requests \cup {NoRequest}]
    /\ pool.free \in Seq(WaiterSlots)
    /\ pool.queue \in Seq(WaiterSlots)
    /\ pool.inFlight \subseteq [lease : Lease, req : Requests]
    /\ pool.closed \in {"Open", "Drain", "Force"}
    /\ Len(mailbox) <= MailboxCap
    /\ call \in [Requests -> {"unused", "pending", "settled"}]
    /\ owner \in [Requests -> Clients]
    /\ slot \in [Requests -> {"none", "Open", "Replied", "Closed"}]
    /\ \A c \in Clients : Len(inbox[c]) <= InboxCap
    /\ held \in [Clients -> SUBSET Lease]
    /\ alive \subseteq Clients
    /\ dropped \subseteq Lease /\ undelivered \subseteq Lease

\* WorkerPool::build: every resource idle at generation 1, the free stack
\* pops the lowest waiter slot first.
Build == [states   |-> [i \in Resources |-> [st |-> "Idle", gen |-> 1]],
          idle     |-> [i \in 1..Capacity |-> i],
          slab     |-> [w \in WaiterSlots |-> NoRequest],
          free     |-> [w \in 1..MaxWaiters |-> MaxWaiters + 1 - w],
          queue    |-> <<>>,
          inFlight |-> {},
          closed   |-> "Open"]

Init ==
    /\ pool = Build
    /\ mailbox = <<>>
    /\ call = [r \in Requests |-> "unused"]
    /\ owner \in [Requests -> Clients]
    /\ slot = [r \in Requests |-> "none"]
    /\ inbox = [c \in Clients |-> <<>>]
    /\ held = [c \in Clients |-> {}]
    /\ alive = Clients
    /\ dropped = {} /\ undelivered = {}

-----------------------------------------------------------------------------
(* The pool's own operations, as functions of its fields p.                *)

\* remove_waiter_slot for a set of slots, taken in ascending order.
RemoveWaiterSlots(p, W) ==
    [p EXCEPT !.slab = [w \in WaiterSlots |-> IF w \in W THEN NoRequest ELSE @[w]],
              !.free = @ \o SetToSortSeq(W, <)]

\* sweep_waiters: reclaim the slots whose caller is gone.
SweepWaiters(p) ==
    LET gone == {w \in WaiterSlots : p.slab[w] # NoRequest /\ slot[p.slab[w]] # "Open"}
        q == RemoveWaiterSlots(p, gone)
    IN  [q EXCEPT !.queue = SelectSeq(@, LAMBDA w : q.slab[w] # NoRequest)]

\* recover_dispatched: a lease nobody received goes back to idle, if the
\* resource is still out under that generation.
RecoverDispatched(p, l) ==
    IF p.states[l.res] = [st |-> "Leased", gen |-> l.gen]
    THEN [p EXCEPT !.states[l.res] = [st |-> "Idle", gen |-> l.gen + 1],
                   !.idle = Append(@, l.res)]
    ELSE p

\* Mutant: a delivered dispatch is recovered like a refused one.
SweepInFlightAll(p) ==
    LET rest == [p EXCEPT !.inFlight = {}]
    IN  FoldSeq(LAMBDA d, q : RecoverDispatched(q, d.lease), rest, SetToSeq(p.inFlight))

\* sweep_in_flight: forget the delivered dispatches, recover the refused.
\* The order of recovery is immaterial: a turn makes one dispatch, and the
\* next turn begins with this sweep.
SweepInFlight(p) ==
    LET refused == {d \in p.inFlight : slot[d.req] = "Closed"}
        rest == [p EXCEPT !.inFlight = {d \in @ : slot[d.req] = "Open"}]
    IN  FoldSeq(LAMBDA d, q : RecoverDispatched(q, d.lease), rest, SetToSeq(refused))

\* What handle and handle_call do before they look at the message.
Swept == SweepInFlight(SweepWaiters(pool))

\* retire_slot.
RetireSlot(p, i) ==
    [p EXCEPT !.states[i] = [st  |-> "Retired",
                             gen |-> IF @.st = "Leased" THEN @.gen + 1 ELSE @.gen]]

RetireSlots(p, R) == FoldSeq(LAMBDA i, q : RetireSlot(q, i), p, SetToSeq(R))

\* mint_lease and track_dispatch: lease resource i out to request r.
Dispatch(p, i, r) ==
    [p EXCEPT !.states[i].st = "Leased",
              !.inFlight = @ \cup {[lease |-> [res |-> i, gen |-> p.states[i].gen], req |-> r]}]

LeaseOf(p, i) == [res |-> i, gen |-> p.states[i].gen]

\* dispatch_to_next_waiter: the pool and the reply it sends, if any.  The
\* resource goes to the first waiter still there, else to the idle queue.
DispatchToNextWaiter(p0, i) ==
    LET p == SweepWaiters(p0)
    IN  IF p.queue = <<>>
        THEN [pool |-> [p EXCEPT !.idle = Append(@, i)], replies |-> {}]
        ELSE LET w == Head(p.queue)
                 r == p.slab[w]
                 q == RemoveWaiterSlots([p EXCEPT !.queue = Tail(@)], {w})
             IN  [pool    |-> Dispatch(q, i, r),
                  replies |-> {[req |-> r, msg |-> Acquired(LeaseOf(q, i))]}]

-----------------------------------------------------------------------------
(* The runtime around the pool: what a reply_to effect does to its caller. *)

\* execute_reply_to and complete_isolate_call for a set of replies to
\* distinct requests: a slot that is no longer open swallows the reply; an
\* open one is answered, its call settled and its outcome offered to the
\* client's mailbox.
ReplyTo(slots, replies) ==
    LET live == {e \in replies : slots[e.req] = "Open"}
        mine(c) == SetToSeq({e \in live : owner[e.req] = c})
        taken(c) == SubSeq(mine(c), 1, Min({Len(mine(c)), InboxCap - Len(inbox[c])}))
        refused == live \ UNION {ToSet(taken(c)) : c \in Clients}
        answered == {e.req : e \in live}
    IN  /\ slot' = [r \in Requests |-> IF r \in answered THEN "Replied" ELSE slots[r]]
        /\ call' = [r \in Requests |-> IF r \in answered THEN "settled" ELSE call[r]]
        /\ inbox' = [c \in Clients |->
                       inbox[c] \o [k \in DOMAIN taken(c) |-> taken(c)[k].msg]]
        /\ undelivered' = undelivered \cup
              {e.msg.lease : e \in {x \in refused : x.msg.kind = "Acquired"}}

\* The head of the mailbox is a message of this kind, and is consumed.
Receive(kind) ==
    /\ mailbox # <<>> /\ Head(mailbox).kind = kind
    /\ mailbox' = Tail(mailbox)

NoReply == UNCHANGED <<call, slot, inbox, undelivered>>

-----------------------------------------------------------------------------
(* Turns of the pool.                                                      *)

\* handle_call(Acquire), closed: replied at once; no slot is captured.
AcquireClosed ==
    /\ Receive("Acquire")
    /\ pool' = Swept
    /\ pool.closed # "Open"
    /\ LET r == Head(mailbox).req
           open == [slot EXCEPT ![r] = IF call[r] = "pending" THEN "Open" ELSE "none"]
       IN  ReplyTo(open, {[req |-> r, msg |-> Other]})
    /\ UNCHANGED clientVars

\* Capturing the request: the slot of a call that ended before this turn is
\* closed from the start.
Captured(r) == [slot EXCEPT ![r] = IF call[r] = "pending" THEN "Open" ELSE "Closed"]

\* handle_acquire_slot: an idle resource, else a place in the queue, else Full.
AcquireSlot(p, r) ==
    IF p.idle # <<>>
    THEN LET i == Head(p.idle)
         IN  [pool    |-> Dispatch([p EXCEPT !.idle = Tail(@)], i, r),
              replies |-> {[req |-> r, msg |-> Acquired(LeaseOf(p, i))]}]
    ELSE IF p.free = <<>>
    THEN [pool |-> p, replies |-> {[req |-> r, msg |-> Other]}]
    ELSE LET w == Last(p.free)
         IN  [pool    |-> [p EXCEPT !.free = Front(@), !.slab[w] = r, !.queue = Append(@, w)],
              replies |-> {}]

HandleAcquire ==
    /\ Receive("Acquire")
    /\ pool.closed = "Open"
    /\ LET r == Head(mailbox).req
           step == AcquireSlot(Swept, r)
       IN  /\ pool' = step.pool
           /\ ReplyTo(Captured(r), step.replies)
    /\ UNCHANGED clientVars

\* handle_release, on the pool p as swept.
Release(p, l, disposition) ==
    LET current == p.states[l.res] = [st |-> "Leased", gen |-> l.gen]
        idle == [p EXCEPT !.states[l.res] = [st |-> "Idle", gen |-> l.gen + 1]]
    IN  IF ~current
        THEN [pool |-> p, replies |-> {}]
        ELSE IF p.closed = "Force" \/ disposition = "Retire"
        THEN [pool |-> RetireSlot(p, l.res), replies |-> {}]
        ELSE IF p.closed = "Drain"
        THEN [pool |-> idle, replies |-> {}]
        ELSE DispatchToNextWaiter(idle, l.res)

HandleRelease ==
    /\ Receive("Release")
    /\ LET step == Release(Swept, Head(mailbox).lease, Head(mailbox).disposition)
       IN  /\ pool' = step.pool
           /\ ReplyTo(slot, step.replies)
    /\ UNCHANGED clientVars

\* handle_close: Force upgrades Drain, never the other way.  The upgrade
\* retires what is leased and forgets the dispatches; every close settles
\* the waiters.
Close(p, mode) ==
    LET force == mode = "Force" /\ p.closed # "Force"
        leased == {i \in Resources : p.states[i].st = "Leased"}
        marked == [p EXCEPT !.closed = IF @ = "Open" \/ force THEN mode ELSE @]
        forced == [RetireSlots(marked, leased) EXCEPT !.inFlight = {}]
        parked == {w \in WaiterSlots : p.slab[w] # NoRequest}
    IN  [pool    |-> [RemoveWaiterSlots(IF force THEN forced ELSE marked, parked)
                         EXCEPT !.queue = <<>>],
         replies |-> {[req |-> p.slab[w], msg |-> Other] : w \in parked}]

HandleClose ==
    /\ Receive("Close")
    /\ LET step == Close(Swept, Head(mailbox).mode)
       IN  /\ pool' = step.pool
           /\ ReplyTo(slot, step.replies)
    /\ UNCHANGED clientVars

\* handle_maintain: retire the idle resources the policy finds too old and
\* prune the idle queue.  A closed pool retires nothing.
Maintain(p, tooOld) ==
    LET q == RetireSlots(p, tooOld)
    IN  [q EXCEPT !.idle = SelectSeq(@, LAMBDA i : q.states[i].st = "Idle")]

HandleMaintain ==
    /\ Receive("Maintain")
    /\ \E tooOld \in SUBSET {i \in Resources : Swept.states[i].st = "Idle"} :
          /\ pool.closed # "Open" => tooOld = {}
          /\ pool' = IF tooOld = {} THEN Swept ELSE Maintain(Swept, tooOld)
    /\ NoReply
    /\ UNCHANGED clientVars

\* handle_refill: only a retired slot of an open pool takes a new resource,
\* which a waiter may get at once.
Refill(p, i) ==
    IF p.closed # "Open" \/ p.states[i].st # "Retired"
    THEN [pool |-> p, replies |-> {}]
    ELSE DispatchToNextWaiter([p EXCEPT !.states[i].st = "Idle"], i)

HandleRefill ==
    /\ Receive("Refill")
    /\ LET step == Refill(Swept, Head(mailbox).res)
       IN  /\ pool' = step.pool
           /\ ReplyTo(slot, step.replies)
    /\ UNCHANGED clientVars

\* PressureReport, and an Acquire sent without a reply path: the sweeps only.
HandleReport ==
    /\ Receive("Report")
    /\ pool' = Swept
    /\ NoReply
    /\ UNCHANGED clientVars

-----------------------------------------------------------------------------
(* Clients, the pool's owner and the runtime between turns.                *)

\* acquire_effect: a full pool mailbox ends the call at once.
ClientAcquire(r) ==
    /\ call[r] = "unused" /\ owner[r] \in alive
    /\ IF Len(mailbox) < MailboxCap
       THEN /\ mailbox' = Append(mailbox, [kind |-> "Acquire", req |-> r])
            /\ call' = [call EXCEPT ![r] = "pending"]
       ELSE /\ call' = [call EXCEPT ![r] = "settled"]
            /\ UNCHANGED mailbox
    /\ UNCHANGED <<pool, slot, inbox, undelivered>> /\ UNCHANGED clientVars

CloseSlots(R) == [r \in Requests |-> IF r \in R /\ slot[r] = "Open" THEN "Closed" ELSE slot[r]]

\* The call's deadline passes or its handle is cancelled.
CallerLeaves(r) ==
    /\ call[r] = "pending"
    /\ call' = [call EXCEPT ![r] = "settled"]
    /\ slot' = CloseSlots({r})
    /\ UNCHANGED <<pool, mailbox, inbox, undelivered>> /\ UNCHANGED clientVars

\* The client's handler takes its next message; a lease is its to keep.
ClientReceive(c) ==
    /\ c \in alive /\ inbox[c] # <<>>
    /\ inbox' = [inbox EXCEPT ![c] = Tail(@)]
    /\ LET m == Head(inbox[c])
       IN  held' = [held EXCEPT ![c] = @ \cup (IF m.kind = "Acquired" THEN {m.lease} ELSE {})]
    /\ UNCHANGED <<pool, mailbox, call, owner, slot, alive, dropped, undelivered>>

\* release_effect consumes the lease; at a full pool mailbox it is gone.
ClientRelease(c, l, disposition) ==
    /\ c \in alive /\ l \in held[c]
    /\ held' = [held EXCEPT ![c] = @ \ {l}]
    /\ IF Len(mailbox) < MailboxCap
       THEN /\ mailbox' = Append(mailbox, [kind |-> "Release", lease |-> l,
                                           disposition |-> disposition])
            /\ UNCHANGED dropped
       ELSE /\ dropped' = dropped \cup {l}
            /\ UNCHANGED mailbox
    /\ UNCHANGED <<pool, call, owner, slot, inbox, alive, undelivered>>

\* Other traffic of the client.
ClientTraffic(c) ==
    /\ c \in alive /\ Len(inbox[c]) < InboxCap
    /\ inbox' = [inbox EXCEPT ![c] = Append(@, Other)]
    /\ UNCHANGED <<pool, mailbox, call, owner, slot, held, alive, dropped, undelivered>>

InboxLeases(c) == {m.lease : m \in {x \in ToSet(inbox[c]) : x.kind = "Acquired"}}

\* The client stops: its calls end, its messages and its leases are dropped.
ClientStops(c) ==
    /\ c \in alive
    /\ alive' = alive \ {c}
    /\ LET R == {r \in Requests : owner[r] = c /\ call[r] = "pending"}
       IN  /\ call' = [r \in Requests |-> IF r \in R THEN "settled" ELSE call[r]]
           /\ slot' = CloseSlots(R)
    /\ dropped' = dropped \cup held[c] \cup InboxLeases(c)
    /\ held' = [held EXCEPT ![c] = {}]
    /\ inbox' = [inbox EXCEPT ![c] = <<>>]
    /\ UNCHANGED <<pool, mailbox, owner, undelivered>>

\* The owner of the pool closes, maintains, refills or inspects it.
OwnerMessages ==
    {[kind |-> "Close", mode |-> m] : m \in {"Drain", "Force"}}
       \cup {[kind |-> "Refill", res |-> i] : i \in Resources}
       \cup {[kind |-> "Maintain"], [kind |-> "Report"]}

OwnerSends(m) ==
    /\ Len(mailbox) < MailboxCap
    /\ mailbox' = Append(mailbox, m)
    /\ UNCHANGED <<pool, call, slot, inbox, undelivered>> /\ UNCHANGED clientVars

PoolTurn == \/ AcquireClosed \/ HandleAcquire \/ HandleRelease \/ HandleClose
            \/ HandleMaintain \/ HandleRefill \/ HandleReport

Next ==
    \/ PoolTurn
    \/ \E r \in Requests : ClientAcquire(r) \/ CallerLeaves(r)
    \/ \E c \in Clients :
          \/ ClientReceive(c) \/ ClientTraffic(c) \/ ClientStops(c)
          \/ \E l \in held[c], d \in {"Reuse", "Retire"} : ClientRelease(c, l, d)
    \/ \E m \in OwnerMessages : OwnerSends(m)

Spec == Init /\ [][Next]_vars

-----------------------------------------------------------------------------
(* Properties.                                                             *)

QueuedLeases == {m.lease : m \in {x \in ToSet(mailbox) : x.kind = "Release"}}

\* Where a lease can be: with a client, on its way to one, on its way back.
Places == {<<"held", c>> : c \in Clients} \cup {<<"inbox", c>> : c \in Clients}
             \cup {<<"mailbox">>}
At(p) == CASE p[1] = "held" -> held[p[2]]
           [] p[1] = "inbox" -> InboxLeases(p[2])
           [] OTHER -> QueuedLeases
Outstanding == UNION {At(p) : p \in Places}

\* A resource is never in two hands, whatever was recovered, retired,
\* refilled or closed since its lease was minted: no two leases in existence
\* name the same resource.  And until a force close a lease in existence is the
\* pool's current one, so that its release is never answered StaleLease or
\* DoubleRelease and maintenance never takes the resource back.
LeaseExclusive ==
    /\ \A l, k \in Outstanding : l.res = k.res => l = k
    /\ \A p, q \in Places : p # q => At(p) \cap At(q) = {}
    /\ pool.closed # "Force" =>
          \A l \in Outstanding : pool.states[l.res] = [st |-> "Leased", gen |-> l.gen]

\* A leased resource can come back: its lease exists somewhere, or its caller
\* left before delivery and the next sweep will find that, or the client side
\* let the lease go.
NothingLeaks ==
    \A i \in Resources : pool.states[i].st = "Leased" =>
        LET l == LeaseOf(pool, i)
        IN  \/ l \in Outstanding \cup dropped \cup undelivered
            \/ \E d \in pool.inFlight : d.lease = l /\ slot[d.req] = "Closed"

\* "a Replied slot was delivered cleanly": sweep_in_flight may forget it.
RepliedIsDelivered == undelivered = {}

\* No caller waits beside an idle resource, and so no later Acquire overtakes
\* a parked one: recovery, release and refill all look at the queue, or happen
\* where nobody can be parked.
WorkConserving ==
    pool.idle # <<>> => \A w \in WaiterSlots :
        pool.slab[w] # NoRequest => slot[pool.slab[w]] # "Open"

\* The waiter slab, its free stack and the queue agree: each slot is on the
\* free stack or in the queue, once, so alloc_waiter_slot never finds its stack
\* empty below max_waiters and no slot is handed to two callers.
SlabConsistent ==
    /\ \A w \in WaiterSlots :
          IF pool.slab[w] = NoRequest
          THEN w \in ToSet(pool.free) \ ToSet(pool.queue)
          ELSE w \in ToSet(pool.queue) \ ToSet(pool.free)
    /\ Len(pool.free) + Len(pool.queue) = MaxWaiters

\* mint_lease never panics: the idle queue names idle resources, each once.
\* (After a drain an idle resource is on no queue.)
IdleSound ==
    /\ IsInjective(pool.idle)
    /\ \A i \in ToSet(pool.idle) : pool.states[i].st = "Idle"
    /\ pool.closed = "Open" =>
          \A i \in Resources : pool.states[i].st = "Idle" => i \in ToSet(pool.idle)

\* An open captured slot stands for a caller that is still waiting, and a
\* caller that waits for an acquire the pool has read is parked: none is
\* forgotten by a close, a sweep or a handover.
WaiterKept ==
    \A r \in Requests :
        /\ slot[r] = "Open" => call[r] = "pending"
        /\ slot[r] = "Open" <=> (\E w \in WaiterSlots : pool.slab[w] = r) /\ call[r] = "pending"
        /\ call[r] = "pending" =>
              \/ slot[r] = "Open"
              \/ \E k \in DOMAIN mailbox : mailbox[k] = [kind |-> "Acquire", req |-> r]

\* A close is final: no resource is leased out and no caller parked after it,
\* and no step reopens it or turns Force back into Drain.
ClosedStays ==
    pool.closed # "Open" =>
       /\ pool'.closed = pool.closed \/ pool'.closed = "Force"
       /\ \A i \in Resources : pool'.states[i].st = "Leased" => pool.states[i].st = "Leased"
       /\ \A w \in WaiterSlots : pool'.slab[w] = NoRequest

\* Who has which resource: each is idle, leased to one holder or retired, and
\* what is leased can come back.
LeasesSound == TypeOK /\ LeaseExclusive /\ NothingLeaks /\ IdleSound

\* Who waits: every caller the pool has read is parked in a slot of its own
\* until it is answered, and not beside an idle resource.
WaitersServed == WorkConserving /\ SlabConsistent /\ WaiterKept
=============================================================================
