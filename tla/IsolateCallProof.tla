-------------------------- MODULE IsolateCallProof --------------------------
(* Second half of the proof that the single-shard runtime keeps            *)
(* RuntimeInvariant, and the theorems.                                     *)
(*                                                                         *)
(* A call is settled by whoever has its context: the lane of a mailbox, the*)
(* round, the turn at work, a captured reply, or an overflow lane that a   *)
(* cancelled call's continuation went through. OneContext says that a      *)
(* pending call's context is in one of these places only, so that settling *)
(* it, dropping it or draining it cannot happen twice; NoOrphanCall that it*)
(* is in at least one. CallStep, RingStep, ContextStep, OverflowStep and   *)
(* SlotStep say what a step may do to each place.                          *)
EXTENDS IsolateRuntimeProof

-----------------------------------------------------------------------------
(* How a step moves the call table and the ring. *)

CallsSame == UNCHANGED <<nextCall, pending, requester, continuation, handle, told>>

(* Call c leaves the table. *)
Ends(c, how) ==
    /\ pending' = pending \ {c}
    /\ handle' = [handle EXCEPT ![c] = how]
    /\ \/ told' = told
       \/ how = "Settled" /\ told' = [told EXCEPT ![c] = @ + 1]
    /\ UNCHANGED <<nextCall, requester, continuation>>

Dispatches == \E j \in Isolates : Call(j)

CallStep ==
    \/ CallsSame \/ Dispatches
    \/ \E c \in pending, how \in {"Settled", "Cancelled"} : Ends(c, how)

RingStep ==
    \/ ring' = ring
    \/ \E c \in pending, cause \in Causes :
          /\ Ends(c, IF cause = "CallerTimedOut" THEN "Settled" ELSE "Cancelled")
          /\ Record(c, cause)

(* complete_isolate_call ends the call or does nothing. *)
LEMMA CompleteEnds ==
    ASSUME TypeOK, NEW mb, NEW cx, NEW c, CompleteFrom(mb, cx, c),
           UNCHANGED <<nextCall, requester, continuation>>
    PROVE  CallStep
  <1>1. CASE c \in pending
    BY <1>1, CompleteCases DEF CallStep, Ends
  <1>2. CASE c \notin pending
    BY <1>2 DEF CompleteFrom, CallStep, CallsSame
  <1>3. QED
    BY <1>1, <1>2

(* Every step moves the call table and the ring in one of these ways. *)
LEMMA CallMoves ==
    ASSUME TypeOK, [Next]_vars
    PROVE  CallStep /\ RingStep
  <1>1. ASSUME NEW i \in Isolates, HostSend(i) PROVE CallStep /\ RingStep
    BY <1>1 DEF CallStep, RingStep, CallsSame, HostSend, calls
  <1>2. ASSUME NEW c \in CallIds, DeadlinePasses(c) PROVE CallStep /\ RingStep
    BY <1>2 DEF CallStep, RingStep, CallsSame, DeadlinePasses, calls
  <1>3. ASSUME BeginStep PROVE CallStep /\ RingStep
    BY <1>3 DEF CallStep, RingStep, CallsSame, BeginStep, calls
  <1>4. ASSUME Snapshot PROVE CallStep /\ RingStep
    BY <1>4 DEF CallStep, RingStep, CallsSame, Snapshot, calls
  <1>5. ASSUME EndDelivery PROVE CallStep /\ RingStep
    BY <1>5 DEF CallStep, RingStep, CallsSame, EndDelivery, calls
  <1>6. ASSUME NEW c \in CallIds, HarvestTimeout(c) PROVE CallStep /\ RingStep
    <2>1. c \in pending /\ Record(c, "CallerTimedOut") /\ Ends(c, "Settled")
      BY <1>6 DEF HarvestTimeout, SettleFrom, Ends, TypeOK
    <2>2. CallStep
      BY <2>1 DEF CallStep
    <2>3. RingStep
      BY <2>1 DEF RingStep, Causes
    <2>4. QED
      BY <2>2, <2>3
  <1>7. ASSUME NEW i \in Isolates, HandlerPanics(i) PROVE CallStep /\ RingStep
    BY <1>7, CompleteEnds DEF HandlerPanics, Complete, RingStep
  <1>8. ASSUME NEW i \in Isolates, HandlerCaptures(i) PROVE CallStep /\ RingStep
    BY <1>8 DEF CallStep, RingStep, CallsSame, HandlerCaptures, calls
  <1>9. ASSUME NEW i \in Isolates, HandlerAnswers(i) PROVE CallStep /\ RingStep
    BY <1>9 DEF CallStep, RingStep, CallsSame, HandlerAnswers, calls
  <1>10. ASSUME NEW i \in Isolates, HandlerAbandons(i) PROVE CallStep /\ RingStep
    BY <1>10, CompleteEnds DEF HandlerAbandons, Complete, RingStep
  <1>11. ASSUME NEW j \in Isolates, Send(j) PROVE CallStep /\ RingStep
    BY <1>11 DEF CallStep, RingStep, CallsSame, Send, calls
  <1>12. ASSUME NEW j \in Isolates, Call(j) PROVE CallStep /\ RingStep
    <2>1. ring' = ring
      BY <1>12 DEF Call
    <2>2. QED
      BY <1>12, <2>1 DEF CallStep, RingStep, Dispatches
  <1>13. ASSUME NEW c \in CallIds, CancelCall(c) PROVE CallStep /\ RingStep
    <2>1. CASE c \in pending /\ handle[c] = "Pending"
      <3>1. Ends(c, "Cancelled") /\ Record(c, "CallerCancelled")
        BY <1>13, <2>1 DEF CancelCall, Ends
      <3>2. CallStep
        BY <2>1, <3>1 DEF CallStep
      <3>3. RingStep
        BY <2>1, <3>1 DEF RingStep, Causes
      <3>4. QED
        BY <3>2, <3>3
    <2>2. CASE ~(c \in pending /\ handle[c] = "Pending")
      BY <1>13, <2>2 DEF CancelCall, CallStep, CallsSame, RingStep
    <2>3. QED
      BY <2>1, <2>2
  <1>14. ASSUME Answer PROVE CallStep /\ RingStep
    BY <1>14, CompleteEnds DEF Answer, Complete, RingStep
  <1>15. ASSUME NEW s \in SlotIds, DropHandle(s) PROVE CallStep /\ RingStep
    BY <1>15 DEF CallStep, RingStep, CallsSame, DropHandle, calls
  <1>16. ASSUME NEW s \in SlotIds, NEW typed \in BOOLEAN, ReplyTo(s, typed)
         PROVE  CallStep /\ RingStep
    BY <1>16, CompleteEnds DEF ReplyTo, Complete, RingStep
  <1>17. ASSUME NEW b \in BOOLEAN, Spawn(b) PROVE CallStep /\ RingStep
    BY <1>17 DEF CallStep, RingStep, CallsSame, Spawn, calls
  <1>18. ASSUME NEW b \in BOOLEAN, SpawnObserved(b) PROVE CallStep /\ RingStep
    BY <1>18 DEF CallStep, RingStep, CallsSame, SpawnObserved, calls
  <1>19. ASSUME NEW b \in BOOLEAN, Stop(b) PROVE CallStep /\ RingStep
    BY <1>19 DEF CallStep, RingStep, CallsSame, Stop, calls
  <1>20. ASSUME StopChildren PROVE CallStep /\ RingStep
    BY <1>20 DEF CallStep, RingStep, CallsSame, StopChildren, calls
  <1>21. ASSUME EndTurn PROVE CallStep /\ RingStep
    BY <1>21 DEF CallStep, RingStep, CallsSame, EndTurn, calls
  <1>22. ASSUME StopEntry PROVE CallStep /\ RingStep
    BY <1>22 DEF CallStep, RingStep, CallsSame, StopEntry, calls
  <1>23. ASSUME CancelOwnCall PROVE CallStep /\ RingStep
    <2> DEFINE c == Least(OwnCalls)
    <2>1. c \in pending
      BY <1>23, OwnCallsLeast DEF CancelOwnCall
    <2>2. Ends(c, "Cancelled") /\ Record(c, "OwnerStopped")
      BY <1>23 DEF CancelOwnCall, Ends
    <2> HIDE DEF c
    <2>3. CallStep
      BY <2>1, <2>2 DEF CallStep
    <2>4. RingStep
      BY <2>1, <2>2 DEF RingStep, Causes
    <2>5. QED
      BY <2>3, <2>4
  <1>24. ASSUME DropCollected PROVE CallStep /\ RingStep
    BY <1>24, CompleteEnds DEF DropCollected, Complete, RingStep
  <1>25. ASSUME DrainMessage PROVE CallStep /\ RingStep
    BY <1>25, CompleteEnds DEF DrainMessage, Complete, RingStep
  <1>26. ASSUME EndStop PROVE CallStep /\ RingStep
    BY <1>26 DEF CallStep, RingStep, CallsSame, EndStop, calls
  <1>27. ASSUME NEW s \in SlotIds, CloseOwnSlot(s) PROVE CallStep /\ RingStep
    BY <1>27, CompleteEnds DEF CloseOwnSlot, Complete, RingStep, DropSlot
  <1>28. ASSUME NEW s \in SlotIds, SweepSlot(s) PROVE CallStep /\ RingStep
    BY <1>28, CompleteEnds DEF SweepSlot, Complete, RingStep, DropSlot
  <1>29. ASSUME CollectEntry PROVE CallStep /\ RingStep
    BY <1>29 DEF CallStep, RingStep, CallsSame, CollectEntry, calls
  <1>30. ASSUME EndStep PROVE CallStep /\ RingStep
    BY <1>30 DEF CallStep, RingStep, CallsSame, EndStep, calls
  <1>31. CASE UNCHANGED vars
    BY <1>31 DEF CallStep, RingStep, CallsSame, vars, calls
  <1>32. ASSUME NEW i \in Isolates, Supervise(i) PROVE CallStep /\ RingStep
    BY <1>32 DEF CallStep, RingStep, CallsSame, Supervise, calls
  <1>33. QED
    BY <1>1, <1>2, <1>3, <1>4, <1>5, <1>6, <1>7, <1>8, <1>9, <1>10, <1>11,
       <1>12, <1>13, <1>14, <1>15, <1>16, <1>17, <1>18, <1>19, <1>20, <1>21,
       <1>22, <1>23, <1>24, <1>25, <1>26, <1>27, <1>28, <1>29, <1>30, <1>31,
       <1>32 DEF Next, Step, Handle, ExecuteEffect, StopSteps

(* What dispatch_isolate_call does to the table. *)
LEMMA DispatchMoves ==
    ASSUME TypeOK, Dispatches
    PROVE  /\ nextCall \in CallIds /\ nextCall' = nextCall + 1
           /\ current \in Isolates /\ pc = "effects" /\ UNCHANGED <<current, context>>
           /\ requester' = [requester EXCEPT ![nextCall] = current]
           /\ continuation' = [continuation EXCEPT ![nextCall] = context]
           /\ UNCHANGED <<slot, promoted, overflow, round>>
           /\ \/ /\ pending' = pending \cup {nextCall} /\ handle' = handle /\ told' = told
                 /\ \E j \in Isolates : Accepts(j) /\ callContexts' = Enqueue(callContexts, j, nextCall)
              \/ /\ pending' = pending /\ handle' = [handle EXCEPT ![nextCall] = "Settled"]
                 /\ told' = told \/ told' = [told EXCEPT ![nextCall] = @ + 1]
  <1>1. PICK j \in Isolates : Call(j)
    BY DEF Dispatches
  <1>2. nextCall \in CallIds /\ nextCall' = nextCall + 1
    BY <1>1, BoundsAssumption DEF Call, TypeOK, CallIds
  <1>3. current \in Isolates /\ pc = "effects" /\ UNCHANGED <<current, context>>
    BY <1>1 DEF Call, Effect, TypeOK
  <1>4. QED
    BY <1>1, <1>2, <1>3 DEF Call, slots

(* SettledOnce but for the types. *)
Settlement ==
    \A c \in CallIds :
        /\ c \in pending <=> c < nextCall /\ handle[c] = "Pending"
        /\ told[c] <= 1
        /\ told[c] = 1 => handle[c] = "Settled"
        /\ c >= nextCall => handle[c] = "Pending"

(* A call leaves the table when its handle does, and its requester is told *)
(* once.                                                                   *)
LEMMA SettlementKept ==
    ASSUME TypeOK, Settlement, CallStep
    PROVE  Settlement'
  <1>0. /\ nextCall \in Nat /\ handle \in [CallIds -> {"Pending", "Settled", "Cancelled"}]
        /\ told \in [CallIds -> Nat] /\ pending \subseteq CallIds /\ CallIds \subseteq Nat
    BY DEF TypeOK, CallIds
  <1>1. CASE CallsSame
    BY <1>1 DEF Settlement, CallsSame
  <1>2. CASE Dispatches
    <2>1. SUFFICES ASSUME NEW c \in CallIds
                   PROVE  /\ c \in pending' <=> c < nextCall' /\ handle'[c] = "Pending"
                          /\ told'[c] <= 1
                          /\ told'[c] = 1 => handle'[c] = "Settled"
                          /\ c >= nextCall' => handle'[c] = "Pending"
      BY DEF Settlement
    <2>2. CASE c = nextCall
      BY <1>0, <1>2, <2>2, DispatchMoves DEF Settlement
    <2>3. CASE c # nextCall
      BY <1>0, <1>2, <2>3, DispatchMoves DEF Settlement
    <2>4. QED
      BY <2>2, <2>3
  <1>3. ASSUME NEW c \in pending, NEW how \in {"Settled", "Cancelled"}, Ends(c, how)
        PROVE  Settlement'
    <2>1. SUFFICES ASSUME NEW d \in CallIds
                   PROVE  /\ d \in pending' <=> d < nextCall' /\ handle'[d] = "Pending"
                          /\ told'[d] <= 1
                          /\ told'[d] = 1 => handle'[d] = "Settled"
                          /\ d >= nextCall' => handle'[d] = "Pending"
      BY DEF Settlement
    <2>2. CASE d = c
      BY <1>0, <1>3, <2>2 DEF Settlement, Ends
    <2>3. CASE d # c
      BY <1>0, <1>3, <2>3 DEF Settlement, Ends
    <2>4. QED
      BY <2>2, <2>3
  <1>4. QED
    BY <1>1, <1>2, <1>3 DEF CallStep

(* The ring names only calls that are over. *)
LEMMA RingTruthKept ==
    ASSUME TypeOK, Settlement, RingTruth, CallStep, RingStep
    PROVE  RingTruth'
  <1>0. /\ TypeRing /\ DOMAIN ring \subseteq Int
        /\ \A k \in DOMAIN ring : ring[k].call \in CallIds /\ ring[k].call \notin pending
    <2>1. TypeRing
      BY DEF TypeRing, TypeOK, Causes
    <2>2. DOMAIN ring \subseteq Int
      BY <2>1 DEF TypeRing
    <2>3. \A k \in DOMAIN ring : ring[k].call \in CallIds
      <3> DEFINE E == [call : CallIds, cause : Causes]
      <3>1. ring \in Seq(E)
        BY <2>1 DEF TypeRing
      <3>2. \A e \in E : e.call \in CallIds
        OBVIOUS
      <3> HIDE DEF E
      <3>3. \A k \in DOMAIN ring : ring[k] \in E
        BY <3>1
      <3>4. QED
        BY <3>2, <3>3
    <2>4. QED
      BY <2>1, <2>2, <2>3 DEF RingTruth
  <1>1. \A c \in CallIds : c \notin pending /\ handle[c] # "Pending" =>
           c \notin pending' /\ handle'[c] = handle[c]
    <2>1. CASE CallsSame
      BY <2>1 DEF CallsSame
    <2>2. CASE Dispatches
      <3>1. nextCall \in CallIds /\ nextCall \in Nat
        BY <2>2, DispatchMoves DEF CallIds
      <3>2. handle[nextCall] = "Pending"
        BY <3>1 DEF Settlement
      <3>3. pending' \subseteq pending \cup {nextCall}
        BY <2>2, DispatchMoves
      <3>4. \A c \in CallIds : c # nextCall => handle'[c] = handle[c]
        BY <2>2, DispatchMoves DEF TypeOK
      <3>5. QED
        BY <3>2, <3>3, <3>4
    <2>3. ASSUME NEW c \in pending, NEW how, Ends(c, how)
          PROVE  \A d \in CallIds : d \notin pending => d \notin pending' /\ handle'[d] = handle[d]
      BY <2>3 DEF Ends, TypeOK
    <2>4. QED
      BY <2>1, <2>2, <2>3 DEF CallStep
  <1>2. \A k \in DOMAIN ring : /\ ring[k].call \notin pending'
                               /\ handle'[ring[k].call] = handle[ring[k].call]
    BY <1>0, <1>1 DEF RingTruth
  <1>3. CASE ring' = ring
    BY <1>2, <1>3 DEF RingTruth
  <1>4. ASSUME NEW c \in pending, NEW cause \in Causes, Record(c, cause),
               Ends(c, IF cause = "CallerTimedOut" THEN "Settled" ELSE "Cancelled")
        PROVE  RingTruth'
    <2>1. c \in CallIds
      BY <1>4 DEF TypeOK
    <2>2. /\ TypeRing' /\ Len(ring') <= RingCapacity
          /\ \A k \in DOMAIN ring' :
                 \/ k = Len(ring') /\ ring'[k] = [call |-> c, cause |-> cause]
                 \/ k # Len(ring') /\ k \in DOMAIN ring /\ ring'[k] = ring[k]
                 \/ k # Len(ring') /\ k + 1 \in DOMAIN ring /\ ring'[k] = ring[k + 1]
          /\ \/ \A k \in DOMAIN ring' : k # Len(ring') => k \in DOMAIN ring /\ ring'[k] = ring[k]
             \/ \A k \in DOMAIN ring' : k # Len(ring') => k + 1 \in DOMAIN ring /\ ring'[k] = ring[k + 1]
      BY <1>0, <1>4, <2>1, RecordKeeps DEF RingTruth
    <2>3. DOMAIN ring' \subseteq Int
      BY <2>2 DEF TypeRing
    <2>4. ASSUME NEW k \in DOMAIN ring'
          PROVE  /\ ring'[k].call \notin pending'
                 /\ handle'[ring'[k].call] =
                       IF ring'[k].cause = "CallerTimedOut" THEN "Settled" ELSE "Cancelled"
                 /\ k # Len(ring') => ring'[k].call # c
      <3>1. CASE k = Len(ring') /\ ring'[k] = [call |-> c, cause |-> cause]
        BY <1>4, <2>1, <3>1 DEF Ends, TypeOK
      <3>2. ASSUME NEW n \in DOMAIN ring, ring'[k] = ring[n]
            PROVE  /\ ring'[k].call \notin pending'
                   /\ handle'[ring'[k].call] =
                         IF ring'[k].cause = "CallerTimedOut" THEN "Settled" ELSE "Cancelled"
                   /\ ring'[k].call # c
        BY <1>0, <1>2, <1>4, <3>2 DEF RingTruth
      <3>3. QED
        BY <2>2, <2>4, <3>1, <3>2
    <2>5. ASSUME NEW k \in DOMAIN ring', NEW n \in DOMAIN ring', ring'[n].call = ring'[k].call
          PROVE  n = k
      <3>1. CASE k = Len(ring') \/ n = Len(ring')
        <4>1. ring'[Len(ring')].call = c
          BY <2>2, <2>5, <3>1
        <4>2. QED
          BY <2>4, <2>5, <3>1, <4>1
      <3>2. CASE k # Len(ring') /\ n # Len(ring')
        BY <2>2, <2>3, <2>5, <3>2 DEF RingTruth
      <3>3. QED
        BY <3>1, <3>2
    <2>6. QED
      BY <2>2, <2>4, <2>5 DEF RingTruth
  <1>5. QED
    BY <1>3, <1>4 DEF RingStep

-----------------------------------------------------------------------------
(* How a step moves the context of the turn, the overflow lanes, the round *)
(* and the captured replies.                                               *)

ContextStep ==
    \/ context' = context
    \/ context' = NoCall /\ context \notin pending'
    \/ \E i \in Isolates : HandlerAnswers(i) /\ context = NoCall /\ context' = round[i].context

(* Every step keeps the context of the turn, consumes it or begins a turn. *)
LEMMA ContextMoves ==
    ASSUME TypeOK, TurnOwned, [Next]_vars
    PROVE  ContextStep
  <1>0. NoCall \notin pending
    BY DEF TypeOK, CallIds, NoCall
  <1>1. ASSUME NEW i \in Isolates, HostSend(i) PROVE ContextStep
    BY <1>1 DEF ContextStep, HostSend, control
  <1>2. ASSUME NEW c \in CallIds, DeadlinePasses(c) PROVE ContextStep
    BY <1>2 DEF ContextStep, DeadlinePasses, control
  <1>3. ASSUME BeginStep PROVE ContextStep
    BY <1>3 DEF ContextStep, BeginStep, control
  <1>4. ASSUME Snapshot PROVE ContextStep
    BY <1>4 DEF ContextStep, Snapshot, control
  <1>5. ASSUME EndDelivery PROVE ContextStep
    BY <1>5 DEF ContextStep, EndDelivery, control
  <1>6. ASSUME NEW c \in CallIds, HarvestTimeout(c) PROVE ContextStep
    BY <1>6 DEF ContextStep, HarvestTimeout, control
  <1>7. ASSUME NEW i \in Isolates, HandlerPanics(i) PROVE ContextStep
    BY <1>7 DEF ContextStep, HandlerPanics, control
  <1>8. ASSUME NEW i \in Isolates, HandlerCaptures(i) PROVE ContextStep
    BY <1>8, <1>0, NextTyped DEF ContextStep, HandlerCaptures, Begin, TurnOwned
  <1>9. ASSUME NEW i \in Isolates, HandlerAnswers(i) PROVE ContextStep
    BY <1>9, <1>0, NextTyped DEF ContextStep, HandlerAnswers, Begin, TurnOwned
  <1>10. ASSUME NEW i \in Isolates, HandlerAbandons(i) PROVE ContextStep
    <2>1. context = NoCall /\ context' = NoCall
      BY <1>10, NextTyped DEF HandlerAbandons, Begin, TurnOwned
    <2>2. QED
      BY <2>1 DEF ContextStep
  <1>11. ASSUME NEW j \in Isolates, Send(j) PROVE ContextStep
    BY <1>11 DEF ContextStep, Send, Effect
  <1>12. ASSUME NEW j \in Isolates, Call(j) PROVE ContextStep
    BY <1>12 DEF ContextStep, Call, Effect
  <1>13. ASSUME NEW c \in CallIds, CancelCall(c) PROVE ContextStep
    BY <1>13 DEF ContextStep, CancelCall, Effect
  <1>14. ASSUME Answer PROVE ContextStep
    BY <1>14, CompleteCases DEF ContextStep, Answer, Complete
  <1>15. ASSUME NEW s \in SlotIds, DropHandle(s) PROVE ContextStep
    BY <1>15 DEF ContextStep, DropHandle, control
  <1>16. ASSUME NEW s \in SlotIds, NEW typed \in BOOLEAN, ReplyTo(s, typed)
         PROVE  ContextStep
    BY <1>16 DEF ContextStep, ReplyTo, Effect
  <1>17. ASSUME NEW b \in BOOLEAN, Spawn(b) PROVE ContextStep
    BY <1>17 DEF ContextStep, Spawn, Effect
  <1>18. ASSUME NEW b \in BOOLEAN, SpawnObserved(b) PROVE ContextStep
    BY <1>18 DEF ContextStep, SpawnObserved, Effect
  <1>19. ASSUME NEW b \in BOOLEAN, Stop(b) PROVE ContextStep
    BY <1>19 DEF ContextStep, Stop, control
  <1>20. ASSUME StopChildren PROVE ContextStep
    BY <1>20 DEF ContextStep, StopChildren, control
  <1>21. ASSUME EndTurn PROVE ContextStep
    BY <1>21 DEF ContextStep, EndTurn, Return
  <1>22. ASSUME StopEntry PROVE ContextStep
    BY <1>22 DEF ContextStep, StopEntry, control
  <1>23. ASSUME CancelOwnCall PROVE ContextStep
    BY <1>23 DEF ContextStep, CancelOwnCall, control
  <1>24. ASSUME DropCollected PROVE ContextStep
    BY <1>24 DEF ContextStep, DropCollected, control
  <1>25. ASSUME DrainMessage PROVE ContextStep
    BY <1>25 DEF ContextStep, DrainMessage, control
  <1>26. ASSUME EndStop PROVE ContextStep
    <2>1. Victim \in victims /\ pc = "close" /\ Resume
      BY <1>26, VictimTyped DEF EndStop
    <2>2. QED
      BY <2>1 DEF ContextStep, Resume, Return, TurnOwned
  <1>27. ASSUME NEW s \in SlotIds, CloseOwnSlot(s) PROVE ContextStep
    BY <1>27 DEF ContextStep, CloseOwnSlot, control
  <1>28. ASSUME NEW s \in SlotIds, SweepSlot(s) PROVE ContextStep
    BY <1>28 DEF ContextStep, SweepSlot, control
  <1>29. ASSUME CollectEntry PROVE ContextStep
    BY <1>29 DEF ContextStep, CollectEntry, control
  <1>30. ASSUME EndStep PROVE ContextStep
    BY <1>30 DEF ContextStep, EndStep, control
  <1>31. CASE UNCHANGED vars
    BY <1>31 DEF ContextStep, vars, control
  <1>32. ASSUME NEW i \in Isolates, Supervise(i) PROVE ContextStep
    BY <1>32 DEF ContextStep, Supervise, control
  <1>33. QED
    BY <1>1, <1>2, <1>3, <1>4, <1>5, <1>6, <1>7, <1>8, <1>9, <1>10, <1>11,
       <1>12, <1>13, <1>14, <1>15, <1>16, <1>17, <1>18, <1>19, <1>20, <1>21,
       <1>22, <1>23, <1>24, <1>25, <1>26, <1>27, <1>28, <1>29, <1>30, <1>31,
       <1>32 DEF Next, Step, Handle, ExecuteEffect, StopSteps

(* A context in an overflow lane was there, or is the one of the turn. *)
OverflowStep ==
    \A i \in Isolates : \A k \in DOMAIN overflow'[i] :
        \/ overflow'[i][k].context \in {NoCall, context'}
        \/ \E n \in DOMAIN overflow[i] : overflow'[i][k].context = overflow[i][n].context

(* A continuation puts no context but the turn's in an overflow lane. *)
LEMMA ContinueOverflow ==
    ASSUME TypeOK, NEW i \in Isolates, NEW res, NEW x \in Contexts, Continue(i, res, x),
           x \in {NoCall, context'}
    PROVE  OverflowStep
  <1>1. overflow \in [Isolates -> Seq(DeliveredMessages)]
    BY DEF TypeOK
  <1>2. CASE overflow' = overflow
    BY <1>2 DEF OverflowStep
  <1>3. CASE overflow' = Enqueue(overflow, i, Delivered(Continuation, x))
    <2>1. Delivered(Continuation, x) \in DeliveredMessages /\ Delivered(Continuation, x).context = x
      BY DeliveredShape, MessagesTyped
    <2>2. ASSUME NEW j \in Isolates, NEW k \in DOMAIN overflow'[j]
          PROVE  overflow'[j][k].context = x \/ \E n \in DOMAIN overflow[j] : overflow'[j][k] = overflow[j][n]
      <3>1. CASE j = i
        <4>1. overflow'[j] = Append(overflow[j], Delivered(Continuation, x)) /\ overflow[j] \in Seq(DeliveredMessages)
          BY <1>1, <1>3, <3>1 DEF Enqueue
        <4>2. k = Len(overflow[j]) + 1 \/ (k \in DOMAIN overflow[j] /\ overflow'[j][k] = overflow[j][k])
          BY <2>1, <2>2, <4>1
        <4>3. k = Len(overflow[j]) + 1 => overflow'[j][k] = Delivered(Continuation, x)
          BY <2>1, <2>2, <4>1
        <4>4. QED
          BY <2>1, <4>2, <4>3
      <3>2. CASE j # i
        BY <1>1, <1>3, <2>2, <3>2 DEF Enqueue
      <3>3. QED
        BY <3>1, <3>2
    <2>3. QED
      BY <2>2 DEF OverflowStep
  <1>4. QED
    BY <1>2, <1>3 DEF Continue

(* What is left of a sequence was in it. *)
LEMMA RestOverflow ==
    ASSUME NEW S, NEW s \in Seq(S), NEW k \in DOMAIN Rest(s)
    PROVE  \E n \in DOMAIN s : Rest(s)[k] = s[n]
  <1>1. CASE s = <<>>
    BY <1>1 DEF Rest
  <1>2. CASE s # <<>>
    <2>1. Len(Tail(s)) = Len(s) - 1 /\ Tail(s) \in Seq(S) /\ Rest(s) = Tail(s) /\ Len(s) \in Nat
      BY <1>2 DEF Rest
    <2>2. k \in 1..(Len(s) - 1)
      BY <2>1
    <2>3. Rest(s)[k] = s[k + 1] /\ k + 1 \in DOMAIN s
      BY <1>2, <2>1, <2>2
    <2>4. QED
      BY <2>3
  <1>3. QED
    BY <1>1, <1>2

(* Every step moves the overflow lanes so. *)
LEMMA OverflowMoves ==
    ASSUME TypeOK, [Next]_vars
    PROVE  OverflowStep
  <1>1. ASSUME NEW i \in Isolates, HostSend(i) PROVE OverflowStep
    BY <1>1 DEF OverflowStep, HostSend, queues
  <1>2. ASSUME NEW c \in CallIds, DeadlinePasses(c) PROVE OverflowStep
    BY <1>2 DEF OverflowStep, DeadlinePasses, queues
  <1>3. ASSUME BeginStep PROVE OverflowStep
    BY <1>3 DEF OverflowStep, BeginStep, queues
  <1>4. ASSUME Snapshot PROVE OverflowStep
    <2>1. ASSUME NEW i \in Isolates, NEW k \in DOMAIN overflow'[i]
          PROVE  \E n \in DOMAIN overflow[i] : overflow'[i][k] = overflow[i][n]
      <3>1. overflow[i] \in Seq(DeliveredMessages) /\ overflow'[i] \in {overflow[i], Rest(overflow[i])}
        BY <1>4 DEF Snapshot, TypeOK
      <3>2. QED
        BY <2>1, <3>1, RestOverflow
    <2>2. QED
      BY <2>1 DEF OverflowStep
  <1>5. ASSUME EndDelivery PROVE OverflowStep
    BY <1>5 DEF OverflowStep, EndDelivery, queues
  <1>6. ASSUME NEW c \in CallIds, HarvestTimeout(c) PROVE OverflowStep
    BY <1>6 DEF OverflowStep, HarvestTimeout, queues
  <1>7. ASSUME NEW i \in Isolates, HandlerPanics(i) PROVE OverflowStep
    BY <1>7 DEF OverflowStep, HandlerPanics, queues
  <1>8. ASSUME NEW i \in Isolates, HandlerCaptures(i) PROVE OverflowStep
    BY <1>8 DEF OverflowStep, HandlerCaptures, queues
  <1>9. ASSUME NEW i \in Isolates, HandlerAnswers(i) PROVE OverflowStep
    BY <1>9 DEF OverflowStep, HandlerAnswers, queues
  <1>10. ASSUME NEW i \in Isolates, HandlerAbandons(i) PROVE OverflowStep
    BY <1>10 DEF OverflowStep, HandlerAbandons, queues
  <1>11. ASSUME NEW j \in Isolates, Send(j) PROVE OverflowStep
    BY <1>11 DEF OverflowStep, Send, queues
  <1>12. ASSUME NEW j \in Isolates, Call(j) PROVE OverflowStep
    BY <1>12 DEF OverflowStep, Call, queues
  <1>13. ASSUME NEW c \in CallIds, CancelCall(c) PROVE OverflowStep
    <2>1. current \in Isolates /\ context \in Contexts /\ context' = context
      BY <1>13 DEF CancelCall, Effect, TypeOK
    <2>2. Continue(current, reserved[current], context)
      BY <1>13 DEF CancelCall
    <2>3. QED
      BY <2>1, <2>2, ContinueOverflow
  <1>14. ASSUME Answer PROVE OverflowStep
    BY <1>14 DEF OverflowStep, Answer, queues
  <1>15. ASSUME NEW s \in SlotIds, DropHandle(s) PROVE OverflowStep
    BY <1>15 DEF OverflowStep, DropHandle, queues
  <1>16. ASSUME NEW s \in SlotIds, NEW typed \in BOOLEAN, ReplyTo(s, typed)
         PROVE  OverflowStep
    BY <1>16 DEF OverflowStep, ReplyTo, queues
  <1>17. ASSUME NEW b \in BOOLEAN, Spawn(b) PROVE OverflowStep
    BY <1>17 DEF OverflowStep, Spawn, queues
  <1>18. ASSUME NEW b \in BOOLEAN, SpawnObserved(b) PROVE OverflowStep
    <2>1. current \in Isolates /\ NoCall \in Contexts
      BY <1>18 DEF SpawnObserved, Effect, TypeOK, Contexts
    <2>2. Continue(current, reserved'[current], NoCall)
      BY <1>18 DEF SpawnObserved
    <2>3. QED
      BY <2>1, <2>2, ContinueOverflow
  <1>19. ASSUME NEW b \in BOOLEAN, Stop(b) PROVE OverflowStep
    BY <1>19 DEF OverflowStep, Stop, queues
  <1>20. ASSUME StopChildren PROVE OverflowStep
    BY <1>20 DEF OverflowStep, StopChildren, queues
  <1>21. ASSUME EndTurn PROVE OverflowStep
    BY <1>21 DEF OverflowStep, EndTurn, queues
  <1>22. ASSUME StopEntry PROVE OverflowStep
    BY <1>22 DEF OverflowStep, StopEntry, queues
  <1>23. ASSUME CancelOwnCall PROVE OverflowStep
    BY <1>23 DEF OverflowStep, CancelOwnCall, queues
  <1>24. ASSUME DropCollected PROVE OverflowStep
    BY <1>24 DEF OverflowStep, DropCollected, queues
  <1>25. ASSUME DrainMessage PROVE OverflowStep
    <2>1. ASSUME NEW i \in Isolates, NEW k \in DOMAIN overflow'[i]
          PROVE  \E n \in DOMAIN overflow[i] : overflow'[i][k] = overflow[i][n]
      <3>1. overflow[i] \in Seq(DeliveredMessages) /\ overflow'[i] \in {overflow[i], Rest(overflow[i])}
        BY <1>25 DEF DrainMessage, TypeOK
      <3>2. QED
        BY <2>1, <3>1, RestOverflow
    <2>2. QED
      BY <2>1 DEF OverflowStep
  <1>26. ASSUME EndStop PROVE OverflowStep
    BY <1>26 DEF OverflowStep, EndStop, queues
  <1>27. ASSUME NEW s \in SlotIds, CloseOwnSlot(s) PROVE OverflowStep
    BY <1>27 DEF OverflowStep, CloseOwnSlot, queues
  <1>28. ASSUME NEW s \in SlotIds, SweepSlot(s) PROVE OverflowStep
    BY <1>28 DEF OverflowStep, SweepSlot, queues
  <1>29. ASSUME CollectEntry PROVE OverflowStep
    BY <1>29 DEF OverflowStep, CollectEntry, queues
  <1>30. ASSUME EndStep PROVE OverflowStep
    BY <1>30 DEF OverflowStep, EndStep, queues
  <1>31. CASE UNCHANGED vars
    BY <1>31 DEF OverflowStep, vars, queues
  <1>32. ASSUME NEW i \in Isolates, Supervise(i) PROVE OverflowStep
    BY <1>32 DEF OverflowStep, Supervise, queues
  <1>33. QED
    BY <1>1, <1>2, <1>3, <1>4, <1>5, <1>6, <1>7, <1>8, <1>9, <1>10, <1>11,
       <1>12, <1>13, <1>14, <1>15, <1>16, <1>17, <1>18, <1>19, <1>20, <1>21,
       <1>22, <1>23, <1>24, <1>25, <1>26, <1>27, <1>28, <1>29, <1>30, <1>31,
       <1>32 DEF Next, Step, Handle, ExecuteEffect, StopSteps

(* A step closes at most one captured reply and, when a call ends, the one *)
(* that could still answer it; only a capture opens one.                   *)
SlotStep ==
    /\ \/ promoted' \subseteq promoted
       \/ \E i \in Isolates : HandlerCaptures(i)
    /\ \A s \in SlotIds :
          \/ /\ slot'[s] = slot[s]
             /\ s \in promoted => s \in promoted'
             /\ slot[s].state = "Open" => slot[s].call \in pending'
          \/ /\ slot'[s].call = slot[s].call /\ slot'[s].state # "Open" /\ s \notin promoted'
             /\ slot'[s].state = "Closed" \/ slot[s].call \notin pending' \/ slot'[s] = slot[s]
          \/ \E i \in Isolates : HandlerCaptures(i) /\ s = nextSlot

(* An update of one slot's state changes nothing else. *)
LEMMA SlotEffect ==
    ASSUME TypeOK, NEW s \in SlotIds, NEW v
    PROVE  \A t \in SlotIds :
              /\ t # s => [slot EXCEPT ![s].state = v][t] = slot[t]
              /\ [slot EXCEPT ![s].state = v][t].call = slot[t].call
              /\ [slot EXCEPT ![s].state = v][t].owner = slot[t].owner
              /\ [slot EXCEPT ![s].state = v][s].state = v
  <1>1. slot \in [SlotIds -> [call : Contexts, owner : Isolates \cup {NoIsolate},
                              state : {"Open", "Replied", "Closed"}]]
    BY DEF TypeOK
  <1>2. QED
    BY <1>1

(* An open slot is promoted and its call pending. *)
LEMMA SlotsKept ==
    ASSUME TypeOK, OpenSlotsLive, UNCHANGED <<slot, promoted>>,
           \A s \in SlotIds : slot[s].state = "Open" => slot[s].call \in pending'
    PROVE  SlotStep
  BY DEF SlotStep

(* A call that ends takes its slot with it. *)
LEMMA CloseSlotMoves ==
    ASSUME TypeOK, OpenSlotsLive, OneContext, NEW c \in pending, CloseSlotOf(c),
           pending' = pending \ {c}
    PROVE  SlotStep
  <1> DEFINE S == {s \in promoted : slot[s].call = c}
  <1>1. CASE S = {} /\ UNCHANGED <<promoted, slot>>
    <2>1. \A s \in SlotIds : slot[s].state = "Open" => slot[s].call \in pending'
      BY <1>1 DEF OpenSlotsLive
    <2>2. QED
      BY <1>1, <2>1, SlotsKept
  <1>2. ASSUME NEW s \in S, promoted' = promoted \ {s}, slot' = [slot EXCEPT ![s].state = "Closed"]
        PROVE  SlotStep
    <2>1. s \in SlotIds /\ s \in promoted /\ slot[s].call = c /\ slot[s].state = "Open"
      BY <1>2 DEF TypeOK, OneContext
    <2>2. \A t \in SlotIds : t # s /\ slot[t].state = "Open" => slot[t].call # c /\ slot[t].call \in pending
      BY <2>1 DEF OpenSlotsLive
    <2>3. \A t \in SlotIds : /\ t # s => slot'[t] = slot[t]
                             /\ slot'[t].call = slot[t].call
                             /\ slot'[s].state = "Closed"
      BY <1>2, <2>1, SlotEffect
    <2>4. QED
      BY <1>2, <2>1, <2>2, <2>3 DEF SlotStep
  <1>3. QED
    BY <1>1, <1>2 DEF CloseSlotOf

(* A reply that is dropped or used, and with it the call it answers. *)
LEMMA UseSlotMoves ==
    ASSUME TypeOK, OpenSlotsLive, OneContext, NEW s \in SlotIds, s \in promoted,
           promoted' = promoted \ {s}, NEW v, slot' = [slot EXCEPT ![s].state = v], v # "Open",
           NEW c, pending' = pending \ {c},
           c = slot[s].call \/ c \notin pending,
           v = "Closed" \/ slot[s].call \notin pending' \/ v = slot[s].state
    PROVE  SlotStep
  <1>1. \A t \in SlotIds : /\ t # s => slot'[t] = slot[t]
                           /\ slot'[t].call = slot[t].call
                           /\ slot'[s].state = v
    BY SlotEffect
  <1>2. v = slot[s].state => slot' = slot
    BY DEF TypeOK
  <1>3. ASSUME NEW t \in SlotIds, t # s, slot[t].state = "Open"
        PROVE  slot[t].call \in pending'
    <2>1. slot[t].call \in pending /\ t \in promoted
      BY <1>3 DEF OpenSlotsLive
    <2>2. CASE c \notin pending
      BY <2>1, <2>2
    <2>3. CASE c = slot[s].call /\ c \in pending
      <3>1. slot[s].state = "Open"
        BY <2>3 DEF OneContext
      <3>2. slot[t].call # c
        BY <1>3, <2>3, <3>1 DEF OpenSlotsLive
      <3>3. QED
        BY <2>1, <3>2
    <2>4. QED
      BY <2>2, <2>3
  <1>4. QED
    BY <1>1, <1>2, <1>3 DEF SlotStep

(* A step that touches no slot and ends no call is a SlotStep. *)
LEMMA SlotsFrame ==
    ASSUME TypeOK, OpenSlotsLive, UNCHANGED <<slot, promoted>>, pending \subseteq pending'
    PROVE  SlotStep
  BY SlotsKept DEF OpenSlotsLive

(* What recv_entry_message hands out with the message. *)
LEMMA FrontContext ==
    ASSUME TypeOK, NEW i \in Isolates, HasMessage(i)
    PROVE  \/ /\ overflow[i] # <<>> /\ 1 \in DOMAIN overflow[i]
              /\ Front(i).context = overflow[i][1].context
           \/ FromMailbox(i) /\ callContexts[i] = <<>> /\ Front(i).context = NoCall
           \/ /\ FromMailbox(i) /\ callContexts[i] # <<>> /\ 1 \in DOMAIN callContexts[i]
              /\ Front(i).context = callContexts[i][1]
  <1>1. CASE overflow[i] # <<>>
    <2>1. overflow[i] \in Seq(DeliveredMessages)
      BY DEF TypeOK
    <2>2. 1 \in DOMAIN overflow[i] /\ Head(overflow[i]) = overflow[i][1]
      BY <1>1, <2>1
    <2>3. QED
      BY <1>1, <2>2 DEF Front
  <1>2. CASE overflow[i] = <<>>
    <2>1. FromMailbox(i) /\ callContexts[i] \in Seq(Contexts)
      BY <1>2 DEF FromMailbox, HasMessage, TypeOK
    <2>2. callContexts[i] # <<>> =>
             1 \in DOMAIN callContexts[i] /\ Head(callContexts[i]) = callContexts[i][1]
      BY <2>1
    <2>3. \A m, x : Delivered(m, x).context = x
      BY DEF Delivered
    <2>4. Front(i).context = IF callContexts[i] = <<>> THEN NoCall ELSE Head(callContexts[i])
      BY <1>2, <2>3 DEF Front
    <2>5. QED
      BY <2>1, <2>2, <2>4
  <1>3. QED
    BY <1>1, <1>2

(* A call whose context is anywhere else has no open slot. *)
LEMMA ElsewhereUncaptured ==
    ASSUME TypeOK, OneContext, NEW c \in pending, NEW i \in Isolates,
           \/ context = c \/ round[i].context = c \/ Queued(c, i)
           \/ \E k \in DOMAIN overflow[i] : overflow[i][k].context = c
    PROVE  \A s \in SlotIds : ~Captured(c, s)
  BY DEF OneContext, SoleContext

(* The call of a message about to be received has no open slot. *)
LEMMA FrontUncaptured ==
    ASSUME TypeOK, OneContext, NEW i \in Isolates, HasMessage(i), Front(i).context \in pending
    PROVE  \A s \in SlotIds : ~Captured(Front(i).context, s)
  <1>1. PICK c \in pending : c = Front(i).context
    OBVIOUS
  <1>2. c # NoCall
    BY DEF TypeOK, CallIds, NoCall
  <1>3. Queued(c, i) \/ \E k \in DOMAIN overflow[i] : overflow[i][k].context = c
    BY <1>1, <1>2, FrontContext DEF Queued
  <1>4. QED
    BY <1>1, <1>3, ElsewhereUncaptured

(* A call settled from elsewhere leaves no open slot behind. *)
LEMMA SettleSlots ==
    ASSUME TypeOK, OpenSlotsLive, UNCHANGED <<slot, promoted>>, NEW mb, NEW cx, NEW c,
           CompleteFrom(mb, cx, c), c \in pending => \A s \in SlotIds : ~Captured(c, s)
    PROVE  SlotStep
  <1>1. pending' = pending \ {c}
    BY CompleteCases
  <1>2. QED
    BY <1>1, SlotsKept DEF OpenSlotsLive, Captured

(* drop_promoted_deferred_slot closes the slot and ends its call. *)
LEMMA DropSlotMoves ==
    ASSUME TypeOK, OpenSlotsLive, OneContext, NEW s \in SlotIds, s \in promoted, DropSlot(s)
    PROVE  SlotStep
  <1> DEFINE v == IF slot[s].state = "Open" THEN "Closed" ELSE slot[s].state
             c == IF slot[s].state = "Open" THEN slot[s].call ELSE NoCall
  <1>1. promoted' = promoted \ {s} /\ slot' = [slot EXCEPT ![s].state = v] /\ v # "Open"
    BY DEF DropSlot
  <1>2. CompleteFrom(mailbox, callContexts, c)
    BY DEF DropSlot, Complete
  <1>3. pending' = pending \ {c}
    BY <1>2, CompleteCases
  <1>4. c = slot[s].call \/ c \notin pending
    BY DEF TypeOK, CallIds, NoCall
  <1>5. v = "Closed" \/ v = slot[s].state
    OBVIOUS
  <1> HIDE DEF v, c
  <1>6. QED
    BY <1>1, <1>3, <1>4, <1>5, UseSlotMoves

(* Every step moves the captured replies so. *)
LEMMA SlotMoves ==
    ASSUME TypeOK, TurnOwned, OpenSlotsLive, OneContext, [Next]_vars
    PROVE  SlotStep
  <1>1. ASSUME NEW i \in Isolates, HostSend(i) PROVE SlotStep
    BY <1>1, SlotsFrame DEF HostSend, slots, calls
  <1>2. ASSUME NEW c \in CallIds, DeadlinePasses(c) PROVE SlotStep
    BY <1>2, SlotsFrame DEF DeadlinePasses, slots, calls
  <1>3. ASSUME BeginStep PROVE SlotStep
    BY <1>3, SlotsFrame DEF BeginStep, slots, calls
  <1>4. ASSUME Snapshot PROVE SlotStep
    BY <1>4, SlotsFrame DEF Snapshot, slots, calls
  <1>5. ASSUME EndDelivery PROVE SlotStep
    BY <1>5, SlotsFrame DEF EndDelivery, slots, calls
  <1>6. ASSUME NEW c \in CallIds, HarvestTimeout(c) PROVE SlotStep
    <2>1. c \in pending /\ pending' = pending \ {c} /\ CloseSlotOf(c)
      BY <1>6 DEF HarvestTimeout, SettleFrom, TypeOK
    <2>2. QED
      BY <2>1, CloseSlotMoves
  <1>7. ASSUME NEW i \in Isolates, HandlerPanics(i) PROVE SlotStep
    <2>1. round[i].context \in pending => \A s \in SlotIds : ~Captured(round[i].context, s)
      BY ElsewhereUncaptured
    <2>2. CompleteFrom(mailbox, callContexts, round[i].context) /\ UNCHANGED <<slot, promoted>>
      BY <1>7 DEF HandlerPanics, Complete, slots
    <2>3. QED
      BY <2>1, <2>2, SettleSlots
  <1>8. ASSUME NEW i \in Isolates, HandlerCaptures(i) PROVE SlotStep
    <2>1. nextSlot \in SlotIds /\ pending' = pending /\ promoted' = promoted \cup {nextSlot}
      BY <1>8, BoundsAssumption DEF HandlerCaptures, TypeOK, SlotIds, calls
    <2>2. \A s \in SlotIds : s # nextSlot => slot'[s] = slot[s]
      BY <1>8 DEF HandlerCaptures, TypeOK
    <2>3. QED
      BY <1>8, <2>1, <2>2 DEF SlotStep, OpenSlotsLive
  <1>9. ASSUME NEW i \in Isolates, HandlerAnswers(i) PROVE SlotStep
    BY <1>9, SlotsFrame DEF HandlerAnswers, slots, calls
  <1>10. ASSUME NEW i \in Isolates, HandlerAbandons(i) PROVE SlotStep
    <2>1. round[i].context \in pending => \A s \in SlotIds : ~Captured(round[i].context, s)
      BY ElsewhereUncaptured
    <2>2. CompleteFrom(mailbox, callContexts, round[i].context) /\ UNCHANGED <<slot, promoted>>
      BY <1>10 DEF HandlerAbandons, Complete, slots
    <2>3. QED
      BY <2>1, <2>2, SettleSlots
  <1>11. ASSUME NEW j \in Isolates, Send(j) PROVE SlotStep
    BY <1>11, SlotsFrame DEF Send, slots, calls
  <1>12. ASSUME NEW j \in Isolates, Call(j) PROVE SlotStep
    <2>1. UNCHANGED <<slot, promoted>> /\ pending \subseteq pending'
      BY <1>12 DEF Call, slots
    <2>2. QED
      BY <2>1, SlotsFrame
  <1>13. ASSUME NEW c \in CallIds, CancelCall(c) PROVE SlotStep
    <2>1. CASE c \in pending /\ handle[c] = "Pending"
      <3>1. pending' = pending \ {c} /\ CloseSlotOf(c)
        BY <1>13, <2>1 DEF CancelCall
      <3>2. QED
        BY <2>1, <3>1, CloseSlotMoves
    <2>2. CASE ~(c \in pending /\ handle[c] = "Pending")
      BY <1>13, <2>2, SlotsFrame DEF CancelCall
    <2>3. QED
      BY <2>1, <2>2
  <1>14. ASSUME Answer PROVE SlotStep
    <2>1. current \in Isolates
      BY <1>14 DEF Answer, TypeOK
    <2>2. context \in pending => \A s \in SlotIds : ~Captured(context, s)
      BY <2>1, ElsewhereUncaptured
    <2>3. CompleteFrom(mailbox, callContexts, context) /\ UNCHANGED <<slot, promoted>>
      BY <1>14 DEF Answer, Complete, slots
    <2>4. QED
      BY <2>2, <2>3, SettleSlots
  <1>15. ASSUME NEW s \in SlotIds, DropHandle(s) PROVE SlotStep
    BY <1>15, SlotsFrame DEF DropHandle, slots, calls
  <1>16. ASSUME NEW s \in SlotIds, NEW typed \in BOOLEAN, ReplyTo(s, typed)
         PROVE  SlotStep
    <2>1. NoCall \notin pending /\ promoted' = promoted \ {s}
      BY <1>16 DEF TypeOK, CallIds, NoCall, ReplyTo
    <2>2. CASE s \in promoted /\ typed
      <3> DEFINE v == IF slot[s].call \in pending THEN "Replied" ELSE "Closed"
      <3>1. slot' = [slot EXCEPT ![s].state = v] /\ CompleteFrom(mailbox, callContexts, slot[s].call)
        BY <1>16, <2>2 DEF ReplyTo, Complete
      <3>2. pending' = pending \ {slot[s].call}
        BY <3>1, CompleteCases
      <3>3. v # "Open" /\ slot[s].call \notin pending'
        BY <3>2
      <3> HIDE DEF v
      <3>4. QED
        BY <2>1, <2>2, <3>1, <3>2, <3>3, UseSlotMoves
    <2>3. CASE s \in promoted /\ ~typed
      <3>1. slot' = [slot EXCEPT ![s].state = "Closed"] /\ CompleteFrom(mailbox, callContexts, NoCall)
        BY <1>16, <2>3 DEF ReplyTo, Complete
      <3>2. pending' = pending \ {NoCall}
        BY <3>1, CompleteCases
      <3>3. QED
        BY <2>1, <2>3, <3>1, <3>2, UseSlotMoves
    <2>4. CASE s \notin promoted
      <3>1. slot' = slot /\ CompleteFrom(mailbox, callContexts, NoCall) /\ promoted' = promoted
        BY <1>16, <2>1, <2>4 DEF ReplyTo, Complete
      <3>2. pending' = pending
        BY <2>1, <3>1, CompleteCases
      <3>3. QED
        BY <3>1, <3>2, SlotsFrame
    <2>5. QED
      BY <2>2, <2>3, <2>4
  <1>17. ASSUME NEW b \in BOOLEAN, Spawn(b) PROVE SlotStep
    BY <1>17, SlotsFrame DEF Spawn, slots, calls
  <1>18. ASSUME NEW b \in BOOLEAN, SpawnObserved(b) PROVE SlotStep
    BY <1>18, SlotsFrame DEF SpawnObserved, slots, calls
  <1>19. ASSUME NEW b \in BOOLEAN, Stop(b) PROVE SlotStep
    BY <1>19, SlotsFrame DEF Stop, slots, calls
  <1>20. ASSUME StopChildren PROVE SlotStep
    BY <1>20, SlotsFrame DEF StopChildren, slots, calls
  <1>21. ASSUME EndTurn PROVE SlotStep
    BY <1>21, SlotsFrame DEF EndTurn, slots, calls
  <1>22. ASSUME StopEntry PROVE SlotStep
    BY <1>22, SlotsFrame DEF StopEntry, slots, calls
  <1>23. ASSUME CancelOwnCall PROVE SlotStep
    <2> DEFINE c == Least(OwnCalls)
    <2>1. c \in pending
      BY <1>23, OwnCallsLeast DEF CancelOwnCall
    <2>2. pending' = pending \ {c} /\ CloseSlotOf(c)
      BY <1>23 DEF CancelOwnCall
    <2> HIDE DEF c
    <2>3. QED
      BY <2>1, <2>2, CloseSlotMoves
  <1>24. ASSUME DropCollected PROVE SlotStep
    <2>1. Victim \in Isolates
      BY <1>24, VictimTyped DEF DropCollected
    <2>2. round[Victim].context \in pending => \A s \in SlotIds : ~Captured(round[Victim].context, s)
      BY <2>1, ElsewhereUncaptured
    <2>3. CompleteFrom(mailbox, callContexts, round[Victim].context) /\ UNCHANGED <<slot, promoted>>
      BY <1>24 DEF DropCollected, Complete, slots
    <2>4. QED
      BY <2>2, <2>3, SettleSlots
  <1>25. ASSUME DrainMessage PROVE SlotStep
    <2>1. Victim \in Isolates /\ HasMessage(Victim)
      BY <1>25, VictimTyped DEF DrainMessage
    <2>2. Front(Victim).context \in pending => \A s \in SlotIds : ~Captured(Front(Victim).context, s)
      BY <2>1, FrontUncaptured
    <2>3. /\ \E mb, cx : CompleteFrom(mb, cx, Front(Victim).context)
          /\ UNCHANGED <<slot, promoted>>
      BY <1>25 DEF DrainMessage, Complete, slots
    <2>4. PICK mb, cx : CompleteFrom(mb, cx, Front(Victim).context)
      BY <2>3
    <2>5. QED
      BY <2>2, <2>3, <2>4, SettleSlots
  <1>26. ASSUME EndStop PROVE SlotStep
    BY <1>26, SlotsFrame DEF EndStop, slots, calls
  <1>27. ASSUME NEW s \in SlotIds, CloseOwnSlot(s) PROVE SlotStep
    BY <1>27, DropSlotMoves DEF CloseOwnSlot, OwnSlots
  <1>28. ASSUME NEW s \in SlotIds, SweepSlot(s) PROVE SlotStep
    BY <1>28, DropSlotMoves DEF SweepSlot
  <1>29. ASSUME CollectEntry PROVE SlotStep
    BY <1>29, SlotsFrame DEF CollectEntry, slots, calls
  <1>30. ASSUME EndStep PROVE SlotStep
    BY <1>30, SlotsFrame DEF EndStep, slots, calls
  <1>31. CASE UNCHANGED vars
    BY <1>31, SlotsFrame DEF vars, slots, calls
  <1>32. ASSUME NEW i \in Isolates, Supervise(i) PROVE SlotStep
    BY <1>32, SlotsFrame DEF Supervise, slots, calls
  <1>33. QED
    BY <1>1, <1>2, <1>3, <1>4, <1>5, <1>6, <1>7, <1>8, <1>9, <1>10, <1>11,
       <1>12, <1>13, <1>14, <1>15, <1>16, <1>17, <1>18, <1>19, <1>20, <1>21,
       <1>22, <1>23, <1>24, <1>25, <1>26, <1>27, <1>28, <1>29, <1>30, <1>31,
       <1>32 DEF Next, Step, Handle, ExecuteEffect, StopSteps

-----------------------------------------------------------------------------
(* Where the contexts of a queue come from. *)

(* What an enqueue leaves at each place of each queue. *)
LEMMA EnqueueAt ==
    ASSUME NEW S, NEW q \in [Isolates -> Seq(S)], NEW r \in Isolates, NEW x \in S, NEW i \in Isolates
    PROVE  /\ \A k \in DOMAIN Enqueue(q, r, x)[i] :
                 \/ k \in DOMAIN q[i] /\ Enqueue(q, r, x)[i][k] = q[i][k]
                 \/ i = r /\ k = Len(q[i]) + 1 /\ Enqueue(q, r, x)[i][k] = x
           /\ \A k \in DOMAIN q[i] :
                 k \in DOMAIN Enqueue(q, r, x)[i] /\ Enqueue(q, r, x)[i][k] = q[i][k]
           /\ Len(q[r]) + 1 \in DOMAIN Enqueue(q, r, x)[r] /\ Enqueue(q, r, x)[r][Len(q[r]) + 1] = x
  <1>1. /\ q[i] \in Seq(S) /\ q[r] \in Seq(S)
        /\ Enqueue(q, r, x)[r] = Append(q[r], x)
        /\ i # r => Enqueue(q, r, x)[i] = q[i]
    BY DEF Enqueue
  <1>2. CASE i = r
    BY <1>1, <1>2
  <1>3. CASE i # r
    BY <1>1, <1>3
  <1>4. QED
    BY <1>2, <1>3

(* What is left of a queue, place by place. *)
LEMMA RestAt ==
    ASSUME NEW S, NEW s \in Seq(S)
    PROVE  /\ \A k \in DOMAIN Rest(s) : k + 1 \in DOMAIN s /\ Rest(s)[k] = s[k + 1]
           /\ \A k \in DOMAIN s : k # 1 => k - 1 \in DOMAIN Rest(s) /\ Rest(s)[k - 1] = s[k]
  <1>1. CASE s = <<>>
    BY <1>1 DEF Rest
  <1>2. CASE s # <<>>
    <2>1. Len(Tail(s)) = Len(s) - 1 /\ Tail(s) \in Seq(S) /\ Rest(s) = Tail(s) /\ Len(s) \in Nat
      BY <1>2 DEF Rest
    <2>2. DOMAIN Rest(s) = 1..(Len(s) - 1) /\ DOMAIN s = 1..Len(s)
      BY <2>1
    <2>3. \A k \in 1..(Len(s) - 1) : Rest(s)[k] = s[k + 1]
      BY <1>2, <2>1
    <2>4. QED
      BY <2>1, <2>2, <2>3
  <1>3. QED
    BY <1>1, <1>2

(* The context of c at a place of the new lane of i was at the same place  *)
(* of the old one, or one place further back.                              *)
Stays(c, cx, i)  == \A k \in DOMAIN callContexts'[i] : callContexts'[i][k] = c =>
                       k \in DOMAIN cx[i] /\ cx[i][k] = c
Shifts(c, cx, i) == \A k \in DOMAIN callContexts'[i] : callContexts'[i][k] = c =>
                       k + 1 \in DOMAIN cx[i] /\ cx[i][k + 1] = c

(* A Put brings no old call's context to a lane, save the one of the turn. *)
LEMMA PutOrigin ==
    ASSUME NEW mb, NEW cx \in [Isolates -> Seq(Contexts)], Put(mb, cx),
           NEW c \in pending', c # context', c # nextCall \/ nextCall' = nextCall, NEW i \in Isolates,
           nextCall \in Nat
    PROVE  Stays(c, cx, i)
  <1>1. CASE callContexts' = cx
    BY <1>1 DEF Stays
  <1>2. ASSUME NEW r \in Isolates, NEW x \in Contexts, callContexts' = Enqueue(cx, r, x),
               x \in pending' /\ x # context' => x = nextCall /\ nextCall' = nextCall + 1
        PROVE  Stays(c, cx, i)
    <2>1. x # c
      BY <1>2
    <2>2. QED
      BY <1>2, <2>1, EnqueueAt DEF Stays
  <1>3. QED
    BY <1>1, <1>2 DEF Put

(* Nor does any other move: the context was in the same lane before. *)
LEMMA QueueOrigin ==
    ASSUME TypeOK, QueueStep, NEW c \in pending', c # context', c # nextCall \/ nextCall' = nextCall,
           c # NoCall, NEW i \in Isolates
    PROVE  Stays(c, callContexts, i) \/ Shifts(c, callContexts, i)
  <1>0. callContexts \in [Isolates -> Seq(Contexts)] /\ callContexts[i] \in Seq(Contexts) /\ nextCall \in Nat
    BY DEF TypeOK
  <1>1. CASE Put(mailbox, callContexts)
    BY <1>0, <1>1, PutOrigin
  <1>2. CASE Snapshot
    <2>1. callContexts'[i] = callContexts[i] \/ callContexts'[i] = Rest(callContexts[i])
      BY <1>2 DEF Snapshot
    <2>2. QED
      BY <1>0, <2>1, RestAt DEF Stays, Shifts
  <1>3. CASE TakesFromMailbox
    <2> DEFINE mb == [mailbox EXCEPT ![Victim] = Tail(@)]
               cx == [callContexts EXCEPT ![Victim] = Rest(@)]
    <2>1. Victim \in Isolates /\ Put(mb, cx)
      BY <1>3, VictimTyped DEF TakesFromMailbox
    <2>2. cx \in [Isolates -> Seq(Contexts)]
      BY <1>0, <2>1, TailTyped
    <2>3. cx[i] = callContexts[i] \/ cx[i] = Rest(callContexts[i])
      BY <1>0, <2>1
    <2> HIDE DEF mb, cx
    <2>4. Stays(c, cx, i)
      BY <1>0, <2>1, <2>2, PutOrigin
    <2>5. CASE cx[i] = callContexts[i]
      BY <2>4, <2>5 DEF Stays
    <2>6. CASE cx[i] = Rest(callContexts[i])
      BY <1>0, <2>4, <2>6, RestAt DEF Stays, Shifts
    <2>7. QED
      BY <2>3, <2>5, <2>6
  <1>4. CASE Bootstraps
    <2>1. nextIsolate \in Isolates /\ callContexts' = Enqueue(callContexts, nextIsolate, NoCall)
      BY <1>4 DEF Bootstraps
    <2>2. NoCall \in Contexts
      BY DEF Contexts
    <2>3. QED
      BY <1>0, <2>1, <2>2, EnqueueAt DEF Stays
  <1>5. CASE TellsParent
    BY <1>5 DEF TellsParent, Stays
  <1>6. QED
    BY <1>1, <1>2, <1>3, <1>4, <1>5 DEF QueueStep

(* No context reaches a queue before its call is dispatched. *)
PutBelow(cx) == \A i \in Isolates : \A k \in DOMAIN cx[i] : cx[i][k] < nextCall

(* A Put keeps every context of a lane below the next call id. *)
LEMMA PutBounded ==
    ASSUME TypeOK, NEW mb, NEW cx \in [Isolates -> Seq(Contexts)], Put(mb, cx), PutBelow(cx),
           nextCall' \in Int, nextCall <= nextCall'
    PROVE  PutBelow(callContexts)'
  <1>0. \A i \in Isolates : \A k \in DOMAIN cx[i] : cx[i][k] \in Int
    <2>1. ASSUME NEW i \in Isolates, NEW k \in DOMAIN cx[i]
          PROVE  cx[i][k] \in Contexts
      BY <2>1
    <2>2. QED
      BY <2>1 DEF Contexts, CallIds, NoCall
  <1>1. \A i \in Isolates : \A k \in DOMAIN cx[i] : cx[i][k] < nextCall'
    BY <1>0 DEF PutBelow, TypeOK
  <1>2. CASE callContexts' = cx
    BY <1>1, <1>2 DEF PutBelow
  <1>3. ASSUME NEW r \in Isolates, NEW x \in Contexts, callContexts' = Enqueue(cx, r, x), x < nextCall'
        PROVE  PutBelow(callContexts)'
    <2>1. ASSUME NEW i \in Isolates, NEW k \in DOMAIN callContexts'[i]
          PROVE  callContexts'[i][k] < nextCall'
      BY <1>1, <1>3, <2>1, EnqueueAt
    <2>2. QED
      BY <2>1 DEF PutBelow
  <1>4. QED
    BY <1>2, <1>3 DEF Put

(* So does every move. *)
LEMMA QueueBounded ==
    ASSUME TypeOK, QueueStep, PutBelow(callContexts), nextCall' \in Int, nextCall <= nextCall'
    PROVE  PutBelow(callContexts)'
  <1>0. /\ callContexts \in [Isolates -> Seq(Contexts)] /\ nextCall \in Int /\ nextCall >= 1
        /\ \A i \in Isolates : \A k \in DOMAIN callContexts[i] :
              callContexts[i][k] \in Int /\ callContexts[i][k] < nextCall'
    <2>1. callContexts \in [Isolates -> Seq(Contexts)] /\ nextCall \in Int /\ nextCall >= 1
      BY DEF TypeOK
    <2>2. ASSUME NEW i \in Isolates, NEW k \in DOMAIN callContexts[i]
          PROVE  callContexts[i][k] \in Int
      <3>1. callContexts[i][k] \in Contexts
        BY <2>1, <2>2
      <3>2. QED
        BY <3>1 DEF Contexts, CallIds, NoCall
    <2>3. QED
      BY <2>1, <2>2 DEF PutBelow
  <1>1. CASE Put(mailbox, callContexts)
    BY <1>0, <1>1, PutBounded
  <1>2. CASE Snapshot
    <2>1. ASSUME NEW i \in Isolates, NEW k \in DOMAIN callContexts'[i]
          PROVE  callContexts'[i][k] < nextCall'
      <3>1. callContexts'[i] = callContexts[i] \/ callContexts'[i] = Rest(callContexts[i])
        BY <1>2 DEF Snapshot
      <3>2. QED
        BY <1>0, <2>1, <3>1, RestAt
    <2>2. QED
      BY <2>1 DEF PutBelow
  <1>3. CASE TakesFromMailbox
    <2> DEFINE mb == [mailbox EXCEPT ![Victim] = Tail(@)]
               cx == [callContexts EXCEPT ![Victim] = Rest(@)]
    <2>1. Victim \in Isolates /\ Put(mb, cx)
      BY <1>3, VictimTyped DEF TakesFromMailbox
    <2>2. cx \in [Isolates -> Seq(Contexts)]
      BY <1>0, <2>1, TailTyped
    <2>3. ASSUME NEW i \in Isolates, NEW k \in DOMAIN cx[i]
          PROVE  cx[i][k] < nextCall
      <3>1. cx[i] = callContexts[i] \/ cx[i] = Rest(callContexts[i])
        BY <1>0, <2>1
      <3> HIDE DEF mb, cx
      <3>2. QED
        BY <1>0, <2>3, <3>1, RestAt DEF PutBelow
    <2> HIDE DEF mb, cx
    <2>4. PutBelow(cx)
      BY <2>3 DEF PutBelow
    <2>5. QED
      BY <2>1, <2>2, <2>4, PutBounded
  <1>4. CASE Bootstraps
    <2>1. nextIsolate \in Isolates /\ callContexts' = Enqueue(callContexts, nextIsolate, NoCall)
      BY <1>4 DEF Bootstraps
    <2>2. NoCall \in Contexts /\ NoCall < nextCall'
      BY <1>0 DEF Contexts, NoCall
    <2>3. ASSUME NEW i \in Isolates, NEW k \in DOMAIN callContexts'[i]
          PROVE  callContexts'[i][k] < nextCall'
      <3>1. \/ k \in DOMAIN callContexts[i] /\ callContexts'[i][k] = callContexts[i][k]
            \/ callContexts'[i][k] = NoCall
        BY <1>0, <2>1, <2>2, <2>3, EnqueueAt
      <3>2. QED
        BY <1>0, <2>2, <2>3, <3>1
    <2>4. QED
      BY <2>3 DEF PutBelow
  <1>5. CASE TellsParent
    BY <1>0, <1>5 DEF TellsParent, PutBelow
  <1>6. QED
    BY <1>1, <1>2, <1>3, <1>4, <1>5 DEF QueueStep

-----------------------------------------------------------------------------
(* The invariants about calls. *)

(* Call ids grow, and a call that becomes pending is the one dispatched. *)
LEMMA CallIdsGrow ==
    ASSUME TypeOK, CallStep
    PROVE  /\ nextCall \in Nat /\ nextCall >= 1 /\ nextCall' \in Nat /\ nextCall <= nextCall'
           /\ \A d \in pending' : d \in pending \/ (d = nextCall /\ Dispatches)
  <1>1. nextCall \in Nat /\ nextCall >= 1
    BY DEF TypeOK
  <1>2. CASE Dispatches
    BY <1>1, <1>2, DispatchMoves
  <1>3. CASE ~Dispatches
    BY <1>1, <1>3 DEF CallStep, CallsSame, Ends
  <1>4. QED
    BY <1>2, <1>3

(* A message of the round was there, or is the front of a queue. *)
LEMMA RoundOrigin ==
    ASSUME TypeOK, [Next]_vars, NEW i \in Isolates
    PROVE  \/ round'[i] = round[i] \/ round'[i] = Nothing
           \/ Snapshot /\ Open(i) /\ HasMessage(i) /\ round'[i] = Front(i)
  <1>1. CASE Snapshot
    BY <1>1 DEF Snapshot
  <1>2. CASE ~Snapshot
    BY <1>2, RoundTaken
  <1>3. QED
    BY <1>1, <1>2

(* The front of a queue names a call already dispatched. *)
LEMMA FrontBelow ==
    ASSUME TypeOK, CallsFresh, NEW i \in Isolates, HasMessage(i)
    PROVE  Front(i).context < nextCall
  <1>1. NoCall < nextCall
    BY DEF TypeOK, NoCall
  <1>2. QED
    BY <1>1, FrontContext DEF CallsFresh

(* Only a capture takes a slot id. *)
LEMMA NextSlotKept ==
    ASSUME [Next]_vars, ~\E i \in Isolates : HandlerCaptures(i)
    PROVE  nextSlot' = nextSlot
  <1>1. ASSUME NEW i \in Isolates, HostSend(i) PROVE nextSlot' = nextSlot
    BY <1>1 DEF HostSend, slots
  <1>2. ASSUME NEW c \in CallIds, DeadlinePasses(c) PROVE nextSlot' = nextSlot
    BY <1>2 DEF DeadlinePasses, slots
  <1>3. ASSUME BeginStep PROVE nextSlot' = nextSlot
    BY <1>3 DEF BeginStep, slots
  <1>4. ASSUME Snapshot PROVE nextSlot' = nextSlot
    BY <1>4 DEF Snapshot, slots
  <1>5. ASSUME EndDelivery PROVE nextSlot' = nextSlot
    BY <1>5 DEF EndDelivery, slots
  <1>6. ASSUME NEW c \in CallIds, HarvestTimeout(c) PROVE nextSlot' = nextSlot
    BY <1>6 DEF HarvestTimeout, slots
  <1>7. ASSUME NEW i \in Isolates, HandlerPanics(i) PROVE nextSlot' = nextSlot
    BY <1>7 DEF HandlerPanics, slots
  <1>8. ASSUME NEW i \in Isolates, HandlerCaptures(i) PROVE nextSlot' = nextSlot
    BY <1>8
  <1>9. ASSUME NEW i \in Isolates, HandlerAnswers(i) PROVE nextSlot' = nextSlot
    BY <1>9 DEF HandlerAnswers, slots
  <1>10. ASSUME NEW i \in Isolates, HandlerAbandons(i) PROVE nextSlot' = nextSlot
    BY <1>10 DEF HandlerAbandons, slots
  <1>11. ASSUME NEW j \in Isolates, Send(j) PROVE nextSlot' = nextSlot
    BY <1>11 DEF Send, slots
  <1>12. ASSUME NEW j \in Isolates, Call(j) PROVE nextSlot' = nextSlot
    BY <1>12 DEF Call, slots
  <1>13. ASSUME NEW c \in CallIds, CancelCall(c) PROVE nextSlot' = nextSlot
    BY <1>13 DEF CancelCall, slots
  <1>14. ASSUME Answer PROVE nextSlot' = nextSlot
    BY <1>14 DEF Answer, slots
  <1>15. ASSUME NEW s \in SlotIds, DropHandle(s) PROVE nextSlot' = nextSlot
    BY <1>15 DEF DropHandle, slots
  <1>16. ASSUME NEW s \in SlotIds, NEW typed \in BOOLEAN, ReplyTo(s, typed)
         PROVE  nextSlot' = nextSlot
    BY <1>16 DEF ReplyTo, slots
  <1>17. ASSUME NEW b \in BOOLEAN, Spawn(b) PROVE nextSlot' = nextSlot
    BY <1>17 DEF Spawn, slots
  <1>18. ASSUME NEW b \in BOOLEAN, SpawnObserved(b) PROVE nextSlot' = nextSlot
    BY <1>18 DEF SpawnObserved, slots
  <1>19. ASSUME NEW b \in BOOLEAN, Stop(b) PROVE nextSlot' = nextSlot
    BY <1>19 DEF Stop, slots
  <1>20. ASSUME StopChildren PROVE nextSlot' = nextSlot
    BY <1>20 DEF StopChildren, slots
  <1>21. ASSUME EndTurn PROVE nextSlot' = nextSlot
    BY <1>21 DEF EndTurn, slots
  <1>22. ASSUME StopEntry PROVE nextSlot' = nextSlot
    BY <1>22 DEF StopEntry, slots
  <1>23. ASSUME CancelOwnCall PROVE nextSlot' = nextSlot
    BY <1>23 DEF CancelOwnCall, slots
  <1>24. ASSUME DropCollected PROVE nextSlot' = nextSlot
    BY <1>24 DEF DropCollected, slots
  <1>25. ASSUME DrainMessage PROVE nextSlot' = nextSlot
    BY <1>25 DEF DrainMessage, slots
  <1>26. ASSUME EndStop PROVE nextSlot' = nextSlot
    BY <1>26 DEF EndStop, slots
  <1>27. ASSUME NEW s \in SlotIds, CloseOwnSlot(s) PROVE nextSlot' = nextSlot
    BY <1>27 DEF CloseOwnSlot, slots
  <1>28. ASSUME NEW s \in SlotIds, SweepSlot(s) PROVE nextSlot' = nextSlot
    BY <1>28 DEF SweepSlot, slots
  <1>29. ASSUME CollectEntry PROVE nextSlot' = nextSlot
    BY <1>29 DEF CollectEntry, slots
  <1>30. ASSUME EndStep PROVE nextSlot' = nextSlot
    BY <1>30 DEF EndStep, slots
  <1>31. CASE UNCHANGED vars
    BY <1>31 DEF vars, slots
  <1>32. ASSUME NEW i \in Isolates, Supervise(i) PROVE nextSlot' = nextSlot
    BY <1>32 DEF Supervise, slots
  <1>33. QED
    BY <1>1, <1>2, <1>3, <1>4, <1>5, <1>6, <1>7, <1>8, <1>9, <1>10, <1>11,
       <1>12, <1>13, <1>14, <1>15, <1>16, <1>17, <1>18, <1>19, <1>20, <1>21,
       <1>22, <1>23, <1>24, <1>25, <1>26, <1>27, <1>28, <1>29, <1>30, <1>31,
       <1>32 DEF Next, Step, Handle, ExecuteEffect, StopSteps

(* Every step keeps CallsFresh. *)
LEMMA CallsFreshKept ==
    ASSUME TypeOK, TypeOK', Settlement', CallsFresh, QueueStep, ContextStep, OverflowStep, CallStep,
           SlotStep, [Next]_vars
    PROVE  CallsFresh'
  <1>0. /\ nextCall \in Nat /\ nextCall >= 1 /\ nextCall' \in Nat /\ nextCall <= nextCall'
        /\ NoCall < nextCall /\ NoCall < nextCall'
    BY CallIdsGrow DEF NoCall
  <1>a. \A x \in Contexts : x < nextCall => x < nextCall'
    BY <1>0 DEF Contexts, CallIds, NoCall
  <1>1. \A c \in CallIds : c >= nextCall' => handle'[c] = "Pending"
    BY DEF Settlement
  <1>2. \A i \in Isolates : \A k \in DOMAIN callContexts'[i] : callContexts'[i][k] < nextCall'
    <2>1. PutBelow(callContexts)
      BY DEF PutBelow, CallsFresh
    <2>2. PutBelow(callContexts)'
      BY <1>0, <2>1, QueueBounded
    <2>3. QED
      BY <2>2 DEF PutBelow
  <1>3. ASSUME NEW i \in Isolates
        PROVE  round'[i].context < nextCall'
    <2>1. round[i].context < nextCall /\ round[i].context \in Contexts
      BY DeliveredShape DEF CallsFresh, TypeOK, Contexts
    <2>2. CASE Snapshot /\ HasMessage(i) /\ round'[i] = Front(i)
      <3>1. Front(i).context \in Contexts /\ Front(i).context < nextCall
        BY <2>2, FrontTyped, FrontBelow, DeliveredShape
      <3>2. QED
        BY <1>a, <2>2, <3>1
    <2>3. CASE round'[i] = round[i]
      BY <1>a, <2>1, <2>3
    <2>4. CASE round'[i] = Nothing
      BY <1>0, <2>4, DeliveredShape
    <2>5. QED
      BY <2>2, <2>3, <2>4, RoundOrigin
  <1>4. context' < nextCall'
    <2>1. context \in Contexts /\ context < nextCall
      BY DEF TypeOK, CallsFresh
    <2>2. ASSUME NEW i \in Isolates, HandlerAnswers(i), context' = round[i].context
          PROVE  context' < nextCall'
      <3>1. round[i].context < nextCall /\ round[i].context \in Contexts
        BY <2>2, DeliveredShape DEF CallsFresh, TypeOK, Contexts
      <3>2. QED
        BY <1>a, <2>2, <3>1
    <2>3. QED
      BY <1>0, <1>a, <2>1, <2>2 DEF ContextStep
  <1>5. ASSUME NEW i \in Isolates, NEW k \in DOMAIN overflow'[i]
        PROVE  overflow'[i][k].context < nextCall'
    <2>1. \A n \in DOMAIN overflow[i] : overflow[i][n].context < nextCall'
      <3>1. ASSUME NEW n \in DOMAIN overflow[i]
            PROVE  overflow[i][n].context \in Contexts /\ overflow[i][n].context < nextCall
        <4>1. overflow[i] \in Seq(DeliveredMessages)
          BY DEF TypeOK
        <4>2. overflow[i][n] \in DeliveredMessages
          BY <3>1, <4>1
        <4>3. QED
          BY <3>1, <4>2, DeliveredShape DEF CallsFresh
      <3>2. QED
        BY <1>a, <3>1
    <2>2. QED
      BY <1>0, <1>4, <1>5, <2>1 DEF OverflowStep
  <1>6. ASSUME NEW d \in CallIds
        PROVE  continuation'[d] < nextCall'
    <2>1. continuation[d] < nextCall'
      BY <1>a DEF TypeOK, CallsFresh
    <2>2. CASE Dispatches
      <3>1. context < nextCall'
        BY <1>a DEF TypeOK, CallsFresh
      <3>2. continuation'[d] \in {continuation[d], context}
        BY <2>2, DispatchMoves DEF TypeOK
      <3>3. QED
        BY <2>1, <3>1, <3>2
    <2>3. CASE continuation' = continuation
      BY <2>1, <2>3
    <2>4. QED
      BY <2>2, <2>3 DEF CallStep, CallsSame, Ends
  <1>7. ASSUME NEW s \in SlotIds
        PROVE  slot'[s].call < nextCall' /\ (s >= nextSlot' => slot'[s].call = NoCall)
    <2>1. slot[s].call \in Contexts /\ slot[s].call < nextCall' /\ (s >= nextSlot => slot[s].call = NoCall)
      <3>1. slot[s].call \in Contexts
        BY DEF TypeOK
      <3>2. QED
        BY <1>a, <3>1 DEF CallsFresh
    <2>2. ASSUME NEW i \in Isolates, HandlerCaptures(i)
          PROVE  slot'[s].call < nextCall' /\ (s >= nextSlot' => slot'[s].call = NoCall)
      <3>1. /\ nextSlot \in SlotIds /\ nextSlot' = nextSlot + 1
            /\ slot' = [slot EXCEPT ![nextSlot] =
                          [call |-> round[i].context, owner |-> i,
                           state |-> IF round[i].context \in pending THEN "Open" ELSE "Closed"]]
        BY <2>2, BoundsAssumption DEF HandlerCaptures, TypeOK, SlotIds
      <3>2. CASE s = nextSlot
        <4>1. slot'[s].call = round[i].context
          BY <3>1, <3>2 DEF TypeOK
        <4>2. round[i].context < nextCall'
          BY <1>a, DeliveredShape DEF CallsFresh, TypeOK, Contexts
        <4>3. s < nextSlot'
          BY <3>1, <3>2 DEF SlotIds
        <4>4. QED
          BY <3>1, <4>1, <4>2, <4>3 DEF SlotIds
      <3>3. CASE s # nextSlot
        BY <2>1, <3>1, <3>3 DEF TypeOK, SlotIds
      <3>4. QED
        BY <3>2, <3>3
    <2>3. CASE ~\E i \in Isolates : HandlerCaptures(i)
      <3>1. slot'[s].call = slot[s].call
        BY <2>3 DEF SlotStep
      <3>2. nextSlot' = nextSlot
        BY <2>3, NextSlotKept
      <3>3. QED
        BY <2>1, <3>1, <3>2
    <2>4. QED
      BY <2>2, <2>3
  <1>8. QED
    BY <1>1, <1>2, <1>3, <1>4, <1>5, <1>6, <1>7 DEF CallsFresh

(* The delivery loop is left only when the round is empty. *)
LEMMA RoundEnds ==
    ASSUME [Next]_vars, pc' \in {"idle", "harvest", "sweep"}
    PROVE  pc \in {"idle", "harvest", "sweep"} \/ EndDelivery
  <1>1. ASSUME NEW i \in Isolates, HostSend(i)
        PROVE  pc \in {"idle", "harvest", "sweep"} \/ EndDelivery
    BY <1>1 DEF HostSend, control
  <1>2. ASSUME NEW c \in CallIds, DeadlinePasses(c)
        PROVE  pc \in {"idle", "harvest", "sweep"} \/ EndDelivery
    BY <1>2 DEF DeadlinePasses, control
  <1>3. ASSUME BeginStep PROVE pc \in {"idle", "harvest", "sweep"} \/ EndDelivery
    BY <1>3 DEF BeginStep, control
  <1>4. ASSUME Snapshot PROVE pc \in {"idle", "harvest", "sweep"} \/ EndDelivery
    BY <1>4 DEF Snapshot, control
  <1>5. ASSUME EndDelivery PROVE pc \in {"idle", "harvest", "sweep"} \/ EndDelivery
    BY <1>5
  <1>6. ASSUME NEW c \in CallIds, HarvestTimeout(c)
        PROVE  pc \in {"idle", "harvest", "sweep"} \/ EndDelivery
    BY <1>6 DEF HarvestTimeout, control
  <1>7. ASSUME NEW i \in Isolates, HandlerPanics(i)
        PROVE  pc \in {"idle", "harvest", "sweep"} \/ EndDelivery
    BY <1>7 DEF HandlerPanics, control
  <1>8. ASSUME NEW i \in Isolates, HandlerCaptures(i)
        PROVE  pc \in {"idle", "harvest", "sweep"} \/ EndDelivery
    BY <1>8 DEF HandlerCaptures, Begin
  <1>9. ASSUME NEW i \in Isolates, HandlerAnswers(i)
        PROVE  pc \in {"idle", "harvest", "sweep"} \/ EndDelivery
    BY <1>9 DEF HandlerAnswers, Begin
  <1>10. ASSUME NEW i \in Isolates, HandlerAbandons(i)
         PROVE  pc \in {"idle", "harvest", "sweep"} \/ EndDelivery
    BY <1>10 DEF HandlerAbandons, Begin
  <1>11. ASSUME NEW j \in Isolates, Send(j)
         PROVE  pc \in {"idle", "harvest", "sweep"} \/ EndDelivery
    BY <1>11 DEF Send, Effect
  <1>12. ASSUME NEW j \in Isolates, Call(j)
         PROVE  pc \in {"idle", "harvest", "sweep"} \/ EndDelivery
    BY <1>12 DEF Call, Effect
  <1>13. ASSUME NEW c \in CallIds, CancelCall(c)
         PROVE  pc \in {"idle", "harvest", "sweep"} \/ EndDelivery
    BY <1>13 DEF CancelCall, Effect
  <1>14. ASSUME Answer PROVE pc \in {"idle", "harvest", "sweep"} \/ EndDelivery
    BY <1>14 DEF Answer, control
  <1>15. ASSUME NEW s \in SlotIds, DropHandle(s)
         PROVE  pc \in {"idle", "harvest", "sweep"} \/ EndDelivery
    BY <1>15 DEF DropHandle, control
  <1>16. ASSUME NEW s \in SlotIds, NEW typed \in BOOLEAN, ReplyTo(s, typed)
         PROVE  pc \in {"idle", "harvest", "sweep"} \/ EndDelivery
    BY <1>16 DEF ReplyTo, Effect
  <1>17. ASSUME NEW b \in BOOLEAN, Spawn(b)
         PROVE  pc \in {"idle", "harvest", "sweep"} \/ EndDelivery
    BY <1>17 DEF Spawn, Effect
  <1>18. ASSUME NEW b \in BOOLEAN, SpawnObserved(b)
         PROVE  pc \in {"idle", "harvest", "sweep"} \/ EndDelivery
    BY <1>18 DEF SpawnObserved, Effect
  <1>19. ASSUME NEW b \in BOOLEAN, Stop(b)
         PROVE  pc \in {"idle", "harvest", "sweep"} \/ EndDelivery
    BY <1>19 DEF Stop, control
  <1>20. ASSUME StopChildren PROVE pc \in {"idle", "harvest", "sweep"} \/ EndDelivery
    BY <1>20 DEF StopChildren, control
  <1>21. ASSUME EndTurn PROVE pc \in {"idle", "harvest", "sweep"} \/ EndDelivery
    BY <1>21 DEF EndTurn, Return
  <1>22. ASSUME StopEntry PROVE pc \in {"idle", "harvest", "sweep"} \/ EndDelivery
    BY <1>22 DEF StopEntry, control
  <1>23. ASSUME CancelOwnCall PROVE pc \in {"idle", "harvest", "sweep"} \/ EndDelivery
    BY <1>23 DEF CancelOwnCall, control
  <1>24. ASSUME DropCollected PROVE pc \in {"idle", "harvest", "sweep"} \/ EndDelivery
    BY <1>24 DEF DropCollected, control
  <1>25. ASSUME DrainMessage PROVE pc \in {"idle", "harvest", "sweep"} \/ EndDelivery
    BY <1>25 DEF DrainMessage, control
  <1>26. ASSUME EndStop PROVE pc \in {"idle", "harvest", "sweep"} \/ EndDelivery
    BY <1>26 DEF EndStop, Resume, Return
  <1>27. ASSUME NEW s \in SlotIds, CloseOwnSlot(s)
         PROVE  pc \in {"idle", "harvest", "sweep"} \/ EndDelivery
    BY <1>27 DEF CloseOwnSlot, control
  <1>28. ASSUME NEW s \in SlotIds, SweepSlot(s)
         PROVE  pc \in {"idle", "harvest", "sweep"} \/ EndDelivery
    BY <1>28 DEF SweepSlot, control
  <1>29. ASSUME CollectEntry PROVE pc \in {"idle", "harvest", "sweep"} \/ EndDelivery
    BY <1>29 DEF CollectEntry, control
  <1>30. ASSUME EndStep PROVE pc \in {"idle", "harvest", "sweep"} \/ EndDelivery
    BY <1>30 DEF EndStep, control
  <1>31. CASE UNCHANGED vars
    BY <1>31 DEF vars, control
  <1>32. ASSUME NEW i \in Isolates, Supervise(i)
         PROVE  pc \in {"idle", "harvest", "sweep"} \/ EndDelivery
    BY <1>32 DEF Supervise, control
  <1>33. QED
    BY <1>1, <1>2, <1>3, <1>4, <1>5, <1>6, <1>7, <1>8, <1>9, <1>10, <1>11,
       <1>12, <1>13, <1>14, <1>15, <1>16, <1>17, <1>18, <1>19, <1>20, <1>21,
       <1>22, <1>23, <1>24, <1>25, <1>26, <1>27, <1>28, <1>29, <1>30, <1>31,
       <1>32 DEF Next, Step, Handle, ExecuteEffect, StopSteps

(* Every step keeps RoundOver. *)
LEMMA RoundOverKept ==
    ASSUME TypeOK, RoundLive, RoundOver, [Next]_vars
    PROVE  RoundOver'
  <1>1. SUFFICES ASSUME pc' \in {"idle", "harvest", "sweep"}, NEW i \in Isolates
                 PROVE  round'[i] = Nothing
    BY DEF RoundOver
  <1>2. CASE EndDelivery
    <2>1. pc = "deliver" /\ Undelivered = {} /\ round' = round
      BY <1>2 DEF EndDelivery, queues
    <2>2. round[i] # Nothing => i \in Registered
      BY <2>1 DEF RoundLive, RunsOrCloses, Open
    <2>3. i \in Registered => round[i] = Nothing
      BY <2>1 DEF Registered, Undelivered
    <2>4. QED
      BY <2>1, <2>2, <2>3
  <1>3. CASE ~EndDelivery
    <2>1. pc \in {"idle", "harvest", "sweep"}
      BY <1>1, <1>3, RoundEnds
    <2>2. ~Snapshot
      BY <1>1 DEF Snapshot
    <2>3. QED
      BY <1>1, <2>1, <2>2, RoundTaken DEF RoundOver
  <1>4. QED
    BY <1>2, <1>3

(* Stopping an isolate cancels every call it owns. *)
LEMMA OwnersLiveKept ==
    ASSUME TypeOK, TurnOwned, Settlement, OwnersLive, CallStep, [Next]_vars
    PROVE  OwnersLive'
  <1> DEFINE Lives(x) == \/ x \in Registered' /\ x \notin stopped'
                         \/ pc' = "close" /\ x = Victim'
  <1>1. \A x : RunsOrCloses(x) => Lives(x) \/ (EndStop /\ x = Victim)
    BY RunsKept DEF RunsOrCloses, Open
  <1>2. SUFFICES ASSUME NEW c \in pending'
                 PROVE  Lives(requester'[c])
    BY DEF OwnersLive, RunsOrCloses, Open
  <1> HIDE DEF Lives
  <1>3. CASE c \in pending
    <2>1. RunsOrCloses(requester[c])
      BY <1>3 DEF OwnersLive
    <2>2. ~(EndStop /\ requester[c] = Victim)
      BY <1>3 DEF EndStop, OwnCalls
    <2>3. requester'[c] = requester[c]
      <3>1. c \in CallIds /\ c < nextCall
        BY <1>3 DEF Settlement, TypeOK
      <3>2. c # nextCall
        BY <3>1 DEF TypeOK, CallIds
      <3>3. QED
        BY <3>1, <3>2, DispatchMoves DEF CallStep, CallsSame, Ends, TypeOK
    <2>4. QED
      BY <1>1, <2>1, <2>2, <2>3
  <1>4. CASE c \notin pending
    <2>1. c = nextCall /\ Dispatches
      BY <1>2, <1>4, CallIdsGrow
    <2>2. requester'[c] = current /\ pc = "effects" /\ Open(current)
      BY <2>1, DispatchMoves DEF TypeOK, TurnOwned
    <2>3. RunsOrCloses(current) /\ ~EndStop
      BY <2>2 DEF RunsOrCloses, EndStop
    <2>4. QED
      BY <1>1, <2>2, <2>3
  <1>5. QED
    BY <1>3, <1>4

(* The slot of a capture, and the call whose context it takes over. *)
LEMMA CaptureOpens ==
    ASSUME TypeOK, TurnOwned, RoundLive, OneContext, NEW i \in Isolates, HandlerCaptures(i), [Next]_vars
    PROVE  /\ nextSlot \in SlotIds /\ nextSlot \in promoted' /\ pending' = pending
           /\ context = NoCall /\ context' = NoCall /\ round[i].context # NoCall /\ RunsOrCloses(i)'
           /\ slot'[nextSlot] = [call |-> round[i].context, owner |-> i,
                                 state |-> IF round[i].context \in pending THEN "Open" ELSE "Closed"]
           /\ round'[i] = Nothing
           /\ \A s \in SlotIds : s # nextSlot => slot'[s] = slot[s]
           /\ UNCHANGED <<callContexts, overflow, continuation>>
           /\ round[i].context \in pending => \A s \in SlotIds : ~Captured(round[i].context, s)
  <1>1. nextSlot \in SlotIds /\ nextSlot \in promoted' /\ pending' = pending
    BY BoundsAssumption DEF HandlerCaptures, TypeOK, SlotIds, calls
  <1>2. context = NoCall /\ context' = NoCall /\ round[i].context # NoCall
    BY NextTyped DEF HandlerCaptures, Begin, TurnOwned
  <1>3. RunsOrCloses(i)'
    <2>1. Open(i) /\ pc = "deliver"
      BY NextTyped DEF HandlerCaptures, RoundLive, RunsOrCloses
    <2>2. QED
      BY <2>1, RunsKept DEF RunsOrCloses, EndStop
  <1>4. /\ slot'[nextSlot] = [call |-> round[i].context, owner |-> i,
                              state |-> IF round[i].context \in pending THEN "Open" ELSE "Closed"]
        /\ \A s \in SlotIds : s # nextSlot => slot'[s] = slot[s]
    BY <1>1 DEF HandlerCaptures, TypeOK
  <1>5. round'[i] = Nothing /\ UNCHANGED <<callContexts, overflow, continuation>>
    BY DEF HandlerCaptures, Take, TypeOK, calls
  <1>6. round[i].context \in pending => \A s \in SlotIds : ~Captured(round[i].context, s)
    BY ElsewhereUncaptured
  <1>7. QED
    BY <1>1, <1>2, <1>3, <1>4, <1>5, <1>6

(* An open slot keeps its pending call and its owner, and gets no rival. *)
LEMMA OpenSlotsKept ==
    ASSUME TypeOK, TurnOwned, RoundLive, OpenSlotsLive, OneContext, SlotStep, [Next]_vars
    PROVE  OpenSlotsLive'
  <1> DEFINE Lives(x) == \/ x \in Registered' /\ x \notin stopped'
                         \/ pc' = "close" /\ x = Victim'
             Same(s) == slot'[s] = slot[s] /\ slot[s].state = "Open"
             New(s) == \E i \in Isolates : HandlerCaptures(i) /\ s = nextSlot
  <1>1. \A x : RunsOrCloses(x) => Lives(x) \/ (EndStop /\ x = Victim)
    BY RunsKept DEF RunsOrCloses, Open
  <1>2. ASSUME NEW s \in SlotIds, slot'[s].state = "Open"
        PROVE  (Same(s) /\ ~New(s)) \/ New(s)
    BY <1>2 DEF SlotStep
  <1>3. ASSUME NEW s \in SlotIds, slot'[s].state = "Open"
        PROVE  s \in promoted' /\ slot'[s].call \in pending' /\ Lives(slot'[s].owner)
    <2>1. CASE Same(s) /\ ~New(s)
      <3>1. s \in promoted /\ slot[s].call \in pending /\ RunsOrCloses(slot[s].owner)
        BY <2>1 DEF OpenSlotsLive
      <3>2. s \in promoted' /\ slot'[s].call \in pending'
        BY <1>3, <2>1, <3>1 DEF SlotStep
      <3>3. ~(EndStop /\ slot[s].owner = Victim)
        BY <3>1 DEF EndStop, OwnSlots
      <3>4. QED
        BY <1>1, <2>1, <3>1, <3>2, <3>3
    <2>2. ASSUME NEW i \in Isolates, HandlerCaptures(i), s = nextSlot
          PROVE  s \in promoted' /\ slot'[s].call \in pending' /\ Lives(slot'[s].owner)
      <3>1. /\ s \in promoted' /\ pending' = pending /\ RunsOrCloses(i)'
            /\ slot'[s] = [call |-> round[i].context, owner |-> i,
                           state |-> IF round[i].context \in pending THEN "Open" ELSE "Closed"]
        BY <2>2, CaptureOpens
      <3>2. slot'[s].call = round[i].context /\ slot'[s].owner = i /\ round[i].context \in pending
        BY <1>3, <3>1
      <3>3. Lives(i)
        BY <3>1 DEF RunsOrCloses, Open
      <3>4. QED
        BY <3>1, <3>2, <3>3
    <2>3. QED
      BY <1>2, <1>3, <2>1, <2>2
  <1>4. ASSUME NEW i \in Isolates, HandlerCaptures(i), NEW t \in SlotIds, t # nextSlot,
               slot'[nextSlot].state = "Open", slot'[t].call = slot'[nextSlot].call
        PROVE  slot'[t].state # "Open"
    <2>0. /\ slot'[nextSlot] = [call |-> round[i].context, owner |-> i,
                               state |-> IF round[i].context \in pending THEN "Open" ELSE "Closed"]
          /\ \A s \in SlotIds : s # nextSlot => slot'[s] = slot[s]
          /\ round[i].context \in pending => \A s \in SlotIds : ~Captured(round[i].context, s)
      BY <1>4, CaptureOpens
    <2>3. slot'[nextSlot].call = round[i].context /\ round[i].context \in pending
      BY <1>4, <2>0
    <2>1. /\ slot'[t] = slot[t] /\ slot'[nextSlot].call = round[i].context
          /\ round[i].context \in pending /\ ~Captured(round[i].context, t)
      BY <1>4, <2>0, <2>3
    <2>2. QED
      BY <1>4, <2>1 DEF Captured
  <1>5. ASSUME NEW s \in SlotIds, slot'[s].state = "Open",
               NEW t \in SlotIds, t # s, slot'[t].call = slot'[s].call, slot'[t].state = "Open"
        PROVE  FALSE
    <2>1. CASE New(s)
      BY <1>4, <1>5, <2>1
    <2>2. CASE New(t)
      BY <1>4, <1>5, <2>2
    <2>3. CASE Same(s) /\ Same(t)
      BY <1>5, <2>3 DEF OpenSlotsLive
    <2>4. QED
      BY <1>2, <1>5, <2>1, <2>2, <2>3
  <1>6. QED
    BY <1>3, <1>5 DEF OpenSlotsLive, RunsOrCloses, Open

-----------------------------------------------------------------------------
(* The context of a call is never duplicated. *)

(* What the snapshot takes is the front of a queue, and no longer in it. *)
LEMMA SnapshotContext ==
    ASSUME TypeOK, RoundOver, NEW c \in pending, SoleContext(c), Snapshot,
           NEW i \in Isolates, round'[i].context = c
    PROVE  /\ Open(i) /\ 1 \in DOMAIN callContexts[i] /\ callContexts[i][1] = c
           /\ \A j \in Isolates : ~Queued(c, j)'
  <1>1. c # NoCall
    BY DEF TypeOK, CallIds, NoCall
  <1>2. Open(i) /\ HasMessage(i) /\ round'[i] = Front(i)
    BY <1>1 DEF Snapshot, Nothing, Delivered
  <1>3. FromMailbox(i) /\ 1 \in DOMAIN callContexts[i] /\ callContexts[i][1] = c
    BY <1>1, <1>2, FrontContext DEF SoleContext
  <1>4. ASSUME NEW j \in Isolates, NEW k \in DOMAIN callContexts'[j], callContexts'[j][k] = c
        PROVE  FALSE
    <2>1. CASE Open(j) /\ FromMailbox(j)
      <3>1. callContexts'[j] = Rest(callContexts[j]) /\ callContexts[j] \in Seq(Contexts)
        BY <2>1 DEF Snapshot, TypeOK
      <3>2. k \in Nat \ {0}
        BY <1>4, <3>1 DEF Rest
      <3>3. k + 1 \in DOMAIN callContexts[j] /\ callContexts[j][k + 1] = c
        BY <1>4, <3>1, RestAt
      <3>4. QED
        BY <1>3, <3>2, <3>3 DEF SoleContext
    <2>2. CASE ~(Open(j) /\ FromMailbox(j))
      <3>1. callContexts'[j] = callContexts[j]
        BY <2>2 DEF Snapshot
      <3>2. QED
        BY <1>2, <1>3, <1>4, <2>2, <3>1 DEF SoleContext
    <2>3. QED
      BY <2>1, <2>2
  <1>5. QED
    BY <1>2, <1>3, <1>4 DEF Queued

(* A place that did not hold the context of an old call does not get it,   *)
(* save that a snapshot moves it into the round.                           *)
LEMMA ElsewhereKept ==
    ASSUME TypeOK, Settlement, QueueStep, NEW c \in pending, c \in pending', c # context'
    PROVE  \A i \in Isolates : ~Queued(c, i) => ~Queued(c, i)'
  <1>1. c # NoCall /\ c # nextCall
    BY DEF TypeOK, CallIds, NoCall, Settlement
  <1>2. QED
    BY <1>1, QueueOrigin DEF Queued, Stays, Shifts

(* Only a snapshot brings a context into the round. *)
LEMMA RoundElsewhere ==
    ASSUME TypeOK, [Next]_vars, ~Snapshot, NEW c \in pending, NEW i \in Isolates, round'[i].context = c
    PROVE  round[i].context = c
  <1>1. c # NoCall
    BY DEF TypeOK, CallIds, NoCall
  <1>2. QED
    BY <1>1, RoundOrigin DEF Nothing, Delivered

(* A step that leaves the turn without the context of c leaves it in one   *)
(* place.                                                                  *)
LEMMA SoleContextKept ==
    ASSUME TypeOK, TypeOK', TurnOwned, RoundLive, RoundOver, Settlement, OneContext,
           QueueStep, OverflowStep, CallStep, SlotStep, [Next]_vars,
           NEW c \in pending, c \in pending', c # context', SoleContext(c)
    PROVE  SoleContext(c)'
  <1>1. c # NoCall /\ c # nextCall
    BY DEF TypeOK, CallIds, NoCall, Settlement
  <1>2. ASSUME NEW i \in Isolates, NEW j \in Isolates,
               NEW k \in DOMAIN callContexts'[i], NEW n \in DOMAIN callContexts'[j],
               callContexts'[i][k] = c, callContexts'[j][n] = c
        PROVE  i = j /\ k = n
    <2>1. /\ Stays(c, callContexts, i) \/ Shifts(c, callContexts, i)
          /\ Stays(c, callContexts, j) \/ Shifts(c, callContexts, j)
      BY <1>1, QueueOrigin
    <2>2. i = j
      BY <1>2, <2>1 DEF SoleContext, Stays, Shifts
    <2>3. k \in Nat /\ n \in Nat
      <3>1. callContexts' \in [Isolates -> Seq(Contexts)]
        BY DEF TypeOK
      <3>2. QED
        BY <1>2, <3>1
    <2>4. CASE Stays(c, callContexts, i)
      BY <1>2, <2>2, <2>4 DEF SoleContext, Stays
    <2>5. CASE Shifts(c, callContexts, i)
      <3>1. k + 1 \in DOMAIN callContexts[i] /\ callContexts[i][k + 1] = c
        BY <1>2, <2>5 DEF Shifts
      <3>2. n + 1 \in DOMAIN callContexts[i] /\ callContexts[i][n + 1] = c
        BY <1>2, <2>2, <2>5 DEF Shifts
      <3>3. k + 1 = n + 1
        BY <3>1, <3>2 DEF SoleContext
      <3>4. QED
        BY <2>2, <2>3, <3>3
    <2>6. QED
      BY <2>1, <2>4, <2>5
  <1>3. ASSUME NEW i \in Isolates, NEW j \in Isolates, round'[i].context = c
        PROVE  (round'[j].context = c => i = j) /\ ~Queued(c, j)'
    <2>1. CASE Snapshot
      BY <1>3, <2>1, SnapshotContext DEF SoleContext
    <2>2. CASE ~Snapshot
      BY <1>3, <2>2, RoundElsewhere, ElsewhereKept DEF SoleContext
    <2>3. QED
      BY <2>1, <2>2
  <1>4. ASSUME NEW s \in SlotIds, NEW i \in Isolates, Captured(c, s)'
        PROVE  round'[i].context # c /\ ~Queued(c, i)'
    <2>1. CASE slot'[s] = slot[s]
      <3>1. Captured(c, s)
        BY <1>4, <2>1 DEF Captured
      <3>2. round[i].context # c /\ ~Queued(c, i)
        BY <3>1 DEF SoleContext
      <3>3. round'[i].context # c
        BY <3>2, SnapshotContext, RoundElsewhere DEF Queued
      <3>4. QED
        BY <3>2, <3>3, ElsewhereKept
    <2>2. ASSUME NEW h \in Isolates, HandlerCaptures(h), s = nextSlot
          PROVE  round'[i].context # c /\ ~Queued(c, i)'
      <3>1. /\ slot'[s] = [call |-> round[h].context, owner |-> h,
                           state |-> IF round[h].context \in pending THEN "Open" ELSE "Closed"]
            /\ round'[h] = Nothing /\ callContexts' = callContexts
        BY <2>2, CaptureOpens
      <3>2. round[h].context = c
        BY <1>4, <3>1 DEF Captured
      <3>3. ~Queued(c, i)'
        BY <3>1, <3>2 DEF SoleContext, Queued
      <3>4. round'[h].context # c
        BY <1>1, <3>1 DEF Nothing, Delivered
      <3>5. ~Snapshot
        BY <2>2 DEF HandlerCaptures, IsNext, Snapshot
      <3>6. QED
        BY <3>2, <3>3, <3>4, <3>5, RoundElsewhere DEF SoleContext
    <2>3. QED
      BY <1>4, <2>1, <2>2 DEF SlotStep, Captured
  <1>5. ASSUME NEW i \in Isolates, NEW k \in DOMAIN overflow'[i] PROVE overflow'[i][k].context # c
    BY <1>1 DEF OverflowStep, SoleContext
  <1>6. ASSUME NEW d \in pending' PROVE continuation'[d] # c
    <2>1. CASE Dispatches
      <3>1. context' # c /\ context' = context /\ continuation' = [continuation EXCEPT ![nextCall] = context]
        BY <2>1, DispatchMoves
      <3>2. d \in pending \/ d = nextCall
        BY <1>6, CallIdsGrow
      <3>3. CASE d = nextCall
        BY <3>1, <3>3 DEF TypeOK, Settlement
      <3>4. CASE d \in pending /\ d # nextCall
        BY <3>1, <3>4 DEF SoleContext, TypeOK
      <3>5. QED
        BY <3>2, <3>3, <3>4
    <2>2. CASE ~Dispatches
      BY <1>6, <2>2 DEF CallStep, CallsSame, Ends, SoleContext
    <2>3. QED
      BY <2>1, <2>2
  <1>7. QED
    BY <1>2, <1>3, <1>4, <1>5, <1>6 DEF SoleContext

(* A call just dispatched: its context is where the request went. *)
LEMMA FreshContext ==
    ASSUME TypeOK, CallsFresh, Dispatches, NEW c, c = nextCall, c \in pending', c \notin pending
    PROVE  SoleContext(c)' /\ context' # c
  <1>1. /\ nextCall \in CallIds /\ context' = context 
        /\ UNCHANGED <<slot, overflow, round>>
        /\ continuation' = [continuation EXCEPT ![nextCall] = context]
        /\ pending' = pending \cup {nextCall}
    BY DispatchMoves
  <1>2. PICK j \in Isolates : callContexts' = Enqueue(callContexts, j, nextCall)
    BY DispatchMoves
  <1>3. nextCall \in Nat /\ context' # nextCall
    BY <1>1 DEF CallsFresh, TypeOK, CallIds, Contexts, NoCall
  <1>4. \A i \in Isolates : \A k \in DOMAIN callContexts'[i] :
           callContexts'[i][k] = nextCall => i = j /\ k = Len(callContexts[j]) + 1
    <2>1. callContexts \in [Isolates -> Seq(Contexts)] /\ nextCall \in Contexts
      BY <1>1 DEF TypeOK, Contexts
    <2>2. \A i \in Isolates : \A k \in DOMAIN callContexts[i] : callContexts[i][k] # nextCall
      BY <1>3 DEF CallsFresh
    <2>3. QED
      BY <1>2, <2>1, <2>2, EnqueueAt
  <1>5. \A i \in Isolates : round'[i].context # nextCall
    BY <1>1, <1>3 DEF CallsFresh
  <1>6. \A s \in SlotIds : slot'[s].call # nextCall
    BY <1>1, <1>3 DEF CallsFresh
  <1>7. \A i \in Isolates : \A k \in DOMAIN overflow'[i] : overflow'[i][k].context # nextCall
    BY <1>1, <1>3 DEF CallsFresh
  <1>8. \A d \in pending' : continuation'[d] # nextCall
    <2>1. \A d \in CallIds : continuation[d] # nextCall
      BY <1>3 DEF CallsFresh
    <2>2. QED
      BY <1>1, <1>3, <2>1 DEF TypeOK
  <1>9. QED
    BY <1>3, <1>4, <1>5, <1>6, <1>7, <1>8 DEF SoleContext, Captured, Queued

(* While a turn has a context no slot opens. *)
LEMMA UncapturedKept ==
    ASSUME TypeOK, TurnOwned, RoundLive, OneContext, SlotStep, [Next]_vars, context' # NoCall,
           NEW c, NEW s \in SlotIds, ~Captured(c, s)
    PROVE  ~Captured(c, s)'
  BY CaptureOpens DEF SlotStep, Captured

(* Every step keeps OneContext. *)
LEMMA OneContextKept ==
    ASSUME TypeOK, TypeOK', TurnOwned, RoundLive, RoundOver, Settlement, CallsFresh, OpenSlotsLive,
           OneContext, QueueStep, ContextStep, OverflowStep, CallStep, SlotStep, [Next]_vars
    PROVE  OneContext'
  <1>1. ASSUME NEW s \in promoted', slot'[s].call \in pending' PROVE slot'[s].state = "Open"
    <2>1. s \in SlotIds
      BY <1>1 DEF TypeOK
    <2>2. CASE \E i \in Isolates : HandlerCaptures(i) /\ s = nextSlot
      <3>1. PICK i \in Isolates : HandlerCaptures(i) /\ s = nextSlot
        BY <2>2
      <3>2. /\ pending' = pending
            /\ slot'[s] = [call |-> round[i].context, owner |-> i,
                           state |-> IF round[i].context \in pending THEN "Open" ELSE "Closed"]
        BY <3>1, CaptureOpens
      <3>3. QED
        BY <1>1, <3>2
    <2>3. CASE slot'[s] = slot[s] /\ ~\E i \in Isolates : HandlerCaptures(i) /\ s = nextSlot
      <3>1. s \in promoted
        BY <1>1, <2>1, <2>3 DEF SlotStep, HandlerCaptures
      <3>2. slot[s].call # nextCall
        BY <2>1, CallIdsGrow DEF CallsFresh
      <3>3. slot[s].call \in pending
        BY <1>1, <2>3, <3>2, CallIdsGrow
      <3>4. QED
        BY <2>3, <3>1, <3>3 DEF OneContext
    <2>4. QED
      BY <1>1, <2>1, <2>2, <2>3 DEF SlotStep
  <1>2. ASSUME NEW c \in pending', c \notin pending
        PROVE  context' # c /\ SoleContext(c)'
    <2>1. c = nextCall /\ Dispatches
      BY <1>2, CallIdsGrow
    <2>2. QED
      BY <1>2, <2>1, FreshContext
  <1>3. ASSUME NEW c \in pending', c \in pending, context' = c, NEW s \in SlotIds
        PROVE  ~Captured(c, s)'
    <2>1. c # NoCall
      BY <1>3 DEF TypeOK, CallIds, NoCall
    <2>2. ~Captured(c, s)
      <3>1. context = c \/ \E i \in Isolates : round[i].context = c
        BY <1>3, <2>1 DEF ContextStep
      <3>2. CASE context = c
        BY <1>3, <3>2 DEF OneContext
      <3>3. CASE \E i \in Isolates : round[i].context = c
        BY <1>3, <3>3, ElsewhereUncaptured
      <3>4. QED
        BY <3>1, <3>2, <3>3
    <2>3. QED
      BY <1>3, <2>1, <2>2, UncapturedKept
  <1>4. ASSUME NEW c \in pending', c \in pending, context' # c
        PROVE  SoleContext(c)'
    <2>1. context # c
      BY <1>4 DEF ContextStep, TypeOK, CallIds, NoCall
    <2>2. SoleContext(c)
      BY <1>4, <2>1 DEF OneContext
    <2>3. QED
      BY <1>4, <2>2, SoleContextKept
  <1>5. QED
    BY <1>1, <1>2, <1>3, <1>4 DEF OneContext

-----------------------------------------------------------------------------
(* No call is forgotten. *)

(* Whoever takes a message out of the round settles its call, captures it  *)
(* or makes it the call of the turn.                                       *)
LEMMA RoundUse ==
    ASSUME TypeOK, ~Snapshot, [Next]_vars, NEW x \in Isolates
    PROVE  \/ round'[x] = round[x] \/ round[x].context \notin pending'
           \/ HandlerCaptures(x) \/ HandlerAnswers(x)
  <1> DEFINE RoundUsed == \/ round'[x] = round[x] \/ round[x].context \notin pending'
                          \/ HandlerCaptures(x) \/ HandlerAnswers(x)
  <1>1. ASSUME NEW i \in Isolates, HostSend(i) PROVE RoundUsed
    BY <1>1 DEF HostSend, queues
  <1>2. ASSUME NEW c \in CallIds, DeadlinePasses(c) PROVE RoundUsed
    BY <1>2 DEF DeadlinePasses, queues
  <1>3. ASSUME BeginStep PROVE RoundUsed
    BY <1>3 DEF BeginStep, queues
  <1>4. ASSUME Snapshot PROVE RoundUsed
    BY <1>4
  <1>5. ASSUME EndDelivery PROVE RoundUsed
    BY <1>5 DEF EndDelivery, queues
  <1>6. ASSUME NEW c \in CallIds, HarvestTimeout(c) PROVE RoundUsed
    BY <1>6 DEF HarvestTimeout, queues
  <1>7. ASSUME NEW i \in Isolates, HandlerPanics(i) PROVE RoundUsed
    BY <1>7 DEF HandlerPanics, Take, Complete, CompleteFrom, SettleFrom, TypeOK
  <1>8. ASSUME NEW i \in Isolates, HandlerCaptures(i) PROVE RoundUsed
    BY <1>8 DEF HandlerCaptures, Take, TypeOK
  <1>9. ASSUME NEW i \in Isolates, HandlerAnswers(i) PROVE RoundUsed
    BY <1>9 DEF HandlerAnswers, Take, TypeOK
  <1>10. ASSUME NEW i \in Isolates, HandlerAbandons(i) PROVE RoundUsed
    BY <1>10 DEF HandlerAbandons, Take, Complete, CompleteFrom, SettleFrom,
       TypeOK
  <1>11. ASSUME NEW j \in Isolates, Send(j) PROVE RoundUsed
    BY <1>11 DEF Send, queues
  <1>12. ASSUME NEW j \in Isolates, Call(j) PROVE RoundUsed
    BY <1>12 DEF Call, queues
  <1>13. ASSUME NEW c \in CallIds, CancelCall(c) PROVE RoundUsed
    BY <1>13 DEF CancelCall, queues
  <1>14. ASSUME Answer PROVE RoundUsed
    BY <1>14 DEF Answer, queues
  <1>15. ASSUME NEW s \in SlotIds, DropHandle(s) PROVE RoundUsed
    BY <1>15 DEF DropHandle, queues
  <1>16. ASSUME NEW s \in SlotIds, NEW typed \in BOOLEAN, ReplyTo(s, typed)
         PROVE  RoundUsed
    BY <1>16 DEF ReplyTo, queues
  <1>17. ASSUME NEW b \in BOOLEAN, Spawn(b) PROVE RoundUsed
    BY <1>17 DEF Spawn, queues
  <1>18. ASSUME NEW b \in BOOLEAN, SpawnObserved(b) PROVE RoundUsed
    BY <1>18 DEF SpawnObserved, queues
  <1>19. ASSUME NEW b \in BOOLEAN, Stop(b) PROVE RoundUsed
    BY <1>19 DEF Stop, queues
  <1>20. ASSUME StopChildren PROVE RoundUsed
    BY <1>20 DEF StopChildren, queues
  <1>21. ASSUME EndTurn PROVE RoundUsed
    BY <1>21 DEF EndTurn, queues
  <1>22. ASSUME StopEntry PROVE RoundUsed
    BY <1>22 DEF StopEntry, queues
  <1>23. ASSUME CancelOwnCall PROVE RoundUsed
    BY <1>23 DEF CancelOwnCall, queues
  <1>24. ASSUME DropCollected PROVE RoundUsed
    BY <1>24, VictimTyped DEF DropCollected, Take, Complete, CompleteFrom,
       SettleFrom, TypeOK
  <1>25. ASSUME DrainMessage PROVE RoundUsed
    BY <1>25 DEF DrainMessage, queues
  <1>26. ASSUME EndStop PROVE RoundUsed
    BY <1>26 DEF EndStop, queues
  <1>27. ASSUME NEW s \in SlotIds, CloseOwnSlot(s) PROVE RoundUsed
    BY <1>27 DEF CloseOwnSlot, queues
  <1>28. ASSUME NEW s \in SlotIds, SweepSlot(s) PROVE RoundUsed
    BY <1>28 DEF SweepSlot, queues
  <1>29. ASSUME CollectEntry PROVE RoundUsed
    BY <1>29 DEF CollectEntry, queues
  <1>30. ASSUME EndStep PROVE RoundUsed
    BY <1>30 DEF EndStep, queues
  <1>31. CASE UNCHANGED vars
    BY <1>31 DEF vars, queues
  <1>32. ASSUME NEW i \in Isolates, Supervise(i) PROVE RoundUsed
    BY <1>32 DEF Supervise, queues
  <1>33. QED
    BY <1>1, <1>2, <1>3, <1>4, <1>5, <1>6, <1>7, <1>8, <1>9, <1>10, <1>11,
       <1>12, <1>13, <1>14, <1>15, <1>16, <1>17, <1>18, <1>19, <1>20, <1>21,
       <1>22, <1>23, <1>24, <1>25, <1>26, <1>27, <1>28, <1>29, <1>30, <1>31,
       <1>32 DEF Next, Step, Handle, ExecuteEffect, StopSteps

(* A request that is queued stays in its queue until a round collects it   *)
(* or the drain of a stopping isolate settles it.                          *)
LEMMA PutKeeps ==
    ASSUME NEW mb, NEW cx \in [Isolates -> Seq(Contexts)], Put(mb, cx),
           NEW i \in Isolates, NEW k \in DOMAIN cx[i]
    PROVE  k \in DOMAIN callContexts'[i] /\ callContexts'[i][k] = cx[i][k]
  BY EnqueueAt DEF Put

(* The snapshot leaves a context in its lane or moves it into the round. *)
LEMMA SnapshotTakes ==
    ASSUME TypeOK, Snapshot, NEW i \in Isolates, NEW k \in DOMAIN callContexts[i], NEW c,
           callContexts[i][k] = c
    PROVE  Queued(c, i)' \/ round'[i].context = c
  <1>1. callContexts[i] \in Seq(Contexts)
    BY DEF TypeOK
  <1>2. CASE ~(Open(i) /\ FromMailbox(i))
    <2>1. callContexts'[i] = callContexts[i]
      BY <1>2 DEF Snapshot
    <2>2. QED
      BY <2>1 DEF Queued
  <1>3. CASE Open(i) /\ FromMailbox(i) /\ k = 1
    <2>1. round'[i] = Front(i)
      BY <1>3 DEF Snapshot, FromMailbox, HasMessage
    <2>2. Front(i).context = callContexts[i][1]
      <3>1. HasMessage(i) /\ overflow[i] = <<>> /\ callContexts[i] # <<>>
        BY <1>1, <1>3 DEF HasMessage, FromMailbox
      <3>2. QED
        BY <3>1, FrontContext
    <2>3. QED
      BY <1>3, <2>1, <2>2
  <1>4. CASE Open(i) /\ FromMailbox(i) /\ k # 1
    <2>1. callContexts'[i] = Rest(callContexts[i])
      BY <1>4 DEF Snapshot
    <2>2. k - 1 \in DOMAIN callContexts'[i] /\ callContexts'[i][k - 1] = callContexts[i][k]
      BY <1>1, <1>4, <2>1, RestAt
    <2>3. QED
      BY <2>2 DEF Queued
  <1>5. QED
    BY <1>2, <1>3, <1>4

(* The drain settles the call in front and leaves the others in their lane. *)
LEMMA DrainTakes ==
    ASSUME TypeOK, TakesFromMailbox, NEW i \in Isolates, NEW k \in DOMAIN callContexts[i], NEW c \in pending',
           callContexts[i][k] = c
    PROVE  Queued(c, i)'
  <1> DEFINE mb == [mailbox EXCEPT ![Victim] = Tail(@)]
             cx == [callContexts EXCEPT ![Victim] = Rest(@)]
  <1>0. callContexts \in [Isolates -> Seq(Contexts)] /\ callContexts[i] \in Seq(Contexts)
    BY DEF TypeOK
  <1>1. Victim \in Isolates /\ FromMailbox(Victim) /\ Put(mb, cx)
    BY VictimTyped DEF TakesFromMailbox
  <1>2. cx \in [Isolates -> Seq(Contexts)]
    BY <1>0, <1>1, TailTyped
  <1>3. i # Victim => cx[i] = callContexts[i]
    BY <1>0
  <1>4. i = Victim => cx[i] = Rest(callContexts[i])
    BY <1>0
  <1>5. ~(i = Victim /\ k = 1)
    <2>1. SUFFICES ASSUME i = Victim, k = 1 PROVE FALSE
      OBVIOUS
    <2>2. HasMessage(i) /\ overflow[i] = <<>> /\ callContexts[i] # <<>>
      BY <1>0, <1>1, <2>1 DEF HasMessage, FromMailbox
    <2>3. Front(i).context = c
      BY <2>1, <2>2, FrontContext
    <2>4. CompleteFrom(mb, cx, Front(Victim).context)
      BY <1>1 DEF TakesFromMailbox, DrainMessage
    <2>5. c \notin pending'
      BY <2>1, <2>3, <2>4 DEF CompleteFrom, SettleFrom
    <2>6. QED
      BY <2>5
  <1> HIDE DEF mb, cx
  <1>6. PICK n \in DOMAIN cx[i] : cx[i][n] = c
    <2>1. CASE i = Victim
      BY <1>0, <1>4, <1>5, <2>1, RestAt
    <2>2. CASE i # Victim
      BY <1>3, <2>2
    <2>3. QED
      BY <2>1, <2>2
  <1>7. QED
    BY <1>1, <1>2, <1>6, PutKeeps DEF Queued

(* A queued call stays answerable. *)
LEMMA QueuedKept ==
    ASSUME TypeOK, ContextsCovered, QueueStep, [Next]_vars,
           NEW c \in pending', NEW i \in Isolates, RunsOrCloses(i), Queued(c, i)
    PROVE  Answerable(c)'
  <1>0. callContexts \in [Isolates -> Seq(Contexts)] /\ callContexts[i] \in Seq(Contexts)
    BY DEF TypeOK
  <1>1. PICK k \in DOMAIN callContexts[i] : callContexts[i][k] = c
    BY DEF Queued
  <1>2. RunsOrCloses(i)'
    <2>1. ASSUME EndStop, i = Victim PROVE FALSE
      <3>1. mailbox[i] = <<>>
        BY <2>1 DEF EndStop, HasMessage
      <3>2. Len(callContexts[i]) <= 0
        BY <3>1 DEF ContextsCovered
      <3>3. QED
        BY <1>0, <1>1, <3>2
    <2>2. QED
      BY <2>1, RunsKept
  <1>3. Queued(c, i)' \/ round'[i].context = c
    <2>1. CASE Put(mailbox, callContexts)
      BY <1>0, <1>1, <2>1, PutKeeps DEF Queued
    <2>2. CASE Snapshot
      BY <1>1, <2>2, SnapshotTakes
    <2>3. CASE TakesFromMailbox
      BY <1>1, <2>3, DrainTakes
    <2>4. CASE Bootstraps
      <3>1. nextIsolate \in Isolates /\ callContexts' = Enqueue(callContexts, nextIsolate, NoCall)
        BY <2>4 DEF Bootstraps
      <3>2. NoCall \in Contexts
        BY DEF Contexts
      <3>3. k \in DOMAIN callContexts'[i] /\ callContexts'[i][k] = c
        BY <1>0, <1>1, <3>1, <3>2, EnqueueAt
      <3>4. QED
        BY <3>3 DEF Queued
    <2>5. CASE TellsParent
      BY <1>1, <2>5 DEF TellsParent, Queued
    <2>6. QED
      BY <2>1, <2>2, <2>3, <2>4, <2>5 DEF QueueStep
  <1>4. QED
    BY <1>2, <1>3 DEF Answerable

(* A call whose message is in the round stays answerable. *)
LEMMA RoundCallKept ==
    ASSUME TypeOK, TurnOwned, RoundLive, RoundOver, OneContext, [Next]_vars,
           NEW c \in pending, c \in pending', NEW i \in Isolates, round[i].context = c
    PROVE  Answerable(c)'
  <1>1. ~Snapshot
    BY DEF RoundOver, Snapshot, Nothing, Delivered, TypeOK, CallIds, NoCall
  <1>2. CASE round'[i] = round[i]
    BY <1>2 DEF Answerable
  <1>3. CASE HandlerCaptures(i)
    <2>1. /\ nextSlot \in SlotIds
          /\ slot'[nextSlot] = [call |-> round[i].context, owner |-> i,
                                state |-> IF round[i].context \in pending THEN "Open" ELSE "Closed"]
      BY <1>3, CaptureOpens
    <2>2. slot'[nextSlot].call = c /\ slot'[nextSlot].state = "Open"
      BY <2>1
    <2>3. QED
      BY <2>1, <2>2 DEF Answerable
  <1>4. CASE HandlerAnswers(i)
    BY <1>4 DEF HandlerAnswers, Begin, Answerable
  <1>5. QED
    BY <1>1, <1>2, <1>3, <1>4, RoundUse

(* Every step keeps NoOrphanCall. *)
LEMMA NoOrphanKept ==
    ASSUME TypeOK, TurnOwned, RoundLive, RoundOver, CallsFresh, ContextsCovered, OneContext, NoOrphanCall,
           QueueStep, ContextStep, CallStep, SlotStep, [Next]_vars
    PROVE  NoOrphanCall'
  <1>1. ASSUME NEW c \in pending', c \notin pending PROVE Answerable(c)'
    <2>1. c = nextCall /\ Dispatches
      BY <1>1, CallIdsGrow
    <2>2. PICK j \in Isolates : Accepts(j) /\ callContexts' = Enqueue(callContexts, j, c)
      BY <1>1, <2>1, DispatchMoves
    <2>3. pc = "effects" /\ c \in Contexts
      BY <2>1, DispatchMoves DEF Contexts
    <2>4. RunsOrCloses(j)'
      BY <2>2, <2>3, RunsKept DEF RunsOrCloses, Accepts, EndStop
    <2>5. Queued(c, j)'
      <3>1. callContexts \in [Isolates -> Seq(Contexts)]
        BY DEF TypeOK
      <3>2. /\ Len(callContexts[j]) + 1 \in DOMAIN callContexts'[j]
            /\ callContexts'[j][Len(callContexts[j]) + 1] = c
        BY <2>2, <2>3, <3>1, EnqueueAt
      <3>3. QED
        BY <3>2 DEF Queued
    <2>6. QED
      BY <2>4, <2>5 DEF Answerable
  <1>2. ASSUME NEW c \in pending', c \in pending PROVE Answerable(c)'
    <2>0. c # NoCall
      BY <1>2 DEF TypeOK, CallIds, NoCall
    <2>1. CASE \E i \in Isolates : RunsOrCloses(i) /\ Queued(c, i)
      BY <2>1, QueuedKept
    <2>2. CASE \E i \in Isolates : round[i].context = c
      BY <1>2, <2>2, RoundCallKept
    <2>3. CASE context = c
      <3>1. context' = c
        BY <1>2, <2>0, <2>3 DEF ContextStep
      <3>2. QED
        BY <3>1 DEF Answerable
    <2>4. ASSUME NEW s \in SlotIds, slot[s].call = c, slot[s].state \in {"Open", "Closed"}
          PROVE  Answerable(c)'
      <3>1. ~\E i \in Isolates : HandlerCaptures(i) /\ s = nextSlot
        BY <2>0, <2>4 DEF CallsFresh, TypeOK
      <3>2. slot'[s].call = c /\ slot'[s].state \in {"Open", "Closed"}
        BY <2>4, <3>1 DEF SlotStep
      <3>3. QED
        BY <3>2 DEF Answerable
    <2>5. QED
      BY <1>2, <2>1, <2>2, <2>3, <2>4 DEF NoOrphanCall, Answerable
  <1>3. QED
    BY <1>1, <1>2 DEF NoOrphanCall

-----------------------------------------------------------------------------
(* The invariant, and what follows from it. *)

(* The runtime starts with its roots registered and nothing else. *)
LEMMA RuntimeInit == Init => RuntimeInvariant
  <1> SUFFICES ASSUME Init PROVE RuntimeInvariant
    OBVIOUS
  <1>1. /\ Isolates = 1..MaxIsolates /\ CallIds = 1..MaxCalls /\ SlotIds = 1..MaxSlots
        /\ NoCall = 0 /\ NoIsolate = 0 /\ Contexts = CallIds \cup {0}
    BY DEF Isolates, CallIds, SlotIds, NoCall, NoIsolate, Contexts
  <1>2. TypeOK
    <2>1. TypeControl
      <3>1. pc = "idle" /\ victims = {} /\ result \in BOOLEAN
        BY DEF Init
      <3>2. current = 0 /\ context = 0 /\ left \in 0..MaxEffects
        BY <1>1, BoundsAssumption DEF Init
      <3>3. QED
        BY <1>1, <3>1, <3>2 DEF TypeControl
    <2>2. TypeTree
      BY <1>1, BoundsAssumption DEF Init, TypeTree
    <2>3. TypeLanes
      BY <1>1 DEF Init, TypeLanes
    <2>4. TypeCalls
      BY <1>1, BoundsAssumption DEF Init, TypeCalls
    <2>5. TypeSlots
      BY <1>1, BoundsAssumption DEF Init, TypeSlots
    <2>6. TypeRing /\ MailboxType
      BY <1>1 DEF Init, TypeRing, MailboxType
    <2>7. QED
      BY <2>1, <2>2, <2>3, <2>4, <2>5, <2>6 DEF TypeOK, TypeControl, TypeTree, TypeLanes,
         TypeCalls, TypeSlots, TypeRing, Causes, MailboxType
  <1>3. SettledOnce
    BY <1>1, <1>2, BoundsAssumption DEF Init, SettledOnce
  <1>4. OwnersAlive /\ NoOrphanCall
    BY DEF Init, OwnersAlive, OwnersLive, OpenSlotsLive, NoOrphanCall
  <1>5. RingTruth
    BY RingAssumption DEF Init, RingTruth
  <1>6. ReservationsHonoured
    <2>1. \A i \in Isolates : {j \in observed : parent[j] = i} = {}
      BY DEF Init
    <2>2. QED
      BY <2>1, FS_EmptySet, CapacityAssumption DEF Init, ReservationsHonoured
  <1>7. RoundLive /\ RoundOver
    BY DEF Init, RoundLive, RoundOver
  <1>8. TurnOwned
    BY DEF Init, TurnOwned
  <1>9. IsolatesFresh
    <2>1. \A i \in Registered : i < nextIsolate
      BY BoundsAssumption DEF Init, Registered
    <2>2. QED
      BY <1>1, <2>1, BoundsAssumption DEF Init, IsolatesFresh
  <1>10. CallsFresh
    BY <1>1, BoundsAssumption DEF Init, CallsFresh, Nothing, Delivered
  <1>11. ContextsCovered /\ OneContext
    BY DEF Init, ContextsCovered, OneContext
  <1>12. QED
    BY <1>3, <1>4, <1>5, <1>6, <1>7, <1>8, <1>9, <1>10, <1>11 DEF RuntimeInvariant

(* The invariant is inductive. *)
LEMMA RuntimeStep ==
    ASSUME RuntimeInvariant, [Next]_vars
    PROVE  RuntimeInvariant'
  <1>1. /\ TypeOK /\ SettledOnce /\ OwnersLive /\ OpenSlotsLive /\ NoOrphanCall /\ RingTruth
        /\ ReservationsHonoured /\ RoundLive /\ TurnOwned /\ IsolatesFresh /\ CallsFresh
        /\ RoundOver /\ ContextsCovered /\ OneContext
    BY DEF RuntimeInvariant, SettledOnce, OwnersAlive
  <1>2. Settlement
    BY <1>1 DEF SettledOnce, CallsFresh, Settlement
  <1>3. TypeOK'
    BY <1>1, TypeKept
  <1>4. QueueStep /\ CallStep /\ RingStep /\ ContextStep /\ OverflowStep /\ SlotStep
    BY <1>1, QueueMoves, CallMoves, ContextMoves, OverflowMoves, SlotMoves
  <1>5. Settlement' /\ RingTruth'
    BY <1>1, <1>2, <1>4, SettlementKept, RingTruthKept
  <1>6. SettledOnce'
    BY <1>3, <1>5 DEF SettledOnce, Settlement
  <1>7. OwnersLive' /\ OpenSlotsLive'
    BY <1>1, <1>2, <1>4, OwnersLiveKept, OpenSlotsKept
  <1>8. ReservationsHonoured' /\ IsolatesFresh' /\ ContextsCovered'
    BY <1>1, <1>3, <1>4, ReservationsKept, IsolatesFreshKept, ContextsCoveredKept
  <1>9. TurnOwned' /\ RoundLive' /\ RoundOver'
    BY <1>1, TurnOwnedKept, RoundLiveKept, RoundOverKept
  <1>10. CallsFresh'
    BY <1>1, <1>3, <1>4, <1>5, CallsFreshKept
  <1>11. OneContext'
    BY <1>1, <1>2, <1>3, <1>4, OneContextKept
  <1>12. NoOrphanCall'
    BY <1>1, <1>4, NoOrphanKept
  <1>13. QED
    BY <1>5, <1>6, <1>7, <1>8, <1>9, <1>10, <1>11, <1>12 DEF RuntimeInvariant, OwnersAlive

(* In every reachable state of the single-shard runtime, for any number of *)
(* isolates, calls, captured replies and effects: the conjunction of the   *)
(* properties below and of the facts about ids, turns and contexts they    *)
(* rest on.                                                                *)
THEOREM RuntimeInvariance == Spec => []RuntimeInvariant
  <1>1. RuntimeInvariant /\ [Next]_vars => RuntimeInvariant'
    BY RuntimeStep
  <1>2. QED
    BY <1>1, RuntimeInit, PTL DEF Spec

(* Every call is settled exactly once: by a reply, reject, abandonment,    *)
(* panic, dropped reply, timeout, cancel or owner stop, whichever comes    *)
(* first, and its requester is told at most once.                          *)
THEOREM CallsSettledOnce == Spec => []SettledOnce
  <1>1. RuntimeInvariant => SettledOnce
    BY DEF RuntimeInvariant
  <1>2. QED
    BY <1>1, RuntimeInvariance, PTL

(* A pending call has a requester that runs or is being closed, and an     *)
(* open captured reply a pending call, a live owner and no rival.          *)
THEOREM OwnersStayAlive == Spec => []OwnersAlive
  <1>1. RuntimeInvariant => OwnersAlive
    BY DEF RuntimeInvariant
  <1>2. QED
    BY <1>1, RuntimeInvariance, PTL

(* No pending call is forgotten: its context is queued at an isolate that  *)
(* runs, in the round, with the turn at work or in a captured reply.       *)
THEOREM CallsStayAnswerable == Spec => []NoOrphanCall
  <1>1. RuntimeInvariant => NoOrphanCall
    BY DEF RuntimeInvariant
  <1>2. QED
    BY <1>1, RuntimeInvariance, PTL

(* The late-reply ring never exceeds its capacity and never names a call   *)
(* that is still pending, names one twice or misstates its cause.          *)
THEOREM RingTellsTruth == Spec => []RingTruth
  <1>1. RuntimeInvariant => RingTruth
    BY DEF RuntimeInvariant
  <1>2. QED
    BY <1>1, RuntimeInvariance, PTL

(* A mailbox slot reserved for the end of an observed child is never given *)
(* to another message, and its parent outlives the observation.            *)
THEOREM ReservationsSafe == Spec => []ReservationsHonoured
  <1>1. RuntimeInvariant => ReservationsHonoured
    BY DEF RuntimeInvariant
  <1>2. QED
    BY <1>1, RuntimeInvariance, PTL

(* A message collected for the round belongs to an isolate that runs or is *)
(* being closed, so the delivery loop never meets a stopped entry.         *)
THEOREM RoundStaysLive == Spec => []RoundLive
  <1>1. RuntimeInvariant => RoundLive
    BY DEF RuntimeInvariant
  <1>2. QED
    BY <1>1, RuntimeInvariance, PTL

(* The context that settles a pending call is never in two places.         *)
THEOREM ContextsUnique == Spec => []OneContext
  <1>1. RuntimeInvariant => OneContext
    BY DEF RuntimeInvariant
  <1>2. QED
    BY <1>1, RuntimeInvariance, PTL

(* What is over stays over: a step that leaves a call's handle settled or  *)
(* cancelled keeps the outcome, and a captured reply that was closed or    *)
(* used is never open again, though ids come from one counter and the      *)
(* table entries are removed.                                              *)
OutcomesFinal ==
    /\ \A c \in CallIds : handle[c] # "Pending" => handle'[c] = handle[c] /\ c \notin pending'
    /\ \A s \in SlotIds : s < nextSlot /\ slot[s].state # "Open" =>
          slot'[s].state # "Open" /\ slot'[s].call = slot[s].call

(* No step of the runtime changes the outcome of a call or reopens a       *)
(* captured reply (CallHandleShared::set_state, MessageCaller).            *)
THEOREM OutcomesStayFinal == Spec => [][OutcomesFinal]_vars
  <1>1. RuntimeInvariant /\ RuntimeInvariant' /\ [Next]_vars => [OutcomesFinal]_vars
    <2> SUFFICES ASSUME RuntimeInvariant, RuntimeInvariant', [Next]_vars
                 PROVE  OutcomesFinal
      OBVIOUS
    <2>1. /\ TypeOK /\ SettledOnce /\ SettledOnce' /\ CallsFresh /\ TurnOwned /\ OpenSlotsLive
          /\ OneContext
      BY DEF RuntimeInvariant, SettledOnce, OwnersAlive
    <2>2. Settlement
      BY <2>1 DEF SettledOnce, CallsFresh, Settlement
    <2>3. CallStep /\ SlotStep
      BY <2>1, CallMoves, SlotMoves
    <2>4. ASSUME NEW c \in CallIds, handle[c] # "Pending" PROVE handle'[c] = handle[c]
      <3>1. c \notin pending /\ c < nextCall
        BY <2>1, <2>2, <2>4 DEF Settlement, TypeOK, CallIds
      <3>2. CASE Dispatches
        BY <2>1, <3>1, <3>2, DispatchMoves DEF TypeOK
      <3>3. CASE ~Dispatches
        BY <2>1, <2>3, <3>1, <3>3 DEF CallStep, CallsSame, Ends, TypeOK
      <3>4. QED
        BY <3>2, <3>3
    <2>5. ASSUME NEW c \in CallIds, handle[c] # "Pending" PROVE c \notin pending'
      BY <2>1, <2>4, <2>5 DEF SettledOnce
    <2>6. ASSUME NEW s \in SlotIds, s < nextSlot, slot[s].state # "Open"
          PROVE  slot'[s].state # "Open" /\ slot'[s].call = slot[s].call
      BY <2>1, <2>3, <2>6 DEF SlotStep, TypeOK, SlotIds
    <2>7. QED
      BY <2>4, <2>5, <2>6 DEF OutcomesFinal
  <1>2. QED
    BY <1>1, RuntimeInvariance, PTL DEF Spec
=============================================================================
