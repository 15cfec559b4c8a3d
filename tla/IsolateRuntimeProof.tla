------------------------ MODULE IsolateRuntimeProof -------------------------
(* First half of the proof that the single-shard runtime keeps             *)
(* RuntimeInvariant: what does not depend on where the contexts of the     *)
(* calls are.                                                              *)
(*                                                                         *)
(* The thirty actions are taken apart once for each group of variables. The*)
(* lemmas named ...Moves state what any step may do to a group: QueueStep  *)
(* says that a step changes the mailboxes and the lanes of contexts beside *)
(* them by one of five moves (an enqueue at an isolate that accepts, the   *)
(* snapshot, the drain of a stopping isolate, a bootstrap message, a       *)
(* child's terminal message). The invariance lemmas, named ...Kept, then   *)
(* argue over those moves.                                                 *)
(*                                                                         *)
(* IsolateCallProof goes on from here.                                     *)
EXTENDS IsolateRuntime, SequenceTheorems, FiniteSetTheorems, WellFoundedInduction, TLAPS

-----------------------------------------------------------------------------
(* Facts about the operators of the model. *)

(* Least returns a member of its set, below all the others. *)
LEMMA LeastIn ==
    ASSUME NEW S \in SUBSET Nat, S # {}
    PROVE  Least(S) \in S /\ \A y \in S : Least(S) <= y
  <1>1. PICK x \in S : \A y \in S : ~ (<<y, x>> \in OpToRel(<, Nat))
    BY WFMin, NatLessThanWellFounded, Zenon
  <1>2. \A y \in Nat : y < x => <<y, x>> \in OpToRel(<, Nat)
    BY Zenon DEF OpToRel
  <1>3. \A y \in S : ~ (y < x)
    BY <1>1, <1>2
  <1>4. \A y \in S : x <= y
    BY <1>3
  <1>5. QED
    BY <1>4 DEF Least

(* A delivered message carries its context, and is not the empty one. *)
LEMMA DeliveredShape ==
    /\ Nothing.context = NoCall /\ Nothing.message.kind = "none"
    /\ \A d \in DeliveredMessages : d.context \in Contexts /\ d # Nothing
    /\ \A m \in Message, x \in Contexts :
          Delivered(m, x) \in DeliveredMessages /\ Delivered(m, x).context = x
  BY DEF Nothing, Delivered, DeliveredMessages, Contexts, Message, Plain,
         Continuation, Request, NoCall

(* A message has its kind and its call. *)
LEMMA MessagesTyped ==
    Plain \in Message /\ Continuation \in Message /\ \A c \in CallIds : Request(c) \in Message
  BY DEF Message

(* What recv_entry_message returns is a message with its context. *)
LEMMA FrontTyped ==
    ASSUME TypeOK, NEW i \in Isolates, HasMessage(i)
    PROVE  Front(i) \in DeliveredMessages
  <1>1. CASE overflow[i] # <<>>
    <2>1. overflow[i] \in Seq(DeliveredMessages)
      BY DEF TypeOK
    <2>2. QED
      BY <1>1, <2>1 DEF Front
  <1>2. CASE overflow[i] = <<>>
    <2>1. mailbox[i] \in Seq(Message) /\ mailbox[i] # <<>> /\ callContexts[i] \in Seq(Contexts)
      BY <1>2 DEF TypeOK, HasMessage
    <2>2. Head(mailbox[i]) \in Message
      BY <2>1
    <2>3. (IF callContexts[i] = <<>> THEN NoCall ELSE Head(callContexts[i])) \in Contexts
      BY <2>1 DEF Contexts
    <2>4. QED
      BY <1>2, <2>2, <2>3, DeliveredShape DEF Front
  <1>3. QED
    BY <1>1, <1>2

(* An open mailbox belongs to an isolate. *)
LEMMA OpenTyped ==
    ASSUME TypeOK, NEW i, Open(i)
    PROVE  i \in Isolates
  BY DEF TypeOK, Open, Registered

(* What is being stopped is one of the victims. *)
LEMMA VictimTyped ==
    ASSUME TypeOK, pc \in {"stop", "close"}
    PROVE  Victim \in victims /\ Victim \in Isolates
  <1>1. victims \in SUBSET Nat /\ victims # {}
    BY DEF TypeOK, Isolates
  <1>2. QED
    BY <1>1, LeastIn DEF Victim, TypeOK

(* The isolate the delivery loop comes to has a message of the round. *)
LEMMA NextTyped ==
    ASSUME TypeOK, NEW i \in Isolates, IsNext(i)
    PROVE  /\ pc = "deliver" /\ round[i] # Nothing
           /\ round[i] \in DeliveredMessages /\ round[i].context \in Contexts
  <1>1. Undelivered \in SUBSET Nat /\ Undelivered # {}
    BY DEF IsNext, Undelivered, TypeOK, Isolates
  <1>2. Least(Undelivered) \in Undelivered
    BY <1>1, LeastIn
  <1>3. pc = "deliver" /\ round[i] # Nothing
    BY <1>2 DEF IsNext, Undelivered
  <1>4. QED
    BY <1>3, DeliveredShape DEF TypeOK

(* Appending to one queue of an array of queues. *)
LEMMA EnqueueTyped ==
    ASSUME NEW S, NEW q \in [Isolates -> Seq(S)], NEW i \in Isolates, NEW m \in S
    PROVE  Enqueue(q, i, m) \in [Isolates -> Seq(S)]
  BY DEF Enqueue

(* complete_isolate_call, in one form: the call leaves the table, and its  *)
(* requester is told if it accepts a message.                              *)
LEMMA CompleteCases ==
    ASSUME TypeOK, NEW mb, NEW cx, NEW c, CompleteFrom(mb, cx, c)
    PROVE  /\ pending' = pending \ {c} /\ due' = due \ {c}
           /\ \/ c \notin pending /\ handle' = handle
              \/ c \in pending /\ handle' = [handle EXCEPT ![c] = "Settled"]
           /\ \/ mailbox' = mb /\ callContexts' = cx /\ told' = told
              \/ /\ c \in pending
                 /\ told' = [told EXCEPT ![c] = @ + 1]
                 /\ requester[c] \in Isolates /\ Accepts(requester[c])
                 /\ mailbox' = Enqueue(mb, requester[c], Continuation)
                 /\ callContexts' = Enqueue(cx, requester[c], continuation[c])
  <1>1. CASE c \in pending /\ SettleFrom(mb, cx, c)
    <2>1. Accepts(requester[c]) => requester[c] \in Isolates
      BY OpenTyped DEF Accepts
    <2>2. QED
      BY <1>1, <2>1 DEF SettleFrom
  <1>2. CASE c \notin pending /\ mailbox' = mb /\ callContexts' = cx
             /\ UNCHANGED <<pending, due, handle, told>>
    BY <1>2 DEF TypeOK
  <1>3. QED
    BY <1>1, <1>2 DEF CompleteFrom

-----------------------------------------------------------------------------
(* Type correctness, by the groups of variables. *)

TypeControl ==
    /\ pc \in {"idle", "harvest", "deliver", "effects", "stop", "close", "sweep"}
    /\ current \in Isolates \cup {NoIsolate}
    /\ pc \in {"effects", "stop", "close"} => current \in Isolates
    /\ victims \subseteq Isolates
    /\ victims # {} <=> pc \in {"stop", "close"}
    /\ context \in Contexts /\ left \in 0..MaxEffects /\ result \in BOOLEAN

(* A turn begins, and ends, in a well-typed state. *)
LEMMA BeginTyped ==
    ASSUME TypeOK, NEW i \in Isolates, NEW x \in Contexts, Begin(i, x), pc = "deliver"
    PROVE  TypeControl'
  <1>1. result' \in BOOLEAN /\ context' \in Contexts /\ current' \in Isolates
    BY DEF Begin, TypeOK
  <1>2. left' \in 0..MaxEffects
    BY BoundsAssumption DEF Begin
  <1>3. victims' \subseteq Isolates /\ (victims' # {} <=> pc' \in {"stop", "close"})
    BY DEF Begin, TypeOK
  <1>4. QED
    BY <1>1, <1>2, <1>3 DEF Begin, TypeControl

(* An effect keeps the types of the control variables. *)
LEMMA EffectTyped ==
    ASSUME TypeOK, Effect
    PROVE  TypeControl'
  <1>1. left \in Int /\ 1 <= left /\ left <= MaxEffects
    BY BoundsAssumption DEF Effect, TypeOK, NoCall
  <1>2. left' \in 0..MaxEffects
    BY <1>1, BoundsAssumption DEF Effect
  <1>3. QED
    BY <1>2 DEF TypeOK, TypeControl, Effect

(* So does the return to the delivery loop. *)
LEMMA ReturnTyped ==
    ASSUME Return
    PROVE  TypeControl'
  <1>1. left' \in 0..MaxEffects
    BY BoundsAssumption DEF Return
  <1>2. context' \in Contexts /\ result' \in BOOLEAN
    BY DEF Return, Contexts
  <1>3. QED
    BY <1>1, <1>2 DEF Return, TypeControl

(* Every step keeps the types of the control variables. *)
LEMMA TypeControlKept ==
    ASSUME TypeOK, TurnOwned, [Next]_vars
    PROVE  TypeControl'
  <1>1. ASSUME NEW i \in Isolates, HostSend(i) PROVE TypeControl'
    BY <1>1 DEF TypeOK, TypeControl, HostSend, control
  <1>2. ASSUME NEW c \in CallIds, DeadlinePasses(c) PROVE TypeControl'
    BY <1>2 DEF TypeOK, TypeControl, DeadlinePasses, control
  <1>3. ASSUME BeginStep PROVE TypeControl'
    BY <1>3 DEF TypeOK, TypeControl, BeginStep, control
  <1>4. ASSUME Snapshot PROVE TypeControl'
    BY <1>4 DEF TypeOK, TypeControl, Snapshot, control
  <1>5. ASSUME EndDelivery PROVE TypeControl'
    BY <1>5 DEF TypeOK, TypeControl, EndDelivery, control
  <1>6. ASSUME NEW c \in CallIds, HarvestTimeout(c) PROVE TypeControl'
    BY <1>6 DEF TypeOK, TypeControl, HarvestTimeout, control
  <1>7. ASSUME NEW i \in Isolates, HandlerPanics(i) PROVE TypeControl'
    BY <1>7, NextTyped DEF TypeOK, TypeControl, HandlerPanics
  <1>8. ASSUME NEW i \in Isolates, HandlerCaptures(i) PROVE TypeControl'
    BY <1>8, NextTyped, BeginTyped DEF HandlerCaptures, Contexts
  <1>9. ASSUME NEW i \in Isolates, HandlerAnswers(i) PROVE TypeControl'
    BY <1>9, NextTyped, BeginTyped DEF HandlerAnswers, Contexts
  <1>10. ASSUME NEW i \in Isolates, HandlerAbandons(i) PROVE TypeControl'
    BY <1>10, NextTyped, BeginTyped DEF HandlerAbandons, Contexts
  <1>11. ASSUME NEW j \in Isolates, Send(j) PROVE TypeControl'
    BY <1>11, EffectTyped DEF Send
  <1>12. ASSUME NEW j \in Isolates, Call(j) PROVE TypeControl'
    BY <1>12, EffectTyped DEF Call
  <1>13. ASSUME NEW c \in CallIds, CancelCall(c) PROVE TypeControl'
    BY <1>13, EffectTyped DEF CancelCall
  <1>14. ASSUME Answer PROVE TypeControl'
    BY <1>14, BoundsAssumption DEF TypeOK, TypeControl, Answer, TurnOwned,
       Contexts
  <1>15. ASSUME NEW s \in SlotIds, DropHandle(s) PROVE TypeControl'
    BY <1>15 DEF TypeOK, TypeControl, DropHandle, control
  <1>16. ASSUME NEW s \in SlotIds, NEW typed \in BOOLEAN, ReplyTo(s, typed)
         PROVE  TypeControl'
    BY <1>16, EffectTyped DEF ReplyTo
  <1>17. ASSUME NEW b \in BOOLEAN, Spawn(b) PROVE TypeControl'
    BY <1>17, EffectTyped DEF Spawn
  <1>18. ASSUME NEW b \in BOOLEAN, SpawnObserved(b) PROVE TypeControl'
    BY <1>18, EffectTyped DEF SpawnObserved
  <1>19. ASSUME NEW b \in BOOLEAN, Stop(b) PROVE TypeControl'
    <2>1. result' \in BOOLEAN /\ left' \in 0..MaxEffects
      BY <1>19, BoundsAssumption DEF Stop
    <2>2. QED
      BY <1>19, <2>1 DEF TypeOK, TypeControl, Stop
  <1>20. ASSUME StopChildren PROVE TypeControl'
    <2>1. left' \in 0..MaxEffects
      BY <1>20, BoundsAssumption DEF TypeOK, StopChildren, NoCall
    <2>2. QED
      BY <1>20, <2>1 DEF TypeOK, TypeControl, StopChildren
  <1>21. ASSUME EndTurn PROVE TypeControl'
    BY <1>21, ReturnTyped DEF EndTurn
  <1>22. ASSUME StopEntry PROVE TypeControl'
    BY <1>22 DEF TypeOK, TypeControl, StopEntry, control
  <1>23. ASSUME CancelOwnCall PROVE TypeControl'
    BY <1>23 DEF TypeOK, TypeControl, CancelOwnCall, control
  <1>24. ASSUME DropCollected PROVE TypeControl'
    BY <1>24 DEF TypeOK, TypeControl, DropCollected, control
  <1>25. ASSUME DrainMessage PROVE TypeControl'
    BY <1>25 DEF TypeOK, TypeControl, DrainMessage, control
  <1>26. ASSUME EndStop PROVE TypeControl'
    <2>1. Victim \in victims
      BY <1>26, VictimTyped DEF EndStop
    <2>2. CASE Return
      BY <2>2, ReturnTyped
    <2>3. CASE ~Return
      BY <1>26, <2>1, <2>3 DEF TypeOK, TypeControl, EndStop, Resume
    <2>4. QED
      BY <2>2, <2>3
  <1>27. ASSUME NEW s \in SlotIds, CloseOwnSlot(s) PROVE TypeControl'
    BY <1>27 DEF TypeOK, TypeControl, CloseOwnSlot, control
  <1>28. ASSUME NEW s \in SlotIds, SweepSlot(s) PROVE TypeControl'
    BY <1>28 DEF TypeOK, TypeControl, SweepSlot, control
  <1>29. ASSUME CollectEntry PROVE TypeControl'
    BY <1>29 DEF TypeOK, TypeControl, CollectEntry, control
  <1>30. ASSUME EndStep PROVE TypeControl'
    BY <1>30 DEF TypeOK, TypeControl, EndStep, control
  <1>31. CASE UNCHANGED vars
    BY <1>31 DEF TypeOK, TypeControl, vars, control
  <1>32. ASSUME NEW i \in Isolates, Supervise(i) PROVE TypeControl'
    BY <1>32 DEF TypeOK, TypeControl, Supervise, control
  <1>33. QED
    BY <1>1, <1>2, <1>3, <1>4, <1>5, <1>6, <1>7, <1>8, <1>9, <1>10, <1>11,
       <1>12, <1>13, <1>14, <1>15, <1>16, <1>17, <1>18, <1>19, <1>20, <1>21,
       <1>22, <1>23, <1>24, <1>25, <1>26, <1>27, <1>28, <1>29, <1>30, <1>31,
       <1>32 DEF Next, Step, Handle, ExecuteEffect, StopSteps

TypeTree ==
    /\ entries \in Seq(Isolates) /\ stopped \subseteq Isolates
    /\ nextIsolate \in 1..(MaxIsolates + 1)
    /\ parent \in [Isolates -> Isolates \cup {NoIsolate}] /\ observed \subseteq Isolates
    /\ supervised \subseteq Isolates

(* A registered isolate gets the next id and the last place. *)
LEMMA RegisterTyped ==
    ASSUME TypeOK, NEW p \in Isolates, Register(p)
    PROVE  /\ nextIsolate \in Isolates
           /\ entries' = Append(entries, nextIsolate)
           /\ nextIsolate' = nextIsolate + 1
           /\ entries' \in Seq(Isolates) /\ stopped' \subseteq Isolates
           /\ nextIsolate' \in 1..(MaxIsolates + 1)
           /\ parent' \in [Isolates -> Isolates \cup {NoIsolate}]
           /\ supervised' = supervised
  <1>1. nextIsolate \in Isolates
    BY BoundsAssumption DEF Register, TypeOK, Isolates
  <1>2. nextIsolate' \in 1..(MaxIsolates + 1)
    BY <1>1, BoundsAssumption DEF Register, Isolates
  <1>3. entries \in Seq(Isolates) /\ entries' = Append(entries, nextIsolate)
    BY DEF Register, TypeOK
  <1>4. entries' \in Seq(Isolates)
    BY <1>1, <1>3
  <1>5. QED
    BY <1>1, <1>2, <1>3, <1>4 DEF Register, TypeOK

(* swap_remove(k) keeps every element but the one at k. *)
LEMMA SwapRemoveKeeps ==
    ASSUME NEW S, NEW seq \in Seq(S), NEW k \in DOMAIN seq
    PROVE  /\ SwapRemove(seq, k) \in Seq(S)
           /\ \A n \in DOMAIN SwapRemove(seq, k) : \E m \in DOMAIN seq :
                 SwapRemove(seq, k)[n] = seq[m]
           /\ \A n \in DOMAIN seq : n # k => \E m \in DOMAIN SwapRemove(seq, k) :
                 SwapRemove(seq, k)[m] = seq[n]
  <1>1. Len(seq) \in Nat /\ Len(seq) >= 1 /\ DOMAIN seq = 1..Len(seq) /\ k \in 1..Len(seq)
    OBVIOUS
  <1>2. DOMAIN SwapRemove(seq, k) = 1..(Len(seq) - 1)
    BY DEF SwapRemove
  <1>3. \A n \in 1..(Len(seq) - 1) :
           SwapRemove(seq, k)[n] = IF n = k THEN seq[Len(seq)] ELSE seq[n]
    BY DEF SwapRemove
  <1>4. SwapRemove(seq, k) \in [1..(Len(seq) - 1) -> S]
    BY <1>1 DEF SwapRemove
  <1>5. SwapRemove(seq, k) \in Seq(S)
    BY <1>1, <1>4, SeqDef
  <1>6. \A n \in DOMAIN SwapRemove(seq, k) : \E m \in DOMAIN seq : SwapRemove(seq, k)[n] = seq[m]
    BY <1>1, <1>2, <1>3
  <1>7. ASSUME NEW n \in DOMAIN seq, n # k
        PROVE  \E m \in DOMAIN SwapRemove(seq, k) : SwapRemove(seq, k)[m] = seq[n]
    <2>1. CASE n = Len(seq)
      <3>1. k \in 1..(Len(seq) - 1)
        BY <1>1, <1>7, <2>1
      <3>2. QED
        BY <1>2, <1>3, <2>1, <3>1
    <2>2. CASE n # Len(seq)
      <3>1. n \in 1..(Len(seq) - 1)
        BY <1>1, <1>7, <2>2
      <3>2. QED
        BY <1>2, <1>3, <1>7, <3>1
    <2>3. QED
      BY <2>1, <2>2
  <1>8. QED
    BY <1>5, <1>6, <1>7

(* gc_stopped_entries: what is collected has stopped. *)
LEMMA CollectKeeps ==
    ASSUME TypeOK, CollectEntry
    PROVE  /\ entries' \in Seq(Isolates)
           /\ \A i : i \in Registered' => i \in Registered
           /\ \A i : Open(i) <=> Open(i)'
  <1> DEFINE k == Least(Collectable)
  <1>1. Collectable \in SUBSET Nat /\ Collectable # {}
    <2>1. entries \in Seq(Isolates) /\ Collectable # {}
      BY DEF TypeOK, CollectEntry
    <2>2. Collectable \subseteq DOMAIN entries /\ DOMAIN entries \subseteq Nat
      BY <2>1 DEF Collectable
    <2>3. QED
      BY <2>1, <2>2
  <1>2. k \in Collectable
    BY <1>1, LeastIn
  <1>3. k \in DOMAIN entries /\ entries[k] \in stopped
    BY <1>2 DEF Collectable, CanGc
  <1>4. entries \in Seq(Isolates) /\ entries' = SwapRemove(entries, k) /\ stopped' = stopped
    BY DEF CollectEntry, TypeOK
  <1> HIDE DEF k
  <1>5. \A i : i \in Registered' => i \in Registered
    BY <1>3, <1>4, SwapRemoveKeeps DEF Registered
  <1>6. ASSUME NEW i, Open(i)
        PROVE  Open(i)'
    <2>1. PICK n \in DOMAIN entries : entries[n] = i
      BY <1>6 DEF Open, Registered
    <2>2. n # k
      BY <1>3, <1>6, <2>1 DEF Open
    <2>3. \E m \in DOMAIN entries' : entries'[m] = i
      BY <1>3, <1>4, <2>1, <2>2, SwapRemoveKeeps
    <2>4. QED
      BY <1>4, <1>6, <2>3 DEF Open, Registered
  <1>7. entries' \in Seq(Isolates)
    BY <1>3, <1>4, SwapRemoveKeeps
  <1>8. QED
    BY <1>4, <1>5, <1>6, <1>7 DEF Open

(* Every step keeps the types of the entries and of the child records. *)
LEMMA TypeTreeKept ==
    ASSUME TypeOK, [Next]_vars
    PROVE  TypeTree'
  <1>1. ASSUME NEW i \in Isolates, HostSend(i) PROVE TypeTree'
    BY <1>1 DEF TypeOK, TypeTree, HostSend, tree
  <1>2. ASSUME NEW c \in CallIds, DeadlinePasses(c) PROVE TypeTree'
    BY <1>2 DEF TypeOK, TypeTree, DeadlinePasses, tree
  <1>3. ASSUME BeginStep PROVE TypeTree'
    BY <1>3 DEF TypeOK, TypeTree, BeginStep, tree
  <1>4. ASSUME Snapshot PROVE TypeTree'
    BY <1>4 DEF TypeOK, TypeTree, Snapshot, tree
  <1>5. ASSUME EndDelivery PROVE TypeTree'
    BY <1>5 DEF TypeOK, TypeTree, EndDelivery, tree
  <1>6. ASSUME NEW c \in CallIds, HarvestTimeout(c) PROVE TypeTree'
    BY <1>6 DEF TypeOK, TypeTree, HarvestTimeout, tree
  <1>7. ASSUME NEW i \in Isolates, HandlerPanics(i) PROVE TypeTree'
    BY <1>7 DEF TypeOK, TypeTree, HandlerPanics, tree
  <1>8. ASSUME NEW i \in Isolates, HandlerCaptures(i) PROVE TypeTree'
    BY <1>8 DEF TypeOK, TypeTree, HandlerCaptures, tree
  <1>9. ASSUME NEW i \in Isolates, HandlerAnswers(i) PROVE TypeTree'
    BY <1>9 DEF TypeOK, TypeTree, HandlerAnswers, tree
  <1>10. ASSUME NEW i \in Isolates, HandlerAbandons(i) PROVE TypeTree'
    BY <1>10 DEF TypeOK, TypeTree, HandlerAbandons, tree
  <1>11. ASSUME NEW j \in Isolates, Send(j) PROVE TypeTree'
    BY <1>11 DEF TypeOK, TypeTree, Send, tree
  <1>12. ASSUME NEW j \in Isolates, Call(j) PROVE TypeTree'
    BY <1>12 DEF TypeOK, TypeTree, Call, tree
  <1>13. ASSUME NEW c \in CallIds, CancelCall(c) PROVE TypeTree'
    BY <1>13 DEF TypeOK, TypeTree, CancelCall, tree
  <1>14. ASSUME Answer PROVE TypeTree'
    BY <1>14 DEF TypeOK, TypeTree, Answer, tree
  <1>15. ASSUME NEW s \in SlotIds, DropHandle(s) PROVE TypeTree'
    BY <1>15 DEF TypeOK, TypeTree, DropHandle, tree
  <1>16. ASSUME NEW s \in SlotIds, NEW typed \in BOOLEAN, ReplyTo(s, typed)
         PROVE  TypeTree'
    BY <1>16 DEF TypeOK, TypeTree, ReplyTo, tree
  <1>17. ASSUME NEW b \in BOOLEAN, Spawn(b) PROVE TypeTree'
    <2>1. current \in Isolates /\ Register(current) /\ UNCHANGED observed
      BY <1>17 DEF Spawn, Effect, TypeOK
    <2>2. QED
      BY <2>1, RegisterTyped DEF TypeTree, TypeOK
  <1>18. ASSUME NEW b \in BOOLEAN, SpawnObserved(b) PROVE TypeTree'
    <2>1. current \in Isolates
      BY <1>18 DEF SpawnObserved, Effect, TypeOK
    <2>2. CASE UNCHANGED tree
      BY <2>2 DEF TypeTree, TypeOK, tree
    <2>3. CASE Register(current) /\ observed' \in {observed, observed \cup {nextIsolate}}
      BY <2>1, <2>3, RegisterTyped DEF TypeTree, TypeOK
    <2>4. QED
      BY <1>18, <2>2, <2>3 DEF SpawnObserved
  <1>19. ASSUME NEW b \in BOOLEAN, Stop(b) PROVE TypeTree'
    BY <1>19 DEF TypeOK, TypeTree, Stop, tree
  <1>20. ASSUME StopChildren PROVE TypeTree'
    BY <1>20 DEF TypeOK, TypeTree, StopChildren, tree
  <1>21. ASSUME EndTurn PROVE TypeTree'
    BY <1>21 DEF TypeOK, TypeTree, EndTurn, tree
  <1>22. ASSUME StopEntry PROVE TypeTree'
    <2>1. Victim \in Isolates
      BY <1>22, VictimTyped DEF StopEntry
    <2>2. observed' \subseteq observed
      BY <1>22 DEF StopEntry, DisposeReservations
    <2>3. QED
      BY <1>22, <2>1, <2>2 DEF TypeOK, TypeTree, StopEntry, PruneRecord
  <1>23. ASSUME CancelOwnCall PROVE TypeTree'
    BY <1>23 DEF TypeOK, TypeTree, CancelOwnCall, tree
  <1>24. ASSUME DropCollected PROVE TypeTree'
    BY <1>24 DEF TypeOK, TypeTree, DropCollected, tree
  <1>25. ASSUME DrainMessage PROVE TypeTree'
    BY <1>25 DEF TypeOK, TypeTree, DrainMessage, tree
  <1>26. ASSUME EndStop PROVE TypeTree'
    BY <1>26 DEF TypeOK, TypeTree, EndStop, tree
  <1>27. ASSUME NEW s \in SlotIds, CloseOwnSlot(s) PROVE TypeTree'
    BY <1>27 DEF TypeOK, TypeTree, CloseOwnSlot, tree
  <1>28. ASSUME NEW s \in SlotIds, SweepSlot(s) PROVE TypeTree'
    BY <1>28 DEF TypeOK, TypeTree, SweepSlot, tree
  <1>29. ASSUME CollectEntry PROVE TypeTree'
    BY <1>29, CollectKeeps DEF TypeOK, TypeTree, CollectEntry
  <1>30. ASSUME EndStep PROVE TypeTree'
    BY <1>30 DEF TypeOK, TypeTree, EndStep, tree
  <1>31. CASE UNCHANGED vars
    BY <1>31 DEF TypeOK, TypeTree, vars, tree
  <1>32. ASSUME NEW i \in Isolates, Supervise(i) PROVE TypeTree'
    BY <1>32 DEF TypeOK, TypeTree, Supervise, tree
  <1>33. QED
    BY <1>1, <1>2, <1>3, <1>4, <1>5, <1>6, <1>7, <1>8, <1>9, <1>10, <1>11,
       <1>12, <1>13, <1>14, <1>15, <1>16, <1>17, <1>18, <1>19, <1>20, <1>21,
       <1>22, <1>23, <1>24, <1>25, <1>26, <1>27, <1>28, <1>29, <1>30, <1>31,
       <1>32 DEF Next, Step, Handle, ExecuteEffect, StopSteps

-----------------------------------------------------------------------------
(* How a step moves the mailboxes and the lanes of contexts beside them.   *)

(* From mb and cx at most one message more, in an open mailbox with room.  *)
(* Its context names no pending call but the one of the turn at work, or   *)
(* the one this step dispatches.                                           *)
Put(mb, cx) ==
    \/ mailbox' = mb /\ callContexts' = cx
    \/ \E r \in Isolates, m \in Message, x \in Contexts :
          /\ Accepts(r)
          /\ mailbox' = Enqueue(mb, r, m)
          /\ callContexts' = Enqueue(cx, r, x)
          /\ x < nextCall'
          /\ x \in pending' /\ x # context' => x = nextCall /\ nextCall' = nextCall + 1

TakesFromMailbox ==
    /\ DrainMessage /\ pc = "close" /\ FromMailbox(Victim)
    /\ Put([mailbox EXCEPT ![Victim] = Tail(@)], [callContexts EXCEPT ![Victim] = Rest(@)])

Bootstraps ==
    /\ nextIsolate \in Isolates /\ nextIsolate' = nextIsolate + 1
    /\ mailbox' = Enqueue(mailbox, nextIsolate, Plain)
    /\ callContexts' = Enqueue(callContexts, nextIsolate, NoCall)

TellsParent ==
    /\ StopEntry
    /\ Victim \in observed /\ parent[Victim] \in Isolates
    /\ mailbox' = Enqueue(mailbox, parent[Victim], Plain)
    /\ UNCHANGED callContexts

QueueStep ==
    \/ Put(mailbox, callContexts)
    \/ Snapshot \/ TakesFromMailbox \/ Bootstraps \/ TellsParent

(* An enqueue of the turn's own context, or of none, is a Put. *)
LEMMA PutContext ==
    ASSUME TypeOK, CallsFresh, nextCall' = nextCall,
           NEW mb, NEW cx, NEW r, Accepts(r), NEW m \in Message, NEW x \in {NoCall, context'},
           context' \in {NoCall, context},
           mailbox' = Enqueue(mb, r, m), callContexts' = Enqueue(cx, r, x),
           pending' \subseteq pending
    PROVE  Put(mb, cx)
  <1>1. r \in Isolates
    BY OpenTyped DEF Accepts
  <1>2. x \in Contexts /\ x < nextCall'
    BY DEF TypeOK, CallsFresh, Contexts, NoCall
  <1>3. NoCall \notin pending'
    BY DEF TypeOK, CallIds, NoCall
  <1>4. QED
    BY <1>1, <1>2, <1>3 DEF Put

(* The step keeps the context of the turn, or uses it to answer call c. *)
Uses(c) == context' = context \/ (context' = NoCall /\ context \in {NoCall, c})

(* The outcome of a call goes to its requester with the context the        *)
(* requester had when it called: a context that is used up, or in use.     *)
LEMMA CompletePuts ==
    ASSUME TypeOK, CallsFresh, OneContext, nextCall' = nextCall,
           NEW mb, NEW cx, NEW c, CompleteFrom(mb, cx, c),
           Uses(c)
    PROVE  Put(mb, cx)
  <1>1. CASE mailbox' = mb /\ callContexts' = cx
    BY <1>1 DEF Put
  <1>2. CASE ~(mailbox' = mb /\ callContexts' = cx)
    <2> DEFINE r == requester[c]
               x == continuation[c]
    <2>1. /\ c \in pending /\ pending' = pending \ {c}
          /\ r \in Isolates /\ Accepts(r)
          /\ mailbox' = Enqueue(mb, r, Continuation)
          /\ callContexts' = Enqueue(cx, r, x)
      BY <1>2, CompleteCases
    <2>2. x \in Contexts /\ x < nextCall'
      BY <2>1 DEF TypeOK, CallsFresh
    <2>3. x \in pending => context = x
      BY <2>1 DEF OneContext, SoleContext
    <2>4. ~(x \in pending' /\ x # context')
      BY <2>1, <2>3 DEF TypeOK, CallIds, NoCall, Uses
    <2> HIDE DEF r, x
    <2>5. QED
      BY <2>1, <2>2, <2>4, MessagesTyped DEF Put
  <1>3. QED
    BY <1>1, <1>2

(* A continuation finds the isolate of the turn running. *)
LEMMA ContinuePuts ==
    ASSUME TypeOK, TurnOwned, CallsFresh, pc = "effects", context' = context,
           nextCall' = nextCall, pending' \subseteq pending,
           NEW res \in Int, reserved[current] <= res,
           NEW x \in {NoCall, context}, Continue(current, res, x)
    PROVE  Put(mailbox, callContexts)
  <1>1. Open(current) /\ current \in Isolates
    BY DEF TurnOwned, TypeOK
  <1>2. Len(mailbox[current]) \in Nat /\ reserved[current] \in Int
    BY <1>1 DEF TypeOK
  <1>3. CASE UNCHANGED <<mailbox, callContexts>>
    BY <1>3 DEF Put
  <1>4. CASE ~UNCHANGED <<mailbox, callContexts>>
    <2>1. /\ Len(mailbox[current]) + res < Capacity
          /\ mailbox' = Enqueue(mailbox, current, Continuation)
          /\ callContexts' = Enqueue(callContexts, current, x)
      BY <1>4 DEF Continue
    <2>2. Accepts(current)
      BY <1>1, <1>2, <2>1, CapacityAssumption DEF Accepts, HasRoom
    <2>3. QED
      BY <1>1, <2>1, <2>2, PutContext, MessagesTyped
  <1>5. QED
    BY <1>3, <1>4

(* Every step changes the mailboxes and their lanes by one of the five     *)
(* moves.                                                                  *)
LEMMA QueueMoves ==
    ASSUME TypeOK, TurnOwned, CallsFresh, OneContext, ReservationsHonoured, [Next]_vars
    PROVE  QueueStep
  <1>1. ASSUME NEW i \in Isolates, HostSend(i) PROVE QueueStep
    <2>1. nextCall' = nextCall /\ pending' = pending /\ context' = context
      BY <1>1 DEF HostSend, calls, control
    <2>2. QED
      BY <1>1, <2>1, PutContext, MessagesTyped DEF HostSend, QueueStep
  <1>2. ASSUME NEW c \in CallIds, DeadlinePasses(c) PROVE QueueStep
    BY <1>2 DEF QueueStep, Put, DeadlinePasses, queues
  <1>3. ASSUME BeginStep PROVE QueueStep
    BY <1>3 DEF QueueStep, Put, BeginStep, queues
  <1>4. ASSUME Snapshot PROVE QueueStep
    BY <1>4 DEF QueueStep
  <1>5. ASSUME EndDelivery PROVE QueueStep
    BY <1>5 DEF QueueStep, Put, EndDelivery, queues
  <1>6. ASSUME NEW c \in CallIds, HarvestTimeout(c) PROVE QueueStep
    <2>1. CompleteFrom(mailbox, callContexts, c)
      BY <1>6 DEF HarvestTimeout, CompleteFrom, TypeOK
    <2>2. nextCall' = nextCall /\ Uses(c)
      BY <1>6 DEF HarvestTimeout, control, Uses
    <2>3. QED
      BY <2>1, <2>2, CompletePuts DEF QueueStep
  <1>7. ASSUME NEW i \in Isolates, HandlerPanics(i) PROVE QueueStep
    <2>1. CompleteFrom(mailbox, callContexts, round[i].context)
      BY <1>7 DEF HandlerPanics, Complete
    <2>2. nextCall' = nextCall /\ Uses(round[i].context)
      BY <1>7, NextTyped DEF HandlerPanics, TurnOwned, Uses
    <2>3. QED
      BY <2>1, <2>2, CompletePuts DEF QueueStep
  <1>8. ASSUME NEW i \in Isolates, HandlerCaptures(i) PROVE QueueStep
    BY <1>8 DEF QueueStep, Put, HandlerCaptures, queues
  <1>9. ASSUME NEW i \in Isolates, HandlerAnswers(i) PROVE QueueStep
    BY <1>9 DEF QueueStep, Put, HandlerAnswers, queues
  <1>10. ASSUME NEW i \in Isolates, HandlerAbandons(i) PROVE QueueStep
    <2>1. CompleteFrom(mailbox, callContexts, round[i].context)
      BY <1>10 DEF HandlerAbandons, Complete
    <2>2. nextCall' = nextCall /\ Uses(round[i].context)
      BY <1>10, NextTyped DEF HandlerAbandons, Begin, IsNext, TurnOwned, Uses
    <2>3. QED
      BY <2>1, <2>2, CompletePuts DEF QueueStep
  <1>11. ASSUME NEW j \in Isolates, Send(j) PROVE QueueStep
    <2>1. nextCall' = nextCall /\ pending' = pending /\ context' = context
      BY <1>11 DEF Send, Effect, calls
    <2>2. QED
      BY <1>11, <2>1, PutContext, MessagesTyped DEF Send, QueueStep, Put
  <1>12. ASSUME NEW j \in Isolates, Call(j) PROVE QueueStep
    <2> DEFINE c == nextCall
    <2>1. c \in CallIds /\ c \in Contexts /\ c < nextCall' /\ nextCall' = c + 1
      BY <1>12, BoundsAssumption DEF Call, TypeOK, CallIds, Contexts
    <2>2. CASE Accepts(j) /\ mailbox' = Enqueue(mailbox, j, Request(c))
               /\ callContexts' = Enqueue(callContexts, j, c)
      BY <2>1, <2>2, MessagesTyped DEF QueueStep, Put
    <2>3. CASE /\ Accepts(current) /\ mailbox' = Enqueue(mailbox, current, Continuation)
               /\ callContexts' = Enqueue(callContexts, current, context)
      <3>1. current \in Isolates /\ context \in Contexts /\ context' = context
        BY <1>12, <2>3, OpenTyped DEF Accepts, TypeOK, Call, Effect
      <3>2. context < nextCall'
        BY <2>1, <3>1 DEF CallsFresh, TypeOK, Contexts, CallIds, NoCall
      <3>3. QED
        BY <2>3, <3>1, <3>2, MessagesTyped DEF QueueStep, Put
    <2>4. CASE UNCHANGED <<mailbox, callContexts>>
      BY <2>4 DEF QueueStep, Put
    <2>5. QED
      BY <1>12, <2>2, <2>3, <2>4 DEF Call
  <1>13. ASSUME NEW c \in CallIds, CancelCall(c) PROVE QueueStep
    <2>1. /\ pc = "effects" /\ context' = context /\ nextCall' = nextCall
          /\ Continue(current, reserved[current], context)
      BY <1>13 DEF CancelCall, Effect
    <2>2. pending' \subseteq pending
      BY <1>13 DEF CancelCall
    <2>3. reserved[current] \in Int /\ reserved[current] <= reserved[current]
      BY <2>1 DEF TypeOK
    <2>4. QED
      BY <2>1, <2>2, <2>3, ContinuePuts DEF QueueStep
  <1>14. ASSUME Answer PROVE QueueStep
    <2>1. CompleteFrom(mailbox, callContexts, context) /\ nextCall' = nextCall /\ Uses(context)
      BY <1>14 DEF Answer, Complete, Uses
    <2>2. QED
      BY <2>1, CompletePuts DEF QueueStep
  <1>15. ASSUME NEW s \in SlotIds, DropHandle(s) PROVE QueueStep
    BY <1>15 DEF QueueStep, Put, DropHandle, queues
  <1>16. ASSUME NEW s \in SlotIds, NEW typed \in BOOLEAN, ReplyTo(s, typed)
         PROVE  QueueStep
    <2>1. PICK c : CompleteFrom(mailbox, callContexts, c)
      BY <1>16 DEF ReplyTo, Complete
    <2>2. nextCall' = nextCall /\ Uses(c)
      BY <1>16 DEF ReplyTo, Effect, Uses
    <2>3. QED
      BY <2>1, <2>2, CompletePuts DEF QueueStep
  <1>17. ASSUME NEW b \in BOOLEAN, Spawn(b) PROVE QueueStep
    <2>1. current \in Isolates /\ Register(current)
      BY <1>17 DEF Spawn, Effect, TypeOK
    <2>2. CASE b
      BY <1>17, <2>1, <2>2, RegisterTyped DEF Spawn, QueueStep, Bootstraps
    <2>3. CASE ~b
      BY <1>17, <2>3 DEF Spawn, QueueStep, Put
    <2>4. QED
      BY <2>2, <2>3
  <1>18. ASSUME NEW b \in BOOLEAN, SpawnObserved(b) PROVE QueueStep
    <2>1. /\ pc = "effects" /\ context' = context /\ nextCall' = nextCall /\ pending' = pending
          /\ Continue(current, reserved'[current], NoCall)
      BY <1>18 DEF SpawnObserved, Effect, calls
    <2>2. current \in Isolates /\ reserved[current] \in Int
      BY <2>1 DEF TypeOK
    <2>3. reserved' = reserved \/ reserved' = [reserved EXCEPT ![current] = @ + 1]
      BY <1>18 DEF SpawnObserved
    <2>4. reserved'[current] \in Int /\ reserved[current] <= reserved'[current]
      BY <2>2, <2>3 DEF TypeOK
    <2>5. QED
      BY <2>1, <2>4, ContinuePuts DEF QueueStep
  <1>19. ASSUME NEW b \in BOOLEAN, Stop(b) PROVE QueueStep
    BY <1>19 DEF QueueStep, Put, Stop, queues
  <1>20. ASSUME StopChildren PROVE QueueStep
    BY <1>20 DEF QueueStep, Put, StopChildren, queues
  <1>21. ASSUME EndTurn PROVE QueueStep
    BY <1>21 DEF QueueStep, Put, EndTurn, queues
  <1>22. ASSUME StopEntry PROVE QueueStep
    <2>1. callContexts' = callContexts /\ SettleTerminal(Victim)
      BY <1>22 DEF StopEntry
    <2>2. CASE UNCHANGED mailbox
      BY <2>1, <2>2 DEF QueueStep, Put
    <2>3. CASE Victim \in observed /\ mailbox' = Enqueue(mailbox, parent[Victim], Plain)
      <3>1. parent[Victim] \in Isolates
        BY <2>3, OpenTyped DEF ReservationsHonoured
      <3>2. QED
        BY <1>22, <2>1, <2>3, <3>1 DEF QueueStep, TellsParent
    <2>4. QED
      BY <2>1, <2>2, <2>3 DEF SettleTerminal
  <1>23. ASSUME CancelOwnCall PROVE QueueStep
    BY <1>23 DEF QueueStep, Put, CancelOwnCall, queues
  <1>24. ASSUME DropCollected PROVE QueueStep
    <2>1. PICK c : CompleteFrom(mailbox, callContexts, c)
      BY <1>24 DEF DropCollected, Complete
    <2>2. nextCall' = nextCall /\ Uses(c)
      BY <1>24 DEF DropCollected, control, Uses
    <2>3. QED
      BY <2>1, <2>2, CompletePuts DEF QueueStep
  <1>25. ASSUME DrainMessage PROVE QueueStep
    <2>1. nextCall' = nextCall /\ (\A c : Uses(c)) /\ pc = "close"
      BY <1>25 DEF DrainMessage, control, Uses
    <2>2. CASE FromMailbox(Victim)
      <3>1. PICK c : CompleteFrom([mailbox EXCEPT ![Victim] = Tail(@)],
                                 [callContexts EXCEPT ![Victim] = Rest(@)], c)
        BY <1>25, <2>2 DEF DrainMessage
      <3>2. TakesFromMailbox
        BY <1>25, <2>1, <2>2, <3>1, CompletePuts DEF TakesFromMailbox
      <3>3. QED
        BY <3>2 DEF QueueStep
    <2>3. CASE ~FromMailbox(Victim)
      <3>1. PICK c : CompleteFrom(mailbox, callContexts, c)
        BY <1>25, <2>3 DEF DrainMessage, Complete
      <3>2. QED
        BY <2>1, <3>1, CompletePuts DEF QueueStep
    <2>4. QED
      BY <2>2, <2>3
  <1>26. ASSUME EndStop PROVE QueueStep
    BY <1>26 DEF QueueStep, Put, EndStop, queues
  <1>27. ASSUME NEW s \in SlotIds, CloseOwnSlot(s) PROVE QueueStep
    <2>1. PICK c : CompleteFrom(mailbox, callContexts, c)
      BY <1>27 DEF CloseOwnSlot, DropSlot, Complete
    <2>2. nextCall' = nextCall /\ Uses(c)
      BY <1>27 DEF CloseOwnSlot, control, Uses
    <2>3. QED
      BY <2>1, <2>2, CompletePuts DEF QueueStep
  <1>28. ASSUME NEW s \in SlotIds, SweepSlot(s) PROVE QueueStep
    <2>1. PICK c : CompleteFrom(mailbox, callContexts, c)
      BY <1>28 DEF SweepSlot, DropSlot, Complete
    <2>2. nextCall' = nextCall /\ Uses(c)
      BY <1>28 DEF SweepSlot, control, Uses
    <2>3. QED
      BY <2>1, <2>2, CompletePuts DEF QueueStep
  <1>29. ASSUME CollectEntry PROVE QueueStep
    BY <1>29 DEF QueueStep, Put, CollectEntry, queues
  <1>30. ASSUME EndStep PROVE QueueStep
    BY <1>30 DEF QueueStep, Put, EndStep, queues
  <1>31. CASE UNCHANGED vars
    BY <1>31 DEF QueueStep, Put, vars, queues
  <1>32. ASSUME NEW i \in Isolates, Supervise(i) PROVE QueueStep
    BY <1>32 DEF QueueStep, Put, Supervise, queues
  <1>33. QED
    BY <1>1, <1>2, <1>3, <1>4, <1>5, <1>6, <1>7, <1>8, <1>9, <1>10, <1>11,
       <1>12, <1>13, <1>14, <1>15, <1>16, <1>17, <1>18, <1>19, <1>20, <1>21,
       <1>22, <1>23, <1>24, <1>25, <1>26, <1>27, <1>28, <1>29, <1>30, <1>31,
       <1>32 DEF Next, Step, Handle, ExecuteEffect, StopSteps

MailboxType == mailbox \in [Isolates -> Seq(Message)] /\ callContexts \in [Isolates -> Seq(Contexts)]

(* Taking the front of one mailbox keeps the types of all. *)
LEMMA TailTyped ==
    ASSUME NEW S, NEW s \in Seq(S)
    PROVE  /\ Rest(s) \in Seq(S)
           /\ s # <<>> => Tail(s) \in Seq(S) /\ Len(Tail(s)) = Len(s) - 1 /\ Len(s) >= 1
           /\ Len(Rest(s)) <= Len(s) /\ (s # <<>> => Len(Rest(s)) = Len(s) - 1)
  BY DEF Rest

(* A Put keeps the types of the mailboxes and the lanes. *)
LEMMA PutTyped ==
    ASSUME NEW mb \in [Isolates -> Seq(Message)], NEW cx \in [Isolates -> Seq(Contexts)], Put(mb, cx)
    PROVE  MailboxType'
  <1>1. CASE mailbox' = mb /\ callContexts' = cx
    BY <1>1 DEF MailboxType
  <1>2. ASSUME NEW r \in Isolates, NEW m \in Message, NEW x \in Contexts,
               mailbox' = Enqueue(mb, r, m), callContexts' = Enqueue(cx, r, x)
        PROVE  MailboxType'
    BY <1>2, EnqueueTyped DEF MailboxType
  <1>3. QED
    BY <1>1, <1>2 DEF Put

(* So does every step. *)
LEMMA MailboxTypeKept ==
    ASSUME TypeOK, QueueStep
    PROVE  MailboxType'
  <1>1. mailbox \in [Isolates -> Seq(Message)] /\ callContexts \in [Isolates -> Seq(Contexts)]
    BY DEF TypeOK
  <1>2. CASE Put(mailbox, callContexts)
    BY <1>1, <1>2, PutTyped
  <1>3. CASE Snapshot
    <2>1. ASSUME NEW i \in Isolates
          PROVE  /\ (IF Open(i) /\ FromMailbox(i) THEN Tail(mailbox[i]) ELSE mailbox[i]) \in Seq(Message)
                 /\ (IF Open(i) /\ FromMailbox(i) THEN Rest(callContexts[i]) ELSE callContexts[i])
                        \in Seq(Contexts)
      BY <1>1, <2>1, TailTyped DEF FromMailbox
    <2>2. QED
      BY <1>3, <2>1 DEF Snapshot, MailboxType
  <1>4. CASE TakesFromMailbox
    <2>1. Victim \in Isolates /\ mailbox[Victim] # <<>>
      BY <1>4, VictimTyped DEF TakesFromMailbox, FromMailbox
    <2>2. /\ [mailbox EXCEPT ![Victim] = Tail(@)] \in [Isolates -> Seq(Message)]
          /\ [callContexts EXCEPT ![Victim] = Rest(@)] \in [Isolates -> Seq(Contexts)]
      BY <1>1, <2>1, TailTyped
    <2>3. QED
      BY <1>4, <2>2, PutTyped DEF TakesFromMailbox
  <1>5. CASE Bootstraps
    BY <1>1, <1>5, EnqueueTyped, MessagesTyped DEF Bootstraps, MailboxType, Contexts
  <1>6. CASE TellsParent
    BY <1>1, <1>6, EnqueueTyped, MessagesTyped DEF TellsParent, MailboxType
  <1>7. QED
    BY <1>2, <1>3, <1>4, <1>5, <1>6 DEF QueueStep

TypeLanes ==
    /\ reserved \in [Isolates -> Int]
    /\ overflow \in [Isolates -> Seq(DeliveredMessages)]
    /\ round \in [Isolates -> DeliveredMessages \cup {Nothing}]

(* Taking a message out of the round keeps its type. *)
LEMMA TakeTyped ==
    ASSUME TypeOK, NEW i \in Isolates, Take(i)
    PROVE  round' \in [Isolates -> DeliveredMessages \cup {Nothing}]
  BY DEF Take, TypeOK

(* A continuation keeps the type of the overflow lanes. *)
LEMMA ContinueTyped ==
    ASSUME TypeOK, NEW i \in Isolates, NEW res, NEW x \in Contexts, Continue(i, res, x)
    PROVE  overflow' \in [Isolates -> Seq(DeliveredMessages)]
  <1>1. Delivered(Continuation, x) \in DeliveredMessages
    BY DeliveredShape, MessagesTyped
  <1>2. overflow \in [Isolates -> Seq(DeliveredMessages)]
    BY DEF TypeOK
  <1>3. QED
    BY <1>1, <1>2, EnqueueTyped DEF Continue

(* The children an isolate observes can be counted. *)
LEMMA ObservedFinite ==
    ASSUME TypeOK, NEW i
    PROVE  /\ IsFiniteSet({j \in observed : parent[j] = i})
           /\ Cardinality({j \in observed : parent[j] = i}) \in Nat
  <1>1. IsFiniteSet(Isolates)
    BY FS_Interval, BoundsAssumption DEF Isolates
  <1>2. {j \in observed : parent[j] = i} \subseteq Isolates
    BY DEF TypeOK
  <1>3. QED
    BY <1>1, <1>2, FS_Subset, FS_CardinalityType

(* Every step keeps the types of the round, the overflow lanes and the     *)
(* reservations.                                                           *)
LEMMA TypeLanesKept ==
    ASSUME TypeOK, [Next]_vars
    PROVE  TypeLanes'
  <1>1. ASSUME NEW i \in Isolates, HostSend(i) PROVE TypeLanes'
    BY <1>1 DEF TypeOK, TypeLanes, HostSend, queues
  <1>2. ASSUME NEW c \in CallIds, DeadlinePasses(c) PROVE TypeLanes'
    BY <1>2 DEF TypeOK, TypeLanes, DeadlinePasses, queues
  <1>3. ASSUME BeginStep PROVE TypeLanes'
    BY <1>3 DEF TypeOK, TypeLanes, BeginStep, queues
  <1>4. ASSUME Snapshot PROVE TypeLanes'
    <2>1. ASSUME NEW i \in Isolates
          PROVE  /\ (IF Open(i) /\ HasMessage(i) THEN Front(i) ELSE Nothing) \in DeliveredMessages \cup {Nothing}
                 /\ (IF Open(i) THEN Rest(overflow[i]) ELSE overflow[i]) \in Seq(DeliveredMessages)
      <3>1. overflow[i] \in Seq(DeliveredMessages)
        BY <2>1 DEF TypeOK
      <3>2. QED
        BY <2>1, <3>1, FrontTyped, TailTyped
    <2>2. QED
      BY <1>4, <2>1 DEF TypeOK, TypeLanes, Snapshot
  <1>5. ASSUME EndDelivery PROVE TypeLanes'
    BY <1>5 DEF TypeOK, TypeLanes, EndDelivery, queues
  <1>6. ASSUME NEW c \in CallIds, HarvestTimeout(c) PROVE TypeLanes'
    BY <1>6 DEF TypeOK, TypeLanes, HarvestTimeout, queues
  <1>7. ASSUME NEW i \in Isolates, HandlerPanics(i) PROVE TypeLanes'
    BY <1>7, TakeTyped DEF TypeOK, TypeLanes, HandlerPanics
  <1>8. ASSUME NEW i \in Isolates, HandlerCaptures(i) PROVE TypeLanes'
    BY <1>8, TakeTyped DEF TypeOK, TypeLanes, HandlerCaptures
  <1>9. ASSUME NEW i \in Isolates, HandlerAnswers(i) PROVE TypeLanes'
    BY <1>9, TakeTyped DEF TypeOK, TypeLanes, HandlerAnswers
  <1>10. ASSUME NEW i \in Isolates, HandlerAbandons(i) PROVE TypeLanes'
    BY <1>10, TakeTyped DEF TypeOK, TypeLanes, HandlerAbandons
  <1>11. ASSUME NEW j \in Isolates, Send(j) PROVE TypeLanes'
    BY <1>11 DEF TypeOK, TypeLanes, Send, queues
  <1>12. ASSUME NEW j \in Isolates, Call(j) PROVE TypeLanes'
    BY <1>12 DEF TypeOK, TypeLanes, Call, queues
  <1>13. ASSUME NEW c \in CallIds, CancelCall(c) PROVE TypeLanes'
    <2>1. current \in Isolates /\ context \in Contexts
      BY <1>13 DEF CancelCall, Effect, TypeOK
    <2>2. Continue(current, reserved[current], context) /\ UNCHANGED <<reserved, round>>
      BY <1>13 DEF CancelCall
    <2>3. QED
      BY <2>1, <2>2, ContinueTyped DEF TypeLanes, TypeOK
  <1>14. ASSUME Answer PROVE TypeLanes'
    BY <1>14 DEF TypeOK, TypeLanes, Answer, queues
  <1>15. ASSUME NEW s \in SlotIds, DropHandle(s) PROVE TypeLanes'
    BY <1>15 DEF TypeOK, TypeLanes, DropHandle, queues
  <1>16. ASSUME NEW s \in SlotIds, NEW typed \in BOOLEAN, ReplyTo(s, typed)
         PROVE  TypeLanes'
    BY <1>16 DEF TypeOK, TypeLanes, ReplyTo, queues
  <1>17. ASSUME NEW b \in BOOLEAN, Spawn(b) PROVE TypeLanes'
    BY <1>17 DEF TypeOK, TypeLanes, Spawn, queues
  <1>18. ASSUME NEW b \in BOOLEAN, SpawnObserved(b) PROVE TypeLanes'
    <2>1. current \in Isolates /\ NoCall \in Contexts
      BY <1>18 DEF SpawnObserved, Effect, TypeOK, Contexts
    <2>2. Continue(current, reserved'[current], NoCall) /\ UNCHANGED round
      BY <1>18 DEF SpawnObserved
    <2>3. reserved' = reserved \/ reserved' = [reserved EXCEPT ![current] = @ + 1]
      BY <1>18 DEF SpawnObserved
    <2>4. reserved' \in [Isolates -> Int]
      BY <2>1, <2>3 DEF TypeOK
    <2>5. QED
      BY <2>1, <2>2, <2>4, ContinueTyped DEF TypeLanes, TypeOK
  <1>19. ASSUME NEW b \in BOOLEAN, Stop(b) PROVE TypeLanes'
    BY <1>19 DEF TypeOK, TypeLanes, Stop, queues
  <1>20. ASSUME StopChildren PROVE TypeLanes'
    BY <1>20 DEF TypeOK, TypeLanes, StopChildren, queues
  <1>21. ASSUME EndTurn PROVE TypeLanes'
    BY <1>21 DEF TypeOK, TypeLanes, EndTurn, queues
  <1>22. ASSUME StopEntry PROVE TypeLanes'
    <2>1. Cardinality({j \in observed : parent[j] = Victim}) \in Int
      BY ObservedFinite
    <2>2. reserved' \in [Isolates -> Int]
      <3> DEFINE n == Cardinality({j \in observed : parent[j] = Victim})
      <3>1. reserved' = [j \in Isolates |->
                           IF j = Victim THEN reserved[j] - n
                           ELSE IF Victim \in observed /\ j = parent[Victim] THEN reserved[j] - 1
                           ELSE reserved[j]]
        BY <1>22 DEF StopEntry, DisposeReservations
      <3>2. n \in Int /\ reserved \in [Isolates -> Int]
        BY <2>1 DEF TypeOK
      <3> HIDE DEF n
      <3>3. QED
        BY <3>1, <3>2
    <2>3. QED
      BY <1>22, <2>2 DEF TypeOK, TypeLanes, StopEntry
  <1>23. ASSUME CancelOwnCall PROVE TypeLanes'
    BY <1>23 DEF TypeOK, TypeLanes, CancelOwnCall, queues
  <1>24. ASSUME DropCollected PROVE TypeLanes'
    <2>1. Victim \in Isolates
      BY <1>24, VictimTyped DEF DropCollected
    <2>2. QED
      BY <1>24, <2>1, TakeTyped DEF TypeOK, TypeLanes, DropCollected
  <1>25. ASSUME DrainMessage PROVE TypeLanes'
    <2>1. Victim \in Isolates /\ overflow[Victim] \in Seq(DeliveredMessages)
      BY <1>25, VictimTyped DEF DrainMessage, TypeOK
    <2>2. Rest(overflow[Victim]) \in Seq(DeliveredMessages)
      BY <2>1, TailTyped
    <2>3. QED
      BY <1>25, <2>1, <2>2 DEF TypeOK, TypeLanes, DrainMessage
  <1>26. ASSUME EndStop PROVE TypeLanes'
    BY <1>26 DEF TypeOK, TypeLanes, EndStop, queues
  <1>27. ASSUME NEW s \in SlotIds, CloseOwnSlot(s) PROVE TypeLanes'
    BY <1>27 DEF TypeOK, TypeLanes, CloseOwnSlot, queues
  <1>28. ASSUME NEW s \in SlotIds, SweepSlot(s) PROVE TypeLanes'
    BY <1>28 DEF TypeOK, TypeLanes, SweepSlot, queues
  <1>29. ASSUME CollectEntry PROVE TypeLanes'
    BY <1>29 DEF TypeOK, TypeLanes, CollectEntry, queues
  <1>30. ASSUME EndStep PROVE TypeLanes'
    BY <1>30 DEF TypeOK, TypeLanes, EndStep, queues
  <1>31. CASE UNCHANGED vars
    BY <1>31 DEF TypeOK, TypeLanes, vars, queues
  <1>32. ASSUME NEW i \in Isolates, Supervise(i) PROVE TypeLanes'
    BY <1>32 DEF TypeOK, TypeLanes, Supervise, queues
  <1>33. QED
    BY <1>1, <1>2, <1>3, <1>4, <1>5, <1>6, <1>7, <1>8, <1>9, <1>10, <1>11,
       <1>12, <1>13, <1>14, <1>15, <1>16, <1>17, <1>18, <1>19, <1>20, <1>21,
       <1>22, <1>23, <1>24, <1>25, <1>26, <1>27, <1>28, <1>29, <1>30, <1>31,
       <1>32 DEF Next, Step, Handle, ExecuteEffect, StopSteps

TypeCalls ==
    /\ nextCall \in 1..(MaxCalls + 1)
    /\ pending \subseteq CallIds /\ due \subseteq pending
    /\ requester \in [CallIds -> Isolates \cup {NoIsolate}]
    /\ continuation \in [CallIds -> Contexts]
    /\ handle \in [CallIds -> {"Pending", "Settled", "Cancelled"}]
    /\ told \in [CallIds -> Nat]

(* The call cancel_pending_isolate_calls_for_owner takes next is one of the*)
(* owner's.                                                                *)
LEMMA OwnCallsLeast ==
    ASSUME TypeOK, OwnCalls # {}
    PROVE  Least(OwnCalls) \in pending /\ requester[Least(OwnCalls)] = Victim
  <1>1. OwnCalls \subseteq pending /\ pending \subseteq Nat
    BY DEF OwnCalls, TypeOK, CallIds
  <1>2. Least(OwnCalls) \in OwnCalls
    BY <1>1, LeastIn
  <1>3. QED
    BY <1>2 DEF OwnCalls

(* Settling a call keeps the types of the call table. *)
LEMMA CompleteTyped ==
    ASSUME TypeOK, NEW mb, NEW cx, NEW c, CompleteFrom(mb, cx, c),
           UNCHANGED <<nextCall, requester, continuation>>
    PROVE  TypeCalls'
  <1>1. /\ pending' = pending \ {c} /\ due' = due \ {c}
        /\ \/ handle' = handle
           \/ c \in pending /\ handle' = [handle EXCEPT ![c] = "Settled"]
        /\ \/ told' = told
           \/ c \in pending /\ told' = [told EXCEPT ![c] = @ + 1]
    BY CompleteCases
  <1>2. told' \in [CallIds -> Nat]
    BY <1>1 DEF TypeOK
  <1>3. handle' \in [CallIds -> {"Pending", "Settled", "Cancelled"}]
    BY <1>1 DEF TypeOK
  <1>4. QED
    BY <1>1, <1>2, <1>3 DEF TypeOK, TypeCalls

(* Every step keeps the types of the call table. *)
LEMMA TypeCallsKept ==
    ASSUME TypeOK, [Next]_vars
    PROVE  TypeCalls'
  <1>1. ASSUME NEW i \in Isolates, HostSend(i) PROVE TypeCalls'
    BY <1>1 DEF TypeOK, TypeCalls, HostSend, calls
  <1>2. ASSUME NEW c \in CallIds, DeadlinePasses(c) PROVE TypeCalls'
    BY <1>2 DEF TypeOK, TypeCalls, DeadlinePasses, calls
  <1>3. ASSUME BeginStep PROVE TypeCalls'
    BY <1>3 DEF TypeOK, TypeCalls, BeginStep, calls
  <1>4. ASSUME Snapshot PROVE TypeCalls'
    BY <1>4 DEF TypeOK, TypeCalls, Snapshot, calls
  <1>5. ASSUME EndDelivery PROVE TypeCalls'
    BY <1>5 DEF TypeOK, TypeCalls, EndDelivery, calls
  <1>6. ASSUME NEW c \in CallIds, HarvestTimeout(c) PROVE TypeCalls'
    BY <1>6, CompleteTyped DEF HarvestTimeout, CompleteFrom, TypeOK
  <1>7. ASSUME NEW i \in Isolates, HandlerPanics(i) PROVE TypeCalls'
    BY <1>7, CompleteTyped DEF HandlerPanics, Complete
  <1>8. ASSUME NEW i \in Isolates, HandlerCaptures(i) PROVE TypeCalls'
    BY <1>8 DEF TypeOK, TypeCalls, HandlerCaptures, calls
  <1>9. ASSUME NEW i \in Isolates, HandlerAnswers(i) PROVE TypeCalls'
    BY <1>9 DEF TypeOK, TypeCalls, HandlerAnswers, calls
  <1>10. ASSUME NEW i \in Isolates, HandlerAbandons(i) PROVE TypeCalls'
    BY <1>10, CompleteTyped DEF HandlerAbandons, Complete
  <1>11. ASSUME NEW j \in Isolates, Send(j) PROVE TypeCalls'
    BY <1>11 DEF TypeOK, TypeCalls, Send, calls
  <1>12. ASSUME NEW j \in Isolates, Call(j) PROVE TypeCalls'
    <2>1. nextCall \in CallIds /\ nextCall' \in 1..(MaxCalls + 1)
      BY <1>12, BoundsAssumption DEF Call, TypeOK, CallIds
    <2>2. current \in Isolates /\ context \in Contexts
      BY <1>12 DEF Call, Effect, TypeOK
    <2>3. /\ requester' \in [CallIds -> Isolates \cup {NoIsolate}]
          /\ continuation' \in [CallIds -> Contexts]
      BY <1>12, <2>1, <2>2 DEF Call, TypeOK
    <2>4. told' = told \/ told' = [told EXCEPT ![nextCall] = @ + 1]
      BY <1>12 DEF Call
    <2>5. told' \in [CallIds -> Nat]
      BY <2>1, <2>4 DEF TypeOK
    <2>6. handle' = handle \/ handle' = [handle EXCEPT ![nextCall] = "Settled"]
      BY <1>12 DEF Call
    <2>7. handle' \in [CallIds -> {"Pending", "Settled", "Cancelled"}]
      BY <2>1, <2>6 DEF TypeOK
    <2>8. pending' \in {pending, pending \cup {nextCall}} /\ due' = due
      BY <1>12 DEF Call
    <2>9. QED
      BY <2>1, <2>3, <2>5, <2>7, <2>8 DEF TypeOK, TypeCalls
  <1>13. ASSUME NEW c \in CallIds, CancelCall(c) PROVE TypeCalls'
    BY <1>13 DEF TypeOK, TypeCalls, CancelCall, calls
  <1>14. ASSUME Answer PROVE TypeCalls'
    BY <1>14, CompleteTyped DEF Answer, Complete
  <1>15. ASSUME NEW s \in SlotIds, DropHandle(s) PROVE TypeCalls'
    BY <1>15 DEF TypeOK, TypeCalls, DropHandle, calls
  <1>16. ASSUME NEW s \in SlotIds, NEW typed \in BOOLEAN, ReplyTo(s, typed)
         PROVE  TypeCalls'
    BY <1>16, CompleteTyped DEF ReplyTo, Complete
  <1>17. ASSUME NEW b \in BOOLEAN, Spawn(b) PROVE TypeCalls'
    BY <1>17 DEF TypeOK, TypeCalls, Spawn, calls
  <1>18. ASSUME NEW b \in BOOLEAN, SpawnObserved(b) PROVE TypeCalls'
    BY <1>18 DEF TypeOK, TypeCalls, SpawnObserved, calls
  <1>19. ASSUME NEW b \in BOOLEAN, Stop(b) PROVE TypeCalls'
    BY <1>19 DEF TypeOK, TypeCalls, Stop, calls
  <1>20. ASSUME StopChildren PROVE TypeCalls'
    BY <1>20 DEF TypeOK, TypeCalls, StopChildren, calls
  <1>21. ASSUME EndTurn PROVE TypeCalls'
    BY <1>21 DEF TypeOK, TypeCalls, EndTurn, calls
  <1>22. ASSUME StopEntry PROVE TypeCalls'
    BY <1>22 DEF TypeOK, TypeCalls, StopEntry, calls
  <1>23. ASSUME CancelOwnCall PROVE TypeCalls'
    <2> DEFINE c == Least(OwnCalls)
    <2>1. OwnCalls # {} /\ OwnCalls \subseteq pending
      BY <1>23 DEF CancelOwnCall, OwnCalls
    <2>2. c \in pending
      BY <2>1, OwnCallsLeast
    <2>3. QED
      BY <1>23, <2>2 DEF TypeOK, TypeCalls, CancelOwnCall
  <1>24. ASSUME DropCollected PROVE TypeCalls'
    BY <1>24, CompleteTyped DEF DropCollected, Complete
  <1>25. ASSUME DrainMessage PROVE TypeCalls'
    BY <1>25, CompleteTyped DEF DrainMessage, Complete
  <1>26. ASSUME EndStop PROVE TypeCalls'
    BY <1>26 DEF TypeOK, TypeCalls, EndStop, calls
  <1>27. ASSUME NEW s \in SlotIds, CloseOwnSlot(s) PROVE TypeCalls'
    BY <1>27, CompleteTyped DEF CloseOwnSlot, Complete, DropSlot
  <1>28. ASSUME NEW s \in SlotIds, SweepSlot(s) PROVE TypeCalls'
    BY <1>28, CompleteTyped DEF SweepSlot, Complete, DropSlot
  <1>29. ASSUME CollectEntry PROVE TypeCalls'
    BY <1>29 DEF TypeOK, TypeCalls, CollectEntry, calls
  <1>30. ASSUME EndStep PROVE TypeCalls'
    BY <1>30 DEF TypeOK, TypeCalls, EndStep, calls
  <1>31. CASE UNCHANGED vars
    BY <1>31 DEF TypeOK, TypeCalls, vars, calls
  <1>32. ASSUME NEW i \in Isolates, Supervise(i) PROVE TypeCalls'
    BY <1>32 DEF TypeOK, TypeCalls, Supervise, calls
  <1>33. QED
    BY <1>1, <1>2, <1>3, <1>4, <1>5, <1>6, <1>7, <1>8, <1>9, <1>10, <1>11,
       <1>12, <1>13, <1>14, <1>15, <1>16, <1>17, <1>18, <1>19, <1>20, <1>21,
       <1>22, <1>23, <1>24, <1>25, <1>26, <1>27, <1>28, <1>29, <1>30, <1>31,
       <1>32 DEF Next, Step, Handle, ExecuteEffect, StopSteps

TypeSlots ==
    /\ nextSlot \in 1..(MaxSlots + 1)
    /\ promoted \subseteq SlotIds /\ held \subseteq SlotIds
    /\ slot \in [SlotIds -> [call : Contexts, owner : Isolates \cup {NoIsolate},
                             state : {"Open", "Replied", "Closed"}]]

(* A captured reply that changes state keeps its type. *)
LEMMA SlotStateTyped ==
    ASSUME TypeOK, NEW s \in SlotIds, NEW v \in {"Open", "Replied", "Closed"},
           slot' = [slot EXCEPT ![s].state = v]
    PROVE  slot' \in [SlotIds -> [call : Contexts, owner : Isolates \cup {NoIsolate},
                                  state : {"Open", "Replied", "Closed"}]]
  <1> DEFINE R == [call : Contexts, owner : Isolates \cup {NoIsolate},
                   state : {"Open", "Replied", "Closed"}]
  <1>1. slot \in [SlotIds -> R] /\ slot[s] \in R
    BY DEF TypeOK
  <1>2. [slot[s] EXCEPT !.state = v] \in R
    BY <1>1
  <1>3. QED
    BY <1>1, <1>2

(* Closing the captured reply of a call keeps the types of the slots. *)
LEMMA CloseSlotTyped ==
    ASSUME TypeOK, NEW c, CloseSlotOf(c), UNCHANGED <<nextSlot, held>>
    PROVE  TypeSlots'
  <1>1. CASE UNCHANGED <<promoted, slot>>
    BY <1>1 DEF TypeOK, TypeSlots
  <1>2. ASSUME NEW s \in promoted, promoted' = promoted \ {s},
               slot' = [slot EXCEPT ![s].state = "Closed"]
        PROVE  TypeSlots'
    <2>1. s \in SlotIds
      BY <1>2 DEF TypeOK
    <2>2. QED
      BY <1>2, <2>1, SlotStateTyped DEF TypeOK, TypeSlots
  <1>3. QED
    BY <1>1, <1>2 DEF CloseSlotOf

(* So does dropping one. *)
LEMMA DropSlotTyped ==
    ASSUME TypeOK, NEW s \in SlotIds, DropSlot(s), UNCHANGED <<nextSlot, held>>
    PROVE  TypeSlots'
  <1>1. promoted' \subseteq promoted
    BY DEF DropSlot
  <1>2. slot[s].state \in {"Open", "Replied", "Closed"}
    BY DEF TypeOK
  <1>3. \E v \in {"Open", "Replied", "Closed"} : slot' = [slot EXCEPT ![s].state = v]
    BY <1>2 DEF DropSlot
  <1>4. QED
    BY <1>1, <1>3, SlotStateTyped DEF TypeOK, TypeSlots

(* Every step keeps the types of the captured replies. *)
LEMMA TypeSlotsKept ==
    ASSUME TypeOK, [Next]_vars
    PROVE  TypeSlots'
  <1>1. ASSUME NEW i \in Isolates, HostSend(i) PROVE TypeSlots'
    BY <1>1 DEF TypeOK, TypeSlots, HostSend, slots
  <1>2. ASSUME NEW c \in CallIds, DeadlinePasses(c) PROVE TypeSlots'
    BY <1>2 DEF TypeOK, TypeSlots, DeadlinePasses, slots
  <1>3. ASSUME BeginStep PROVE TypeSlots'
    BY <1>3 DEF TypeOK, TypeSlots, BeginStep, slots
  <1>4. ASSUME Snapshot PROVE TypeSlots'
    BY <1>4 DEF TypeOK, TypeSlots, Snapshot, slots
  <1>5. ASSUME EndDelivery PROVE TypeSlots'
    BY <1>5 DEF TypeOK, TypeSlots, EndDelivery, slots
  <1>6. ASSUME NEW c \in CallIds, HarvestTimeout(c) PROVE TypeSlots'
    BY <1>6, CloseSlotTyped DEF HarvestTimeout
  <1>7. ASSUME NEW i \in Isolates, HandlerPanics(i) PROVE TypeSlots'
    BY <1>7 DEF TypeOK, TypeSlots, HandlerPanics, slots
  <1>8. ASSUME NEW i \in Isolates, HandlerCaptures(i) PROVE TypeSlots'
    <2>1. nextSlot \in SlotIds /\ nextSlot' \in 1..(MaxSlots + 1)
      BY <1>8, BoundsAssumption DEF HandlerCaptures, TypeOK, SlotIds
    <2>2. round[i].context \in Contexts
      BY <1>8, NextTyped DEF HandlerCaptures
    <2>3. QED
      BY <1>8, <2>1, <2>2 DEF HandlerCaptures, TypeOK, TypeSlots
  <1>9. ASSUME NEW i \in Isolates, HandlerAnswers(i) PROVE TypeSlots'
    BY <1>9 DEF TypeOK, TypeSlots, HandlerAnswers, slots
  <1>10. ASSUME NEW i \in Isolates, HandlerAbandons(i) PROVE TypeSlots'
    BY <1>10 DEF TypeOK, TypeSlots, HandlerAbandons, slots
  <1>11. ASSUME NEW j \in Isolates, Send(j) PROVE TypeSlots'
    BY <1>11 DEF TypeOK, TypeSlots, Send, slots
  <1>12. ASSUME NEW j \in Isolates, Call(j) PROVE TypeSlots'
    BY <1>12 DEF TypeOK, TypeSlots, Call, slots
  <1>13. ASSUME NEW c \in CallIds, CancelCall(c) PROVE TypeSlots'
    <2>1. UNCHANGED <<nextSlot, held>> /\ (CloseSlotOf(c) \/ UNCHANGED <<promoted, slot>>)
      BY <1>13 DEF CancelCall
    <2>2. QED
      BY <2>1, CloseSlotTyped DEF TypeSlots, TypeOK
  <1>14. ASSUME Answer PROVE TypeSlots'
    BY <1>14 DEF TypeOK, TypeSlots, Answer, slots
  <1>15. ASSUME NEW s \in SlotIds, DropHandle(s) PROVE TypeSlots'
    BY <1>15 DEF TypeOK, TypeSlots, DropHandle, slots
  <1>16. ASSUME NEW s \in SlotIds, NEW typed \in BOOLEAN, ReplyTo(s, typed)
         PROVE  TypeSlots'
    <2>1. UNCHANGED nextSlot /\ held' \subseteq held /\ promoted' \subseteq promoted
      BY <1>16 DEF ReplyTo
    <2>2. slot' = slot \/ \E v \in {"Replied", "Closed"} : slot' = [slot EXCEPT ![s].state = v]
      BY <1>16 DEF ReplyTo
    <2>3. QED
      BY <2>1, <2>2, SlotStateTyped DEF TypeOK, TypeSlots
  <1>17. ASSUME NEW b \in BOOLEAN, Spawn(b) PROVE TypeSlots'
    BY <1>17 DEF TypeOK, TypeSlots, Spawn, slots
  <1>18. ASSUME NEW b \in BOOLEAN, SpawnObserved(b) PROVE TypeSlots'
    BY <1>18 DEF TypeOK, TypeSlots, SpawnObserved, slots
  <1>19. ASSUME NEW b \in BOOLEAN, Stop(b) PROVE TypeSlots'
    BY <1>19 DEF TypeOK, TypeSlots, Stop, slots
  <1>20. ASSUME StopChildren PROVE TypeSlots'
    BY <1>20 DEF TypeOK, TypeSlots, StopChildren, slots
  <1>21. ASSUME EndTurn PROVE TypeSlots'
    BY <1>21 DEF TypeOK, TypeSlots, EndTurn, slots
  <1>22. ASSUME StopEntry PROVE TypeSlots'
    BY <1>22 DEF TypeOK, TypeSlots, StopEntry, slots
  <1>23. ASSUME CancelOwnCall PROVE TypeSlots'
    BY <1>23, CloseSlotTyped DEF CancelOwnCall
  <1>24. ASSUME DropCollected PROVE TypeSlots'
    BY <1>24 DEF TypeOK, TypeSlots, DropCollected, slots
  <1>25. ASSUME DrainMessage PROVE TypeSlots'
    BY <1>25 DEF TypeOK, TypeSlots, DrainMessage, slots
  <1>26. ASSUME EndStop PROVE TypeSlots'
    BY <1>26 DEF TypeOK, TypeSlots, EndStop, slots
  <1>27. ASSUME NEW s \in SlotIds, CloseOwnSlot(s) PROVE TypeSlots'
    BY <1>27, DropSlotTyped DEF CloseOwnSlot
  <1>28. ASSUME NEW s \in SlotIds, SweepSlot(s) PROVE TypeSlots'
    BY <1>28, DropSlotTyped DEF SweepSlot
  <1>29. ASSUME CollectEntry PROVE TypeSlots'
    BY <1>29 DEF TypeOK, TypeSlots, CollectEntry, slots
  <1>30. ASSUME EndStep PROVE TypeSlots'
    BY <1>30 DEF TypeOK, TypeSlots, EndStep, slots
  <1>31. CASE UNCHANGED vars
    BY <1>31 DEF TypeOK, TypeSlots, vars, slots
  <1>32. ASSUME NEW i \in Isolates, Supervise(i) PROVE TypeSlots'
    BY <1>32 DEF TypeOK, TypeSlots, Supervise, slots
  <1>33. QED
    BY <1>1, <1>2, <1>3, <1>4, <1>5, <1>6, <1>7, <1>8, <1>9, <1>10, <1>11,
       <1>12, <1>13, <1>14, <1>15, <1>16, <1>17, <1>18, <1>19, <1>20, <1>21,
       <1>22, <1>23, <1>24, <1>25, <1>26, <1>27, <1>28, <1>29, <1>30, <1>31,
       <1>32 DEF Next, Step, Handle, ExecuteEffect, StopSteps

Causes == {"CallerTimedOut", "CallerCancelled", "OwnerStopped"}
TypeRing == ring \in Seq([call : CallIds, cause : Causes])

(* Recording a call keeps the other entries of the ring, save the oldest   *)
(* of a full one.                                                          *)
LEMMA RecordKeeps ==
    ASSUME TypeRing, NEW c \in CallIds, NEW cause \in Causes, Record(c, cause)
    PROVE  /\ TypeRing'
           /\ Len(ring) <= RingCapacity => Len(ring') <= RingCapacity
           /\ \A k \in DOMAIN ring' :
                 \/ k = Len(ring') /\ ring'[k] = [call |-> c, cause |-> cause]
                 \/ k # Len(ring') /\ k \in DOMAIN ring /\ ring'[k] = ring[k]
                 \/ k # Len(ring') /\ k + 1 \in DOMAIN ring /\ ring'[k] = ring[k + 1]
           /\ \/ \A k \in DOMAIN ring' : k # Len(ring') => k \in DOMAIN ring /\ ring'[k] = ring[k]
              \/ \A k \in DOMAIN ring' : k # Len(ring') => k + 1 \in DOMAIN ring /\ ring'[k] = ring[k + 1]
  <1> DEFINE E == [call : CallIds, cause : Causes]
             e == [call |-> c, cause |-> cause]
             kept == IF Len(ring) = RingCapacity THEN Tail(ring) ELSE ring
  <1>1. ring \in Seq(E) /\ e \in E /\ ring' = Append(kept, e)
    BY DEF TypeRing, Record
  <1>2. CASE Len(ring) = RingCapacity
    <2>1. ring # <<>> /\ Len(ring) \in Nat /\ Len(ring) >= 1
      BY <1>1, <1>2, RingAssumption
    <2>2. /\ kept \in Seq(E) /\ Len(kept) = Len(ring) - 1
          /\ \A k \in 1..Len(kept) : k + 1 \in 1..Len(ring) /\ kept[k] = ring[k + 1]
      BY <1>1, <1>2, <2>1
    <2> HIDE DEF kept, e, E
    <2>3. /\ ring' \in Seq(E) /\ Len(ring') = Len(kept) + 1
          /\ ring'[Len(ring')] = e
          /\ \A k \in 1..Len(kept) : ring'[k] = kept[k]
      BY <1>1, <2>2
    <2>4. DOMAIN ring' = 1..Len(ring') /\ DOMAIN ring = 1..Len(ring)
      BY <1>1, <2>3
    <2>5. \A k \in DOMAIN ring' : k # Len(ring') => k \in 1..Len(kept)
      BY <2>1, <2>2, <2>3, <2>4
    <2>6. \A k \in DOMAIN ring' : k # Len(ring') => k + 1 \in DOMAIN ring /\ ring'[k] = ring[k + 1]
      BY <2>2, <2>3, <2>4, <2>5
    <2>7. Len(ring') <= RingCapacity
      BY <1>2, <2>1, <2>2, <2>3
    <2>8. QED
      BY <2>3, <2>6, <2>7 DEF TypeRing, e, E
  <1>3. CASE Len(ring) # RingCapacity
    <2>1. kept = ring /\ Len(ring) \in Nat
      BY <1>1, <1>3
    <2> HIDE DEF kept, e, E
    <2>2. /\ ring' \in Seq(E) /\ Len(ring') = Len(ring) + 1
          /\ ring'[Len(ring')] = e
          /\ \A k \in 1..Len(ring) : ring'[k] = ring[k]
      BY <1>1, <2>1
    <2>3. DOMAIN ring' = 1..Len(ring') /\ DOMAIN ring = 1..Len(ring)
      BY <1>1, <2>2
    <2>4. \A k \in DOMAIN ring' : k # Len(ring') => k \in DOMAIN ring /\ ring'[k] = ring[k]
      BY <2>1, <2>2, <2>3
    <2>5. Len(ring) <= RingCapacity => Len(ring') <= RingCapacity
      BY <1>3, <2>1, <2>2, RingAssumption
    <2>6. QED
      BY <2>2, <2>4, <2>5 DEF TypeRing, e, E
  <1>4. QED
    BY <1>2, <1>3

(* Every step keeps the type of the ring. *)
LEMMA TypeRingKept ==
    ASSUME TypeOK, [Next]_vars
    PROVE  TypeRing'
  <1>0. TypeRing
    BY DEF TypeOK, TypeRing, Causes
  <1>1. ASSUME NEW i \in Isolates, HostSend(i) PROVE TypeRing'
    BY <1>1, <1>0 DEF TypeRing, HostSend
  <1>2. ASSUME NEW c \in CallIds, DeadlinePasses(c) PROVE TypeRing'
    BY <1>2, <1>0 DEF TypeRing, DeadlinePasses
  <1>3. ASSUME BeginStep PROVE TypeRing'
    BY <1>3, <1>0 DEF TypeRing, BeginStep
  <1>4. ASSUME Snapshot PROVE TypeRing'
    BY <1>4, <1>0 DEF TypeRing, Snapshot
  <1>5. ASSUME EndDelivery PROVE TypeRing'
    BY <1>5, <1>0 DEF TypeRing, EndDelivery
  <1>6. ASSUME NEW c \in CallIds, HarvestTimeout(c) PROVE TypeRing'
    BY <1>6, <1>0, RecordKeeps DEF HarvestTimeout, Causes
  <1>7. ASSUME NEW i \in Isolates, HandlerPanics(i) PROVE TypeRing'
    BY <1>7, <1>0 DEF TypeRing, HandlerPanics
  <1>8. ASSUME NEW i \in Isolates, HandlerCaptures(i) PROVE TypeRing'
    BY <1>8, <1>0 DEF TypeRing, HandlerCaptures
  <1>9. ASSUME NEW i \in Isolates, HandlerAnswers(i) PROVE TypeRing'
    BY <1>9, <1>0 DEF TypeRing, HandlerAnswers
  <1>10. ASSUME NEW i \in Isolates, HandlerAbandons(i) PROVE TypeRing'
    BY <1>10, <1>0 DEF TypeRing, HandlerAbandons
  <1>11. ASSUME NEW j \in Isolates, Send(j) PROVE TypeRing'
    BY <1>11, <1>0 DEF TypeRing, Send
  <1>12. ASSUME NEW j \in Isolates, Call(j) PROVE TypeRing'
    BY <1>12, <1>0 DEF TypeRing, Call
  <1>13. ASSUME NEW c \in CallIds, CancelCall(c) PROVE TypeRing'
    <2>1. Record(c, "CallerCancelled") \/ UNCHANGED ring
      BY <1>13 DEF CancelCall
    <2>2. QED
      BY <1>0, <2>1, RecordKeeps DEF Causes, TypeRing
  <1>14. ASSUME Answer PROVE TypeRing'
    BY <1>14, <1>0 DEF TypeRing, Answer
  <1>15. ASSUME NEW s \in SlotIds, DropHandle(s) PROVE TypeRing'
    BY <1>15, <1>0 DEF TypeRing, DropHandle
  <1>16. ASSUME NEW s \in SlotIds, NEW typed \in BOOLEAN, ReplyTo(s, typed)
         PROVE  TypeRing'
    BY <1>16, <1>0 DEF TypeRing, ReplyTo
  <1>17. ASSUME NEW b \in BOOLEAN, Spawn(b) PROVE TypeRing'
    BY <1>17, <1>0 DEF TypeRing, Spawn
  <1>18. ASSUME NEW b \in BOOLEAN, SpawnObserved(b) PROVE TypeRing'
    BY <1>18, <1>0 DEF TypeRing, SpawnObserved
  <1>19. ASSUME NEW b \in BOOLEAN, Stop(b) PROVE TypeRing'
    BY <1>19, <1>0 DEF TypeRing, Stop
  <1>20. ASSUME StopChildren PROVE TypeRing'
    BY <1>20, <1>0 DEF TypeRing, StopChildren
  <1>21. ASSUME EndTurn PROVE TypeRing'
    BY <1>21, <1>0 DEF TypeRing, EndTurn
  <1>22. ASSUME StopEntry PROVE TypeRing'
    BY <1>22, <1>0 DEF TypeRing, StopEntry
  <1>23. ASSUME CancelOwnCall PROVE TypeRing'
    <2>1. Record(Least(OwnCalls), "OwnerStopped") /\ OwnCalls # {}
      BY <1>23 DEF CancelOwnCall
    <2>2. Least(OwnCalls) \in CallIds
      BY <2>1, OwnCallsLeast DEF TypeOK
    <2>3. QED
      BY <1>0, <2>1, <2>2, RecordKeeps DEF Causes
  <1>24. ASSUME DropCollected PROVE TypeRing'
    BY <1>24, <1>0 DEF TypeRing, DropCollected
  <1>25. ASSUME DrainMessage PROVE TypeRing'
    BY <1>25, <1>0 DEF TypeRing, DrainMessage
  <1>26. ASSUME EndStop PROVE TypeRing'
    BY <1>26, <1>0 DEF TypeRing, EndStop
  <1>27. ASSUME NEW s \in SlotIds, CloseOwnSlot(s) PROVE TypeRing'
    BY <1>27, <1>0 DEF TypeRing, CloseOwnSlot
  <1>28. ASSUME NEW s \in SlotIds, SweepSlot(s) PROVE TypeRing'
    BY <1>28, <1>0 DEF TypeRing, SweepSlot
  <1>29. ASSUME CollectEntry PROVE TypeRing'
    BY <1>29, <1>0 DEF TypeRing, CollectEntry
  <1>30. ASSUME EndStep PROVE TypeRing'
    BY <1>30, <1>0 DEF TypeRing, EndStep
  <1>31. CASE UNCHANGED vars
    BY <1>31, <1>0 DEF TypeRing, vars
  <1>32. ASSUME NEW i \in Isolates, Supervise(i) PROVE TypeRing'
    BY <1>32, <1>0 DEF TypeRing, Supervise
  <1>33. QED
    BY <1>1, <1>2, <1>3, <1>4, <1>5, <1>6, <1>7, <1>8, <1>9, <1>10, <1>11,
       <1>12, <1>13, <1>14, <1>15, <1>16, <1>17, <1>18, <1>19, <1>20, <1>21,
       <1>22, <1>23, <1>24, <1>25, <1>26, <1>27, <1>28, <1>29, <1>30, <1>31,
       <1>32 DEF Next, Step, Handle, ExecuteEffect, StopSteps

(* Every step keeps TypeOK. *)
LEMMA TypeKept ==
    ASSUME TypeOK, TurnOwned, CallsFresh, OneContext, ReservationsHonoured, [Next]_vars
    PROVE  TypeOK'
  <1>1. TypeControl' /\ TypeTree' /\ TypeLanes' /\ TypeCalls' /\ TypeSlots' /\ TypeRing'
    BY TypeControlKept, TypeTreeKept, TypeLanesKept, TypeCallsKept, TypeSlotsKept, TypeRingKept
  <1>2. MailboxType'
    BY QueueMoves, MailboxTypeKept
  <1>3. QED
    BY <1>1, <1>2 DEF TypeOK, TypeControl, TypeTree, TypeLanes, TypeCalls, TypeSlots,
       TypeRing, Causes, MailboxType

-----------------------------------------------------------------------------
(* Who runs, and who is being closed. *)

(* Registering an isolate leaves the others open. *)
LEMMA RegisterOpens ==
    ASSUME TypeOK, NEW p \in Isolates, Register(p)
    PROVE  /\ Registered' = Registered \cup {nextIsolate}
           /\ \A i : Open(i) => Open(i)'
  <1>1. /\ entries \in Seq(Isolates) /\ nextIsolate \in Isolates /\ stopped' = stopped
        /\ entries' = Append(entries, nextIsolate)
    BY RegisterTyped DEF TypeOK, Register
  <1>2. /\ DOMAIN entries' = DOMAIN entries \cup {Len(entries) + 1}
        /\ \A k \in DOMAIN entries : entries'[k] = entries[k]
        /\ entries'[Len(entries) + 1] = nextIsolate
    BY <1>1
  <1>3. Registered' = Registered \cup {nextIsolate}
    BY <1>2 DEF Registered
  <1>4. QED
    BY <1>1, <1>3 DEF Open

(* An isolate runs until stop_entry_full marks its entry stopped. *)
LEMMA OpenKept ==
    ASSUME TypeOK, [Next]_vars, NEW x, Open(x)
    PROVE  Open(x)' \/ (StopEntry /\ x = Victim)
  <1>1. ASSUME NEW i \in Isolates, HostSend(i)
        PROVE  Open(x)' \/ (StopEntry /\ x = Victim)
    BY <1>1 DEF Open, Registered, HostSend, tree
  <1>2. ASSUME NEW c \in CallIds, DeadlinePasses(c)
        PROVE  Open(x)' \/ (StopEntry /\ x = Victim)
    BY <1>2 DEF Open, Registered, DeadlinePasses, tree
  <1>3. ASSUME BeginStep PROVE Open(x)' \/ (StopEntry /\ x = Victim)
    BY <1>3 DEF Open, Registered, BeginStep, tree
  <1>4. ASSUME Snapshot PROVE Open(x)' \/ (StopEntry /\ x = Victim)
    BY <1>4 DEF Open, Registered, Snapshot, tree
  <1>5. ASSUME EndDelivery PROVE Open(x)' \/ (StopEntry /\ x = Victim)
    BY <1>5 DEF Open, Registered, EndDelivery, tree
  <1>6. ASSUME NEW c \in CallIds, HarvestTimeout(c)
        PROVE  Open(x)' \/ (StopEntry /\ x = Victim)
    BY <1>6 DEF Open, Registered, HarvestTimeout, tree
  <1>7. ASSUME NEW i \in Isolates, HandlerPanics(i)
        PROVE  Open(x)' \/ (StopEntry /\ x = Victim)
    BY <1>7 DEF Open, Registered, HandlerPanics, tree
  <1>8. ASSUME NEW i \in Isolates, HandlerCaptures(i)
        PROVE  Open(x)' \/ (StopEntry /\ x = Victim)
    BY <1>8 DEF Open, Registered, HandlerCaptures, tree
  <1>9. ASSUME NEW i \in Isolates, HandlerAnswers(i)
        PROVE  Open(x)' \/ (StopEntry /\ x = Victim)
    BY <1>9 DEF Open, Registered, HandlerAnswers, tree
  <1>10. ASSUME NEW i \in Isolates, HandlerAbandons(i)
         PROVE  Open(x)' \/ (StopEntry /\ x = Victim)
    BY <1>10 DEF Open, Registered, HandlerAbandons, tree
  <1>11. ASSUME NEW j \in Isolates, Send(j) PROVE Open(x)' \/ (StopEntry /\ x = Victim)
    BY <1>11 DEF Open, Registered, Send, tree
  <1>12. ASSUME NEW j \in Isolates, Call(j) PROVE Open(x)' \/ (StopEntry /\ x = Victim)
    BY <1>12 DEF Open, Registered, Call, tree
  <1>13. ASSUME NEW c \in CallIds, CancelCall(c)
         PROVE  Open(x)' \/ (StopEntry /\ x = Victim)
    BY <1>13 DEF Open, Registered, CancelCall, tree
  <1>14. ASSUME Answer PROVE Open(x)' \/ (StopEntry /\ x = Victim)
    BY <1>14 DEF Open, Registered, Answer, tree
  <1>15. ASSUME NEW s \in SlotIds, DropHandle(s)
         PROVE  Open(x)' \/ (StopEntry /\ x = Victim)
    BY <1>15 DEF Open, Registered, DropHandle, tree
  <1>16. ASSUME NEW s \in SlotIds, NEW typed \in BOOLEAN, ReplyTo(s, typed)
         PROVE  Open(x)' \/ (StopEntry /\ x = Victim)
    BY <1>16 DEF Open, Registered, ReplyTo, tree
  <1>17. ASSUME NEW b \in BOOLEAN, Spawn(b) PROVE Open(x)' \/ (StopEntry /\ x = Victim)
    <2>1. current \in Isolates /\ Register(current)
      BY <1>17 DEF Spawn, Effect, TypeOK
    <2>2. QED
      BY <2>1, RegisterOpens
  <1>18. ASSUME NEW b \in BOOLEAN, SpawnObserved(b)
         PROVE  Open(x)' \/ (StopEntry /\ x = Victim)
    <2>1. current \in Isolates /\ (Register(current) \/ UNCHANGED tree)
      BY <1>18 DEF SpawnObserved, Effect, TypeOK
    <2>2. QED
      BY <2>1, RegisterOpens DEF Open, Registered, tree
  <1>19. ASSUME NEW b \in BOOLEAN, Stop(b) PROVE Open(x)' \/ (StopEntry /\ x = Victim)
    BY <1>19 DEF Open, Registered, Stop, tree
  <1>20. ASSUME StopChildren PROVE Open(x)' \/ (StopEntry /\ x = Victim)
    BY <1>20 DEF Open, Registered, StopChildren, tree
  <1>21. ASSUME EndTurn PROVE Open(x)' \/ (StopEntry /\ x = Victim)
    BY <1>21 DEF Open, Registered, EndTurn, tree
  <1>22. ASSUME StopEntry PROVE Open(x)' \/ (StopEntry /\ x = Victim)
    BY <1>22 DEF Open, Registered, StopEntry, tree
  <1>23. ASSUME CancelOwnCall PROVE Open(x)' \/ (StopEntry /\ x = Victim)
    BY <1>23 DEF Open, Registered, CancelOwnCall, tree
  <1>24. ASSUME DropCollected PROVE Open(x)' \/ (StopEntry /\ x = Victim)
    BY <1>24 DEF Open, Registered, DropCollected, tree
  <1>25. ASSUME DrainMessage PROVE Open(x)' \/ (StopEntry /\ x = Victim)
    BY <1>25 DEF Open, Registered, DrainMessage, tree
  <1>26. ASSUME EndStop PROVE Open(x)' \/ (StopEntry /\ x = Victim)
    BY <1>26 DEF Open, Registered, EndStop, tree
  <1>27. ASSUME NEW s \in SlotIds, CloseOwnSlot(s)
         PROVE  Open(x)' \/ (StopEntry /\ x = Victim)
    BY <1>27 DEF Open, Registered, CloseOwnSlot, tree
  <1>28. ASSUME NEW s \in SlotIds, SweepSlot(s)
         PROVE  Open(x)' \/ (StopEntry /\ x = Victim)
    BY <1>28 DEF Open, Registered, SweepSlot, tree
  <1>29. ASSUME CollectEntry PROVE Open(x)' \/ (StopEntry /\ x = Victim)
    BY <1>29, CollectKeeps
  <1>30. ASSUME EndStep PROVE Open(x)' \/ (StopEntry /\ x = Victim)
    BY <1>30 DEF Open, Registered, EndStep, tree
  <1>31. CASE UNCHANGED vars
    BY <1>31 DEF Open, Registered, vars, tree
  <1>32. ASSUME NEW i \in Isolates, Supervise(i)
         PROVE  Open(x)' \/ (StopEntry /\ x = Victim)
    BY <1>32 DEF Open, Registered, Supervise, tree
  <1>33. QED
    BY <1>1, <1>2, <1>3, <1>4, <1>5, <1>6, <1>7, <1>8, <1>9, <1>10, <1>11,
       <1>12, <1>13, <1>14, <1>15, <1>16, <1>17, <1>18, <1>19, <1>20, <1>21,
       <1>22, <1>23, <1>24, <1>25, <1>26, <1>27, <1>28, <1>29, <1>30, <1>31,
       <1>32 DEF Next, Step, Handle, ExecuteEffect, StopSteps

(* A stop at work goes on with the same isolate until it ends. *)
LEMMA CloseKept ==
    ASSUME pc = "close", [Next]_vars
    PROVE  (pc' = pc /\ victims' = victims) \/ EndStop
  <1>1. ASSUME NEW i \in Isolates, HostSend(i)
        PROVE  (pc' = pc /\ victims' = victims) \/ EndStop
    BY <1>1 DEF HostSend, control
  <1>2. ASSUME NEW c \in CallIds, DeadlinePasses(c)
        PROVE  (pc' = pc /\ victims' = victims) \/ EndStop
    BY <1>2 DEF DeadlinePasses, control
  <1>3. ASSUME BeginStep PROVE (pc' = pc /\ victims' = victims) \/ EndStop
    BY <1>3 DEF BeginStep, control
  <1>4. ASSUME Snapshot PROVE (pc' = pc /\ victims' = victims) \/ EndStop
    BY <1>4 DEF Snapshot, control
  <1>5. ASSUME EndDelivery PROVE (pc' = pc /\ victims' = victims) \/ EndStop
    BY <1>5 DEF EndDelivery, control
  <1>6. ASSUME NEW c \in CallIds, HarvestTimeout(c)
        PROVE  (pc' = pc /\ victims' = victims) \/ EndStop
    BY <1>6 DEF HarvestTimeout, control
  <1>7. ASSUME NEW i \in Isolates, HandlerPanics(i)
        PROVE  (pc' = pc /\ victims' = victims) \/ EndStop
    BY <1>7 DEF HandlerPanics, IsNext
  <1>8. ASSUME NEW i \in Isolates, HandlerCaptures(i)
        PROVE  (pc' = pc /\ victims' = victims) \/ EndStop
    BY <1>8 DEF HandlerCaptures, IsNext
  <1>9. ASSUME NEW i \in Isolates, HandlerAnswers(i)
        PROVE  (pc' = pc /\ victims' = victims) \/ EndStop
    BY <1>9 DEF HandlerAnswers, IsNext
  <1>10. ASSUME NEW i \in Isolates, HandlerAbandons(i)
         PROVE  (pc' = pc /\ victims' = victims) \/ EndStop
    BY <1>10 DEF HandlerAbandons, IsNext
  <1>11. ASSUME NEW j \in Isolates, Send(j)
         PROVE  (pc' = pc /\ victims' = victims) \/ EndStop
    BY <1>11 DEF Send, Effect
  <1>12. ASSUME NEW j \in Isolates, Call(j)
         PROVE  (pc' = pc /\ victims' = victims) \/ EndStop
    BY <1>12 DEF Call, Effect
  <1>13. ASSUME NEW c \in CallIds, CancelCall(c)
         PROVE  (pc' = pc /\ victims' = victims) \/ EndStop
    BY <1>13 DEF CancelCall, Effect
  <1>14. ASSUME Answer PROVE (pc' = pc /\ victims' = victims) \/ EndStop
    BY <1>14 DEF Answer, control
  <1>15. ASSUME NEW s \in SlotIds, DropHandle(s)
         PROVE  (pc' = pc /\ victims' = victims) \/ EndStop
    BY <1>15 DEF DropHandle, control
  <1>16. ASSUME NEW s \in SlotIds, NEW typed \in BOOLEAN, ReplyTo(s, typed)
         PROVE  (pc' = pc /\ victims' = victims) \/ EndStop
    BY <1>16 DEF ReplyTo, Effect
  <1>17. ASSUME NEW b \in BOOLEAN, Spawn(b)
         PROVE  (pc' = pc /\ victims' = victims) \/ EndStop
    BY <1>17 DEF Spawn, Effect
  <1>18. ASSUME NEW b \in BOOLEAN, SpawnObserved(b)
         PROVE  (pc' = pc /\ victims' = victims) \/ EndStop
    BY <1>18 DEF SpawnObserved, Effect
  <1>19. ASSUME NEW b \in BOOLEAN, Stop(b)
         PROVE  (pc' = pc /\ victims' = victims) \/ EndStop
    BY <1>19 DEF Stop, control
  <1>20. ASSUME StopChildren PROVE (pc' = pc /\ victims' = victims) \/ EndStop
    BY <1>20 DEF StopChildren, control
  <1>21. ASSUME EndTurn PROVE (pc' = pc /\ victims' = victims) \/ EndStop
    BY <1>21 DEF EndTurn, control
  <1>22. ASSUME StopEntry PROVE (pc' = pc /\ victims' = victims) \/ EndStop
    BY <1>22 DEF StopEntry, control
  <1>23. ASSUME CancelOwnCall PROVE (pc' = pc /\ victims' = victims) \/ EndStop
    BY <1>23 DEF CancelOwnCall, control
  <1>24. ASSUME DropCollected PROVE (pc' = pc /\ victims' = victims) \/ EndStop
    BY <1>24 DEF DropCollected, control
  <1>25. ASSUME DrainMessage PROVE (pc' = pc /\ victims' = victims) \/ EndStop
    BY <1>25 DEF DrainMessage, control
  <1>26. ASSUME EndStop PROVE (pc' = pc /\ victims' = victims) \/ EndStop
    BY <1>26
  <1>27. ASSUME NEW s \in SlotIds, CloseOwnSlot(s)
         PROVE  (pc' = pc /\ victims' = victims) \/ EndStop
    BY <1>27 DEF CloseOwnSlot, control
  <1>28. ASSUME NEW s \in SlotIds, SweepSlot(s)
         PROVE  (pc' = pc /\ victims' = victims) \/ EndStop
    BY <1>28 DEF SweepSlot, control
  <1>29. ASSUME CollectEntry PROVE (pc' = pc /\ victims' = victims) \/ EndStop
    BY <1>29 DEF CollectEntry, control
  <1>30. ASSUME EndStep PROVE (pc' = pc /\ victims' = victims) \/ EndStop
    BY <1>30 DEF EndStep, control
  <1>31. CASE UNCHANGED vars
    BY <1>31 DEF vars, control
  <1>32. ASSUME NEW i \in Isolates, Supervise(i)
         PROVE  (pc' = pc /\ victims' = victims) \/ EndStop
    BY <1>32 DEF Supervise, control
  <1>33. QED
    BY <1>1, <1>2, <1>3, <1>4, <1>5, <1>6, <1>7, <1>8, <1>9, <1>10, <1>11,
       <1>12, <1>13, <1>14, <1>15, <1>16, <1>17, <1>18, <1>19, <1>20, <1>21,
       <1>22, <1>23, <1>24, <1>25, <1>26, <1>27, <1>28, <1>29, <1>30, <1>31,
       <1>32 DEF Next, Step, Handle, ExecuteEffect, StopSteps

(* The isolate that owns something runs until the end of its own stop. *)
LEMMA RunsKept ==
    ASSUME TypeOK, [Next]_vars, NEW x, RunsOrCloses(x)
    PROVE  RunsOrCloses(x)' \/ (EndStop /\ x = Victim)
  <1>1. CASE Open(x)
    <2>1. CASE Open(x)'
      BY <2>1 DEF RunsOrCloses
    <2>2. CASE StopEntry /\ x = Victim
      BY <2>2 DEF RunsOrCloses, StopEntry, Victim
    <2>3. QED
      BY <1>1, <2>1, <2>2, OpenKept
  <1>2. CASE pc = "close" /\ x = Victim
    BY <1>2, CloseKept DEF RunsOrCloses, Victim
  <1>3. QED
    BY <1>1, <1>2 DEF RunsOrCloses

(* But for the snapshot, a step only takes messages out of the round. *)
LEMMA RoundTaken ==
    ASSUME TypeOK, ~Snapshot, [Next]_vars, NEW x \in Isolates
    PROVE  round'[x] = round[x] \/ round'[x] = Nothing
  <1>1. ASSUME NEW i \in Isolates, HostSend(i)
        PROVE  round'[x] = round[x] \/ round'[x] = Nothing
    BY <1>1 DEF HostSend, queues
  <1>2. ASSUME NEW c \in CallIds, DeadlinePasses(c)
        PROVE  round'[x] = round[x] \/ round'[x] = Nothing
    BY <1>2 DEF DeadlinePasses, queues
  <1>3. ASSUME BeginStep PROVE round'[x] = round[x] \/ round'[x] = Nothing
    BY <1>3 DEF BeginStep, queues
  <1>4. ASSUME Snapshot PROVE round'[x] = round[x] \/ round'[x] = Nothing
    BY <1>4
  <1>5. ASSUME EndDelivery PROVE round'[x] = round[x] \/ round'[x] = Nothing
    BY <1>5 DEF EndDelivery, queues
  <1>6. ASSUME NEW c \in CallIds, HarvestTimeout(c)
        PROVE  round'[x] = round[x] \/ round'[x] = Nothing
    BY <1>6 DEF HarvestTimeout, queues
  <1>7. ASSUME NEW i \in Isolates, HandlerPanics(i)
        PROVE  round'[x] = round[x] \/ round'[x] = Nothing
    BY <1>7 DEF HandlerPanics, Take, TypeOK
  <1>8. ASSUME NEW i \in Isolates, HandlerCaptures(i)
        PROVE  round'[x] = round[x] \/ round'[x] = Nothing
    BY <1>8 DEF HandlerCaptures, Take, TypeOK
  <1>9. ASSUME NEW i \in Isolates, HandlerAnswers(i)
        PROVE  round'[x] = round[x] \/ round'[x] = Nothing
    BY <1>9 DEF HandlerAnswers, Take, TypeOK
  <1>10. ASSUME NEW i \in Isolates, HandlerAbandons(i)
         PROVE  round'[x] = round[x] \/ round'[x] = Nothing
    BY <1>10 DEF HandlerAbandons, Take, TypeOK
  <1>11. ASSUME NEW j \in Isolates, Send(j)
         PROVE  round'[x] = round[x] \/ round'[x] = Nothing
    BY <1>11 DEF Send, queues
  <1>12. ASSUME NEW j \in Isolates, Call(j)
         PROVE  round'[x] = round[x] \/ round'[x] = Nothing
    BY <1>12 DEF Call, queues
  <1>13. ASSUME NEW c \in CallIds, CancelCall(c)
         PROVE  round'[x] = round[x] \/ round'[x] = Nothing
    BY <1>13 DEF CancelCall, queues
  <1>14. ASSUME Answer PROVE round'[x] = round[x] \/ round'[x] = Nothing
    BY <1>14 DEF Answer, queues
  <1>15. ASSUME NEW s \in SlotIds, DropHandle(s)
         PROVE  round'[x] = round[x] \/ round'[x] = Nothing
    BY <1>15 DEF DropHandle, queues
  <1>16. ASSUME NEW s \in SlotIds, NEW typed \in BOOLEAN, ReplyTo(s, typed)
         PROVE  round'[x] = round[x] \/ round'[x] = Nothing
    BY <1>16 DEF ReplyTo, queues
  <1>17. ASSUME NEW b \in BOOLEAN, Spawn(b)
         PROVE  round'[x] = round[x] \/ round'[x] = Nothing
    BY <1>17 DEF Spawn, queues
  <1>18. ASSUME NEW b \in BOOLEAN, SpawnObserved(b)
         PROVE  round'[x] = round[x] \/ round'[x] = Nothing
    BY <1>18 DEF SpawnObserved, queues
  <1>19. ASSUME NEW b \in BOOLEAN, Stop(b)
         PROVE  round'[x] = round[x] \/ round'[x] = Nothing
    BY <1>19 DEF Stop, queues
  <1>20. ASSUME StopChildren PROVE round'[x] = round[x] \/ round'[x] = Nothing
    BY <1>20 DEF StopChildren, queues
  <1>21. ASSUME EndTurn PROVE round'[x] = round[x] \/ round'[x] = Nothing
    BY <1>21 DEF EndTurn, queues
  <1>22. ASSUME StopEntry PROVE round'[x] = round[x] \/ round'[x] = Nothing
    BY <1>22 DEF StopEntry, queues
  <1>23. ASSUME CancelOwnCall PROVE round'[x] = round[x] \/ round'[x] = Nothing
    BY <1>23 DEF CancelOwnCall, queues
  <1>24. ASSUME DropCollected PROVE round'[x] = round[x] \/ round'[x] = Nothing
    <2>1. Victim \in Isolates
      BY <1>24, VictimTyped DEF DropCollected
    <2>2. QED
      BY <1>24, <2>1 DEF DropCollected, Take, TypeOK
  <1>25. ASSUME DrainMessage PROVE round'[x] = round[x] \/ round'[x] = Nothing
    BY <1>25 DEF DrainMessage, queues
  <1>26. ASSUME EndStop PROVE round'[x] = round[x] \/ round'[x] = Nothing
    BY <1>26 DEF EndStop, queues
  <1>27. ASSUME NEW s \in SlotIds, CloseOwnSlot(s)
         PROVE  round'[x] = round[x] \/ round'[x] = Nothing
    BY <1>27 DEF CloseOwnSlot, queues
  <1>28. ASSUME NEW s \in SlotIds, SweepSlot(s)
         PROVE  round'[x] = round[x] \/ round'[x] = Nothing
    BY <1>28 DEF SweepSlot, queues
  <1>29. ASSUME CollectEntry PROVE round'[x] = round[x] \/ round'[x] = Nothing
    BY <1>29 DEF CollectEntry, queues
  <1>30. ASSUME EndStep PROVE round'[x] = round[x] \/ round'[x] = Nothing
    BY <1>30 DEF EndStep, queues
  <1>31. CASE UNCHANGED vars
    BY <1>31 DEF vars, queues
  <1>32. ASSUME NEW i \in Isolates, Supervise(i)
         PROVE  round'[x] = round[x] \/ round'[x] = Nothing
    BY <1>32 DEF Supervise, queues
  <1>33. QED
    BY <1>1, <1>2, <1>3, <1>4, <1>5, <1>6, <1>7, <1>8, <1>9, <1>10, <1>11,
       <1>12, <1>13, <1>14, <1>15, <1>16, <1>17, <1>18, <1>19, <1>20, <1>21,
       <1>22, <1>23, <1>24, <1>25, <1>26, <1>27, <1>28, <1>29, <1>30, <1>31,
       <1>32 DEF Next, Step, Handle, ExecuteEffect, StopSteps

(* No message of the round outlives the isolate it was collected for. *)
LEMMA RoundLiveKept ==
    ASSUME TypeOK, RoundLive, [Next]_vars
    PROVE  RoundLive'
  <1>1. SUFFICES ASSUME NEW i \in Isolates, round'[i] # Nothing
                 PROVE  RunsOrCloses(i)'
    BY DEF RoundLive
  <1>2. CASE Snapshot
    BY <1>1, <1>2 DEF Snapshot, RunsOrCloses, Open, Registered, tree
  <1>3. CASE ~Snapshot
    <2>1. round[i] # Nothing
      BY <1>1, <1>3, RoundTaken
    <2>2. ~(EndStop /\ i = Victim)
      BY <2>1 DEF EndStop
    <2>3. QED
      BY <2>1, <2>2, RunsKept DEF RoundLive
  <1>4. QED
    BY <1>2, <1>3

(* TurnOwned depends only on the control variables and on who runs. *)
LEMMA TurnFrame ==
    ASSUME TypeOK, TurnOwned, [Next]_vars, UNCHANGED control
    PROVE  TurnOwned'
  <1>1. ~StopEntry
    BY DEF StopEntry, control
  <1>2. Open(current) => Open(current)'
    BY <1>1, OpenKept DEF control
  <1>3. QED
    BY <1>2 DEF TurnOwned, Open, Registered, control

(* An effect that stops nobody keeps it. *)
LEMMA EffectFrame ==
    ASSUME TypeOK, TurnOwned, [Next]_vars, Effect
    PROVE  TurnOwned'
  <1>1. ~StopEntry /\ pc = "effects" /\ Open(current)
    BY DEF Effect, StopEntry, TurnOwned
  <1>2. Open(current)'
    BY <1>1, OpenKept DEF Effect
  <1>3. context' # NoCall => left' >= 1
    BY DEF Effect, TypeOK
  <1>4. QED
    BY <1>1, <1>2, <1>3 DEF TurnOwned, Effect

(* A turn begins with an isolate that runs. *)
LEMMA BeginFrame ==
    ASSUME TypeOK, RoundLive, [Next]_vars, NEW i \in Isolates, IsNext(i), NEW x, Begin(i, x)
    PROVE  TurnOwned'
  <1>1. pc = "deliver" /\ Open(i) /\ ~StopEntry
    BY NextTyped DEF RoundLive, RunsOrCloses, StopEntry
  <1>2. Open(i)' /\ Open(current)'
    BY <1>1, OpenKept DEF Begin
  <1>3. QED
    BY <1>2, BoundsAssumption DEF TurnOwned, Begin

(* Every step keeps TurnOwned. *)
LEMMA TurnOwnedKept ==
    ASSUME TypeOK, TurnOwned, RoundLive, IsolatesFresh, [Next]_vars
    PROVE  TurnOwned'
  <1>1. ASSUME NEW i \in Isolates, HostSend(i) PROVE TurnOwned'
    BY <1>1, TurnFrame DEF HostSend
  <1>2. ASSUME NEW c \in CallIds, DeadlinePasses(c) PROVE TurnOwned'
    BY <1>2, TurnFrame DEF DeadlinePasses
  <1>3. ASSUME BeginStep PROVE TurnOwned'
    BY <1>3 DEF TurnOwned, BeginStep
  <1>4. ASSUME Snapshot PROVE TurnOwned'
    BY <1>4 DEF TurnOwned, Snapshot
  <1>5. ASSUME EndDelivery PROVE TurnOwned'
    BY <1>5 DEF TurnOwned, EndDelivery
  <1>6. ASSUME NEW c \in CallIds, HarvestTimeout(c) PROVE TurnOwned'
    BY <1>6, TurnFrame DEF HarvestTimeout
  <1>7. ASSUME NEW i \in Isolates, HandlerPanics(i) PROVE TurnOwned'
    BY <1>7, NextTyped DEF TurnOwned, HandlerPanics
  <1>8. ASSUME NEW i \in Isolates, HandlerCaptures(i) PROVE TurnOwned'
    BY <1>8, BeginFrame DEF HandlerCaptures
  <1>9. ASSUME NEW i \in Isolates, HandlerAnswers(i) PROVE TurnOwned'
    BY <1>9, BeginFrame DEF HandlerAnswers
  <1>10. ASSUME NEW i \in Isolates, HandlerAbandons(i) PROVE TurnOwned'
    BY <1>10, BeginFrame DEF HandlerAbandons
  <1>11. ASSUME NEW j \in Isolates, Send(j) PROVE TurnOwned'
    BY <1>11, EffectFrame DEF Send
  <1>12. ASSUME NEW j \in Isolates, Call(j) PROVE TurnOwned'
    BY <1>12, EffectFrame DEF Call
  <1>13. ASSUME NEW c \in CallIds, CancelCall(c) PROVE TurnOwned'
    BY <1>13, EffectFrame DEF CancelCall
  <1>14. ASSUME Answer PROVE TurnOwned'
    <2>1. ~StopEntry /\ Open(current) /\ UNCHANGED <<current, pc>> /\ context' = NoCall /\ pc = "effects"
      BY <1>14 DEF Answer, StopEntry, TurnOwned
    <2>2. Open(current)'
      BY <2>1, OpenKept
    <2>3. QED
      BY <2>1, <2>2 DEF TurnOwned
  <1>15. ASSUME NEW s \in SlotIds, DropHandle(s) PROVE TurnOwned'
    BY <1>15, TurnFrame DEF DropHandle
  <1>16. ASSUME NEW s \in SlotIds, NEW typed \in BOOLEAN, ReplyTo(s, typed)
         PROVE  TurnOwned'
    BY <1>16, EffectFrame DEF ReplyTo
  <1>17. ASSUME NEW b \in BOOLEAN, Spawn(b) PROVE TurnOwned'
    BY <1>17, EffectFrame DEF Spawn
  <1>18. ASSUME NEW b \in BOOLEAN, SpawnObserved(b) PROVE TurnOwned'
    BY <1>18, EffectFrame DEF SpawnObserved
  <1>19. ASSUME NEW b \in BOOLEAN, Stop(b) PROVE TurnOwned'
    BY <1>19 DEF TurnOwned, Stop
  <1>20. ASSUME StopChildren PROVE TurnOwned'
    <2>1. Open(current) /\ current \in Isolates /\ ~StopEntry
      BY <1>20 DEF StopChildren, StopEntry, TurnOwned, TypeOK
    <2>2. current \notin victims' /\ UNCHANGED <<current, context>> /\ pc' = "stop"
      BY <1>20, <2>1 DEF StopChildren, IsolatesFresh, Isolates
    <2>3. Open(current)'
      BY <2>1, <2>2, OpenKept
    <2>4. context' # NoCall => left' >= 1
      BY <1>20 DEF StopChildren, TypeOK
    <2>5. QED
      BY <2>2, <2>3, <2>4 DEF TurnOwned
  <1>21. ASSUME EndTurn PROVE TurnOwned'
    BY <1>21 DEF TurnOwned, EndTurn, Return
  <1>22. ASSUME StopEntry PROVE TurnOwned'
    <2>1. Victim \in victims /\ pc = "stop"
      BY <1>22, VictimTyped DEF StopEntry
    <2>2. UNCHANGED <<current, context, left, victims>> /\ pc' = "close"
      BY <1>22 DEF StopEntry
    <2>3. CASE victims = {current} /\ context = NoCall
      BY <2>2, <2>3 DEF TurnOwned
    <2>4. CASE current \notin victims /\ Open(current)
      <3>1. Open(current)'
        BY <2>1, <2>2, <2>4, OpenKept
      <3>2. QED
        BY <2>2, <2>4, <3>1 DEF TurnOwned
    <2>5. QED
      BY <2>1, <2>3, <2>4 DEF TurnOwned
  <1>23. ASSUME CancelOwnCall PROVE TurnOwned'
    BY <1>23, TurnFrame DEF CancelOwnCall
  <1>24. ASSUME DropCollected PROVE TurnOwned'
    BY <1>24, TurnFrame DEF DropCollected
  <1>25. ASSUME DrainMessage PROVE TurnOwned'
    BY <1>25, TurnFrame DEF DrainMessage
  <1>26. ASSUME EndStop PROVE TurnOwned'
    <2>1. Victim \in victims /\ pc = "close" /\ ~StopEntry /\ Resume
      BY <1>26, VictimTyped DEF EndStop, StopEntry
    <2>2. CASE Return
      BY <2>2 DEF TurnOwned, Return
    <2>3. CASE victims' = victims \ {Victim} /\ UNCHANGED <<current, context, left>> /\ pc' \in {"stop", "effects"}
      <3>1. CASE victims = {current} /\ context = NoCall
        BY <2>1, <2>3, <3>1 DEF Resume, TurnOwned, Return
      <3>2. CASE current \notin victims /\ Open(current)
        <4>1. Open(current)'
          BY <2>1, <2>3, <3>2, OpenKept
        <4>2. QED
          BY <2>3, <3>2, <4>1 DEF TurnOwned
      <3>3. QED
        BY <2>1, <3>1, <3>2 DEF TurnOwned
    <2>4. QED
      BY <2>1, <2>2, <2>3 DEF Resume
  <1>27. ASSUME NEW s \in SlotIds, CloseOwnSlot(s) PROVE TurnOwned'
    BY <1>27, TurnFrame DEF CloseOwnSlot
  <1>28. ASSUME NEW s \in SlotIds, SweepSlot(s) PROVE TurnOwned'
    BY <1>28, TurnFrame DEF SweepSlot
  <1>29. ASSUME CollectEntry PROVE TurnOwned'
    BY <1>29, TurnFrame DEF CollectEntry
  <1>30. ASSUME EndStep PROVE TurnOwned'
    BY <1>30 DEF TurnOwned, EndStep
  <1>31. CASE UNCHANGED vars
    BY <1>31, TurnFrame DEF vars
  <1>32. ASSUME NEW i \in Isolates, Supervise(i) PROVE TurnOwned'
    BY <1>32, TurnFrame DEF Supervise
  <1>33. QED
    BY <1>1, <1>2, <1>3, <1>4, <1>5, <1>6, <1>7, <1>8, <1>9, <1>10, <1>11,
       <1>12, <1>13, <1>14, <1>15, <1>16, <1>17, <1>18, <1>19, <1>20, <1>21,
       <1>22, <1>23, <1>24, <1>25, <1>26, <1>27, <1>28, <1>29, <1>30, <1>31,
       <1>32 DEF Next, Step, Handle, ExecuteEffect, StopSteps

-----------------------------------------------------------------------------
(* Ids are fresh. *)

IdsBelow == \A i \in Registered \cup stopped \cup victims : i < nextIsolate
ParentsBelow == \A i \in Isolates : parent[i] < i
UnusedEmpty == \A i \in Isolates : i >= nextIsolate => mailbox[i] = <<>>

(* An isolate that runs has been given its id. *)
LEMMA OpenBelow ==
    ASSUME IdsBelow, NEW i, Open(i)
    PROVE  i < nextIsolate
  BY DEF IdsBelow, Open

(* IdsBelow depends only on the ids in use. *)
LEMMA IdsFrame ==
    ASSUME IdsBelow, UNCHANGED tree, victims' \subseteq victims \cup {i \in Isolates : Open(i)}
    PROVE  IdsBelow'
  BY OpenBelow DEF IdsBelow, tree, Registered

(* A registration uses the next id. *)
LEMMA IdsRegister ==
    ASSUME TypeOK, IdsBelow, NEW p \in Isolates, Register(p), victims' = victims
    PROVE  IdsBelow'
  <1>1. /\ Registered' = Registered \cup {nextIsolate} /\ nextIsolate' = nextIsolate + 1
        /\ stopped' = stopped
    BY RegisterOpens DEF Register
  <1>2. /\ nextIsolate \in Int /\ stopped \subseteq Int /\ victims \subseteq Int
        /\ Registered \subseteq Int
    <2>1. /\ nextIsolate \in Int /\ stopped \subseteq Isolates /\ victims \subseteq Isolates
          /\ Registered \subseteq Isolates
      BY DEF TypeOK, Registered
    <2>2. Isolates \subseteq Int
      BY DEF Isolates
    <2>3. QED
      BY <2>1, <2>2
  <1>3. QED
    BY <1>1, <1>2 DEF IdsBelow

(* Every step keeps every id in use below the next one. *)
LEMMA IdsBelowKept ==
    ASSUME TypeOK, TurnOwned, RoundLive, IdsBelow, [Next]_vars
    PROVE  IdsBelow'
  <1>1. ASSUME NEW i \in Isolates, HostSend(i) PROVE IdsBelow'
    BY <1>1, IdsFrame DEF HostSend, control
  <1>2. ASSUME NEW c \in CallIds, DeadlinePasses(c) PROVE IdsBelow'
    BY <1>2, IdsFrame DEF DeadlinePasses, control
  <1>3. ASSUME BeginStep PROVE IdsBelow'
    BY <1>3, IdsFrame DEF BeginStep, control
  <1>4. ASSUME Snapshot PROVE IdsBelow'
    BY <1>4, IdsFrame DEF Snapshot, control
  <1>5. ASSUME EndDelivery PROVE IdsBelow'
    BY <1>5, IdsFrame DEF EndDelivery, control
  <1>6. ASSUME NEW c \in CallIds, HarvestTimeout(c) PROVE IdsBelow'
    BY <1>6, IdsFrame DEF HarvestTimeout, control
  <1>7. ASSUME NEW i \in Isolates, HandlerPanics(i) PROVE IdsBelow'
    <2>1. Open(i)
      BY <1>7, NextTyped DEF HandlerPanics, RoundLive, RunsOrCloses
    <2>2. QED
      BY <1>7, <2>1, IdsFrame DEF HandlerPanics
  <1>8. ASSUME NEW i \in Isolates, HandlerCaptures(i) PROVE IdsBelow'
    BY <1>8, IdsFrame DEF HandlerCaptures, Begin
  <1>9. ASSUME NEW i \in Isolates, HandlerAnswers(i) PROVE IdsBelow'
    BY <1>9, IdsFrame DEF HandlerAnswers, Begin
  <1>10. ASSUME NEW i \in Isolates, HandlerAbandons(i) PROVE IdsBelow'
    BY <1>10, IdsFrame DEF HandlerAbandons, Begin
  <1>11. ASSUME NEW j \in Isolates, Send(j) PROVE IdsBelow'
    BY <1>11, IdsFrame DEF Send, Effect
  <1>12. ASSUME NEW j \in Isolates, Call(j) PROVE IdsBelow'
    BY <1>12, IdsFrame DEF Call, Effect
  <1>13. ASSUME NEW c \in CallIds, CancelCall(c) PROVE IdsBelow'
    BY <1>13, IdsFrame DEF CancelCall, Effect
  <1>14. ASSUME Answer PROVE IdsBelow'
    BY <1>14, IdsFrame DEF Answer, control
  <1>15. ASSUME NEW s \in SlotIds, DropHandle(s) PROVE IdsBelow'
    BY <1>15, IdsFrame DEF DropHandle, control
  <1>16. ASSUME NEW s \in SlotIds, NEW typed \in BOOLEAN, ReplyTo(s, typed)
         PROVE  IdsBelow'
    BY <1>16, IdsFrame DEF ReplyTo, Effect
  <1>17. ASSUME NEW b \in BOOLEAN, Spawn(b) PROVE IdsBelow'
    <2>1. current \in Isolates /\ Register(current) /\ victims' = victims
      BY <1>17 DEF Spawn, Effect, TypeOK
    <2>2. QED
      BY <2>1, IdsRegister
  <1>18. ASSUME NEW b \in BOOLEAN, SpawnObserved(b) PROVE IdsBelow'
    <2>1. current \in Isolates /\ victims' = victims /\ (Register(current) \/ UNCHANGED tree)
      BY <1>18 DEF SpawnObserved, Effect, TypeOK
    <2>2. QED
      BY <2>1, IdsRegister, IdsFrame
  <1>19. ASSUME NEW b \in BOOLEAN, Stop(b) PROVE IdsBelow'
    <2>1. Open(current) /\ current \in Isolates
      BY <1>19 DEF Stop, TurnOwned, TypeOK
    <2>2. QED
      BY <1>19, <2>1, IdsFrame DEF Stop
  <1>20. ASSUME StopChildren PROVE IdsBelow'
    <2>1. UNCHANGED tree /\ victims' \subseteq {i \in Isolates : Open(i)}
      BY <1>20 DEF StopChildren
    <2>2. QED
      BY <2>1, IdsFrame
  <1>21. ASSUME EndTurn PROVE IdsBelow'
    BY <1>21, IdsFrame DEF EndTurn, Return
  <1>22. ASSUME StopEntry PROVE IdsBelow'
    <2>1. Victim \in victims
      BY <1>22, VictimTyped DEF StopEntry
    <2>2. QED
      BY <1>22, <2>1 DEF StopEntry, IdsBelow, Registered
  <1>23. ASSUME CancelOwnCall PROVE IdsBelow'
    BY <1>23, IdsFrame DEF CancelOwnCall, control
  <1>24. ASSUME DropCollected PROVE IdsBelow'
    BY <1>24, IdsFrame DEF DropCollected, control
  <1>25. ASSUME DrainMessage PROVE IdsBelow'
    BY <1>25, IdsFrame DEF DrainMessage, control
  <1>26. ASSUME EndStop PROVE IdsBelow'
    BY <1>26, IdsFrame DEF EndStop, Resume, Return
  <1>27. ASSUME NEW s \in SlotIds, CloseOwnSlot(s) PROVE IdsBelow'
    BY <1>27, IdsFrame DEF CloseOwnSlot, control
  <1>28. ASSUME NEW s \in SlotIds, SweepSlot(s) PROVE IdsBelow'
    BY <1>28, IdsFrame DEF SweepSlot, control
  <1>29. ASSUME CollectEntry PROVE IdsBelow'
    <2>1. \A i : i \in Registered' => i \in Registered
      BY <1>29, CollectKeeps
    <2>2. QED
      BY <1>29, <2>1 DEF CollectEntry, IdsBelow, control
  <1>30. ASSUME EndStep PROVE IdsBelow'
    BY <1>30, IdsFrame DEF EndStep, control
  <1>31. CASE UNCHANGED vars
    BY <1>31, IdsFrame DEF vars, control
  <1>32. ASSUME NEW i \in Isolates, Supervise(i) PROVE IdsBelow'
    BY <1>32 DEF IdsBelow, Supervise, control, Registered
  <1>33. QED
    BY <1>1, <1>2, <1>3, <1>4, <1>5, <1>6, <1>7, <1>8, <1>9, <1>10, <1>11,
       <1>12, <1>13, <1>14, <1>15, <1>16, <1>17, <1>18, <1>19, <1>20, <1>21,
       <1>22, <1>23, <1>24, <1>25, <1>26, <1>27, <1>28, <1>29, <1>30, <1>31,
       <1>32 DEF Next, Step, Handle, ExecuteEffect, StopSteps

(* The parent of a new child is older: it runs. *)
LEMMA ParentsBelowKept ==
    ASSUME TypeOK, TurnOwned, IdsBelow, ParentsBelow, [Next]_vars
    PROVE  ParentsBelow' /\ nextIsolate <= nextIsolate'
  <1>0. nextIsolate \in Int
    BY DEF TypeOK
  <1>1. ASSUME NEW i \in Isolates, HostSend(i)
        PROVE  ParentsBelow' /\ nextIsolate <= nextIsolate'
    BY <1>1, <1>0 DEF ParentsBelow, HostSend, tree
  <1>2. ASSUME NEW c \in CallIds, DeadlinePasses(c)
        PROVE  ParentsBelow' /\ nextIsolate <= nextIsolate'
    BY <1>2, <1>0 DEF ParentsBelow, DeadlinePasses, tree
  <1>3. ASSUME BeginStep PROVE ParentsBelow' /\ nextIsolate <= nextIsolate'
    BY <1>3, <1>0 DEF ParentsBelow, BeginStep, tree
  <1>4. ASSUME Snapshot PROVE ParentsBelow' /\ nextIsolate <= nextIsolate'
    BY <1>4, <1>0 DEF ParentsBelow, Snapshot, tree
  <1>5. ASSUME EndDelivery PROVE ParentsBelow' /\ nextIsolate <= nextIsolate'
    BY <1>5, <1>0 DEF ParentsBelow, EndDelivery, tree
  <1>6. ASSUME NEW c \in CallIds, HarvestTimeout(c)
        PROVE  ParentsBelow' /\ nextIsolate <= nextIsolate'
    BY <1>6, <1>0 DEF ParentsBelow, HarvestTimeout, tree
  <1>7. ASSUME NEW i \in Isolates, HandlerPanics(i)
        PROVE  ParentsBelow' /\ nextIsolate <= nextIsolate'
    BY <1>7, <1>0 DEF ParentsBelow, HandlerPanics, tree
  <1>8. ASSUME NEW i \in Isolates, HandlerCaptures(i)
        PROVE  ParentsBelow' /\ nextIsolate <= nextIsolate'
    BY <1>8, <1>0 DEF ParentsBelow, HandlerCaptures, tree
  <1>9. ASSUME NEW i \in Isolates, HandlerAnswers(i)
        PROVE  ParentsBelow' /\ nextIsolate <= nextIsolate'
    BY <1>9, <1>0 DEF ParentsBelow, HandlerAnswers, tree
  <1>10. ASSUME NEW i \in Isolates, HandlerAbandons(i)
         PROVE  ParentsBelow' /\ nextIsolate <= nextIsolate'
    BY <1>10, <1>0 DEF ParentsBelow, HandlerAbandons, tree
  <1>11. ASSUME NEW j \in Isolates, Send(j)
         PROVE  ParentsBelow' /\ nextIsolate <= nextIsolate'
    BY <1>11, <1>0 DEF ParentsBelow, Send, tree
  <1>12. ASSUME NEW j \in Isolates, Call(j)
         PROVE  ParentsBelow' /\ nextIsolate <= nextIsolate'
    BY <1>12, <1>0 DEF ParentsBelow, Call, tree
  <1>13. ASSUME NEW c \in CallIds, CancelCall(c)
         PROVE  ParentsBelow' /\ nextIsolate <= nextIsolate'
    BY <1>13, <1>0 DEF ParentsBelow, CancelCall, tree
  <1>14. ASSUME Answer PROVE ParentsBelow' /\ nextIsolate <= nextIsolate'
    BY <1>14, <1>0 DEF ParentsBelow, Answer, tree
  <1>15. ASSUME NEW s \in SlotIds, DropHandle(s)
         PROVE  ParentsBelow' /\ nextIsolate <= nextIsolate'
    BY <1>15, <1>0 DEF ParentsBelow, DropHandle, tree
  <1>16. ASSUME NEW s \in SlotIds, NEW typed \in BOOLEAN, ReplyTo(s, typed)
         PROVE  ParentsBelow' /\ nextIsolate <= nextIsolate'
    BY <1>16, <1>0 DEF ParentsBelow, ReplyTo, tree
  <1>17. ASSUME NEW b \in BOOLEAN, Spawn(b)
         PROVE  ParentsBelow' /\ nextIsolate <= nextIsolate'
    <2>1. pc = "effects" /\ Register(current)
      BY <1>17 DEF Spawn, Effect
    <2>2. QED
      <3>1. current < nextIsolate
        BY <2>1, OpenBelow DEF TurnOwned
      <3>2. parent' = [parent EXCEPT ![nextIsolate] = current] /\ nextIsolate' = nextIsolate + 1
        BY <2>1 DEF Register
      <3>3. QED
        BY <1>0, <3>1, <3>2 DEF ParentsBelow, TypeOK
  <1>18. ASSUME NEW b \in BOOLEAN, SpawnObserved(b)
         PROVE  ParentsBelow' /\ nextIsolate <= nextIsolate'
    <2>1. pc = "effects" /\ (Register(current) \/ UNCHANGED tree)
      BY <1>18 DEF SpawnObserved, Effect
    <2>2. CASE UNCHANGED tree
      BY <1>0, <2>2 DEF ParentsBelow, tree
    <2>3. CASE Register(current)
      <3>1. current < nextIsolate
        BY <2>1, OpenBelow DEF TurnOwned
      <3>2. parent' = [parent EXCEPT ![nextIsolate] = current] /\ nextIsolate' = nextIsolate + 1
        BY <2>3 DEF Register
      <3>3. QED
        BY <1>0, <3>1, <3>2 DEF ParentsBelow, TypeOK
    <2>4. QED
      BY <2>1, <2>2, <2>3
  <1>19. ASSUME NEW b \in BOOLEAN, Stop(b)
         PROVE  ParentsBelow' /\ nextIsolate <= nextIsolate'
    BY <1>19, <1>0 DEF ParentsBelow, Stop, tree
  <1>20. ASSUME StopChildren PROVE ParentsBelow' /\ nextIsolate <= nextIsolate'
    BY <1>20, <1>0 DEF ParentsBelow, StopChildren, tree
  <1>21. ASSUME EndTurn PROVE ParentsBelow' /\ nextIsolate <= nextIsolate'
    BY <1>21, <1>0 DEF ParentsBelow, EndTurn, tree
  <1>22. ASSUME StopEntry PROVE ParentsBelow' /\ nextIsolate <= nextIsolate'
    <2>1. /\ parent' \in {parent, [parent EXCEPT ![Victim] = NoIsolate]}
          /\ nextIsolate' = nextIsolate
      BY <1>22 DEF StopEntry, PruneRecord
    <2>2. CASE parent' = parent
      BY <1>0, <2>1, <2>2 DEF ParentsBelow
    <2>3. CASE parent' = [parent EXCEPT ![Victim] = NoIsolate]
      BY <1>0, <2>1, <2>3 DEF ParentsBelow, TypeOK, NoIsolate, Isolates
    <2>4. QED
      BY <2>1, <2>2, <2>3
  <1>23. ASSUME CancelOwnCall PROVE ParentsBelow' /\ nextIsolate <= nextIsolate'
    BY <1>23, <1>0 DEF ParentsBelow, CancelOwnCall, tree
  <1>24. ASSUME DropCollected PROVE ParentsBelow' /\ nextIsolate <= nextIsolate'
    BY <1>24, <1>0 DEF ParentsBelow, DropCollected, tree
  <1>25. ASSUME DrainMessage PROVE ParentsBelow' /\ nextIsolate <= nextIsolate'
    BY <1>25, <1>0 DEF ParentsBelow, DrainMessage, tree
  <1>26. ASSUME EndStop PROVE ParentsBelow' /\ nextIsolate <= nextIsolate'
    BY <1>26, <1>0 DEF ParentsBelow, EndStop, tree
  <1>27. ASSUME NEW s \in SlotIds, CloseOwnSlot(s)
         PROVE  ParentsBelow' /\ nextIsolate <= nextIsolate'
    BY <1>27, <1>0 DEF ParentsBelow, CloseOwnSlot, tree
  <1>28. ASSUME NEW s \in SlotIds, SweepSlot(s)
         PROVE  ParentsBelow' /\ nextIsolate <= nextIsolate'
    BY <1>28, <1>0 DEF ParentsBelow, SweepSlot, tree
  <1>29. ASSUME CollectEntry PROVE ParentsBelow' /\ nextIsolate <= nextIsolate'
    BY <1>29, <1>0 DEF ParentsBelow, CollectEntry
  <1>30. ASSUME EndStep PROVE ParentsBelow' /\ nextIsolate <= nextIsolate'
    BY <1>30, <1>0 DEF ParentsBelow, EndStep, tree
  <1>31. CASE UNCHANGED vars
    BY <1>31, <1>0 DEF ParentsBelow, vars, tree
  <1>32. ASSUME NEW i \in Isolates, Supervise(i)
         PROVE  ParentsBelow' /\ nextIsolate <= nextIsolate'
    BY <1>32, <1>0 DEF ParentsBelow, Supervise, tree
  <1>33. QED
    BY <1>1, <1>2, <1>3, <1>4, <1>5, <1>6, <1>7, <1>8, <1>9, <1>10, <1>11,
       <1>12, <1>13, <1>14, <1>15, <1>16, <1>17, <1>18, <1>19, <1>20, <1>21,
       <1>22, <1>23, <1>24, <1>25, <1>26, <1>27, <1>28, <1>29, <1>30, <1>31,
       <1>32 DEF Next, Step, Handle, ExecuteEffect, StopSteps

(* A Put reaches no isolate that is not yet registered. *)
LEMMA PutUnused ==
    ASSUME TypeOK, IdsBelow, NEW i \in Isolates, i >= nextIsolate,
           NEW mb \in [Isolates -> Seq(Message)], NEW cx, Put(mb, cx), mb[i] = <<>>
    PROVE  mailbox'[i] = <<>>
  <1>1. CASE mailbox' = mb
    BY <1>1
  <1>2. ASSUME NEW r \in Isolates, NEW m, Accepts(r), mailbox' = Enqueue(mb, r, m)
        PROVE  mailbox'[i] = <<>>
    <2>1. r < nextIsolate
      BY <1>2, OpenBelow DEF Accepts
    <2>2. r # i
      BY <2>1 DEF TypeOK, Isolates
    <2>3. QED
      BY <1>2, <2>2 DEF Enqueue
  <1>3. QED
    BY <1>1, <1>2 DEF Put

(* An isolate not yet registered has no message. *)
LEMMA UnusedEmptyKept ==
    ASSUME TypeOK, IdsBelow, UnusedEmpty, ReservationsHonoured, QueueStep, nextIsolate <= nextIsolate',
           nextIsolate' \in Int
    PROVE  UnusedEmpty'
  <1>1. SUFFICES ASSUME NEW i \in Isolates, i >= nextIsolate'
                 PROVE  mailbox'[i] = <<>>
    BY DEF UnusedEmpty
  <1>2. i >= nextIsolate /\ mailbox[i] = <<>>
    BY <1>1 DEF UnusedEmpty, TypeOK, Isolates
  <1>3. CASE Put(mailbox, callContexts)
    BY <1>2, <1>3, PutUnused DEF TypeOK
  <1>4. CASE Snapshot
    BY <1>2, <1>4 DEF Snapshot, FromMailbox
  <1>5. CASE TakesFromMailbox
    <2> DEFINE mb == [mailbox EXCEPT ![Victim] = Tail(@)]
    <2>1. Victim \in Isolates /\ mailbox[Victim] # <<>>
      BY <1>5, VictimTyped DEF TakesFromMailbox, FromMailbox
    <2>2. mb \in [Isolates -> Seq(Message)] /\ mb[i] = <<>>
      BY <1>2, <2>1, TailTyped DEF TypeOK
    <2>3. QED
      BY <1>2, <1>5, <2>2, PutUnused DEF TakesFromMailbox
  <1>6. CASE Bootstraps
    BY <1>1, <1>2, <1>6 DEF Bootstraps, Enqueue, TypeOK, Isolates
  <1>7. CASE TellsParent
    <2>1. parent[Victim] < nextIsolate /\ parent[Victim] \in Isolates
      BY <1>7, OpenBelow DEF TellsParent, ReservationsHonoured
    <2>2. parent[Victim] # i
      BY <1>2, <2>1 DEF TypeOK, Isolates
    <2>3. QED
      BY <1>2, <1>7, <2>2 DEF TellsParent, Enqueue, TypeOK
  <1>8. QED
    BY <1>3, <1>4, <1>5, <1>6, <1>7 DEF QueueStep

(* Every step keeps IsolatesFresh. *)
LEMMA IsolatesFreshKept ==
    ASSUME TypeOK, TypeOK', TurnOwned, RoundLive, IsolatesFresh, ReservationsHonoured, QueueStep, [Next]_vars
    PROVE  IsolatesFresh'
  <1>1. IdsBelow /\ ParentsBelow /\ UnusedEmpty
    BY DEF IsolatesFresh, IdsBelow, ParentsBelow, UnusedEmpty
  <1>2. IdsBelow' /\ ParentsBelow' /\ nextIsolate <= nextIsolate'
    BY <1>1, IdsBelowKept, ParentsBelowKept
  <1>3. nextIsolate' \in Int
    BY DEF TypeOK
  <1>4. UnusedEmpty'
    BY <1>1, <1>2, <1>3, UnusedEmptyKept
  <1>5. QED
    BY <1>2, <1>4 DEF IsolatesFresh, IdsBelow, ParentsBelow, UnusedEmpty

(* The lane of contexts never runs past its mailbox. *)
LEMMA PutCovered ==
    ASSUME NEW mb \in [Isolates -> Seq(Message)], NEW cx \in [Isolates -> Seq(Contexts)], Put(mb, cx),
           NEW i \in Isolates, Len(cx[i]) <= Len(mb[i])
    PROVE  Len(callContexts'[i]) <= Len(mailbox'[i])
  <1>1. CASE mailbox' = mb /\ callContexts' = cx
    BY <1>1
  <1>2. ASSUME NEW r \in Isolates, NEW m \in Message, NEW x \in Contexts,
               mailbox' = Enqueue(mb, r, m), callContexts' = Enqueue(cx, r, x)
        PROVE  Len(callContexts'[i]) <= Len(mailbox'[i])
    <2>1. CASE r = i
      <3>1. mailbox'[i] = Append(mb[i], m) /\ callContexts'[i] = Append(cx[i], x)
        BY <1>2, <2>1 DEF Enqueue
      <3>2. mb[i] \in Seq(Message) /\ cx[i] \in Seq(Contexts)
        OBVIOUS
      <3>3. QED
        BY <3>1, <3>2
    <2>2. CASE r # i
      BY <1>2, <2>2 DEF Enqueue
    <2>3. QED
      BY <2>1, <2>2
  <1>3. QED
    BY <1>1, <1>2 DEF Put

(* Every move keeps each lane of contexts within its mailbox. *)
LEMMA ContextsCoveredKept ==
    ASSUME TypeOK, ContextsCovered, QueueStep
    PROVE  ContextsCovered'
  <1>1. SUFFICES ASSUME NEW i \in Isolates
                 PROVE  Len(callContexts'[i]) <= Len(mailbox'[i])
    BY DEF ContextsCovered
  <1>2. /\ mailbox \in [Isolates -> Seq(Message)] /\ callContexts \in [Isolates -> Seq(Contexts)]
        /\ mailbox[i] \in Seq(Message) /\ callContexts[i] \in Seq(Contexts)
        /\ Len(callContexts[i]) <= Len(mailbox[i])
    BY DEF TypeOK, ContextsCovered
  <1>3. mailbox[i] # <<>> => Len(Rest(callContexts[i])) <= Len(Tail(mailbox[i]))
    <2>1. CASE callContexts[i] = <<>>
      BY <1>2, <2>1 DEF Rest
    <2>2. CASE callContexts[i] # <<>>
      BY <1>2, <2>2, TailTyped
    <2>3. QED
      BY <2>1, <2>2
  <1>4. CASE Put(mailbox, callContexts)
    BY <1>2, <1>4, PutCovered
  <1>5. CASE Snapshot
    BY <1>2, <1>3, <1>5 DEF Snapshot, FromMailbox
  <1>6. CASE TakesFromMailbox
    <2> DEFINE mb == [mailbox EXCEPT ![Victim] = Tail(@)]
               cx == [callContexts EXCEPT ![Victim] = Rest(@)]
    <2>1. Victim \in Isolates /\ mailbox[Victim] # <<>> /\ Put(mb, cx)
      BY <1>6, VictimTyped DEF TakesFromMailbox, FromMailbox
    <2>2. mb \in [Isolates -> Seq(Message)] /\ cx \in [Isolates -> Seq(Contexts)]
      BY <1>2, <2>1, TailTyped
    <2>3. Len(cx[i]) <= Len(mb[i])
      BY <1>2, <1>3, <2>1
    <2> HIDE DEF mb, cx
    <2>4. QED
      BY <2>1, <2>2, <2>3, PutCovered
  <1>7. CASE Bootstraps
    <2>2. CASE nextIsolate = i
      <3>1. mailbox'[i] = Append(mailbox[i], Plain) /\ callContexts'[i] = Append(callContexts[i], NoCall)
        BY <1>2, <1>7, <2>2 DEF Bootstraps, Enqueue
      <3>2. QED
        BY <1>2, <3>1, MessagesTyped DEF Contexts
    <2>3. CASE nextIsolate # i
      BY <1>2, <1>7, <2>3 DEF Bootstraps, Enqueue
    <2>4. QED
      BY <2>2, <2>3
  <1>8. CASE TellsParent
    <2>1. CASE parent[Victim] = i
      <3>1. mailbox'[i] = Append(mailbox[i], Plain) /\ callContexts'[i] = callContexts[i]
        BY <1>2, <1>8, <2>1 DEF TellsParent, Enqueue
      <3>2. QED
        BY <1>2, <3>1, MessagesTyped
    <2>2. CASE parent[Victim] # i
      BY <1>2, <1>8, <2>2 DEF TellsParent, Enqueue
    <2>3. QED
      BY <2>1, <2>2
  <1>9. QED
    BY <1>4, <1>5, <1>6, <1>7, <1>8 DEF QueueStep

-----------------------------------------------------------------------------
(* Reserved slots are honoured. *)

ObservedBy(i) == {j \in observed : parent[j] = i}
ReservedCounts == \A i \in Isolates : reserved[i] = Cardinality(ObservedBy(i))
ReservedFits == \A i \in Isolates : Len(mailbox[i]) + reserved[i] <= Capacity
ObservedOpen == \A j \in observed : Open(j) /\ Open(parent[j])

(* Only an observed spawn and a stop touch what is observed or reserved. *)
LEMMA ObservedKept ==
    ASSUME [Next]_vars, ~StopEntry, ~\E b \in BOOLEAN : SpawnObserved(b), ~\E b \in BOOLEAN : Spawn(b)
    PROVE  UNCHANGED <<observed, parent, reserved>>
  <1>1. ASSUME NEW i \in Isolates, HostSend(i)
        PROVE  UNCHANGED <<observed, parent, reserved>>
    BY <1>1 DEF HostSend, tree, queues
  <1>2. ASSUME NEW c \in CallIds, DeadlinePasses(c)
        PROVE  UNCHANGED <<observed, parent, reserved>>
    BY <1>2 DEF DeadlinePasses, tree, queues
  <1>3. ASSUME BeginStep PROVE UNCHANGED <<observed, parent, reserved>>
    BY <1>3 DEF BeginStep, tree, queues
  <1>4. ASSUME Snapshot PROVE UNCHANGED <<observed, parent, reserved>>
    BY <1>4 DEF Snapshot, tree, queues
  <1>5. ASSUME EndDelivery PROVE UNCHANGED <<observed, parent, reserved>>
    BY <1>5 DEF EndDelivery, tree, queues
  <1>6. ASSUME NEW c \in CallIds, HarvestTimeout(c)
        PROVE  UNCHANGED <<observed, parent, reserved>>
    BY <1>6 DEF HarvestTimeout, tree, queues
  <1>7. ASSUME NEW i \in Isolates, HandlerPanics(i)
        PROVE  UNCHANGED <<observed, parent, reserved>>
    BY <1>7 DEF HandlerPanics, tree, queues
  <1>8. ASSUME NEW i \in Isolates, HandlerCaptures(i)
        PROVE  UNCHANGED <<observed, parent, reserved>>
    BY <1>8 DEF HandlerCaptures, tree, queues
  <1>9. ASSUME NEW i \in Isolates, HandlerAnswers(i)
        PROVE  UNCHANGED <<observed, parent, reserved>>
    BY <1>9 DEF HandlerAnswers, tree, queues
  <1>10. ASSUME NEW i \in Isolates, HandlerAbandons(i)
         PROVE  UNCHANGED <<observed, parent, reserved>>
    BY <1>10 DEF HandlerAbandons, tree, queues
  <1>11. ASSUME NEW j \in Isolates, Send(j)
         PROVE  UNCHANGED <<observed, parent, reserved>>
    BY <1>11 DEF Send, tree, queues
  <1>12. ASSUME NEW j \in Isolates, Call(j)
         PROVE  UNCHANGED <<observed, parent, reserved>>
    BY <1>12 DEF Call, tree, queues
  <1>13. ASSUME NEW c \in CallIds, CancelCall(c)
         PROVE  UNCHANGED <<observed, parent, reserved>>
    BY <1>13 DEF CancelCall, tree, queues
  <1>14. ASSUME Answer PROVE UNCHANGED <<observed, parent, reserved>>
    BY <1>14 DEF Answer, tree, queues
  <1>15. ASSUME NEW s \in SlotIds, DropHandle(s)
         PROVE  UNCHANGED <<observed, parent, reserved>>
    BY <1>15 DEF DropHandle, tree, queues
  <1>16. ASSUME NEW s \in SlotIds, NEW typed \in BOOLEAN, ReplyTo(s, typed)
         PROVE  UNCHANGED <<observed, parent, reserved>>
    BY <1>16 DEF ReplyTo, tree, queues
  <1>17. ASSUME NEW b \in BOOLEAN, Spawn(b)
         PROVE  UNCHANGED <<observed, parent, reserved>>
    BY <1>17
  <1>18. ASSUME NEW b \in BOOLEAN, SpawnObserved(b)
         PROVE  UNCHANGED <<observed, parent, reserved>>
    BY <1>18
  <1>19. ASSUME NEW b \in BOOLEAN, Stop(b)
         PROVE  UNCHANGED <<observed, parent, reserved>>
    BY <1>19 DEF Stop, tree, queues
  <1>20. ASSUME StopChildren PROVE UNCHANGED <<observed, parent, reserved>>
    BY <1>20 DEF StopChildren, tree, queues
  <1>21. ASSUME EndTurn PROVE UNCHANGED <<observed, parent, reserved>>
    BY <1>21 DEF EndTurn, tree, queues
  <1>22. ASSUME StopEntry PROVE UNCHANGED <<observed, parent, reserved>>
    BY <1>22
  <1>23. ASSUME CancelOwnCall PROVE UNCHANGED <<observed, parent, reserved>>
    BY <1>23 DEF CancelOwnCall, tree, queues
  <1>24. ASSUME DropCollected PROVE UNCHANGED <<observed, parent, reserved>>
    BY <1>24 DEF DropCollected, tree, queues
  <1>25. ASSUME DrainMessage PROVE UNCHANGED <<observed, parent, reserved>>
    BY <1>25 DEF DrainMessage, tree, queues
  <1>26. ASSUME EndStop PROVE UNCHANGED <<observed, parent, reserved>>
    BY <1>26 DEF EndStop, tree, queues
  <1>27. ASSUME NEW s \in SlotIds, CloseOwnSlot(s)
         PROVE  UNCHANGED <<observed, parent, reserved>>
    BY <1>27 DEF CloseOwnSlot, tree, queues
  <1>28. ASSUME NEW s \in SlotIds, SweepSlot(s)
         PROVE  UNCHANGED <<observed, parent, reserved>>
    BY <1>28 DEF SweepSlot, tree, queues
  <1>29. ASSUME CollectEntry PROVE UNCHANGED <<observed, parent, reserved>>
    BY <1>29 DEF CollectEntry, tree, queues
  <1>30. ASSUME EndStep PROVE UNCHANGED <<observed, parent, reserved>>
    BY <1>30 DEF EndStep, tree, queues
  <1>31. CASE UNCHANGED vars
    BY <1>31 DEF vars, tree, queues
  <1>32. ASSUME NEW i \in Isolates, Supervise(i)
         PROVE  UNCHANGED <<observed, parent, reserved>>
    BY <1>32 DEF Supervise, tree, queues
  <1>33. QED
    BY <1>1, <1>2, <1>3, <1>4, <1>5, <1>6, <1>7, <1>8, <1>9, <1>10, <1>11,
       <1>12, <1>13, <1>14, <1>15, <1>16, <1>17, <1>18, <1>19, <1>20, <1>21,
       <1>22, <1>23, <1>24, <1>25, <1>26, <1>27, <1>28, <1>29, <1>30, <1>31,
       <1>32 DEF Next, Step, Handle, ExecuteEffect, StopSteps

(* The new child is not yet observed. *)
LEMMA FreshUnobserved ==
    ASSUME TypeOK, IdsBelow, ObservedOpen
    PROVE  nextIsolate \notin observed
  <1>1. ASSUME nextIsolate \in observed
        PROVE  FALSE
    <2>1. nextIsolate < nextIsolate
      BY <1>1, OpenBelow DEF ObservedOpen
    <2>2. QED
      BY <2>1 DEF TypeOK
  <1>2. QED
    BY <1>1

(* A child that is not observed changes no count. *)
LEMMA SpawnKeepsCounts ==
    ASSUME TypeOK, IdsBelow, ObservedOpen, ReservedCounts, NEW b \in BOOLEAN, Spawn(b)
    PROVE  ReservedCounts' /\ reserved' = reserved /\ observed' = observed
           /\ \A j \in observed : parent'[j] = parent[j]
  <1>1. /\ parent' = [parent EXCEPT ![nextIsolate] = current]
        /\ observed' = observed /\ reserved' = reserved
    BY DEF Spawn, Register
  <1>2. \A j \in observed : parent'[j] = parent[j]
    BY <1>1, FreshUnobserved DEF TypeOK
  <1>3. \A i \in Isolates : ObservedBy(i)' = ObservedBy(i)
    BY <1>1, <1>2 DEF ObservedBy
  <1>4. QED
    BY <1>1, <1>2, <1>3 DEF ReservedCounts

(* An observed child costs its parent one slot. *)
LEMMA SpawnObservedCounts ==
    ASSUME TypeOK, IdsBelow, ObservedOpen, ReservedCounts, NEW b \in BOOLEAN, SpawnObserved(b)
    PROVE  /\ ReservedCounts'
           /\ \A j \in observed : parent'[j] = parent[j]
           /\ \/ observed' = observed /\ reserved' = reserved
              \/ /\ observed' = observed \cup {nextIsolate} /\ HasRoom(current)
                 /\ reserved' = [reserved EXCEPT ![current] = @ + 1]
                 /\ Register(current) /\ parent' = [parent EXCEPT ![nextIsolate] = current]
  <1>1. current \in Isolates
    BY DEF SpawnObserved, Effect, TypeOK
  <1>2. CASE UNCHANGED <<tree, reserved>>
    BY <1>2 DEF ReservedCounts, ObservedBy, tree
  <1>3. CASE /\ Register(current) /\ observed' = observed /\ reserved' = reserved
    <2>1. parent' = [parent EXCEPT ![nextIsolate] = current]
      BY <1>3 DEF Register
    <2>2. \A j \in observed : parent'[j] = parent[j]
      BY <2>1, FreshUnobserved DEF TypeOK
    <2>3. \A i \in Isolates : ObservedBy(i)' = ObservedBy(i)
      BY <1>3, <2>2 DEF ObservedBy
    <2>4. QED
      BY <1>3, <2>2, <2>3 DEF ReservedCounts
  <1>4. CASE /\ Register(current) /\ HasRoom(current) /\ observed' = observed \cup {nextIsolate}
             /\ reserved' = [reserved EXCEPT ![current] = @ + 1]
    <2>1. parent' = [parent EXCEPT ![nextIsolate] = current] /\ nextIsolate \in Isolates
      BY <1>1, <1>4, RegisterTyped DEF Register
    <2>2. (\A j \in observed : parent'[j] = parent[j]) /\ parent'[nextIsolate] = current
      BY <2>1, FreshUnobserved DEF TypeOK
    <2>3. ASSUME NEW i \in Isolates
          PROVE  reserved'[i] = Cardinality(ObservedBy(i)')
      <3>1. IsFiniteSet(ObservedBy(i)) /\ reserved[i] = Cardinality(ObservedBy(i))
        BY <2>3, ObservedFinite DEF ObservedBy, ReservedCounts
      <3>2. CASE i = current
        <4>1. ObservedBy(i)' = ObservedBy(i) \cup {nextIsolate}
          BY <1>4, <2>2, <3>2 DEF ObservedBy
        <4>2. nextIsolate \notin ObservedBy(i)
          BY FreshUnobserved DEF ObservedBy
        <4>3. Cardinality(ObservedBy(i)') = Cardinality(ObservedBy(i)) + 1
          BY <3>1, <4>1, <4>2, FS_AddElement
        <4>4. QED
          BY <1>1, <1>4, <3>1, <3>2, <4>3 DEF TypeOK
      <3>3. CASE i # current
        <4>1. ObservedBy(i)' = ObservedBy(i)
          BY <1>4, <2>2, <3>3 DEF ObservedBy
        <4>2. QED
          BY <1>1, <1>4, <2>3, <3>1, <3>3, <4>1 DEF TypeOK
      <3>4. QED
        BY <3>2, <3>3
    <2>4. QED
      BY <1>4, <2>1, <2>2, <2>3 DEF ReservedCounts
  <1>5. QED
    BY <1>2, <1>3, <1>4 DEF SpawnObserved

(* A stop releases the slot held for the isolate and all the slots it holds. *)
LEMMA StopReleases ==
    ASSUME TypeOK, ParentsBelow, ObservedOpen, ReservedCounts, StopEntry
    PROVE  /\ ReservedCounts'
           /\ observed' = {j \in observed : j # Victim /\ parent[j] # Victim}
           /\ \A j \in observed' : parent'[j] = parent[j]
           /\ \A i \in Isolates : reserved'[i] <= reserved[i]
           /\ Victim \in observed => reserved'[parent[Victim]] = reserved[parent[Victim]] - 1
  <1> DEFINE v == Victim
             n == Cardinality(ObservedBy(v))
  <1>1. v \in Isolates /\ parent[v] # v
    <2>1. v \in Isolates /\ parent[v] < v
      BY VictimTyped DEF StopEntry, ParentsBelow
    <2>2. QED
      BY <2>1 DEF Isolates
  <1>2. /\ observed' = observed \ (ObservedBy(v) \cup {v})
        /\ parent' \in {parent, [parent EXCEPT ![v] = NoIsolate]}
        /\ reserved' = [j \in Isolates |->
                          IF j = v THEN reserved[j] - n
                          ELSE IF v \in observed /\ j = parent[v] THEN reserved[j] - 1
                          ELSE reserved[j]]
    BY DEF StopEntry, PruneRecord, DisposeReservations, ObservedBy
  <1> HIDE DEF v, n
  <1>3. observed' = {j \in observed : j # v /\ parent[j] # v}
    BY <1>2 DEF ObservedBy
  <1>4. \A j \in observed' : parent'[j] = parent[j]
    BY <1>1, <1>2, <1>3 DEF TypeOK
  <1>5. \A i : ObservedBy(i)' = {j \in observed : j # v /\ parent[j] # v /\ parent[j] = i}
    BY <1>3, <1>4 DEF ObservedBy
  <1>6. \A i \in Isolates : /\ IsFiniteSet(ObservedBy(i)) /\ reserved[i] = Cardinality(ObservedBy(i))
                            /\ reserved[i] \in Int
    BY ObservedFinite DEF ObservedBy, ReservedCounts, TypeOK
  <1>7. reserved[v] = n /\ n \in Nat
    BY <1>1, <1>6, FS_CardinalityType DEF n
  <1>8. ASSUME NEW i \in Isolates
        PROVE  reserved'[i] = Cardinality(ObservedBy(i)')
    <2>1. CASE i = v
      <3>1. ObservedBy(i)' = {}
        BY <1>5, <2>1
      <3>2. reserved'[i] = 0
        BY <1>1, <1>2, <1>6, <1>7, <2>1
      <3>3. QED
        BY <3>1, <3>2, FS_EmptySet
    <2>2. CASE i # v /\ v \in observed /\ i = parent[v]
      <3>1. ObservedBy(i)' = ObservedBy(i) \ {v} /\ v \in ObservedBy(i)
        BY <1>5, <2>2 DEF ObservedBy
      <3>2. Cardinality(ObservedBy(i)') = Cardinality(ObservedBy(i)) - 1
        BY <1>6, <1>8, <3>1, FS_RemoveElement
      <3>3. reserved'[i] = reserved[i] - 1
        BY <1>2, <1>8, <2>2
      <3>4. QED
        BY <1>6, <1>8, <3>2, <3>3
    <2>3. CASE i # v /\ ~(v \in observed /\ i = parent[v])
      <3>1. ObservedBy(i)' = ObservedBy(i)
        BY <1>5, <2>3 DEF ObservedBy
      <3>2. reserved'[i] = reserved[i]
        BY <1>2, <1>8, <2>3
      <3>3. QED
        BY <1>6, <1>8, <3>1, <3>2
    <2>4. QED
      BY <2>1, <2>2, <2>3
  <1>9. \A i \in Isolates : reserved'[i] <= reserved[i]
    BY <1>2, <1>6, <1>7
  <1>10. v \in observed => reserved'[parent[v]] = reserved[parent[v]] - 1
    <2>1. v \in observed => parent[v] \in Isolates
      BY OpenTyped DEF ObservedOpen
    <2>2. QED
      BY <1>1, <1>2, <2>1
  <1>11. QED
    BY <1>3, <1>4, <1>8, <1>9, <1>10 DEF ReservedCounts, v

(* Every step keeps one reservation per observed child. *)
LEMMA ReservedCountsKept ==
    ASSUME TypeOK, IdsBelow, ParentsBelow, ObservedOpen, ReservedCounts, [Next]_vars
    PROVE  ReservedCounts'
  <1>1. CASE StopEntry
    BY <1>1, StopReleases
  <1>2. CASE \E b \in BOOLEAN : SpawnObserved(b)
    BY <1>2, SpawnObservedCounts
  <1>3. CASE \E b \in BOOLEAN : Spawn(b)
    BY <1>3, SpawnKeepsCounts
  <1>4. CASE UNCHANGED <<observed, parent, reserved>>
    BY <1>4 DEF ReservedCounts, ObservedBy
  <1>5. QED
    BY <1>1, <1>2, <1>3, <1>4, ObservedKept

(* Neither an observed child nor its parent stops without ending that. *)
LEMMA ObservedOpenKept ==
    ASSUME TypeOK, TurnOwned, IdsBelow, ParentsBelow, ObservedOpen, ReservedCounts, [Next]_vars
    PROVE  ObservedOpen'
  <1> DEFINE Runs(x) == x \in Registered' /\ x \notin stopped'
  <1>1. \A x : Open(x) => Runs(x) \/ (StopEntry /\ x = Victim)
    BY OpenKept DEF Open
  <1>2. SUFFICES \A j \in observed' : Runs(j) /\ Runs(parent'[j])
    BY DEF ObservedOpen, Open
  <1>3. \A j \in observed : Open(j) /\ Open(parent[j])
    BY DEF ObservedOpen
  <1> HIDE DEF Runs
  <1>4. CASE StopEntry
    <2>1. SUFFICES ASSUME NEW j \in observed'
                   PROVE  Runs(j) /\ Runs(parent'[j])
      OBVIOUS
    <2>2. j \in observed /\ j # Victim /\ parent[j] # Victim /\ parent'[j] = parent[j]
      BY <1>4, <2>1, StopReleases
    <2>3. QED
      BY <1>1, <1>3, <2>2
  <1>5. CASE ~StopEntry
    <2>1. \A j \in observed : parent'[j] = parent[j] => Runs(j) /\ Runs(parent'[j])
      BY <1>1, <1>3, <1>5
    <2>2. ASSUME NEW b \in BOOLEAN, SpawnObserved(b)
          PROVE  \A j \in observed' : Runs(j) /\ Runs(parent'[j])
      <3>1. pc = "effects" /\ current \in Isolates /\ Open(current)
        BY <2>2 DEF SpawnObserved, Effect, TurnOwned, TypeOK
      <3>2. CASE observed' = observed
        BY <2>1, <2>2, <3>2, SpawnObservedCounts
      <3>3. CASE observed' # observed
        <4>1. /\ observed' = observed \cup {nextIsolate} /\ Register(current)
              /\ parent' = [parent EXCEPT ![nextIsolate] = current]
              /\ \A j \in observed : parent'[j] = parent[j]
          BY <2>2, <3>3, SpawnObservedCounts
        <4>2. nextIsolate \in Isolates /\ parent'[nextIsolate] = current
          BY <3>1, <4>1, RegisterTyped DEF TypeOK
        <4>3. nextIsolate \notin stopped
          BY DEF IdsBelow, TypeOK
        <4>4. Runs(nextIsolate)
          BY <3>1, <4>1, <4>3, RegisterOpens DEF Runs, Register
        <4>5. Runs(current)
          BY <1>1, <1>5, <3>1
        <4>6. QED
          BY <2>1, <4>1, <4>2, <4>4, <4>5
      <3>4. QED
        BY <3>2, <3>3
    <2>3. ASSUME NEW b \in BOOLEAN, Spawn(b)
          PROVE  \A j \in observed' : Runs(j) /\ Runs(parent'[j])
      BY <2>1, <2>3, SpawnKeepsCounts
    <2>4. CASE UNCHANGED <<observed, parent, reserved>>
      BY <2>1, <2>4
    <2>5. QED
      BY <1>5, <2>2, <2>3, <2>4, ObservedKept
  <1>6. QED
    BY <1>4, <1>5

(* A Put leaves the reserved slots free: its receiver had room beyond them. *)
LEMMA PutFits ==
    ASSUME NEW mb \in [Isolates -> Seq(Message)], NEW cx, Put(mb, cx), TypeOK, NEW i \in Isolates,
           Len(mb[i]) <= Len(mailbox[i]), Len(mb[i]) + reserved[i] <= Capacity
    PROVE  Len(mailbox'[i]) + reserved[i] <= Capacity
  <1>1. CASE mailbox' = mb
    BY <1>1
  <1>2. ASSUME NEW r \in Isolates, NEW m \in Message, Accepts(r), mailbox' = Enqueue(mb, r, m)
        PROVE  Len(mailbox'[i]) + reserved[i] <= Capacity
    <2>1. CASE r = i
      <3>1. /\ mailbox'[i] = Append(mb[i], m) /\ mb[i] \in Seq(Message) /\ mailbox[i] \in Seq(Message)
            /\ Len(mailbox[i]) + reserved[i] < Capacity /\ reserved[i] \in Int
        BY <1>2, <2>1 DEF Enqueue, Accepts, HasRoom, TypeOK
      <3>2. Len(mailbox'[i]) = Len(mb[i]) + 1
        BY <3>1
      <3>3. Len(mb[i]) \in Nat /\ Len(mailbox[i]) \in Nat
        BY <3>1
      <3>4. QED
        BY <3>1, <3>2, <3>3, CapacityAssumption
    <2>2. CASE r # i
      BY <1>2, <2>2 DEF Enqueue
    <2>3. QED
      BY <2>1, <2>2
  <1>3. QED
    BY <1>1, <1>2 DEF Put

(* Room is kept for every reserved slot. *)
LEMMA ReservedFitsKept ==
    ASSUME TypeOK, TypeOK', IsolatesFresh, ReservationsHonoured, QueueStep, [Next]_vars
    PROVE  ReservedFits'
  <1>0. IdsBelow /\ ParentsBelow /\ UnusedEmpty /\ ReservedCounts /\ ReservedFits /\ ObservedOpen
    BY DEF IsolatesFresh, IdsBelow, ParentsBelow, UnusedEmpty, ReservationsHonoured, ReservedCounts,
           ReservedFits, ObservedOpen, ObservedBy
  <1>1. SUFFICES ASSUME NEW i \in Isolates
                 PROVE  Len(mailbox'[i]) + reserved'[i] <= Capacity
    BY DEF ReservedFits
  <1>2. /\ mailbox \in [Isolates -> Seq(Message)] /\ mailbox[i] \in Seq(Message)
        /\ Len(mailbox[i]) \in Nat /\ reserved[i] \in Int /\ reserved'[i] \in Int
        /\ mailbox'[i] \in Seq(Message) /\ Len(mailbox'[i]) \in Nat
        /\ Len(mailbox[i]) + reserved[i] <= Capacity /\ Capacity \in Nat
    <2>1. mailbox \in [Isolates -> Seq(Message)] /\ reserved[i] \in Int
      BY DEF TypeOK
    <2>2. mailbox'[i] \in Seq(Message) /\ reserved'[i] \in Int
      BY DEF TypeOK
    <2>3. QED
      BY <1>0, <2>1, <2>2, CapacityAssumption DEF ReservedFits
  <1>3. ASSUME StopEntry \/ ~\E b \in BOOLEAN : SpawnObserved(b)
        PROVE  /\ reserved'[i] <= reserved[i]
               /\ ~StopEntry => reserved'[i] = reserved[i]
    <2>1. CASE StopEntry
      BY <1>0, <2>1, StopReleases
    <2>2. CASE ~StopEntry
      BY <1>0, <1>2, <1>3, <2>2, ObservedKept, SpawnKeepsCounts
    <2>3. QED
      BY <2>1, <2>2
  <1>4. CASE ~StopEntry /\ \E b \in BOOLEAN : SpawnObserved(b)
    <2>1. PICK b \in BOOLEAN : SpawnObserved(b)
      BY <1>4
    <2>2. current \in Isolates /\ Continue(current, reserved'[current], NoCall)
      BY <2>1 DEF SpawnObserved, Effect, TypeOK
    <2>3. /\ i # current => reserved'[i] = reserved[i]
          /\ \/ reserved'[i] = reserved[i]
             \/ HasRoom(current) /\ i = current /\ reserved'[i] = reserved[i] + 1
      <3>1. \/ reserved' = reserved
            \/ HasRoom(current) /\ reserved' = [reserved EXCEPT ![current] = @ + 1]
        BY <1>0, <2>1, SpawnObservedCounts
      <3>2. reserved \in [Isolates -> Int]
        BY DEF TypeOK
      <3>3. QED
        BY <1>1, <1>2, <2>2, <3>1, <3>2
    <2>4. Len(mailbox[i]) + reserved'[i] <= Capacity
      BY <1>2, <2>3 DEF HasRoom
    <2>5. CASE i = current /\ Len(mailbox[current]) + reserved'[current] < Capacity
               /\ mailbox' = Enqueue(mailbox, current, Continuation)
      <3>1. Len(mailbox'[i]) = Len(mailbox[i]) + 1
        BY <1>2, <2>5, MessagesTyped DEF Enqueue
      <3>2. QED
        BY <1>2, <2>5, <3>1
    <2>6. CASE i # current /\ mailbox' = Enqueue(mailbox, current, Continuation)
      BY <1>2, <2>2, <2>4, <2>6 DEF Enqueue
    <2>7. CASE mailbox' = mailbox
      BY <2>4, <2>7
    <2>8. QED
      BY <2>2, <2>5, <2>6, <2>7 DEF Continue
  <1>5. CASE StopEntry
    <2>1. callContexts' = callContexts /\ reserved'[i] <= reserved[i]
      BY <1>3, <1>5 DEF StopEntry
    <2>2. CASE mailbox' = mailbox
      BY <1>2, <2>1, <2>2
    <2>3. CASE Victim \in observed /\ mailbox' = Enqueue(mailbox, parent[Victim], Plain)
      <3>1. CASE i = parent[Victim]
        <4>1. reserved'[i] = reserved[i] - 1
          BY <1>0, <1>5, <2>3, <3>1, StopReleases
        <4>2. Len(mailbox'[i]) = Len(mailbox[i]) + 1
          BY <1>2, <2>3, <3>1, MessagesTyped DEF Enqueue
        <4>3. QED
          BY <1>2, <4>1, <4>2
      <3>2. CASE i # parent[Victim]
        <4>1. mailbox'[i] = mailbox[i]
          BY <1>2, <2>3, <3>2 DEF Enqueue
        <4>2. QED
          BY <1>2, <2>1, <4>1
      <3>3. QED
        BY <3>1, <3>2
    <2>4. QED
      BY <1>5, <2>2, <2>3 DEF StopEntry, SettleTerminal
  <1>6. CASE ~StopEntry /\ ~\E b \in BOOLEAN : SpawnObserved(b)
    <2>1. reserved'[i] = reserved[i]
      BY <1>3, <1>6
    <2>2. CASE Put(mailbox, callContexts)
      BY <1>2, <2>1, <2>2, PutFits
    <2>3. CASE Snapshot
      <3>1. mailbox'[i] = mailbox[i] \/ (mailbox[i] # <<>> /\ mailbox'[i] = Tail(mailbox[i]))
        BY <2>3 DEF Snapshot, FromMailbox
      <3>2. Len(mailbox'[i]) <= Len(mailbox[i])
        BY <1>2, <3>1, TailTyped
      <3>3. QED
        BY <1>2, <2>1, <3>2
    <2>4. CASE TakesFromMailbox
      <3> DEFINE mb == [mailbox EXCEPT ![Victim] = Tail(@)]
                 cx == [callContexts EXCEPT ![Victim] = Rest(@)]
      <3>1. Victim \in Isolates /\ mailbox[Victim] # <<>> /\ Put(mb, cx)
        BY <2>4, VictimTyped DEF TakesFromMailbox, FromMailbox
      <3>2. mb \in [Isolates -> Seq(Message)] /\ Len(mb[i]) <= Len(mailbox[i]) /\ mb[i] \in Seq(Message)
        BY <1>2, <3>1, TailTyped
      <3> HIDE DEF mb, cx
      <3>3. Len(mb[i]) + reserved[i] <= Capacity
        BY <1>2, <3>2
      <3>4. QED
        BY <2>1, <3>1, <3>2, <3>3, PutFits
    <2>5. CASE Bootstraps
      <3>1. CASE i = nextIsolate
        <4>1. mailbox[i] = <<>> /\ mailbox'[i] = Append(mailbox[i], Plain)
          BY <1>0, <1>2, <2>5, <3>1 DEF UnusedEmpty, Bootstraps, Enqueue, TypeOK
        <4>2. ObservedBy(i) = {}
          <5>1. ASSUME NEW j \in observed, parent[j] = i
                PROVE  FALSE
            <6>1. i < nextIsolate
              BY <1>0, <5>1, OpenBelow DEF ObservedOpen
            <6>2. QED
              BY <3>1, <6>1 DEF TypeOK
          <5>2. QED
            BY <5>1 DEF ObservedBy
        <4>3. reserved[i] = 0
          BY <1>0, <4>2, FS_EmptySet DEF ReservedCounts
        <4>4. Len(mailbox'[i]) = 1
          BY <1>2, <4>1
        <4>5. QED
          BY <2>1, <4>3, <4>4, CapacityAssumption
      <3>2. CASE i # nextIsolate
        BY <1>2, <2>1, <2>5, <3>2 DEF Bootstraps, Enqueue
      <3>3. QED
        BY <3>1, <3>2
    <2>6. CASE TellsParent
      BY <1>6, <2>6 DEF TellsParent
    <2>7. QED
      BY <2>2, <2>3, <2>4, <2>5, <2>6 DEF QueueStep
  <1>7. QED
    BY <1>4, <1>5, <1>6

(* Every step honours the reservations. *)
LEMMA ReservationsKept ==
    ASSUME TypeOK, TypeOK', TurnOwned, IsolatesFresh, ReservationsHonoured, QueueStep, [Next]_vars
    PROVE  ReservationsHonoured'
  <1>1. IdsBelow /\ ParentsBelow /\ ReservedCounts /\ ObservedOpen
    BY DEF IsolatesFresh, IdsBelow, ParentsBelow, ReservationsHonoured, ReservedCounts,
           ObservedOpen, ObservedBy
  <1>2. ReservedCounts' /\ ObservedOpen' /\ ReservedFits'
    BY <1>1, ReservedCountsKept, ObservedOpenKept, ReservedFitsKept
  <1>3. QED
    BY <1>2 DEF ReservationsHonoured, ReservedCounts, ReservedFits, ObservedOpen, ObservedBy
=============================================================================
