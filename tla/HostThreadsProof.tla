-------------------------- MODULE HostThreadsProof --------------------------
(***************************************************************************)
(* The host threads of the threaded runtime and what they are told.  Three *)
(* components that share no state, each with its inductive invariant:      *)
(*   Shutdown       any number of shards, handles and commands; ShutdownInv*)
(*                  adds what the walk of the owner and the joiner have    *)
(*                  done so far.                                           *)
(*   HostReplyPool  any number of calls and any pool; ReplyInv says that a *)
(*                  channel is in the hands of one call at most, and what  *)
(*                  the channel in use says of the present call.           *)
(*   HostCommands   any hosts in any mix of operations; HostInv says where *)
(*                  a command is, and that whoever may still run it has a  *)
(*                  host that waits for it.                                *)
(***************************************************************************)
EXTENDS Shutdown, HostReplyPool, HostCommands, SequenceTheorems, FiniteSetTheorems,
        WellFoundedInduction, TLAPS

-----------------------------------------------------------------------------
(* Shutdown.                                                               *)

\* The worker of s has ended, or will when it comes to the command.
WillStop(s) == ~Alive(s) \/ "Shutdown" \in ToSet(queue[s])

\* How a report has to show s once its worker has ended.
Outcome(s) == IF worker[s] = "clean" THEN "Stopped" ELSE "Failed"
Ended(s) == ~Alive(s) /\ metric[s] = Outcome(s)

\* shutdown_blocking has every unsignaled shard left to visit, and the one it
\* is about to mark will stop.
OwnerWalk ==
    /\ callerPc[Owner] \in {"send", "mark"} => Unsignaled \subseteq todo
    /\ callerPc[Owner] = "mark" => (todo # {} /\ WillStop(Min(todo)))

\* Only a joined worker that ended cleanly is shown as stopped.
StoppedIsClean == \A s \in Shards : metric[s] = "Stopped" => worker[s] = "clean"

\* The worker handles are taken together and once, and before any outcome.
HandlesOnce ==
    /\ (\A s \in Shards : handle[s]) \/ (\A s \in Shards : ~handle[s])
    /\ (\E s \in Shards : handle[s]) => (report = None /\ ~joinerFailed)
    /\ joiner.pc = "take" => \A s \in Shards : handle[s]
    /\ joiner.pc \in {"join", "publish"} => \A s \in Shards : ~handle[s]
    /\ joiner.pc # "none" => (report = None /\ ~joinerFailed)

\* What the joiner has joined has ended as its metrics and its merged failure say.
JoinerTruth ==
    /\ joiner.pc = "take" => ~joiner.failed
    /\ joiner.pc \in {"join", "publish"} =>
          /\ \A s \in Shards \ joiner.todo : Ended(s)
          /\ joiner.failed <=> \E s \in Shards \ joiner.todo : worker[s] # "clean"
    /\ joiner.pc = "publish" =>
          /\ joiner.todo = {}
          /\ joiner.shards = [s \in Shards |-> Outcome(s)]

ShutdownInv == ShutdownSound /\ OwnerWalk /\ StoppedIsClean /\ HandlesOnce /\ JoinerTruth

-----------------------------------------------------------------------------
(* What the steps are made of.                                             *)

\* Min returns a member of its set.
LEMMA MinIn ==
    ASSUME NEW S \in SUBSET Nat, S # {}
    PROVE  Min(S) \in S
  <1>1. PICK x \in S : \A y \in S : ~ (<<y, x>> \in OpToRel(<, Nat))
    BY WFMin, NatLessThanWellFounded, Zenon
  <1>2. \A y \in Nat : y < x => <<y, x>> \in OpToRel(<, Nat)
    BY Zenon DEF OpToRel
  <1>3. \A y \in S : ~ (y < x)
    BY <1>1, <1>2
  <1>4. \A y \in S : x <= y
    BY <1>3
  <1>5. QED
    BY <1>4 DEF Min

\* The next shard of a walk is a shard that is left.
LEMMA NextShard ==
    ASSUME ShutdownAssumption, NEW S \in SUBSET Shards, S # {}
    PROVE  Min(S) \in S /\ Min(S) \in Shards
  <1>1. S \in SUBSET Nat
    BY DEF Shards, ShutdownAssumption
  <1>2. QED
    BY <1>1, MinIn

\* Appending a command keeps what is queued and adds the command.
LEMMA AppendHolds ==
    ASSUME NEW q \in Seq(Commands), NEW c \in Commands
    PROVE  /\ Append(q, c) \in Seq(Commands) /\ Len(Append(q, c)) = Len(q) + 1
           /\ c \in ToSet(Append(q, c)) /\ ToSet(q) \subseteq ToSet(Append(q, c))
  <1>1. /\ Append(q, c) \in Seq(Commands) /\ Len(Append(q, c)) = Len(q) + 1
        /\ \A i \in 1 .. Len(q) : Append(q, c)[i] = q[i]
        /\ Append(q, c)[Len(q) + 1] = c
    OBVIOUS
  <1>2. /\ DOMAIN q = 1 .. Len(q) /\ Len(q) \in Nat
        /\ DOMAIN Append(q, c) = 1 .. (Len(q) + 1)
    OBVIOUS
  <1>3. c \in ToSet(Append(q, c))
    BY <1>1, <1>2 DEF ToSet
  <1>4. ToSet(q) \subseteq ToSet(Append(q, c))
    BY <1>1, <1>2 DEF ToSet
  <1>5. QED
    BY <1>1, <1>3, <1>4

\* Taking a Run off a queue leaves its Shutdown there.
LEMMA TailHolds ==
    ASSUME NEW q \in Seq(Commands), q # <<>>, Head(q) = "Run"
    PROVE  /\ Tail(q) \in Seq(Commands) /\ Len(Tail(q)) <= Len(q)
           /\ "Shutdown" \in ToSet(q) => "Shutdown" \in ToSet(Tail(q))
  <1>1. /\ Tail(q) \in Seq(Commands) /\ Len(Tail(q)) = Len(q) - 1
        /\ Len(q) \in Nat /\ Len(q) > 0
        /\ \A i \in 1 .. (Len(q) - 1) : Tail(q)[i] = q[i + 1]
        /\ q[1] = "Run"
    OBVIOUS
  <1>2. DOMAIN q = 1 .. Len(q) /\ DOMAIN Tail(q) = 1 .. (Len(q) - 1)
    BY <1>1
  <1>3. ASSUME "Shutdown" \in ToSet(q)
        PROVE  "Shutdown" \in ToSet(Tail(q))
    <2>1. PICK i \in 1 .. Len(q) : q[i] = "Shutdown"
      BY <1>2, <1>3 DEF ToSet
    <2>2. i # 1 /\ i - 1 \in 1 .. (Len(q) - 1)
      BY <1>1, <2>1
    <2>3. Tail(q)[i - 1] = "Shutdown"
      BY <1>1, <2>1, <2>2
    <2>4. QED
      BY <1>2, <2>2, <2>3 DEF ToSet
  <1>4. QED
    BY <1>1, <1>3

-----------------------------------------------------------------------------
(* Types.                                                                  *)

WorkerTypes ==
    /\ queue \in [Shards -> Seq(Commands)]
    /\ \A s \in Shards : Len(queue[s]) <= QueueCapacity
    /\ worker \in [Shards -> {"running", "clean", "failed", "panicked"}]
    /\ metric \in ShardStates

\* Queues, threads and metrics stay well-typed.
LEMMA WorkersTyped ==
    ASSUME ShutdownAssumption, CloseTypeOK, CloseNext
    PROVE  WorkerTypes'
  <1> USE DEF WorkerTypes, CloseTypeOK, ShardStates
  <1>a. ASSUME NEW s \in Shards, NEW q \in Seq(Commands), Len(q) <= QueueCapacity,
               queue' = [queue EXCEPT ![s] = q]
        PROVE  queue' \in [Shards -> Seq(Commands)] /\ \A t \in Shards : Len(queue'[t]) <= QueueCapacity
    BY <1>a
  <1>b. ASSUME NEW s \in Shards, metric' = AfterFailure(s) \/ metric' = Joined(s)
        PROVE  metric' \in ShardStates
    BY <1>b DEF AfterFailure, Joined
  <1>c. ASSUME NEW s \in Shards, NEW c \in Commands, HasRoom(s)
        PROVE  Append(queue[s], c) \in Seq(Commands) /\ Len(Append(queue[s], c)) <= QueueCapacity
    <2>1. queue[s] \in Seq(Commands) /\ Len(queue[s]) \in Nat
      OBVIOUS
    <2>2. Append(queue[s], c) \in Seq(Commands) /\ Len(Append(queue[s], c)) = Len(queue[s]) + 1
      BY <2>1, AppendHolds
    <2>3. QED
      BY <1>c, <2>1, <2>2 DEF HasRoom, ShutdownAssumption
  <1>d. "Run" \in Commands /\ "Shutdown" \in Commands
    BY DEF Commands
  <1>1. ASSUME NEW s \in Shards, HostRun(s)
        PROVE  WorkerTypes'
    <2>1. Append(queue[s], "Run") \in Seq(Commands) /\ Len(Append(queue[s], "Run")) <= QueueCapacity
      BY <1>1, <1>c, <1>d DEF HostRun
    <2>2. QED
      BY <1>1, <1>a, <2>1 DEF HostRun
  <1>2. ASSUME NEW s \in Shards, HostCallFails(s)
        PROVE  WorkerTypes'
    BY <1>2, <1>b DEF HostCallFails
  <1>3. ASSUME NEW s \in Shards, WorkerRun(s)
        PROVE  WorkerTypes'
    <2>1. queue[s] \in Seq(Commands) /\ Len(queue[s]) \in Nat /\ Len(queue[s]) <= QueueCapacity
      OBVIOUS
    <2>2. Tail(queue[s]) \in Seq(Commands) /\ Len(Tail(queue[s])) <= Len(queue[s])
      BY <1>3, <2>1, TailHolds DEF WorkerRun
    <2>3. Tail(queue[s]) \in Seq(Commands) /\ Len(Tail(queue[s])) <= QueueCapacity
      BY <2>1, <2>2 DEF ShutdownAssumption
    <2>4. QED
      BY <1>3, <1>a, <2>3 DEF WorkerRun
  <1>4. ASSUME NEW s \in Shards, WorkerPanic(s) \/ WorkerShutdown(s)
        PROVE  WorkerTypes'
    <2>1. /\ \E how \in {"clean", "failed", "panicked"} : worker' = [worker EXCEPT ![s] = how]
          /\ queue' = [queue EXCEPT ![s] = <<>>] /\ UNCHANGED metric
      BY <1>4 DEF WorkerPanic, WorkerShutdown, Exit
    <2>2. <<>> \in Seq(Commands) /\ Len(<<>>) <= QueueCapacity
      BY DEF ShutdownAssumption
    <2>3. queue' \in [Shards -> Seq(Commands)] /\ \A t \in Shards : Len(queue'[t]) <= QueueCapacity
      BY <1>a, <2>1, <2>2
    <2>4. QED
      BY <2>1, <2>3
  <1>5. ASSUME NEW h \in Handles, RequestShutdown(h) \/ WaitReport(h) \/ WalkCommit(h)
        PROVE  WorkerTypes'
    BY <1>5 DEF RequestShutdown, WaitReport, WalkCommit, workers, waitUnchanged
  <1>6. ASSUME NEW h \in Handles, NEW s \in Shards,
               WalkSignal(h, s) \/ WalkFull(h, s) \/ WalkGone(h, s)
        PROVE  WorkerTypes'
    <2>1. CASE WalkSignal(h, s)
      <3>1. Append(queue[s], "Shutdown") \in Seq(Commands)
            /\ Len(Append(queue[s], "Shutdown")) <= QueueCapacity
        BY <2>1, <1>c, <1>d DEF WalkSignal
      <3>2. QED
        BY <2>1, <1>a, <3>1 DEF WalkSignal
    <2>2. CASE WalkFull(h, s)
      BY <2>2 DEF WalkFull, workers
    <2>3. CASE WalkGone(h, s)
      BY <2>3, <1>b DEF WalkGone
    <2>4. QED
      BY <1>6, <2>1, <2>2, <2>3
  <1>7. ASSUME OwnerSend
        PROVE  WorkerTypes'
    <2> DEFINE s == Min(todo)
    <2>1. s \in Shards
      BY <1>7, NextShard DEF OwnerSend
    <2>2. /\ UNCHANGED <<worker, metric>>
          /\ Alive(s) => HasRoom(s)
          /\ queue' = IF Alive(s) THEN [queue EXCEPT ![s] = Append(@, "Shutdown")] ELSE queue
      BY <1>7 DEF OwnerSend
    <2> HIDE DEF s
    <2>3. CASE Alive(s)
      <3>1. Append(queue[s], "Shutdown") \in Seq(Commands)
            /\ Len(Append(queue[s], "Shutdown")) <= QueueCapacity
        BY <2>1, <2>2, <2>3, <1>c, <1>d
      <3>2. QED
        BY <1>a, <2>1, <2>2, <2>3, <3>1
    <2>4. CASE ~Alive(s)
      BY <2>2, <2>4
    <2>5. QED
      BY <2>3, <2>4
  <1>8. ASSUME OwnerDrop \/ OwnerMark \/ OwnerCommit
        PROVE  WorkerTypes'
    BY <1>8 DEF OwnerDrop, OwnerMark, OwnerCommit, workers
  <1>9. ASSUME NEW c \in Callers, EnsureJoiner(c) \/ Wake(c) \/ WaitTimeout(c)
        PROVE  WorkerTypes'
    BY <1>9 DEF EnsureJoiner, NotStarted, Spawned, SpawnFailed, Wake, WaitTimeout, ensureUnchanged,
                waitUnchanged, workers
  <1>10. ASSUME JoinerTakes \/ JoinerReads \/ JoinerPublishes
         PROVE  WorkerTypes'
    BY <1>10 DEF JoinerTakes, JoinerReads, JoinerPublishes, joinUnchanged
  <1>11. ASSUME JoinerJoins \/ JoinerPanics
         PROVE  WorkerTypes'
    <2>1. Min(joiner.todo) \in Shards
      BY <1>11, NextShard DEF JoinerJoins, JoinerPanics
    <2>2. metric' = Joined(Min(joiner.todo)) /\ UNCHANGED <<queue, worker>>
      BY <1>11 DEF JoinerJoins, JoinerPanics, joinUnchanged
    <2>3. QED
      BY <1>b, <2>1, <2>2
  <1>12. QED
    BY <1>1, <1>2, <1>3, <1>4, <1>5, <1>6, <1>7, <1>8, <1>9, <1>10, <1>11
       DEF CloseNext, Worker, Request, OwnerStops, Joiner

CallerTypes ==
    /\ signaled \in [Shards -> BOOLEAN] /\ requested \in BOOLEAN
    /\ lock \in Handles \cup {Free} /\ waiting \subseteq Callers
    /\ callerPc \in [Callers -> CallerPcs]
    /\ todo \subseteq Shards
    /\ result \in [Callers -> Results]

\* The callers and what they change stay well-typed.
LEMMA CallersTyped ==
    ASSUME ShutdownAssumption, CloseTypeOK, CloseNext
    PROVE  CallerTypes'
  <1> USE DEF CallerTypes, CloseTypeOK, ShardStates
  <1>a. Owner \in Callers /\ Handles \subseteq Callers
    BY DEF Callers
  <1>b. ASSUME NEW c \in Callers, \/ UNCHANGED callerPc
                                  \/ \E l \in CallerPcs : callerPc' = [callerPc EXCEPT ![c] = l]
        PROVE  callerPc' \in [Callers -> CallerPcs]
    BY <1>b
  <1>c. ASSUME NEW c \in Callers, \/ UNCHANGED result
                                  \/ \E r \in Results : result' = [result EXCEPT ![c] = r]
        PROVE  result' \in [Callers -> Results]
    BY <1>c
  <1>1. ASSUME NEW s \in Shards, HostRun(s) \/ HostCallFails(s) \/ Worker(s)
        PROVE  CallerTypes'
    BY <1>1 DEF HostRun, HostCallFails, Worker, WorkerRun, WorkerPanic, WorkerShutdown, shared, callers
  <1>2. ASSUME NEW h \in Handles, RequestShutdown(h)
        PROVE  CallerTypes'
    <2>1. /\ \E l \in CallerPcs : callerPc' = [callerPc EXCEPT ![h] = l]
          /\ UNCHANGED result \/ \E r \in Results : result' = [result EXCEPT ![h] = r]
          /\ UNCHANGED <<signaled, requested, waiting, todo>> /\ lock' \in {h, lock}
      BY <1>2 DEF RequestShutdown, Return, MovesTo, requestUnchanged, CallerPcs, Results
    <2>2. callerPc' \in [Callers -> CallerPcs] /\ result' \in [Callers -> Results]
      BY <1>a, <1>b, <1>c, <2>1
    <2>3. QED
      BY <2>1, <2>2
  <1>3. ASSUME NEW h \in Handles, NEW s \in Shards,
               WalkSignal(h, s) \/ WalkFull(h, s) \/ WalkGone(h, s)
        PROVE  CallerTypes'
    <2>1. /\ UNCHANGED callerPc \/ \E l \in CallerPcs : callerPc' = [callerPc EXCEPT ![h] = l]
          /\ UNCHANGED result \/ \E r \in Results : result' = [result EXCEPT ![h] = r]
          /\ UNCHANGED signaled \/ signaled' = [signaled EXCEPT ![s] = TRUE]
          /\ UNCHANGED <<requested, waiting, todo>> /\ lock' \in {Free, lock}
      BY <1>3 DEF WalkSignal, WalkFull, WalkGone, Return, MovesTo, requestUnchanged, CallerPcs, Results
    <2>2. callerPc' \in [Callers -> CallerPcs] /\ result' \in [Callers -> Results]
      BY <1>a, <1>b, <1>c, <2>1
    <2>3. signaled' \in [Shards -> BOOLEAN]
      BY <2>1
    <2>4. QED
      BY <2>1, <2>2, <2>3
  <1>4. ASSUME NEW h \in Handles, WalkCommit(h)
        PROVE  CallerTypes'
    <2>1. /\ \E l \in CallerPcs : callerPc' = [callerPc EXCEPT ![h] = l]
          /\ UNCHANGED <<result, signaled, waiting, todo>> /\ requested' = TRUE /\ lock' = Free
      BY <1>4 DEF WalkCommit, MovesTo, requestUnchanged, CallerPcs
    <2>2. callerPc' \in [Callers -> CallerPcs]
      BY <1>a, <1>b, <2>1
    <2>3. QED
      BY <2>1, <2>2
  <1>5. ASSUME NEW h \in Handles, WaitReport(h)
        PROVE  CallerTypes'
    <2>1. /\ \E l \in CallerPcs : callerPc' = [callerPc EXCEPT ![h] = l]
          /\ UNCHANGED result \/ \E r \in Results : result' = [result EXCEPT ![h] = r]
          /\ UNCHANGED waiting \/ waiting' = waiting \cup {h}
          /\ UNCHANGED <<signaled, requested, lock, todo>>
      BY <1>5 DEF WaitReport, Return, MovesTo, Answer, waitUnchanged, shared, CallerPcs, Results
    <2>2. callerPc' \in [Callers -> CallerPcs] /\ result' \in [Callers -> Results]
      BY <1>a, <1>b, <1>c, <2>1
    <2>3. QED
      BY <1>a, <2>1, <2>2
  <1>6. ASSUME OwnerDrop \/ OwnerStops
        PROVE  CallerTypes'
    <2>1. /\ \E l \in CallerPcs : callerPc' = [callerPc EXCEPT ![Owner] = l]
          /\ UNCHANGED <<result, lock, waiting>>
      BY <1>6 DEF OwnerDrop, OwnerStops, OwnerSend, OwnerMark, OwnerCommit, ownerUnchanged, CallerPcs
    <2>2. /\ UNCHANGED requested \/ requested' = TRUE
          /\ UNCHANGED todo \/ todo' = Unsignaled \/ todo' = todo \ {Min(todo)}
          /\ UNCHANGED signaled \/ signaled' = [signaled EXCEPT ![Min(todo)] = TRUE]
      BY <1>6 DEF OwnerDrop, OwnerStops, OwnerSend, OwnerMark, OwnerCommit, ownerUnchanged
    <2>3. todo' \subseteq Shards
      BY <2>2 DEF Unsignaled
    <2>4. signaled' \in [Shards -> BOOLEAN]
      BY <2>2
    <2>5. callerPc' \in [Callers -> CallerPcs]
      BY <1>a, <1>b, <2>1
    <2>6. QED
      BY <2>1, <2>2, <2>3, <2>4, <2>5
  <1>7. ASSUME NEW c \in Callers, EnsureJoiner(c)
        PROVE  CallerTypes'
    <2>1. /\ \E l \in CallerPcs : callerPc' = [callerPc EXCEPT ![c] = l]
          /\ UNCHANGED result \/ \E r \in Results : result' = [result EXCEPT ![c] = r]
          /\ UNCHANGED <<signaled, requested, lock, waiting, todo>>
      BY <1>7 DEF EnsureJoiner, NotStarted, Spawned, SpawnFailed, Ensured, Return, MovesTo, ensureUnchanged,
                  CallerPcs, Results
    <2>2. callerPc' \in [Callers -> CallerPcs] /\ result' \in [Callers -> Results]
      BY <1>b, <1>c, <2>1
    <2>3. QED
      BY <2>1, <2>2
  <1>8. ASSUME NEW c \in Callers, Wake(c) \/ WaitTimeout(c)
        PROVE  CallerTypes'
    <2>1. /\ \E l \in CallerPcs : callerPc' = [callerPc EXCEPT ![c] = l]
          /\ UNCHANGED result \/ \E r \in Results : result' = [result EXCEPT ![c] = r]
          /\ waiting' \subseteq waiting \cup {c}
          /\ UNCHANGED <<signaled, requested, lock, todo>>
      BY <1>8 DEF Wake, WaitTimeout, Return, MovesTo, Answer, waitUnchanged, shared, CallerPcs, Results
    <2>2. callerPc' \in [Callers -> CallerPcs] /\ result' \in [Callers -> Results]
      BY <1>b, <1>c, <2>1
    <2>3. QED
      BY <2>1, <2>2
  <1>9. ASSUME Joiner
        PROVE  CallerTypes'
    <2>0. joiner.by \in Callers \cup {Free}
      OBVIOUS
    <2>1. /\ \/ UNCHANGED <<callerPc, result>>
             \/ joiner.by # Free /\ Ensured(joiner.by)
          /\ UNCHANGED waiting \/ waiting' = {}
          /\ UNCHANGED <<signaled, requested, lock, todo>>
      BY <1>9 DEF Joiner, JoinerTakes, JoinerJoins, JoinerReads, JoinerPublishes, JoinerPanics, JoinerEnds,
                  joinUnchanged
    <2>2. CASE UNCHANGED <<callerPc, result>>
      BY <2>1, <2>2
    <2>3. CASE joiner.by # Free /\ Ensured(joiner.by)
      <3>1. /\ \E l \in CallerPcs : callerPc' = [callerPc EXCEPT ![joiner.by] = l]
            /\ UNCHANGED result \/ \E r \in Results : result' = [result EXCEPT ![joiner.by] = r]
        BY <2>3 DEF Ensured, Return, MovesTo, CallerPcs, Results
      <3>2. callerPc' \in [Callers -> CallerPcs] /\ result' \in [Callers -> Results]
        BY <1>b, <1>c, <2>0, <2>3, <3>1
      <3>3. QED
        BY <2>1, <3>2
    <2>4. QED
      BY <2>1, <2>2, <2>3
  <1>10. QED
    BY <1>1, <1>2, <1>3, <1>4, <1>5, <1>6, <1>7, <1>8, <1>9 DEF CloseNext, Request

JoinTypes ==
    /\ handle \in [Shards -> BOOLEAN] /\ joining \in BOOLEAN /\ joinerFailed \in BOOLEAN
    /\ report \in Reports
    /\ joiner \in [pc : {"none", "take", "join", "publish"}, by : Callers \cup {Free},
                   todo : SUBSET Shards, failed : BOOLEAN, shards : {<<>>} \cup ShardStates]

\* The joiner and what it changes stay well-typed.
LEMMA JoinTyped ==
    ASSUME ShutdownAssumption, CloseTypeOK, JoinerTruth, CloseNext
    PROVE  JoinTypes'
  <1> USE DEF JoinTypes, CloseTypeOK
  <1>1. ASSUME NEW s \in Shards, HostRun(s) \/ HostCallFails(s) \/ Worker(s)
        PROVE  JoinTypes'
    BY <1>1 DEF HostRun, HostCallFails, Worker, WorkerRun, WorkerPanic, WorkerShutdown, shared
  <1>2. ASSUME NEW h \in Handles, RequestShutdown(h) \/ Request(h)
        PROVE  JoinTypes'
    BY <1>2 DEF RequestShutdown, Request, WalkSignal, WalkFull, WalkGone, WalkCommit, requestUnchanged
  <1>3. ASSUME NEW c \in Callers, WaitReport(c) \/ Wake(c) \/ WaitTimeout(c)
        PROVE  JoinTypes'
    BY <1>3 DEF WaitReport, Wake, WaitTimeout, waitUnchanged, shared
  <1>4. ASSUME OwnerDrop \/ OwnerStops
        PROVE  JoinTypes'
    BY <1>4 DEF OwnerDrop, OwnerStops, OwnerSend, OwnerMark, OwnerCommit, ownerUnchanged
  <1>5. ASSUME NEW c \in Callers, EnsureJoiner(c)
        PROVE  JoinTypes'
    <2>1. /\ UNCHANGED joining \/ joining' = TRUE
          /\ \/ UNCHANGED joiner
             \/ joiner' = [NoJoiner EXCEPT !.pc = "take"]
             \/ joiner' = [NoJoiner EXCEPT !.pc = "take", !.by = c]
          /\ UNCHANGED <<handle, report, joinerFailed>>
      BY <1>5 DEF EnsureJoiner, NotStarted, Spawned, SpawnFailed, ensureUnchanged
    <2>2. joiner' \in [pc : {"none", "take", "join", "publish"}, by : Callers \cup {Free},
                       todo : SUBSET Shards, failed : BOOLEAN, shards : {<<>>} \cup ShardStates]
      BY <2>1 DEF NoJoiner
    <2>3. QED
      BY <2>1, <2>2
  <1>6. ASSUME JoinerTakes
        PROVE  JoinTypes'
    BY <1>6 DEF JoinerTakes, joinUnchanged
  <1>7. ASSUME JoinerJoins
        PROVE  JoinTypes'
    BY <1>7 DEF JoinerJoins, joinUnchanged
  <1>8. ASSUME JoinerReads
        PROVE  JoinTypes'
    BY <1>8 DEF JoinerReads, joinUnchanged
  <1>9. ASSUME JoinerPublishes \/ JoinerPanics
        PROVE  JoinTypes'
    <2>1. /\ joiner' = NoJoiner /\ joining' = FALSE /\ UNCHANGED handle
          /\ UNCHANGED joinerFailed \/ joinerFailed' = TRUE
      BY <1>9 DEF JoinerPublishes, JoinerPanics, JoinerEnds
    <2>2. joiner' \in [pc : {"none", "take", "join", "publish"}, by : Callers \cup {Free},
                       todo : SUBSET Shards, failed : BOOLEAN, shards : {<<>>} \cup ShardStates]
      BY <2>1 DEF NoJoiner
    <2>3. CASE JoinerPublishes
      <3>1. joiner.shards \in ShardStates
        BY <2>3 DEF JoinerPublishes, JoinerTruth, Outcome, ShardStates
      <3>2. report' \in Reports
        BY <2>3, <3>1 DEF JoinerPublishes, Reports
      <3>3. QED
        BY <2>1, <2>2, <3>2
    <2>4. CASE JoinerPanics
      BY <2>1, <2>2, <2>4 DEF JoinerPanics
    <2>5. QED
      BY <1>9, <2>3, <2>4
  <1>10. QED
    BY <1>1, <1>2, <1>3, <1>4, <1>5, <1>6, <1>7, <1>8, <1>9 DEF CloseNext, Joiner, Callers

-----------------------------------------------------------------------------
(* Workers end once, and what has been seen of an ended one stays true.    *)

Queued == \E t \in Shards, c \in Commands : queue' = [queue EXCEPT ![t] = Append(@, c)] /\ UNCHANGED worker
Taken == \E t \in Shards : /\ queue[t] # <<>> /\ Head(queue[t]) = "Run"
                           /\ queue' = [queue EXCEPT ![t] = Tail(@)] /\ UNCHANGED worker
Exited == \E t \in Shards, how \in {"clean", "failed", "panicked"} :
              Alive(t) /\ Exit(t, how) /\ UNCHANGED metric
Shown == \/ UNCHANGED metric
         \/ \E t \in Shards : metric' = AfterFailure(t) \/ (~Alive(t) /\ metric' = Joined(t))

\* What a step of anybody is to the workers.
LEMMA WorkerSteps ==
    ASSUME ShutdownAssumption, CloseTypeOK, CloseNext
    PROVE  Exited \/ (Shown /\ (Queued \/ Taken \/ UNCHANGED <<queue, worker>>))
  <1> DEFINE Goal == Exited \/ (Shown /\ (Queued \/ Taken \/ UNCHANGED <<queue, worker>>))
  <1>d. "Run" \in Commands /\ "Shutdown" \in Commands
    BY DEF Commands
  <1>1. ASSUME NEW s \in Shards, HostRun(s) \/ HostCallFails(s) \/ WorkerRun(s)
        PROVE  Goal
    BY <1>1, <1>d DEF HostRun, HostCallFails, WorkerRun, Queued, Taken, Shown
  <1>2. ASSUME NEW s \in Shards, WorkerPanic(s) \/ WorkerShutdown(s)
        PROVE  Goal
    BY <1>2 DEF WorkerPanic, WorkerShutdown, Exited
  <1>3. ASSUME NEW h \in Handles, RequestShutdown(h) \/ WaitReport(h) \/ WalkCommit(h)
        PROVE  Goal
    BY <1>3 DEF RequestShutdown, WaitReport, WalkCommit, workers, waitUnchanged, Shown
  <1>4. ASSUME NEW h \in Handles, NEW s \in Shards,
               WalkSignal(h, s) \/ WalkFull(h, s) \/ WalkGone(h, s)
        PROVE  Goal
    BY <1>4, <1>d DEF WalkSignal, WalkFull, WalkGone, workers, Shown, Queued
  <1>5. ASSUME OwnerSend
        PROVE  Goal
    <2>1. Min(todo) \in Shards
      BY <1>5, NextShard DEF OwnerSend, CloseTypeOK
    <2>2. /\ UNCHANGED <<worker, metric>>
          /\ queue' = [queue EXCEPT ![Min(todo)] = Append(@, "Shutdown")] \/ UNCHANGED queue
      BY <1>5 DEF OwnerSend
    <2>3. QED
      BY <1>d, <2>1, <2>2 DEF Shown, Queued
  <1>6. ASSUME OwnerDrop \/ OwnerMark \/ OwnerCommit
        PROVE  Goal
    BY <1>6 DEF OwnerDrop, OwnerMark, OwnerCommit, workers, Shown
  <1>7. ASSUME NEW c \in Callers, EnsureJoiner(c) \/ Wake(c) \/ WaitTimeout(c)
        PROVE  Goal
    BY <1>7 DEF EnsureJoiner, NotStarted, Spawned, SpawnFailed, Wake, WaitTimeout, ensureUnchanged,
                waitUnchanged, workers, Shown
  <1>8. ASSUME JoinerTakes \/ JoinerReads \/ JoinerPublishes
        PROVE  Goal
    BY <1>8 DEF JoinerTakes, JoinerReads, JoinerPublishes, joinUnchanged, Shown
  <1>9. ASSUME JoinerJoins \/ JoinerPanics
        PROVE  Goal
    <2>1. Min(joiner.todo) \in Shards
      BY <1>9, NextShard DEF JoinerJoins, JoinerPanics, CloseTypeOK
    <2>2. /\ UNCHANGED <<queue, worker>> /\ ~Alive(Min(joiner.todo))
          /\ metric' = Joined(Min(joiner.todo))
      BY <1>9 DEF JoinerJoins, JoinerPanics, joinUnchanged, Alive
    <2>3. QED
      BY <2>1, <2>2 DEF Shown
  <1>10. QED
    BY <1>1, <1>2, <1>3, <1>4, <1>5, <1>6, <1>7, <1>8, <1>9
       DEF CloseNext, Worker, Request, OwnerStops, Joiner

\* An ended worker stays as it ended, one that will stop still will, and a
\* shard is shown as stopped only after a clean end.
LEMMA Aged ==
    ASSUME ShutdownAssumption, CloseTypeOK, StoppedIsClean, CloseNext
    PROVE  /\ \A s \in Shards : ~Alive(s) => worker'[s] = worker[s]
           /\ \A s \in Shards : WillStop(s) => WillStop(s)'
           /\ \A s \in Shards : Ended(s) => Ended(s)'
           /\ StoppedIsClean'
  <1> USE DEF CloseTypeOK
  <1>1. CASE Exited
    <2>1. PICK t \in Shards, how \in {"clean", "failed", "panicked"} :
              Alive(t) /\ Exit(t, how) /\ UNCHANGED metric
      BY <1>1 DEF Exited
    <2>2. /\ worker[t] = "running" /\ worker'[t] = how /\ UNCHANGED metric
          /\ \A s \in Shards \ {t} : worker'[s] = worker[s] /\ queue'[s] = queue[s]
      BY <2>1 DEF Exit, Alive
    <2>3. \A s \in Shards : ~Alive(s) => worker'[s] = worker[s]
      BY <2>2 DEF Alive
    <2>4. \A s \in Shards : WillStop(s) => WillStop(s)'
      BY <2>2 DEF WillStop, Alive
    <2>5. \A s \in Shards : Ended(s) => Ended(s)'
      BY <2>2 DEF Ended, Alive, Outcome
    <2>6. StoppedIsClean'
      BY <2>2 DEF StoppedIsClean
    <2>7. QED
      BY <2>3, <2>4, <2>5, <2>6
  <1>2. CASE Shown /\ (Queued \/ Taken \/ UNCHANGED <<queue, worker>>)
    <2>1. UNCHANGED worker
      BY <1>2 DEF Queued, Taken
    <2>2. \A s \in Shards : "Shutdown" \in ToSet(queue[s]) => "Shutdown" \in ToSet(queue'[s])
      <3>1. CASE Queued
        <4>1. PICK t \in Shards, c \in Commands : queue' = [queue EXCEPT ![t] = Append(@, c)]
          BY <3>1 DEF Queued
        <4>2. queue[t] \in Seq(Commands)
          OBVIOUS
        <4>3. ToSet(queue[t]) \subseteq ToSet(Append(queue[t], c))
          BY <4>2, AppendHolds
        <4>4. queue'[t] = Append(queue[t], c) /\ \A s \in Shards \ {t} : queue'[s] = queue[s]
          BY <4>1
        <4>5. QED
          BY <4>3, <4>4
      <3>2. CASE Taken
        <4>1. PICK t \in Shards : /\ queue[t] # <<>> /\ Head(queue[t]) = "Run"
                                  /\ queue' = [queue EXCEPT ![t] = Tail(@)]
          BY <3>2 DEF Taken
        <4>2. queue[t] \in Seq(Commands)
          OBVIOUS
        <4>3. "Shutdown" \in ToSet(queue[t]) => "Shutdown" \in ToSet(Tail(queue[t]))
          BY <4>1, <4>2, TailHolds
        <4>4. queue'[t] = Tail(queue[t]) /\ \A s \in Shards \ {t} : queue'[s] = queue[s]
          BY <4>1
        <4>5. QED
          BY <4>3, <4>4
      <3>3. CASE UNCHANGED queue
        BY <3>3
      <3>4. QED
        BY <1>2, <3>1, <3>2, <3>3
    <2>3. \A s \in Shards : WillStop(s) => WillStop(s)'
      BY <2>1, <2>2 DEF WillStop, Alive
    <2>4. (\A s \in Shards : Ended(s) => Ended(s)') /\ StoppedIsClean'
      <3>1. CASE UNCHANGED metric
        BY <2>1, <3>1 DEF Ended, Alive, Outcome, StoppedIsClean
      <3>2. CASE \E t \in Shards : metric' = AfterFailure(t) \/ (~Alive(t) /\ metric' = Joined(t))
        <4>1. PICK t \in Shards : metric' = AfterFailure(t) \/ (~Alive(t) /\ metric' = Joined(t))
          BY <3>2
        <4>2. metric \in [Shards -> {"Running", "Stopped", "Failed"}]
          BY DEF ShardStates
        <4>3. \A s \in Shards \ {t} : metric'[s] = metric[s]
          BY <4>1, <4>2 DEF AfterFailure, Joined
        <4>4. \/ metric'[t] = IF metric[t] = "Stopped" THEN "Stopped" ELSE "Failed"
              \/ worker[t] = "clean" /\ metric'[t] = "Stopped"
          BY <4>1, <4>2 DEF AfterFailure, Joined
        <4>5. \A s \in Shards : Ended(s) => Ended(s)'
          BY <2>1, <4>3, <4>4 DEF Ended, Alive, Outcome
        <4>6. StoppedIsClean'
          BY <2>1, <4>3, <4>4 DEF StoppedIsClean
        <4>7. QED
          BY <4>5, <4>6
      <3>3. QED
        BY <1>2, <3>1, <3>2 DEF Shown
    <2>5. QED
      BY <2>1, <2>3, <2>4
  <1>3. QED
    BY <1>1, <1>2, WorkerSteps

-----------------------------------------------------------------------------
(* Marks and commitment.                                                   *)

\* A mark stays, and a new one is put on a shard that will stop.
LEMMA Marks ==
    ASSUME ShutdownAssumption, CloseTypeOK, StoppedIsClean, OwnerWalk, CloseNext
    PROVE  \A s \in Shards : /\ signaled[s] => signaled'[s]
                             /\ signaled'[s] => (signaled[s] \/ WillStop(s)')
  <1> DEFINE Marked(t) == signaled' = [signaled EXCEPT ![t] = TRUE] /\ WillStop(t)'
  <1> USE DEF CloseTypeOK
  <1>d. "Run" \in Commands /\ "Shutdown" \in Commands
    BY DEF Commands
  <1>1. ASSUME NEW s \in Shards, HostRun(s) \/ HostCallFails(s) \/ Worker(s)
        PROVE  UNCHANGED signaled
    BY <1>1 DEF HostRun, HostCallFails, Worker, WorkerRun, WorkerPanic, WorkerShutdown, shared
  <1>2. ASSUME NEW h \in Handles, RequestShutdown(h) \/ WaitReport(h) \/ WalkCommit(h)
        PROVE  UNCHANGED signaled
    BY <1>2 DEF RequestShutdown, WaitReport, WalkCommit, shared, waitUnchanged
  <1>3. ASSUME NEW h \in Handles, NEW t \in Shards, WalkSignal(h, t)
        PROVE  Marked(t)
    <2>1. queue[t] \in Seq(Commands)
      OBVIOUS
    <2>2. "Shutdown" \in ToSet(Append(queue[t], "Shutdown"))
      BY <1>d, <2>1, AppendHolds
    <2>3. queue'[t] = Append(queue[t], "Shutdown") /\ signaled' = [signaled EXCEPT ![t] = TRUE]
      BY <1>3 DEF WalkSignal
    <2>4. QED
      BY <2>2, <2>3 DEF WillStop
  <1>4. ASSUME NEW h \in Handles, NEW t \in Shards, WalkFull(h, t)
        PROVE  UNCHANGED signaled
    BY <1>4 DEF WalkFull
  <1>5. ASSUME NEW h \in Handles, NEW t \in Shards, WalkGone(h, t)
        PROVE  Marked(t)
    BY <1>5 DEF WalkGone, WillStop, Alive
  <1>6. ASSUME OwnerMark
        PROVE  \E t \in Shards : Marked(t)
    <2>1. todo # {} /\ WillStop(Min(todo))
      BY <1>6 DEF OwnerMark, OwnerWalk
    <2>2. Min(todo) \in Shards
      BY <2>1, NextShard
    <2>3. signaled' = [signaled EXCEPT ![Min(todo)] = TRUE] /\ UNCHANGED <<queue, worker>>
      BY <1>6 DEF OwnerMark, workers
    <2>4. PICK t \in Shards : t = Min(todo)
      BY <2>2
    <2>5. WillStop(t) /\ signaled' = [signaled EXCEPT ![t] = TRUE]
      BY <2>1, <2>3, <2>4
    <2>6. WillStop(t)'
      BY <2>3, <2>5 DEF WillStop, Alive
    <2>7. Marked(t)
      BY <2>5, <2>6
    <2>8. QED
      BY <2>7
  <1>7. ASSUME OwnerDrop \/ OwnerSend \/ OwnerCommit
        PROVE  UNCHANGED signaled
    BY <1>7 DEF OwnerDrop, OwnerSend, OwnerCommit
  <1>8. ASSUME NEW c \in Callers, EnsureJoiner(c) \/ Wake(c) \/ WaitTimeout(c)
        PROVE  UNCHANGED signaled
    BY <1>8 DEF EnsureJoiner, NotStarted, Spawned, SpawnFailed, Wake, WaitTimeout, ensureUnchanged,
                waitUnchanged, shared
  <1>9. ASSUME Joiner
        PROVE  UNCHANGED signaled
    BY <1>9 DEF Joiner, JoinerTakes, JoinerJoins, JoinerReads, JoinerPublishes, JoinerPanics, joinUnchanged
  <1>10. UNCHANGED signaled \/ \E t \in Shards : Marked(t)
    BY <1>1, <1>2, <1>3, <1>4, <1>5, <1>6, <1>7, <1>8, <1>9 DEF CloseNext, Request, OwnerStops
  <1>11. ASSUME NEW t \in Shards, Marked(t), NEW s \in Shards
         PROVE  /\ signaled[s] => signaled'[s]
                /\ signaled'[s] => (signaled[s] \/ WillStop(s)')
    <2>1. CASE s = t
      BY <1>11, <2>1
    <2>2. CASE s # t
      <3>1. signaled'[s] = signaled[s]
        BY <1>11, <2>2
      <3>2. QED
        BY <3>1
    <2>3. QED
      BY <2>1, <2>2
  <1> HIDE DEF Marked
  <1>12. QED
    BY <1>10, <1>11

\* Only the owner moves through its walk.
LEMMA OwnerMoves ==
    ASSUME ShutdownAssumption, CloseTypeOK, CloseNext
    PROVE  \/ OwnerDrop \/ OwnerSend \/ OwnerMark \/ OwnerCommit
           \/ /\ UNCHANGED todo
              /\ callerPc'[Owner] \in {"send", "mark"} => callerPc'[Owner] = callerPc[Owner]
  <1> DEFINE Elsewhere == /\ UNCHANGED todo
                          /\ callerPc'[Owner] \in {"send", "mark"} => callerPc'[Owner] = callerPc[Owner]
             Moves(c) == \/ UNCHANGED callerPc
                         \/ \E l \in CallerPcs \ {"send", "mark"} : callerPc' = [callerPc EXCEPT ![c] = l]
  <1>a. ASSUME NEW c \in Callers, UNCHANGED todo, Moves(c)
        PROVE  Elsewhere
    BY <1>a DEF CloseTypeOK, Callers
  <1>b. Handles \subseteq Callers
    BY DEF Callers
  <1>1. ASSUME NEW s \in Shards, HostRun(s) \/ HostCallFails(s) \/ Worker(s)
        PROVE  Elsewhere
    BY <1>1 DEF HostRun, HostCallFails, Worker, WorkerRun, WorkerPanic, WorkerShutdown, callers
  <1>2. ASSUME NEW h \in Handles, RequestShutdown(h) \/ Request(h)
        PROVE  Elsewhere
    <2>1. UNCHANGED todo
      BY <1>2 DEF RequestShutdown, Request, WalkSignal, WalkFull, WalkGone, WalkCommit, requestUnchanged
    <2>2. Moves(h)
      BY <1>2 DEF RequestShutdown, Request, WalkSignal, WalkFull, WalkGone, WalkCommit, Return, MovesTo, CallerPcs
    <2>3. QED
      BY <1>a, <1>b, <2>1, <2>2
  <1>3. ASSUME NEW c \in Callers, WaitReport(c) \/ Wake(c) \/ WaitTimeout(c)
        PROVE  Elsewhere
    <2>1. UNCHANGED todo
      BY <1>3 DEF WaitReport, Wake, WaitTimeout, waitUnchanged
    <2>2. Moves(c)
      BY <1>3 DEF WaitReport, Wake, WaitTimeout, Return, MovesTo, CallerPcs
    <2>3. QED
      BY <1>a, <2>1, <2>2
  <1>4. ASSUME NEW c \in Callers, EnsureJoiner(c)
        PROVE  Elsewhere
    <2>1. UNCHANGED todo
      BY <1>4 DEF EnsureJoiner, NotStarted, Spawned, SpawnFailed, ensureUnchanged
    <2>2. Moves(c)
      BY <1>4 DEF EnsureJoiner, NotStarted, Spawned, SpawnFailed, Ensured, Return, MovesTo, CallerPcs
    <2>3. QED
      BY <1>a, <2>1, <2>2
  <1>5. ASSUME Joiner
        PROVE  Elsewhere
    <2>1. UNCHANGED todo
      BY <1>5 DEF Joiner, JoinerTakes, JoinerJoins, JoinerReads, JoinerPublishes, JoinerPanics, joinUnchanged
    <2>2. UNCHANGED callerPc \/ (joiner.by # Free /\ Ensured(joiner.by))
      BY <1>5 DEF Joiner, JoinerTakes, JoinerJoins, JoinerReads, JoinerPublishes, JoinerPanics, JoinerEnds
    <2>3. joiner.by \in Callers \cup {Free}
      BY DEF CloseTypeOK
    <2>4. UNCHANGED callerPc \/ (joiner.by \in Callers /\ Moves(joiner.by))
      BY <2>2, <2>3 DEF Ensured, Return, MovesTo, CallerPcs
    <2>5. QED
      BY <1>a, <2>1, <2>4
  <1>6. QED
    BY <1>1, <1>2, <1>3, <1>4, <1>5 DEF CloseNext, Callers, OwnerStops

\* shutdown_blocking keeps every unsignaled shard before it.
LEMMA OwnerWalks ==
    ASSUME ShutdownAssumption, CloseTypeOK, StoppedIsClean, OwnerWalk, CloseNext
    PROVE  OwnerWalk'
  <1>1. Unsignaled' \subseteq Unsignaled
    BY Marks DEF Unsignaled
  <1>2. callerPc \in [Callers -> CallerPcs] /\ Owner \in Callers
    BY DEF CloseTypeOK, Callers
  <1>3. CASE OwnerDrop
    <2>1. todo' = Unsignaled /\ callerPc'[Owner] = "send"
      BY <1>2, <1>3 DEF OwnerDrop
    <2>2. QED
      BY <1>1, <2>1 DEF OwnerWalk
  <1>4. CASE OwnerSend
    <2>1. UNCHANGED <<todo, worker, signaled>> /\ todo # {} /\ callerPc[Owner] = "send"
      BY <1>4 DEF OwnerSend
    <2>2. Min(todo) \in Shards
      BY <2>1, NextShard DEF CloseTypeOK
    <2>3. PICK t \in Shards : t = Min(todo)
      BY <2>2
    <2>4. queue' = IF Alive(t) THEN [queue EXCEPT ![t] = Append(@, "Shutdown")] ELSE queue
      BY <1>4, <2>3 DEF OwnerSend
    <2>5. WillStop(t)'
      <3>1. queue[t] \in Seq(Commands) /\ "Shutdown" \in Commands
        BY DEF CloseTypeOK, Commands
      <3>2. "Shutdown" \in ToSet(Append(queue[t], "Shutdown"))
        BY <3>1, AppendHolds
      <3>3. Alive(t) => queue'[t] = Append(queue[t], "Shutdown")
        BY <2>4 DEF CloseTypeOK
      <3>4. QED
        BY <2>1, <3>2, <3>3 DEF WillStop, Alive
    <2>6. t = Min(todo')
      BY <2>1, <2>3
    <2>7. Unsignaled' \subseteq todo'
      BY <2>1 DEF OwnerWalk, Unsignaled
    <2>8. WillStop(Min(todo))'
      BY <2>5, <2>6 DEF WillStop, Alive
    <2>9. QED
      BY <2>1, <2>7, <2>8 DEF OwnerWalk
  <1>5. CASE OwnerMark
    <2>1. /\ todo' = todo \ {Min(todo)} /\ signaled' = [signaled EXCEPT ![Min(todo)] = TRUE]
          /\ callerPc'[Owner] = "send" /\ callerPc[Owner] = "mark"
      BY <1>2, <1>5 DEF OwnerMark
    <2>2. Unsignaled \subseteq todo /\ Unsignaled \subseteq Shards
      BY <2>1 DEF OwnerWalk, Unsignaled
    <2>3. Min(todo) \notin Unsignaled'
      BY <2>1 DEF Unsignaled, CloseTypeOK
    <2>4. QED
      BY <1>1, <2>1, <2>2, <2>3 DEF OwnerWalk
  <1>6. CASE OwnerCommit
    <2>1. callerPc'[Owner] = "ensure"
      BY <1>2, <1>6 DEF OwnerCommit
    <2>2. QED
      BY <2>1 DEF OwnerWalk
  <1>7. CASE /\ UNCHANGED todo
             /\ callerPc'[Owner] \in {"send", "mark"} => callerPc'[Owner] = callerPc[Owner]
    <2>1. callerPc'[Owner] \in {"send", "mark"} => Unsignaled' \subseteq todo'
      BY <1>1, <1>7 DEF OwnerWalk
    <2>2. ASSUME callerPc'[Owner] = "mark"
          PROVE  todo' # {} /\ WillStop(Min(todo))'
      <3>1. todo # {} /\ WillStop(Min(todo))
        BY <1>7, <2>2 DEF OwnerWalk
      <3>2. Min(todo) \in Shards
        BY <3>1, NextShard DEF CloseTypeOK
      <3>3. PICK t \in Shards : t = Min(todo)
        BY <3>2
      <3>4. WillStop(t)'
        BY <3>1, <3>3, Aged
      <3>5. t = Min(todo')
        BY <1>7, <3>3
      <3>6. QED
        BY <1>7, <3>1, <3>4, <3>5 DEF WillStop, Alive
    <2>3. QED
      BY <2>1, <2>2 DEF OwnerWalk
  <1>8. QED
    BY <1>3, <1>4, <1>5, <1>6, <1>7, OwnerMoves

\* A request is committed, and a joiner started, when nothing is unsignaled.
LEMMA Commits ==
    ASSUME ShutdownAssumption, CloseTypeOK, StoppedIsClean, OwnerWalk, CommittedIsComplete, CloseNext
    PROVE  CommittedIsComplete'
  <1>1. Unsignaled' \subseteq Unsignaled
    BY Marks DEF Unsignaled
  <1> DEFINE Before == requested \/ joining \/ joiner.pc # "none" \/ report # None
             Same == UNCHANGED <<requested, joining, joiner, report>>
  <1>2. ASSUME NEW s \in Shards, HostRun(s) \/ HostCallFails(s) \/ Worker(s)
        PROVE  Same
    BY <1>2 DEF HostRun, HostCallFails, Worker, WorkerRun, WorkerPanic, WorkerShutdown, shared
  <1>3. ASSUME NEW h \in Handles, RequestShutdown(h) \/ Request(h)
        PROVE  Same \/ Unsignaled = {}
    BY <1>3 DEF RequestShutdown, Request, WalkSignal, WalkFull, WalkGone, WalkCommit, requestUnchanged
  <1>4. ASSUME NEW c \in Callers, WaitReport(c) \/ Wake(c) \/ WaitTimeout(c)
        PROVE  Same
    BY <1>4 DEF WaitReport, Wake, WaitTimeout, waitUnchanged, shared
  <1>5. ASSUME NEW c \in Callers, EnsureJoiner(c)
        PROVE  Same \/ Unsignaled = {}
    BY <1>5 DEF EnsureJoiner, NotStarted, Spawned, SpawnFailed, MayStart, ensureUnchanged
  <1>6. ASSUME OwnerDrop \/ OwnerStops
        PROVE  Same \/ Unsignaled = {}
    <2>1. CASE OwnerCommit
      BY <2>1 DEF OwnerCommit, OwnerWalk
    <2>2. CASE OwnerDrop \/ OwnerSend \/ OwnerMark
      BY <2>2 DEF OwnerDrop, OwnerSend, OwnerMark, ownerUnchanged
    <2>3. QED
      BY <1>6, <2>1, <2>2 DEF OwnerStops
  <1>7. ASSUME Joiner
        PROVE  Before
    BY <1>7 DEF Joiner, JoinerTakes, JoinerJoins, JoinerReads, JoinerPublishes, JoinerPanics
  <1>8. Same \/ Unsignaled = {} \/ Before
    BY <1>2, <1>3, <1>4, <1>5, <1>6, <1>7 DEF CloseNext, Callers
  <1>9. Same \/ Unsignaled = {}
    BY <1>8 DEF CommittedIsComplete
  <1>10. QED
    BY <1>1, <1>9 DEF CommittedIsComplete

-----------------------------------------------------------------------------
(* The joiner and the report.                                              *)

\* A joiner is started, as a thread or inline.
Starts == /\ MayStart /\ joiner'.pc = "take" /\ joiner'.failed = FALSE
          /\ UNCHANGED <<handle, report, joinerFailed>>

\* What a step of anybody is to the joiner.
LEMMA JoinSteps ==
    ASSUME CloseNext
    PROVE  Starts \/ Joiner \/ UNCHANGED <<handle, report, joinerFailed, joiner>>
  <1> DEFINE Same == UNCHANGED <<handle, report, joinerFailed, joiner>>
  <1>1. ASSUME NEW s \in Shards, HostRun(s) \/ HostCallFails(s) \/ Worker(s)
        PROVE  Same
    BY <1>1 DEF HostRun, HostCallFails, Worker, WorkerRun, WorkerPanic, WorkerShutdown, shared
  <1>2. ASSUME NEW h \in Handles, RequestShutdown(h) \/ Request(h)
        PROVE  Same
    BY <1>2 DEF RequestShutdown, Request, WalkSignal, WalkFull, WalkGone, WalkCommit, requestUnchanged
  <1>3. ASSUME NEW c \in Callers, WaitReport(c) \/ Wake(c) \/ WaitTimeout(c)
        PROVE  Same
    BY <1>3 DEF WaitReport, Wake, WaitTimeout, waitUnchanged, shared
  <1>4. ASSUME OwnerDrop \/ OwnerStops
        PROVE  Same
    BY <1>4 DEF OwnerDrop, OwnerStops, OwnerSend, OwnerMark, OwnerCommit, ownerUnchanged
  <1>5. ASSUME NEW c \in Callers, NotStarted(c)
        PROVE  Same
    BY <1>5 DEF NotStarted, ensureUnchanged
  <1>6. ASSUME NEW c \in Callers, Spawned(c) \/ SpawnFailed(c)
        PROVE  Starts
    BY <1>6 DEF Spawned, SpawnFailed, NoJoiner, Starts, ensureUnchanged
  <1>7. QED
    BY <1>1, <1>2, <1>3, <1>4, <1>5, <1>6 DEF CloseNext, Callers, EnsureJoiner

\* The handles are taken once, and no joiner starts after one has ended.
LEMMA HandlesTaken ==
    ASSUME CloseTypeOK, HandlesOnce, CloseNext
    PROVE  HandlesOnce'
  <1> USE DEF HandlesOnce, CloseTypeOK
  <1>1. CASE Starts
    BY <1>1 DEF Starts, MayStart
  <1>2. CASE JoinerTakes
    BY <1>2 DEF JoinerTakes
  <1>3. CASE JoinerJoins \/ JoinerReads
    <2>1. UNCHANGED <<handle, report, joinerFailed>> /\ joiner.pc = "join" /\ joiner'.pc \in {"join", "publish"}
      BY <1>3 DEF JoinerJoins, JoinerReads
    <2>2. QED
      BY <2>1
  <1>4. CASE JoinerPublishes \/ JoinerPanics
    <2>1. UNCHANGED handle /\ joiner'.pc = "none" /\ joiner.pc \in {"join", "publish"}
      BY <1>4 DEF JoinerPublishes, JoinerPanics, JoinerEnds, NoJoiner
    <2>2. QED
      BY <2>1
  <1>5. CASE UNCHANGED <<handle, report, joinerFailed, joiner>>
    BY <1>5
  <1>6. QED
    BY <1>1, <1>2, <1>3, <1>4, <1>5, JoinSteps DEF Joiner

\* The joiner knows how the workers ended that it joined.
LEMMA JoinerKnows ==
    ASSUME ShutdownAssumption, CloseTypeOK, StoppedIsClean, HandlesOnce, JoinerTruth, CloseNext
    PROVE  JoinerTruth'
  <1>1. /\ \A s \in Shards : ~Alive(s) => worker'[s] = worker[s]
        /\ \A s \in Shards : Ended(s) => Ended(s)'
    BY Aged
  <1>2. ASSUME NEW s \in Shards, Ended(s)
        PROVE  /\ Ended(s)' /\ worker'[s] = worker[s] /\ Outcome(s)' = Outcome(s)
    <2>1. Ended(s)' /\ worker'[s] = worker[s]
      BY <1>1, <1>2 DEF Ended
    <2>2. QED
      BY <2>1 DEF Outcome
  <1>3. CASE Starts
    BY <1>3 DEF Starts, JoinerTruth
  <1>4. CASE JoinerTakes
    <2>1. /\ joiner.pc = "take" /\ joiner'.pc = "join" /\ joiner'.failed = joiner.failed
          /\ joiner'.todo = {s \in Shards : handle[s]}
      BY <1>4 DEF JoinerTakes, CloseTypeOK
    <2>2. joiner'.todo = Shards
      BY <2>1 DEF HandlesOnce
    <2>3. ~joiner'.failed
      BY <2>1 DEF JoinerTruth
    <2>4. QED
      BY <2>1, <2>2, <2>3 DEF JoinerTruth
  <1>5. CASE JoinerJoins
    <2>1. PICK t : t = Min(joiner.todo)
      OBVIOUS
    <2>2. t \in joiner.todo /\ t \in Shards
      BY <1>5, <2>1, NextShard DEF JoinerJoins, CloseTypeOK
    <2>3. ~Alive(t) /\ metric' = Joined(t) /\ UNCHANGED worker
      BY <1>5, <2>1 DEF JoinerJoins, joinUnchanged
    <2>4. /\ joiner.pc = "join" /\ joiner'.pc = "join" /\ joiner'.todo = joiner.todo \ {t}
          /\ joiner'.failed <=> (joiner.failed \/ worker[t] # "clean")
      BY <1>5, <2>1 DEF JoinerJoins, CloseTypeOK
    <2>5. Ended(t)'
      <3>1. metric'[t] = Outcome(t)
        BY <2>2, <2>3 DEF Joined, AfterFailure, Outcome, StoppedIsClean, CloseTypeOK, ShardStates
      <3>2. QED
        BY <2>3, <3>1 DEF Ended, Outcome, Alive
    <2>6. \A s \in Shards \ joiner.todo : Ended(s)
      BY <2>4 DEF JoinerTruth
    <2>7. \A s \in Shards \ joiner'.todo : Ended(s)'
      BY <1>2, <2>4, <2>5, <2>6
    <2>8. joiner.failed <=> \E s \in Shards \ joiner.todo : worker[s] # "clean"
      BY <2>4 DEF JoinerTruth
    <2>9. joiner'.failed <=> \E s \in Shards \ joiner'.todo : worker'[s] # "clean"
      BY <2>2, <2>3, <2>4, <2>8
    <2>10. QED
      BY <2>4, <2>7, <2>9 DEF JoinerTruth
  <1>6. CASE JoinerReads
    <2>1. /\ joiner.pc = "join" /\ joiner'.pc = "publish" /\ joiner'.shards = metric
          /\ joiner.todo = {} /\ joiner'.todo = {} /\ joiner'.failed = joiner.failed
          /\ UNCHANGED <<worker, metric>>
      BY <1>6 DEF JoinerReads, CloseTypeOK, joinUnchanged
    <2>2. /\ \A s \in Shards : Ended(s)
          /\ joiner.failed <=> \E s \in Shards : worker[s] # "clean"
      BY <2>1 DEF JoinerTruth
    <2>3. metric = [s \in Shards |-> Outcome(s)]
      BY <2>2 DEF Ended, CloseTypeOK, ShardStates
    <2>4. joiner'.shards = [s \in Shards |-> Outcome(s)']
      BY <2>1, <2>3 DEF Outcome
    <2>5. \A s \in Shards : Ended(s)'
      BY <1>2, <2>2
    <2>6. joiner'.failed <=> \E s \in Shards : worker'[s] # "clean"
      BY <2>1, <2>2
    <2>7. QED
      BY <2>1, <2>4, <2>5, <2>6 DEF JoinerTruth
  <1>7. CASE JoinerPublishes \/ JoinerPanics
    <2>1. joiner'.pc = "none"
      BY <1>7 DEF JoinerPublishes, JoinerPanics, JoinerEnds, NoJoiner
    <2>2. QED
      BY <2>1 DEF JoinerTruth
  <1>8. CASE UNCHANGED joiner
    <2>1. joiner.pc = "take" => ~joiner'.failed
      BY <1>8 DEF JoinerTruth
    <2>2. ASSUME joiner.pc \in {"join", "publish"}
          PROVE  /\ \A s \in Shards \ joiner.todo : Ended(s) /\ Ended(s)' /\ worker'[s] = worker[s]
                 /\ joiner.failed <=> \E s \in Shards \ joiner.todo : worker[s] # "clean"
      BY <1>2, <2>2 DEF JoinerTruth
    <2>3. ASSUME joiner.pc = "publish"
          PROVE  joiner.todo = {} /\ joiner.shards = [s \in Shards |-> Outcome(s)']
      <3>1. joiner.todo = {} /\ joiner.shards = [s \in Shards |-> Outcome(s)]
        BY <2>3 DEF JoinerTruth
      <3>2. \A s \in Shards : Outcome(s)' = Outcome(s)
        BY <2>2, <2>3, <3>1 DEF Outcome
      <3>3. QED
        BY <3>1, <3>2
    <2>4. QED
      BY <1>8, <2>1, <2>2, <2>3 DEF JoinerTruth
  <1>9. QED
    BY <1>3, <1>4, <1>5, <1>6, <1>7, <1>8, JoinSteps DEF Joiner

\* The report that is cached is true and stays so, and it is the only answer.
LEMMA ReportsTrue ==
    ASSUME ShutdownAssumption, CloseTypeOK, StoppedIsClean, HandlesOnce, JoinerTruth,
           ReportTruth, OneTruth, CloseNext
    PROVE  ReportTruth' /\ OneTruth'
  <1>1. \A s \in Shards : ~Alive(s) => worker'[s] = worker[s]
    BY Aged
  <1>2. CASE JoinerPublishes
    <2>1. /\ joiner.pc = "publish" /\ UNCHANGED <<worker, joinerFailed>>
          /\ report' = [state |-> IF joiner.failed THEN "Failed" ELSE "Closed", shards |-> joiner.shards]
      BY <1>2 DEF JoinerPublishes, joinUnchanged
    <2>2. /\ joiner.todo = {} /\ joiner.shards = [s \in Shards |-> Outcome(s)]
          /\ \A s \in Shards \ joiner.todo : Ended(s)
          /\ joiner.failed <=> \E s \in Shards \ joiner.todo : worker[s] # "clean"
      BY <2>1 DEF JoinerTruth
    <2>3. \A s \in Shards : ~Alive(s)
      BY <2>2 DEF Ended
    <2>4. report'.state = "Closed" <=> \A s \in Shards : worker'[s] = "clean"
      BY <2>1, <2>2
    <2>5. \A s \in Shards : report'.shards[s] = IF worker'[s] = "clean" THEN "Stopped" ELSE "Failed"
      BY <2>1, <2>2 DEF Outcome
    <2>6. ReportTruth'
      BY <2>1, <2>3, <2>4, <2>5 DEF ReportTruth, Alive
    <2>7. OneTruth'
      BY <2>1 DEF OneTruth, HandlesOnce
    <2>8. QED
      BY <2>6, <2>7
  <1>3. CASE UNCHANGED report
    <2>1. ReportTruth'
      <3>1. CASE report = None
        BY <1>3, <3>1 DEF ReportTruth
      <3>2. CASE report # None
        <4>1. \A s \in Shards : ~Alive(s) /\ worker'[s] = worker[s]
          BY <1>1, <3>2 DEF ReportTruth
        <4>2. QED
          BY <1>3, <4>1 DEF ReportTruth, Alive
      <3>3. QED
        BY <3>1, <3>2
    <2>2. CASE UNCHANGED joinerFailed
      BY <1>3, <2>1, <2>2 DEF OneTruth
    <2>3. CASE JoinerPanics
      BY <1>3, <2>1, <2>3 DEF OneTruth, HandlesOnce, JoinerPanics
    <2>4. UNCHANGED joinerFailed \/ JoinerPanics
      <3>1. CASE JoinerPublishes
        BY <3>1 DEF JoinerPublishes
      <3>2. QED
        BY <3>1, JoinSteps DEF Starts, Joiner, JoinerTakes, JoinerJoins, JoinerReads
    <2>5. QED
      BY <2>2, <2>3, <2>4
  <1>4. UNCHANGED report \/ JoinerPublishes
    BY JoinSteps DEF Starts, Joiner, JoinerTakes, JoinerJoins, JoinerReads, JoinerPanics
  <1>5. QED
    BY <1>2, <1>3, <1>4

-----------------------------------------------------------------------------
(* The theorem.                                                            *)

\* Every shutdown starts in the invariant.
LEMMA ShutdownInitially ==
    ASSUME ShutdownAssumption, CloseInit
    PROVE  ShutdownInv
  <1> USE DEF CloseInit
  <1>1. CloseTypeOK
    <2>1. <<>> \in Seq(Commands) /\ Len(<<>>) <= QueueCapacity
      BY DEF ShutdownAssumption
    <2>2. WorkerTypes
      BY <2>1 DEF WorkerTypes, ShardStates
    <2>3. CallerTypes
      BY DEF CallerTypes, CallerPcs, Results
    <2>4. JoinTypes
      BY DEF JoinTypes, Reports, NoJoiner
    <2>5. QED
      BY <2>2, <2>3, <2>4 DEF WorkerTypes, CallerTypes, JoinTypes, CloseTypeOK
  <1>2. SignaledWillStop /\ CommittedIsComplete /\ ReportTruth /\ OneTruth
    BY DEF SignaledWillStop, CommittedIsComplete, ReportTruth, OneTruth, NoJoiner
  <1>3. OwnerWalk /\ StoppedIsClean
    BY DEF OwnerWalk, StoppedIsClean, Callers
  <1>4. HandlesOnce /\ JoinerTruth
    BY DEF HandlesOnce, JoinerTruth, NoJoiner
  <1>5. QED
    BY <1>1, <1>2, <1>3, <1>4 DEF ShutdownInv, ShutdownSound

\* Every step keeps it.
LEMMA ShutdownSteps ==
    ASSUME ShutdownAssumption, ShutdownInv, CloseNext
    PROVE  ShutdownInv'
  <1> USE DEF ShutdownInv, ShutdownSound
  <1>1. CloseTypeOK'
    <2>1. WorkerTypes' /\ CallerTypes' /\ JoinTypes'
      BY WorkersTyped, CallersTyped, JoinTyped
    <2>2. QED
      BY <2>1 DEF WorkerTypes, CallerTypes, JoinTypes, CloseTypeOK
  <1>2. SignaledWillStop'
    <2>1. \A s \in Shards : signaled[s] => WillStop(s)
      BY DEF SignaledWillStop, WillStop
    <2>2. \A s \in Shards : signaled'[s] => WillStop(s)'
      BY <2>1, Marks, Aged
    <2>3. QED
      BY <2>2 DEF SignaledWillStop, WillStop, Alive
  <1>3. CommittedIsComplete' /\ OwnerWalk' /\ StoppedIsClean'
    BY Commits, OwnerWalks, Aged
  <1>4. HandlesOnce' /\ JoinerTruth' /\ ReportTruth' /\ OneTruth'
    BY HandlesTaken, JoinerKnows, ReportsTrue
  <1>5. QED
    BY <1>1, <1>2, <1>3, <1>4

\* The invariant is inductive.
LEMMA ShutdownInvariance ==
    ASSUME ShutdownAssumption
    PROVE  CloseSpec => []ShutdownInv
  <1>1. CloseInit => ShutdownInv
    BY ShutdownInitially
  <1>2. ShutdownInv /\ [CloseNext]_closeVars => ShutdownInv'
    <2> SUFFICES ASSUME ShutdownInv, [CloseNext]_closeVars
                 PROVE  ShutdownInv'
      OBVIOUS
    <2>1. CASE CloseNext
      BY <2>1, ShutdownSteps
    <2>2. CASE UNCHANGED closeVars
      <3>1. UNCHANGED <<queue, worker, metric, signaled, handle, requested, joining, report, joinerFailed,
                        lock, waiting, callerPc, result, todo, joiner>>
        BY <2>2 DEF closeVars, workers, shared, callers
      <3>2. QED
        BY <3>1 DEF ShutdownInv, ShutdownSound, CloseTypeOK, SignaledWillStop, CommittedIsComplete,
                    ReportTruth, OneTruth, OwnerWalk, StoppedIsClean, HandlesOnce, JoinerTruth,
                    WillStop, Ended, Outcome, Alive, Unsignaled
    <2>3. QED
      BY <2>1, <2>2
  <1>3. QED
    BY <1>1, <1>2, PTL DEF CloseSpec

\* The shutdown state is true: in every state of every runtime, a shard marked
\* signaled will stop, a request is committed and a joiner started only with
\* every shard marked, and the one cached report tells how every worker ended.
THEOREM ShutdownStaysSound == ShutdownAssumption => (CloseSpec => []ShutdownSound)
  <1> SUFFICES ASSUME ShutdownAssumption
               PROVE  CloseSpec => []ShutdownSound
    OBVIOUS
  <1>1. ShutdownInv => ShutdownSound
    BY DEF ShutdownInv
  <1>2. CloseSpec => []ShutdownInv
    BY ShutdownInvariance
  <1>3. QED
    BY <1>1, <1>2, PTL

\* Once there is an answer no step changes it: every handle that asks later,
\* however often the joiner is asked for again, is told the same.
AnswerStays == Answered => UNCHANGED <<report, joinerFailed>>

\* The first answer of a shutdown is its last: the handles are taken once, so
\* no second joiner can follow one that has published or failed.
THEOREM AnswersAreFinal == ShutdownAssumption => (CloseSpec => [][AnswerStays]_closeVars)
  <1> SUFFICES ASSUME ShutdownAssumption
               PROVE  CloseSpec => [][AnswerStays]_closeVars
    OBVIOUS
  <1>1. ShutdownInv /\ [CloseNext]_closeVars => [AnswerStays]_closeVars
    <2> SUFFICES ASSUME ShutdownInv, CloseNext, Answered
                 PROVE  UNCHANGED <<report, joinerFailed>>
      BY DEF AnswerStays
    <2>1. joiner.pc = "none"
      BY DEF ShutdownInv, HandlesOnce, Answered
    <2>2. ~Joiner
      BY <2>1 DEF Joiner, JoinerTakes, JoinerJoins, JoinerReads, JoinerPublishes, JoinerPanics
    <2>3. QED
      BY <2>2, JoinSteps DEF Starts
  <1>2. CloseSpec => []ShutdownInv
    BY ShutdownInvariance
  <1>3. QED
    BY <1>1, <1>2, PTL DEF CloseSpec

-----------------------------------------------------------------------------
(* Blocking calls over pooled channels: the inductive invariant.           *)

\* Calls that have not begun left no trace, and a channel is named after a call
\* that has.
NotYet ==
    /\ \A c \in Calls : c > call =>
           /\ sender[c] = NoSender
           /\ callResult[c] = Told("none", 0)
           /\ c \notin answered
    /\ \A c \in Calls : sender[c].chan \in 1 .. call \cup {NoReply}
    /\ \A n \in DOMAIN pool : pool[n] \in 1 .. call
    /\ \A i \in Chans : i > call => (value[i] = NoReply /\ dropped[i] = NoReply)

\* A sender that is not gone has a channel; one that sent has answered.
SenderTruth ==
    \A c \in Calls :
        /\ sender[c].st # "gone" => sender[c].chan # NoReply
        /\ sender[c].st = "sent" => c \in answered
        /\ sender[c].st = "live" => c \notin answered
        /\ callResult[c].kind = "disconnected" =>
               (sender[c].st # "live" /\ c \notin answered)

\* The channel in use is the present call's alone.
InUse ==
    IF callPc = "idle" THEN using = NoReply
    ELSE /\ call # 0
         /\ using \in Chans
         /\ using = sender[call].chan
         /\ Sharers(using) \subseteq {call}

\* What a pooled channel is.
PoolApart ==
    \A n \in DOMAIN pool :
        /\ value[pool[n]] = NoReply /\ dropped[pool[n]] = NoReply
        /\ Sharers(pool[n]) = {}
        /\ pool[n] # using
        /\ \A m \in DOMAIN pool : pool[m] = pool[n] => m = n

Ending == {"dropped", "notified", "gone"}

\* What the channel in use says is true of the present call.
ChannelTruth ==
    callPc # "idle" =>
        /\ value[using] # NoReply =>
              value[using].what = Told("ok", call)
        /\ dropped[using] # NoReply =>
              (dropped[using].what = Told("disconnected", 0) /\ sender[call].st \in Ending)
        /\ callPc = "offering" =>
              (sender[call].st = "live" /\ value[using] = NoReply /\ dropped[using] = NoReply)
        /\ callPc \in {"checking", "parked"} =>
              /\ call \in answered => value[using] # NoReply
              /\ sender[call].st \in Ending =>
                     (value[using] # NoReply \/ dropped[using] # NoReply)

ReplyInv ==
    ReplyTypeOK /\ NotYet /\ SenderTruth /\ InUse /\ PoolApart /\ ChannelTruth
        /\ OwnReply /\ AnswerWakes

-----------------------------------------------------------------------------
(* Senders.                                                                *)

LEMMA SenderMoves ==
    ASSUME ReplyTypeOK, NEW c \in Calls, NEW st \in SenderStates,
           sender' = [sender EXCEPT ![c].st = st]
    PROVE  /\ sender' \in [Calls -> [chan : Chans \cup {NoReply}, st : SenderStates]]
           /\ \A d \in Calls : sender'[d].chan = sender[d].chan
           /\ \A d \in Calls : d # c => sender'[d] = sender[d]
           /\ sender'[c].st = st
           /\ \A i : Sharers(i)' \subseteq Sharers(i) \cup {c}
           /\ sender[c].st # "gone" => \A i : Sharers(i)' \subseteq Sharers(i)
  <1>0. sender \in [Calls -> [chan : Chans \cup {NoReply}, st : SenderStates]]
    BY DEF ReplyTypeOK
  <1>1. \A d \in Calls : sender'[d] = IF d = c THEN [sender[d] EXCEPT !.st = st] ELSE sender[d]
    BY <1>0
  <1>2. \A d \in Calls : /\ sender'[d].chan = sender[d].chan
                         /\ sender'[d].st = IF d = c THEN st ELSE sender[d].st
    BY <1>0, <1>1
  <1>3. sender' \in [Calls -> [chan : Chans \cup {NoReply}, st : SenderStates]]
    BY <1>0, <1>1
  <1>4. \A i : Sharers(i)' \subseteq Sharers(i) \cup {c}
    BY <1>2 DEF Sharers
  <1>5. sender[c].st # "gone" => \A i : Sharers(i)' \subseteq Sharers(i)
    BY <1>2 DEF Sharers
  <1>6. QED  BY <1>1, <1>2, <1>3, <1>4, <1>5

\* checkin finds the channel free exactly if no sender shares it.
LEMMA ReusableFree ==
    ASSUME ReplyAssumption, NEW i
    PROVE  Reusable(i) <=> Sharers(i) = {}
  <1>1. IsFiniteSet(Calls)
    BY FS_Interval DEF Calls, ReplyAssumption
  <1>2. IsFiniteSet(Sharers(i))
    BY <1>1, FS_Subset DEF Sharers
  <1>3. Cardinality(Sharers(i)) \in Nat /\ (Cardinality(Sharers(i)) = 0 <=> Sharers(i) = {})
    BY <1>2, FS_CardinalityType, FS_EmptySet
  <1>4. QED  BY <1>3 DEF Reusable, StrongCount

-----------------------------------------------------------------------------
(* The host thread.                                                        *)

LEMMA CheckoutKeeps ==
    ASSUME ReplyAssumption, ReplyInv, Checkout
    PROVE  ReplyInv'
  <1>n. PICK n : n = call + 1
    OBVIOUS
  <1>i. PICK i : i = IF pool = <<>> THEN call + 1 ELSE pool[Len(pool)]
    OBVIOUS
  <1>0. /\ ReplyTypeOK /\ NotYet /\ SenderTruth /\ InUse /\ PoolApart /\ OwnReply
        /\ MaxCalls \in Nat \ {0} /\ NoReply \notin Chans
    BY DEF ReplyInv, ReplyAssumption
  <1>1. /\ callPc = "idle" /\ callPc' = "offering" /\ call' = n /\ using' = i
        /\ callExpired' = FALSE
        /\ sender' = [sender EXCEPT ![n] = [chan |-> i, st |-> "live"]]
        /\ pool' = IF pool = <<>> THEN pool ELSE SubSeq(pool, 1, Len(pool) - 1)
        /\ UNCHANGED <<value, dropped, callResult, pooled, answered>>
    BY <1>i, <1>n DEF Checkout, chanVars
  <1>2. n \in Calls /\ call \in Nat /\ n \in 1 .. n
    BY <1>0, <1>n DEF Checkout, ReplyTypeOK, Calls
  <1>3. i \in Chans /\ i \in 1 .. n
    <2>1. CASE pool = <<>>
      BY <2>1, <1>2, <1>i, <1>n DEF Chans
    <2>2. CASE pool # <<>>
      <3>1. Len(pool) \in DOMAIN pool
        BY <2>2, <1>0 DEF ReplyTypeOK
      <3>2. pool[Len(pool)] \in 1 .. call /\ pool[Len(pool)] \in Chans
        BY <3>1, <1>0 DEF NotYet, ReplyTypeOK
      <3>3. QED  BY <3>2, <2>2, <1>2, <1>i, <1>n
    <2>3. QED  BY <2>1, <2>2
  <1>4. /\ DOMAIN pool' \subseteq DOMAIN pool
        /\ \A m \in DOMAIN pool' : pool'[m] = pool[m] /\ pool[m] # i
        /\ pool' \in Seq(Chans)
    <2>1. CASE pool = <<>>
      BY <2>1, <1>1, <1>0 DEF ReplyTypeOK
    <2>2. CASE pool # <<>>
      <3>1. pool \in Seq(Chans) /\ Len(pool) \in Nat \ {0} /\ DOMAIN pool = 1 .. Len(pool)
        BY <2>2, <1>0 DEF ReplyTypeOK
      <3>2. /\ pool' \in Seq(Chans) /\ DOMAIN pool' = 1 .. Len(pool) - 1
            /\ \A m \in 1 .. Len(pool) - 1 : pool'[m] = pool[m]
        BY <3>1, <2>2, <1>1
      <3>3. \A m \in 1 .. Len(pool) - 1 : pool[m] # pool[Len(pool)]
        BY <3>1, <1>0 DEF PoolApart
      <3>4. QED  BY <3>1, <3>2, <3>3, <2>2, <1>i
    <2>3. QED  BY <2>1, <2>2
  <1>5. value[i] = NoReply /\ dropped[i] = NoReply /\ Sharers(i) = {}
    <2>1. CASE pool = <<>>
      <3>1. i = n /\ \A c \in Calls : sender[c].chan # n
        BY <2>1, <1>0, <1>2, <1>i, <1>n DEF NotYet, Chans
      <3>2. value[n] = NoReply /\ dropped[n] = NoReply
        BY <1>0, <1>2, <1>n DEF NotYet, Chans
      <3>3. QED  BY <3>1, <3>2 DEF Sharers
    <2>2. CASE pool # <<>>
      BY <2>2, <1>0, <1>i DEF PoolApart, ReplyTypeOK
    <2>3. QED  BY <2>1, <2>2
  <1>6. sender' \in [Calls -> [chan : Chans \cup {NoReply}, st : SenderStates]]
    BY <1>0, <1>1, <1>2, <1>3 DEF ReplyTypeOK, SenderStates
  <1>7. /\ sender'[n] = [chan |-> i, st |-> "live"]
        /\ \A d \in Calls : d # n => sender'[d] = sender[d]
    BY <1>0, <1>1, <1>2 DEF ReplyTypeOK
  <1>8. /\ Sharers(i)' \subseteq {n}
        /\ \A j : j # i => Sharers(j)' \subseteq Sharers(j)
    BY <1>5, <1>7 DEF Sharers
  <1>9. ReplyTypeOK'
    <2>1. call' \in 0 .. MaxCalls
      BY <1>0, <1>1, <1>2 DEF Calls
    <2>2. QED  BY <2>1, <1>0, <1>1, <1>3, <1>4, <1>6 DEF ReplyTypeOK
  <1>10. NotYet'
    <2>1. \A c \in Calls : c > n => (sender'[c] = NoSender /\ callResult[c] = Told("none", 0)
                                        /\ c \notin answered)
      BY <1>0, <1>2, <1>7, <1>n DEF NotYet, Calls
    <2>2. \A c \in Calls : sender'[c].chan \in 1 .. n \cup {NoReply}
      BY <1>0, <1>2, <1>3, <1>7, <1>n DEF NotYet, Calls
    <2>3. \A m \in DOMAIN pool' : pool'[m] \in 1 .. n
      BY <1>0, <1>2, <1>4, <1>n DEF NotYet
    <2>4. \A j \in Chans : j > n => (value[j] = NoReply /\ dropped[j] = NoReply)
      BY <1>0, <1>2, <1>n DEF NotYet, Chans, Calls
    <2>5. QED  BY <2>1, <2>2, <2>3, <2>4, <1>1 DEF NotYet, NoSender, Told
  <1>11. SenderTruth'
    <2>1. callResult[n].kind = "none" /\ n \notin answered
      BY <1>0, <1>2, <1>n DEF NotYet, Calls, Told
    <2>2. QED  BY <2>1, <1>0, <1>1, <1>2, <1>3, <1>7 DEF SenderTruth
  <1>12. InUse'
    BY <1>1, <1>2, <1>3, <1>7, <1>8, <1>n DEF InUse
  <1>13. PoolApart'
    BY <1>0, <1>1, <1>4, <1>8 DEF PoolApart
  <1>14. ChannelTruth'
    BY <1>0, <1>1, <1>2, <1>5, <1>7, <1>n DEF ChannelTruth, Ending, NotYet, Calls
  <1>15. QED
    BY <1>0, <1>1, <1>9, <1>10, <1>11, <1>12, <1>13, <1>14
       DEF ReplyInv, OwnReply, AnswerWakes

\* What checkin does to the channel and to the pool.
LEMMA CheckinSteps ==
    ASSUME ReplyAssumption, ReplyInv, callPc # "idle", Checkin
    PROVE  /\ value' \in [Chans -> Stamped \cup {NoReply}]
           /\ dropped' \in [Chans -> Stamped \cup {NoReply}]
           /\ \A i \in Chans : value'[i] = value[i] \/ value'[i] = NoReply
           /\ \A i \in Chans : dropped'[i] = dropped[i] \/ dropped'[i] = NoReply
           /\ pool' \in Seq(Chans)
           /\ pooled' \subseteq Calls
           /\ \/ /\ pool' = pool
              \/ /\ Sharers(using) = {}
                 /\ pool' = Append(pool, using)
                 /\ value'[using] = NoReply /\ dropped'[using] = NoReply
  <1>0. /\ ReplyTypeOK /\ InUse /\ using \in Chans
        /\ value \in [Chans -> Stamped \cup {NoReply}]
        /\ dropped \in [Chans -> Stamped \cup {NoReply}]
        /\ pool \in Seq(Chans) /\ pooled \subseteq Calls /\ call \in Calls
    BY DEF ReplyInv, InUse, ReplyTypeOK, Calls, ReplyAssumption
  <1>1. CASE Reusable(using)
    <2>1. /\ value' = [value EXCEPT ![using] = NoReply]
          /\ dropped' = [dropped EXCEPT ![using] = NoReply]
      BY <1>1 DEF Checkin, Reset
    <2>2. /\ value' \in [Chans -> Stamped \cup {NoReply}]
          /\ dropped' \in [Chans -> Stamped \cup {NoReply}]
          /\ value'[using] = NoReply /\ dropped'[using] = NoReply
          /\ \A i \in Chans : i # using => (value'[i] = value[i] /\ dropped'[i] = dropped[i])
      BY <2>1, <1>0
    <2>3. Sharers(using) = {}
      BY <1>1, ReusableFree
    <2>4. /\ pool' \in {pool, Append(pool, using)}
          /\ pooled' \in {pooled, pooled \cup {call}}
      BY <1>1 DEF Checkin
    <2>5. pool' \in Seq(Chans) /\ pooled' \subseteq Calls
      BY <2>4, <1>0
    <2>6. QED  BY <2>2, <2>3, <2>4, <2>5
  <1>2. CASE ~Reusable(using)
    BY <1>0, <1>2 DEF Checkin, chanVars, poolVars
  <1>3. QED  BY <1>1, <1>2

\* The pool after a checkin, once the channel is out of use and no sender has
\* been added.
LEMMA CheckinPools ==
    ASSUME ReplyAssumption, ReplyInv, callPc # "idle", Checkin, using' = NoReply,
           \A i : Sharers(i)' \subseteq Sharers(i)
    PROVE  /\ PoolApart'
           /\ \A n \in DOMAIN pool' : pool'[n] \in 1 .. call
  <1>0. /\ ReplyTypeOK /\ NotYet /\ InUse /\ PoolApart /\ pool \in Seq(Chans)
        /\ NoReply \notin Chans
    BY DEF ReplyInv, ReplyTypeOK, ReplyAssumption
  <1>1. using \in Chans /\ using \in 1 .. call
    BY <1>0 DEF InUse, NotYet, ReplyTypeOK, Calls
  <1>2. /\ \A i \in Chans : value'[i] = value[i] \/ value'[i] = NoReply
        /\ \A i \in Chans : dropped'[i] = dropped[i] \/ dropped'[i] = NoReply
        /\ \/ /\ pool' = pool
           \/ /\ Sharers(using) = {}
              /\ pool' = Append(pool, using)
              /\ value'[using] = NoReply /\ dropped'[using] = NoReply
    BY CheckinSteps
  <1>3. \A n \in DOMAIN pool : pool[n] \in Chans /\ pool[n] # using'
    BY <1>0
  <1>4. CASE pool' = pool
    <2>1. \A n \in DOMAIN pool : pool[n] \in 1 .. call
      BY <1>0 DEF NotYet
    <2>2. \A n \in DOMAIN pool :
             /\ value'[pool[n]] = NoReply /\ dropped'[pool[n]] = NoReply
             /\ \A m \in DOMAIN pool : pool[m] = pool[n] => m = n
      BY <1>0, <1>2, <1>3 DEF PoolApart
    <2>3. ASSUME NEW n \in DOMAIN pool PROVE Sharers(pool[n])' = {}
      <3>1. PICK j : j = pool[n]  OBVIOUS
      <3>2. Sharers(j) = {}
        BY <3>1, <1>0 DEF PoolApart
      <3>3. Sharers(j)' = {}
        BY <3>2
      <3>4. Sharers(pool[n])' = Sharers(j)'
        BY <3>1, <1>4 DEF Sharers
      <3>5. QED  BY <3>3, <3>4
    <2>4. QED  BY <1>3, <1>4, <2>1, <2>2, <2>3 DEF PoolApart
  <1>5. CASE /\ Sharers(using) = {}
             /\ pool' = Append(pool, using)
             /\ value'[using] = NoReply /\ dropped'[using] = NoReply
    <2>0. Len(pool) \in Nat /\ DOMAIN pool = 1 .. Len(pool)
      BY <1>0
    <2>1. /\ DOMAIN pool' = 1 .. Len(pool) + 1
          /\ pool'[Len(pool) + 1] = using
          /\ \A n \in DOMAIN pool : pool'[n] = pool[n]
      BY <1>0, <1>1, <1>5, <2>0
    <2>2. \A n \in DOMAIN pool' : n \in DOMAIN pool \/ n = Len(pool) + 1
      BY <2>0, <2>1
    <2>3. \A n \in DOMAIN pool' : pool'[n] \in 1 .. call /\ pool'[n] # using'
      BY <2>1, <2>2, <1>0, <1>1, <1>3 DEF NotYet
    <2>4. \A n \in DOMAIN pool' : value'[pool'[n]] = NoReply /\ dropped'[pool'[n]] = NoReply
      BY <2>1, <2>2, <1>0, <1>2, <1>3, <1>5 DEF PoolApart
    <2>5. \A n \in DOMAIN pool' : \A m \in DOMAIN pool' : pool'[m] = pool'[n] => m = n
      <3>1. \A n \in DOMAIN pool : pool'[n] # using
        BY <2>1, <1>0 DEF PoolApart
      <3>2. QED  BY <3>1, <2>1, <2>2, <1>0 DEF PoolApart
    <2>6. ASSUME NEW n \in DOMAIN pool' PROVE Sharers(pool[n])' = {}
      <3>1. PICK j : j = pool'[n]  OBVIOUS
      <3>2. Sharers(j) = {}
        BY <3>1, <2>1, <2>2, <1>0, <1>5 DEF PoolApart
      <3>3. Sharers(j)' = {}
        BY <3>2
      <3>4. Sharers(pool[n])' = Sharers(j)'
        BY <3>1 DEF Sharers
      <3>5. QED  BY <3>3, <3>4
    <2>7. QED  BY <2>3, <2>4, <2>5, <2>6 DEF PoolApart
  <1>6. QED  BY <1>2, <1>4, <1>5

\* The present call is told r.
LEMMA ResultSteps ==
    ASSUME ReplyTypeOK, call \in Calls, NEW r \in Answers,
           callResult' = [callResult EXCEPT ![call] = r]
    PROVE  /\ callResult' \in [Calls -> Answers]
           /\ callResult'[call] = r
           /\ \A c \in Calls : c # call => callResult'[c] = callResult[c]
  BY DEF ReplyTypeOK

LEMMA RefusedKeeps ==
    ASSUME ReplyAssumption, ReplyInv, NEW k \in {"full", "stopped"}, Refused(k)
    PROVE  ReplyInv'
  <1>0. /\ ReplyTypeOK /\ NotYet /\ SenderTruth /\ InUse /\ PoolApart /\ ChannelTruth
        /\ OwnReply /\ MaxCalls \in Nat \ {0} /\ NoReply \notin Chans
    BY DEF ReplyInv, ReplyAssumption
  <1>1. /\ callPc = "offering" /\ callPc' = "idle" /\ Checkin /\ using' = NoReply
        /\ callResult' = [callResult EXCEPT ![call] = Told(k, 0)]
        /\ sender' = [sender EXCEPT ![call].st = "gone"]
        /\ UNCHANGED <<call, callExpired, answered>>
    BY DEF Refused
  <1>2. call \in Calls /\ sender[call].st = "live"
    BY <1>0, <1>1 DEF InUse, ChannelTruth, ReplyTypeOK, Calls
  <1>3. Told(k, 0) \in Answers /\ Told(k, 0).kind \notin {"ok", "disconnected"}
    BY <1>0 DEF Told, Answers
  <1>4. /\ callResult' \in [Calls -> Answers]
        /\ callResult'[call] = Told(k, 0)
        /\ \A c \in Calls : c # call => callResult'[c] = callResult[c]
    BY <1>0, <1>1, <1>2, <1>3, ResultSteps
  <1>5. /\ sender' \in [Calls -> [chan : Chans \cup {NoReply}, st : SenderStates]]
        /\ \A d \in Calls : sender'[d].chan = sender[d].chan
        /\ \A d \in Calls : d # call => sender'[d] = sender[d]
        /\ sender'[call].st = "gone"
        /\ \A i : Sharers(i)' \subseteq Sharers(i)
    <2>1. "gone" \in SenderStates
      BY DEF SenderStates
    <2>2. PICK c \in Calls : c = call
      BY <1>2
    <2>3. sender' = [sender EXCEPT ![c].st = "gone"] /\ sender[c].st # "gone"
      BY <2>2, <1>1, <1>2
    <2>4. QED  BY <2>1, <2>2, <2>3, <1>0, SenderMoves
  <1>6. PoolApart' /\ \A n \in DOMAIN pool' : pool'[n] \in 1 .. call
    BY <1>1, <1>5, CheckinPools
  <1>7. /\ value' \in [Chans -> Stamped \cup {NoReply}]
        /\ dropped' \in [Chans -> Stamped \cup {NoReply}]
        /\ \A i \in Chans : value'[i] = value[i] \/ value'[i] = NoReply
        /\ \A i \in Chans : dropped'[i] = dropped[i] \/ dropped'[i] = NoReply
        /\ pool' \in Seq(Chans)
        /\ pooled' \subseteq Calls
    BY <1>1, CheckinSteps
  <1>8. ReplyTypeOK'
    BY <1>0, <1>1, <1>4, <1>5, <1>7 DEF ReplyTypeOK
  <1>9. NotYet'
    <2>1. \A c \in Calls : c > call => c # call
      BY <1>2 DEF Calls
    <2>2. /\ \A c \in Calls : c > call =>
                 (sender'[c] = NoSender /\ callResult'[c] = Told("none", 0)
                      /\ c \notin answered)
          /\ \A c \in Calls : sender'[c].chan \in 1 .. call \cup {NoReply}
      BY <2>1, <1>0, <1>4, <1>5 DEF NotYet
    <2>3. \A i \in Chans : i > call => (value'[i] = NoReply /\ dropped'[i] = NoReply)
      BY <1>0, <1>7 DEF NotYet
    <2>4. QED  BY <2>2, <2>3, <1>1, <1>6 DEF NotYet, NoSender, Told
  <1>10. SenderTruth'
    BY <1>0, <1>1, <1>3, <1>4, <1>5 DEF SenderTruth
  <1>11. OwnReply'
    BY <1>0, <1>3, <1>4 DEF OwnReply
  <1>12. InUse' /\ ChannelTruth' /\ AnswerWakes'
    BY <1>1 DEF InUse, ChannelTruth, AnswerWakes
  <1>13. QED
    BY <1>6, <1>8, <1>9, <1>10, <1>11, <1>12 DEF ReplyInv

LEMMA CheckinAndReturnKeeps ==
    ASSUME ReplyAssumption, ReplyInv, CheckinAndReturn
    PROVE  ReplyInv'
  <1>0. /\ ReplyTypeOK /\ NotYet /\ SenderTruth /\ InUse /\ OwnReply
    BY DEF ReplyInv
  <1>1. /\ callPc = "returning" /\ callPc' = "idle" /\ Checkin /\ using' = NoReply
        /\ UNCHANGED <<call, callExpired, sender, callResult, answered>>
    BY DEF CheckinAndReturn
  <1>2. \A i : Sharers(i)' \subseteq Sharers(i)
    BY <1>1 DEF Sharers
  <1>3. PoolApart' /\ \A n \in DOMAIN pool' : pool'[n] \in 1 .. call
    BY <1>1, <1>2, CheckinPools
  <1>4. /\ value' \in [Chans -> Stamped \cup {NoReply}]
        /\ dropped' \in [Chans -> Stamped \cup {NoReply}]
        /\ \A i \in Chans : value'[i] = value[i] \/ value'[i] = NoReply
        /\ \A i \in Chans : dropped'[i] = dropped[i] \/ dropped'[i] = NoReply
        /\ pool' \in Seq(Chans)
        /\ pooled' \subseteq Calls
    BY <1>1, CheckinSteps
  <1>5. ReplyTypeOK'
    BY <1>0, <1>1, <1>4 DEF ReplyTypeOK
  <1>6. NotYet'
    <2>1. \A i \in Chans : i > call => (value'[i] = NoReply /\ dropped'[i] = NoReply)
      BY <1>0, <1>4 DEF NotYet
    <2>2. QED  BY <2>1, <1>0, <1>1, <1>3 DEF NotYet, NoSender, Told
  <1>7. SenderTruth' /\ OwnReply'
    BY <1>0, <1>1 DEF SenderTruth, OwnReply
  <1>8. InUse' /\ ChannelTruth' /\ AnswerWakes'
    BY <1>1 DEF InUse, ChannelTruth, AnswerWakes
  <1>9. QED
    BY <1>3, <1>5, <1>6, <1>7, <1>8 DEF ReplyInv

LEMMA CheckKeeps ==
    ASSUME ReplyAssumption, ReplyInv, Check
    PROVE  ReplyInv'
  <1>0. /\ ReplyTypeOK /\ NotYet /\ SenderTruth /\ InUse /\ PoolApart /\ ChannelTruth
        /\ OwnReply /\ MaxCalls \in Nat \ {0} /\ NoReply \notin Chans
    BY DEF ReplyInv, ReplyAssumption
  <1>1. /\ callPc = "checking" /\ callPc' \in {"returning", "parked"}
        /\ UNCHANGED <<pool, pooled, call, callExpired, using, dropped, sender, answered>>
    BY DEF Check, Leave, poolVars
  <1>2. call \in Calls /\ using \in Chans /\ using = sender[call].chan
    BY <1>0, <1>1 DEF InUse, ReplyTypeOK, Calls
  <1>3. /\ value' \in [Chans -> Stamped \cup {NoReply}]
        /\ \A i \in Chans : value'[i] = value[i] \/ value'[i] = NoReply
    <2>1. value' = value \/ value' = [value EXCEPT ![using] = NoReply]
      BY DEF Check
    <2>2. QED  BY <2>1, <1>0, <1>2 DEF ReplyTypeOK
  <1>4. Told("timeout", 0) \in Answers /\ Told("ok", call) \in Answers
            /\ Told("disconnected", 0) \in Answers
    BY <1>0, <1>2 DEF Told, Answers, Calls
  <1>5. \/ /\ callPc' = "returning"
           /\ \E r \in {Told("timeout", 0), Told("ok", call)} :
                  callResult' = [callResult EXCEPT ![call] = r]
        \/ /\ callPc' = "returning"
           /\ callResult' = [callResult EXCEPT ![call] = Told("disconnected", 0)]
           /\ sender[call].st # "live" /\ call \notin answered
        \/ /\ callPc' = "parked"
           /\ value' = value /\ value[using] = NoReply /\ dropped[using] = NoReply
           /\ UNCHANGED callResult
    <2>1. CASE value[using] # NoReply
      <3>1. Heard(value[using]).what \in {Told("timeout", 0), Told("ok", call)}
        BY <2>1, <1>0, <1>1 DEF Heard, ChannelTruth
      <3>2. callPc' = "returning" /\ callResult' = [callResult EXCEPT ![call] =
                                                        Heard(value[using]).what]
        BY <2>1 DEF Check, Leave
      <3>3. QED  BY <3>1, <3>2
    <2>2. CASE value[using] = NoReply /\ dropped[using] # NoReply
      <3>1. Heard(dropped[using]).what \in {Told("timeout", 0), Told("disconnected", 0)}
        BY <2>2, <1>0, <1>1 DEF Heard, ChannelTruth
      <3>2. callPc' = "returning" /\ callResult' = [callResult EXCEPT ![call] =
                                                        Heard(dropped[using]).what]
        BY <2>2 DEF Check, Leave
      <3>3. sender[call].st # "live" /\ call \notin answered
        BY <2>2, <1>0, <1>1 DEF ChannelTruth, Ending
      <3>4. QED  BY <3>1, <3>2, <3>3
    <2>3. CASE value[using] = NoReply /\ dropped[using] = NoReply
      BY <2>3 DEF Check, Leave
    <2>4. QED  BY <2>1, <2>2, <2>3
  <1>6. /\ callResult' \in [Calls -> Answers]
        /\ \A c \in Calls : c # call => callResult'[c] = callResult[c]
        /\ \/ callResult'[call] = callResult[call]
           \/ callResult'[call] \in {Told("timeout", 0), Told("ok", call)}
           \/ /\ callResult'[call] = Told("disconnected", 0)
              /\ sender[call].st # "live" /\ call \notin answered
    <2>1. CASE UNCHANGED callResult
      BY <2>1, <1>0 DEF ReplyTypeOK
    <2>2. ASSUME NEW r \in Answers, callResult' = [callResult EXCEPT ![call] = r]
          PROVE  /\ callResult' \in [Calls -> Answers]
                 /\ callResult'[call] = r
                 /\ \A c \in Calls : c # call => callResult'[c] = callResult[c]
      BY <2>2, <1>0, <1>2, ResultSteps
    <2>3. QED  BY <2>1, <2>2, <1>4, <1>5
  <1>7. ReplyTypeOK'
    BY <1>0, <1>1, <1>3, <1>6 DEF ReplyTypeOK
  <1>8. NotYet'
    <2>1. \A c \in Calls : c > call => c # call
      BY <1>2 DEF Calls
    <2>2. \A c \in Calls : c > call => callResult'[c] = Told("none", 0)
      BY <2>1, <1>0, <1>6 DEF NotYet
    <2>3. \A i \in Chans : i > call => (value'[i] = NoReply /\ dropped'[i] = NoReply)
      BY <1>0, <1>1, <1>3 DEF NotYet
    <2>4. QED  BY <2>2, <2>3, <1>0, <1>1 DEF NotYet, NoSender, Told
  <1>9. SenderTruth'
    <2>1. Told("timeout", 0).kind = "timeout" /\ Told("ok", call).kind = "ok"
      BY DEF Told
    <2>2. QED  BY <2>1, <1>0, <1>1, <1>6 DEF SenderTruth
  <1>10. OwnReply'
    <2>1. /\ Told("timeout", 0).kind = "timeout" /\ Told("ok", call).of = call
          /\ Told("disconnected", 0).kind = "disconnected"
      BY DEF Told
    <2>2. QED  BY <2>1, <1>0, <1>6 DEF OwnReply
  <1>11. InUse'
    BY <1>0, <1>1 DEF InUse, Sharers
  <1>12. PoolApart'
    BY <1>0, <1>1, <1>3 DEF PoolApart, ReplyTypeOK, Sharers
  <1>13. ChannelTruth'
    <2>1. CASE callPc' = "returning"
      BY <2>1, <1>0, <1>1, <1>2, <1>3 DEF ChannelTruth, Told
    <2>2. CASE callPc' = "parked"
      BY <2>2, <1>0, <1>1, <1>5 DEF ChannelTruth, Told
    <2>3. QED  BY <2>1, <2>2, <1>1
  <1>14. AnswerWakes'
    <2>1. CASE callPc' = "parked"
      <3>1. sender[call].st \notin Ending
        BY <2>1, <1>0, <1>1, <1>5 DEF ChannelTruth
      <3>2. sender[call].st \in SenderStates
        BY <1>0, <1>2 DEF ReplyTypeOK
      <3>3. QED  BY <3>1, <3>2, <1>1 DEF AnswerWakes, Ending, SenderStates
    <2>2. CASE callPc' # "parked"
      BY <2>2 DEF AnswerWakes
    <2>3. QED  BY <2>1, <2>2
  <1>15. QED
    BY <1>7, <1>8, <1>9, <1>10, <1>11, <1>12, <1>13, <1>14 DEF ReplyInv

\* Steps that only move the host: the command is accepted, a wait ends or its
\* timeout passes.
LEMMA HostMovesKeep ==
    ASSUME ReplyAssumption, ReplyInv, Accepted \/ WakeUp \/ WaitExpires
    PROVE  ReplyInv'
  <1>0. /\ ReplyTypeOK /\ NotYet /\ SenderTruth /\ InUse /\ PoolApart /\ ChannelTruth
        /\ OwnReply /\ AnswerWakes
    BY DEF ReplyInv
  <1>1. /\ UNCHANGED <<value, dropped, pool, pooled, call, using, sender, callResult, answered>>
        /\ callExpired' \in BOOLEAN
        /\ \/ callPc = "offering" /\ callPc' = "checking"
           \/ callPc = "parked" /\ callPc' = "checking"
           \/ callPc \in {"checking", "parked"} /\ callPc' = callPc
    BY <1>0 DEF Accepted, WakeUp, WaitExpires, chanVars, poolVars, ReplyTypeOK
  <1>2. ReplyTypeOK'
    BY <1>0, <1>1 DEF ReplyTypeOK
  <1>3. NotYet' /\ SenderTruth' /\ OwnReply'
    BY <1>0, <1>1 DEF NotYet, SenderTruth, OwnReply, NoSender, Told
  <1>4. InUse' /\ PoolApart'
    BY <1>0, <1>1 DEF InUse, PoolApart, Sharers
  <1>5. ChannelTruth'
    <2>1. CASE callPc = "offering" /\ callPc' = "checking"
      <3>1. call \in Calls
        BY <2>1, <1>0 DEF InUse, ReplyTypeOK, Calls
      <3>2. call \notin answered /\ sender[call].st \notin Ending
        BY <2>1, <3>1, <1>0 DEF ChannelTruth, SenderTruth, Ending
      <3>3. QED  BY <2>1, <3>2, <1>0, <1>1 DEF ChannelTruth, Told
    <2>2. CASE callPc \in {"checking", "parked"} /\ callPc' \in {"checking", "parked"}
      BY <2>2, <1>0, <1>1 DEF ChannelTruth, Told
    <2>3. QED  BY <2>1, <2>2, <1>1
  <1>6. AnswerWakes'
    BY <1>0, <1>1 DEF AnswerWakes
  <1>7. QED  BY <1>2, <1>3, <1>4, <1>5, <1>6 DEF ReplyInv

-----------------------------------------------------------------------------
(* The senders.                                                            *)

\* The channel of a sender that is not gone is in nobody else's hands.
LEMMA SenderApart ==
    ASSUME ReplyInv, NEW c \in Calls, sender[c].st # "gone"
    PROVE  /\ sender[c].chan \in Chans
           /\ sender[c].chan <= call
           /\ c <= call
           /\ (callPc # "idle" /\ c # call) => using # sender[c].chan
           /\ (callPc # "idle" /\ c = call) => using = sender[c].chan
           /\ \A n \in DOMAIN pool : pool[n] # sender[c].chan
  <1>0. /\ ReplyTypeOK /\ NotYet /\ SenderTruth /\ InUse /\ PoolApart
    BY DEF ReplyInv
  <1>1. sender[c].chan \in Chans /\ sender[c].chan \in 1 .. call
    BY <1>0 DEF SenderTruth, ReplyTypeOK, NotYet
  <1>2. c <= call
    <2>1. SUFFICES ASSUME c > call PROVE FALSE
      BY <1>0 DEF ReplyTypeOK, Calls
    <2>2. QED  BY <2>1, <1>0 DEF NotYet, NoSender
  <1>3. c \in Sharers(sender[c].chan)
    BY DEF Sharers
  <1>4. (callPc # "idle" /\ c # call) => using # sender[c].chan
    BY <1>3, <1>0 DEF InUse
  <1>5. (callPc # "idle" /\ c = call) => using = sender[c].chan
    BY <1>0 DEF InUse
  <1>6. \A n \in DOMAIN pool : pool[n] # sender[c].chan
    BY <1>3, <1>0 DEF PoolApart
  <1>7. sender[c].chan <= call
    BY <1>1, <1>0 DEF ReplyTypeOK
  <1>8. QED  BY <1>1, <1>2, <1>4, <1>5, <1>6, <1>7

\* What all four steps of a sender have in common.
LEMMA SenderStepCommon ==
    ASSUME ReplyInv, NEW c \in Calls, NEW st \in SenderStates,
           sender[c].st # "gone", sender' = [sender EXCEPT ![c].st = st],
           UNCHANGED <<pool, pooled, call, using, callExpired, callResult>>,
           callPc' = callPc \/ (callPc = "parked" /\ callPc' = "checking"),
           value' \in [Chans -> Stamped \cup {NoReply}],
           dropped' \in [Chans -> Stamped \cup {NoReply}],
           \A i \in Chans : i # sender[c].chan =>
               (value'[i] = value[i] /\ dropped'[i] = dropped[i]),
           answered' \subseteq answered \cup {c}, answered \subseteq answered'
    PROVE  /\ ReplyTypeOK' /\ NotYet' /\ InUse' /\ PoolApart' /\ OwnReply'
           /\ \A d \in Calls : d # c => sender'[d] = sender[d]
           /\ sender'[c].st = st
  <1>0. /\ ReplyTypeOK /\ NotYet /\ SenderTruth /\ InUse /\ PoolApart /\ OwnReply
    BY DEF ReplyInv
  <1>1. /\ sender' \in [Calls -> [chan : Chans \cup {NoReply}, st : SenderStates]]
        /\ \A d \in Calls : sender'[d].chan = sender[d].chan
        /\ \A d \in Calls : d # c => sender'[d] = sender[d]
        /\ sender'[c].st = st
        /\ \A i : Sharers(i)' \subseteq Sharers(i)
    BY <1>0, SenderMoves
  <1>2. /\ sender[c].chan \in Chans
        /\ sender[c].chan <= call
        /\ c <= call
        /\ \A n \in DOMAIN pool : pool[n] # sender[c].chan
    BY SenderApart
  <1>3. ReplyTypeOK'
    BY <1>0, <1>1 DEF ReplyTypeOK
  <1>4. NotYet'
    <2>0. \A x \in Calls : x > call => (x # c /\ x # sender[c].chan)
      BY <1>0, <1>2 DEF ReplyTypeOK, Calls, Chans
    <2>1. \A d \in Calls : d > call => (sender'[d] = NoSender /\ d \notin answered')
      BY <2>0, <1>0, <1>1 DEF NotYet
    <2>2. \A i \in Chans : i > call => (value'[i] = NoReply /\ dropped'[i] = NoReply)
      BY <2>0, <1>0 DEF NotYet, Chans
    <2>3. QED  BY <2>1, <2>2, <1>0, <1>1 DEF NotYet, NoSender, Told
  <1>5. InUse'
    <2>1. CASE callPc = "idle"
      BY <2>1, <1>0 DEF InUse
    <2>2. CASE callPc # "idle"
      <3>1. /\ call # 0 /\ using \in Chans /\ using = sender[call].chan
            /\ Sharers(using) \subseteq {call} /\ call \in Calls
        BY <2>2, <1>0 DEF InUse, ReplyTypeOK, Calls
      <3>2. PICK u : u = using  OBVIOUS
      <3>3. Sharers(u)' \subseteq {call}
        BY <1>1, <3>1, <3>2
      <3>4. Sharers(using)' = Sharers(u)'
        BY <3>2 DEF Sharers
      <3>5. callPc' # "idle"
        BY <2>2
      <3>6. QED  BY <3>1, <3>3, <3>4, <3>5, <1>1 DEF InUse
    <2>3. QED  BY <2>1, <2>2
  <1>6. PoolApart'
    <2>1. ASSUME NEW n \in DOMAIN pool PROVE Sharers(pool[n])' = {}
      <3>1. PICK j : j = pool[n]  OBVIOUS
      <3>2. Sharers(j) = {}
        BY <3>1, <1>0 DEF PoolApart
      <3>3. Sharers(j)' = {}
        BY <3>2, <1>1
      <3>4. Sharers(pool[n])' = Sharers(j)'
        BY <3>1 DEF Sharers
      <3>5. QED  BY <3>3, <3>4
    <2>2. \A n \in DOMAIN pool : value'[pool[n]] = NoReply /\ dropped'[pool[n]] = NoReply
      BY <1>0, <1>2 DEF PoolApart, ReplyTypeOK
    <2>3. QED  BY <2>1, <2>2, <1>0 DEF PoolApart
  <1>7. OwnReply'
    BY <1>0 DEF OwnReply
  <1>8. QED  BY <1>1, <1>3, <1>4, <1>5, <1>6, <1>7

LEMMA SendKeeps ==
    ASSUME ReplyAssumption, ReplyInv, NEW c \in Calls, Send(c)
    PROVE  ReplyInv'
  <1>0. /\ ReplyTypeOK /\ NotYet /\ SenderTruth /\ InUse /\ ChannelTruth /\ AnswerWakes
        /\ NoReply \notin Stamped /\ MaxCalls \in Nat \ {0}
    BY DEF ReplyInv, ReplyAssumption
  <1>i. PICK i : i = sender[c].chan  OBVIOUS
  <1>v. PICK v : v = [what |-> Told("ok", c), inTime |-> InTime(c)]  OBVIOUS
  <1>1. /\ sender[c].st = "live" /\ ~(call = c /\ callPc = "offering")
        /\ value' = [value EXCEPT ![i] = v]
        /\ sender' = [sender EXCEPT ![c].st = "sent"]
        /\ answered' = answered \cup {c}
        /\ UNCHANGED <<pool, pooled, call, callPc, callExpired, using, dropped, callResult>>
    BY <1>i, <1>v DEF Send, poolVars
  <1>2. /\ i \in Chans
        /\ (callPc # "idle" /\ c # call) => using # i
        /\ (callPc # "idle" /\ c = call) => using = i
    BY <1>1, <1>i, SenderApart
  <1>3. v \in Stamped /\ v # NoReply /\ v.what = Told("ok", c)
    <2>1. InTime(c) \in BOOLEAN
      BY <1>0 DEF InTime, ReplyTypeOK
    <2>2. Told("ok", c) \in Answers
      BY <1>0 DEF Told, Answers, Calls
    <2>3. v \in Stamped
      BY <2>1, <2>2, <1>v DEF Stamped
    <2>4. QED  BY <2>3, <1>0, <1>v
  <1>4. /\ value' \in [Chans -> Stamped \cup {NoReply}]
        /\ value'[i] = v
        /\ \A j \in Chans : j # i => value'[j] = value[j]
    BY <1>0, <1>1, <1>2, <1>3 DEF ReplyTypeOK
  <1>5. /\ ReplyTypeOK' /\ NotYet' /\ InUse' /\ PoolApart' /\ OwnReply'
        /\ \A d \in Calls : d # c => sender'[d] = sender[d]
        /\ sender'[c].st = "sent"
    <2>1. "sent" \in SenderStates
      BY DEF SenderStates
    <2>2. dropped' \in [Chans -> Stamped \cup {NoReply}]
      BY <1>0, <1>1 DEF ReplyTypeOK
    <2>3. QED  BY <2>1, <2>2, <1>i, <1>1, <1>4, SenderStepCommon
  <1>6. SenderTruth'
    <2>1. sender'[c].chan # NoReply
      BY <1>0, <1>1 DEF SenderTruth, ReplyTypeOK
    <2>2. QED  BY <2>1, <1>0, <1>1, <1>5 DEF SenderTruth
  <1>7. ChannelTruth'
    <2>1. CASE callPc # "idle" /\ c = call
      BY <2>1, <1>0, <1>1, <1>2, <1>3, <1>4, <1>5 DEF ChannelTruth, Told, Ending
    <2>2. CASE callPc # "idle" /\ c # call
      <3>1. using \in Chans /\ using # i /\ call \in Calls
        BY <2>2, <1>0, <1>2 DEF InUse, ReplyTypeOK, Calls
      <3>2. value'[using] = value[using] /\ sender'[call] = sender[call]
        BY <3>1, <2>2, <1>4, <1>5
      <3>3. QED  BY <3>2, <2>2, <1>0, <1>1 DEF ChannelTruth, Told
    <2>3. CASE callPc = "idle"
      BY <2>3, <1>1 DEF ChannelTruth
    <2>4. QED  BY <2>1, <2>2, <2>3
  <1>8. AnswerWakes'
    <2>1. callPc = "parked" => call \in Calls
      BY <1>0 DEF InUse, ReplyTypeOK, Calls
    <2>2. QED  BY <2>1, <1>0, <1>1, <1>5 DEF AnswerWakes
  <1>9. QED  BY <1>5, <1>6, <1>7, <1>8 DEF ReplyInv

LEMMA DropSenderKeeps ==
    ASSUME ReplyAssumption, ReplyInv, NEW c \in Calls, DropSender(c)
    PROVE  ReplyInv'
  <1>0. /\ ReplyTypeOK /\ NotYet /\ SenderTruth /\ InUse /\ ChannelTruth /\ AnswerWakes
        /\ NoReply \notin Stamped /\ MaxCalls \in Nat \ {0}
    BY DEF ReplyInv, ReplyAssumption
  <1>i. PICK i : i = sender[c].chan  OBVIOUS
  <1>v. PICK v : v = [what |-> Told("disconnected", 0), inTime |-> InTime(c)]  OBVIOUS
  <1>1. /\ sender[c].st \in {"live", "sent"} /\ ~(call = c /\ callPc = "offering")
        /\ dropped' = IF value[i] # NoReply THEN dropped ELSE [dropped EXCEPT ![i] = v]
        /\ sender' = [sender EXCEPT ![c].st = "dropped"]
        /\ UNCHANGED <<pool, pooled, call, callPc, callExpired, using, value, callResult,
                       answered>>
    BY <1>i, <1>v DEF DropSender, poolVars
  <1>2. /\ i \in Chans
        /\ (callPc # "idle" /\ c # call) => using # i
        /\ (callPc # "idle" /\ c = call) => using = i
    BY <1>1, <1>i, SenderApart
  <1>3. v \in Stamped /\ v # NoReply /\ v.what = Told("disconnected", 0)
    <2>1. InTime(c) \in BOOLEAN
      BY <1>0 DEF InTime, ReplyTypeOK
    <2>2. Told("disconnected", 0) \in Answers
      BY <1>0 DEF Told, Answers, Calls
    <2>3. v \in Stamped
      BY <2>1, <2>2, <1>v DEF Stamped
    <2>4. QED  BY <2>3, <1>0, <1>v
  <1>4. /\ dropped' \in [Chans -> Stamped \cup {NoReply}]
        /\ \A j \in Chans : j # i => dropped'[j] = dropped[j]
        /\ IF value[i] # NoReply THEN dropped'[i] = dropped[i] ELSE dropped'[i] = v
    BY <1>0, <1>1, <1>2, <1>3 DEF ReplyTypeOK
  <1>5. /\ ReplyTypeOK' /\ NotYet' /\ InUse' /\ PoolApart' /\ OwnReply'
        /\ \A d \in Calls : d # c => sender'[d] = sender[d]
        /\ sender'[c].st = "dropped"
    <2>1. "dropped" \in SenderStates
      BY DEF SenderStates
    <2>2. value' \in [Chans -> Stamped \cup {NoReply}]
      BY <1>0, <1>1 DEF ReplyTypeOK
    <2>3. QED  BY <2>1, <2>2, <1>i, <1>1, <1>4, SenderStepCommon
  <1>6. SenderTruth'
    <2>1. sender'[c].chan # NoReply
      BY <1>0, <1>1 DEF SenderTruth, ReplyTypeOK
    <2>2. QED  BY <2>1, <1>0, <1>1, <1>5 DEF SenderTruth
  <1>7. ChannelTruth'
    <2>1. CASE callPc # "idle" /\ c = call
      BY <2>1, <1>0, <1>1, <1>2, <1>3, <1>4, <1>5 DEF ChannelTruth, Told, Ending
    <2>2. CASE callPc # "idle" /\ c # call
      <3>1. using \in Chans /\ using # i /\ call \in Calls
        BY <2>2, <1>0, <1>2 DEF InUse, ReplyTypeOK, Calls
      <3>2. dropped'[using] = dropped[using] /\ sender'[call] = sender[call]
        BY <3>1, <2>2, <1>4, <1>5
      <3>3. QED  BY <3>2, <2>2, <1>0, <1>1 DEF ChannelTruth, Told
    <2>3. CASE callPc = "idle"
      BY <2>3, <1>1 DEF ChannelTruth
    <2>4. QED  BY <2>1, <2>2, <2>3
  <1>8. AnswerWakes'
    <2>1. callPc = "parked" => call \in Calls
      BY <1>0 DEF InUse, ReplyTypeOK, Calls
    <2>2. QED  BY <2>1, <1>0, <1>1, <1>5 DEF AnswerWakes
  <1>9. QED  BY <1>5, <1>6, <1>7, <1>8 DEF ReplyInv

\* The notification and the release of the channel.
LEMMA SenderLeavesKeeps ==
    ASSUME ReplyAssumption, ReplyInv, NEW c \in Calls, Notify(c) \/ ReleaseArc(c)
    PROVE  ReplyInv'
  <1>0. /\ ReplyTypeOK /\ NotYet /\ SenderTruth /\ InUse /\ ChannelTruth /\ AnswerWakes
    BY DEF ReplyInv
  <1>1. PICK st \in {"notified", "gone"} :
           /\ sender' = [sender EXCEPT ![c].st = st]
           /\ IF st = "notified"
              THEN sender[c].st = "dropped" /\ NotifyHost(c)
              ELSE sender[c].st = "notified" /\ callPc' = callPc
    BY DEF Notify, ReleaseArc
  <1>2. UNCHANGED <<value, dropped, pool, pooled, call, callExpired, using, callResult,
                    answered>>
    BY DEF Notify, ReleaseArc, chanVars, poolVars
  <1>3. callPc' = callPc \/ (callPc = "parked" /\ callPc' = "checking")
    BY <1>1 DEF NotifyHost
  <1>4. /\ ReplyTypeOK' /\ NotYet' /\ InUse' /\ PoolApart' /\ OwnReply'
        /\ \A d \in Calls : d # c => sender'[d] = sender[d]
        /\ sender'[c].st = st
    <2>1. st \in SenderStates /\ sender[c].st # "gone"
      BY <1>1 DEF SenderStates
    <2>2. /\ value' \in [Chans -> Stamped \cup {NoReply}]
          /\ dropped' \in [Chans -> Stamped \cup {NoReply}]
          /\ answered' \subseteq answered \cup {c} /\ answered \subseteq answered'
      BY <1>0, <1>2 DEF ReplyTypeOK
    <2>3. QED  BY <2>1, <2>2, <1>1, <1>2, <1>3, SenderStepCommon
  <1>5. SenderTruth'
    <2>1. sender'[c].chan = sender[c].chan
      BY <1>0, <1>1 DEF ReplyTypeOK
    <2>2. QED  BY <2>1, <1>0, <1>1, <1>2, <1>4 DEF SenderTruth
  <1>6. ChannelTruth'
    <2>1. CASE callPc # "idle"
      <3>1. call \in Calls /\ callPc' # "idle"
        BY <2>1, <1>0, <1>3 DEF InUse, ReplyTypeOK, Calls
      <3>2. /\ sender'[call].st \in Ending <=> sender[call].st \in Ending
            /\ sender'[call].st = "live" <=> sender[call].st = "live"
        BY <3>1, <1>1, <1>4 DEF Ending
      <3>3. /\ callPc' = "offering" => callPc = "offering"
            /\ callPc' \in {"checking", "parked"} => callPc \in {"checking", "parked"}
        BY <1>3
      <3>4. QED  BY <2>1, <3>1, <3>2, <3>3, <1>0, <1>2 DEF ChannelTruth, Told
    <2>2. CASE callPc = "idle"
      BY <2>2, <1>3 DEF ChannelTruth
    <2>3. QED  BY <2>1, <2>2
  <1>7. AnswerWakes'
    <2>1. CASE callPc' = "parked"
      <3>1. callPc = "parked"
        BY <2>1, <1>3
      <3>2. call \in Calls /\ using = sender[call].chan
        BY <3>1, <1>0 DEF InUse, ReplyTypeOK, Calls
      <3>3. c # call
        BY <3>1, <3>2, <2>1, <1>0, <1>1 DEF NotifyHost, AnswerWakes
      <3>4. QED  BY <3>1, <3>2, <3>3, <1>0, <1>2, <1>4 DEF AnswerWakes
    <2>2. CASE callPc' # "parked"
      BY <2>2 DEF AnswerWakes
    <2>3. QED  BY <2>1, <2>2
  <1>8. QED  BY <1>4, <1>5, <1>6, <1>7 DEF ReplyInv

-----------------------------------------------------------------------------
(* The theorems.                                                           *)

LEMMA ReplyInvInit ==
    ASSUME ReplyAssumption, ReplyInit
    PROVE  ReplyInv
  <1>0. MaxCalls \in Nat \ {0} /\ NoReply \notin Chans
    BY DEF ReplyAssumption
  <1>1. /\ \A c \in Calls : sender[c] = NoSender /\ callResult[c] = Told("none", 0)
        /\ NoSender \in [chan : Chans \cup {NoReply}, st : SenderStates]
        /\ Told("none", 0) \in Answers
    BY <1>0 DEF ReplyInit, NoSender, Told, Answers, SenderStates
  <1>2. ReplyTypeOK
    <2>1. sender \in [Calls -> [chan : Chans \cup {NoReply}, st : SenderStates]]
      BY <1>1 DEF ReplyInit
    <2>2. callResult \in [Calls -> Answers]
      BY <1>1 DEF ReplyInit
    <2>3. /\ value \in [Chans -> Stamped \cup {NoReply}]
          /\ dropped \in [Chans -> Stamped \cup {NoReply}]
      BY DEF ReplyInit
    <2>4. /\ call \in 0 .. MaxCalls /\ callPc = "idle" /\ callExpired = FALSE
          /\ using = NoReply /\ pool = <<>> /\ pooled = {} /\ answered = {}
      BY <1>0 DEF ReplyInit
    <2>5. pool \in Seq(Chans)
      BY <2>4
    <2>6. callExpired \in BOOLEAN /\ pooled \subseteq Calls /\ answered \subseteq Calls
      BY <2>4, Zenon
    <2>7. QED  BY <2>1, <2>2, <2>3, <2>4, <2>5, <2>6 DEF ReplyTypeOK
  <1>3. NotYet
    BY <1>1 DEF ReplyInit, NotYet, NoSender
  <1>4. SenderTruth /\ OwnReply
    BY <1>1 DEF SenderTruth, OwnReply, NoSender, Told
  <1>5. InUse /\ PoolApart /\ ChannelTruth /\ AnswerWakes
    BY DEF ReplyInit, InUse, PoolApart, ChannelTruth, AnswerWakes
  <1>6. QED  BY <1>2, <1>3, <1>4, <1>5 DEF ReplyInv

LEMMA ReplyInvStep ==
    ASSUME ReplyAssumption, ReplyInv, [ReplyNext]_replyVars
    PROVE  ReplyInv'
  <1>1. CASE Checkout  BY <1>1, CheckoutKeeps
  <1>2. CASE Accepted \/ WakeUp \/ WaitExpires  BY <1>2, HostMovesKeep
  <1>3. CASE Refused("full") \/ Refused("stopped")  BY <1>3, RefusedKeeps
  <1>4. CASE Check  BY <1>4, CheckKeeps
  <1>5. CASE CheckinAndReturn  BY <1>5, CheckinAndReturnKeeps
  <1>6. ASSUME NEW c \in Calls, SenderStep(c) PROVE ReplyInv'
    <2>1. CASE Send(c)  BY <2>1, SendKeeps
    <2>2. CASE DropSender(c)  BY <2>2, DropSenderKeeps
    <2>3. CASE Notify(c) \/ ReleaseArc(c)  BY <2>3, SenderLeavesKeeps
    <2>4. QED  BY <1>6, <2>1, <2>2, <2>3 DEF SenderStep
  <1>7. CASE UNCHANGED replyVars
    <2>1. UNCHANGED <<call, callPc, callExpired, using, value, dropped, pool, pooled, sender,
                      callResult, answered>>
      BY <1>7 DEF replyVars, chanVars, poolVars
    <2>2. QED
      BY <2>1 DEF ReplyInv, ReplyTypeOK, NotYet, SenderTruth, InUse, PoolApart, ChannelTruth,
                  OwnReply, AnswerWakes, Sharers, NoSender, Told
  <1>8. QED
    BY <1>1, <1>2, <1>3, <1>4, <1>5, <1>6, <1>7 DEF ReplyNext, CallStep

LEMMA ReplyInvImplies ==
    ASSUME ReplyAssumption, ReplyInv
    PROVE  RepliesKeptApart
  <1>1. HangUpTrue
    BY DEF ReplyInv, SenderTruth, HangUpTrue
  <1>2. PoolClean
    <2>1. ASSUME NEW n \in DOMAIN pool PROVE StrongCount(pool[n]) = 1
      BY ReusableFree DEF ReplyInv, PoolApart, Reusable
    <2>2. QED  BY <2>1 DEF ReplyInv, PoolApart, PoolClean
  <1>3. QED  BY <1>1, <1>2 DEF ReplyInv, RepliesKeptApart

\* Blocking host calls over pooled channels, for any number of calls and any
\* size of the pool: a call returns its own reply or a true failure, a pooled
\* channel is as new, and a host never sleeps through its answer.
THEOREM RepliesStayApart == ASSUME ReplyAssumption PROVE ReplySpec => []RepliesKeptApart
  <1>1. ReplyInit => ReplyInv
    BY ReplyInvInit
  <1>2. ReplyInv /\ [ReplyNext]_replyVars => ReplyInv'
    BY ReplyInvStep
  <1>3. ReplyInv => RepliesKeptApart
    BY ReplyInvImplies
  <1>4. QED  BY <1>1, <1>2, <1>3, PTL DEF ReplySpec

-----------------------------------------------------------------------------
(* Commands: the inductive invariant.                                      *)

\* The command of h is in the queue or with the worker.
InFlight(h) == (\E n \in DOMAIN commands : commands[n] = h) \/ running = <<h>>

\* A command is in one place, and only the one that runs holds its claim.
OnePlace ==
    /\ \A m, n \in DOMAIN commands : commands[m] = commands[n] => m = n
    /\ \A n \in DOMAIN commands : running # <<commands[n]>>
    /\ \A h \in claimLock : running = <<h>>
    /\ hostWorker # "running" => running = <<>>

\* send_observed_until: the message was delivered exactly if the claim of the
\* present attempt says so, and a command that is still to be run belongs to a
\* host that waits for it.
UntilTruth(h) ==
    /\ delivered[h] = IF claim[h] = "ok" THEN 1 ELSE 0
    /\ hostPc[h] \in {"start", "backoff"} => (claim[h] # "ok" /\ ~InFlight(h))
    /\ hostPc[h] = "made" => (claim[h] = "pending" /\ reply[h] = "open" /\ ~InFlight(h))
    /\ hostPc[h] = "done" => /\ hostResult[h] = "ok" <=> claim[h] = "ok"
                             /\ InFlight(h) => claim[h] = "cancelled"
    /\ hostPc[h] \in {"waiting", "deciding"} =>
           /\ claim[h] # "cancelled"
           /\ reply[h] \in Outcomes => reply[h] = claim[h]
           /\ reply[h] = "hungup" => claim[h] = "pending"
           /\ InFlight(h) <=> reply[h] = "open"
    /\ (InFlight(h) /\ claim[h] \in Outcomes) => h \in claimLock

\* send_and_observe: the same of the reply.
StrictTruth(h) ==
    /\ delivered[h] = IF reply[h] = "ok" THEN 1 ELSE 0
    /\ hostPc[h] \in {"start", "waiting", "done"}
    /\ hostPc[h] = "start" => (reply[h] = "open" /\ ~InFlight(h))
    /\ InFlight(h) => (reply[h] = "open" /\ hostPc[h] = "waiting")
    /\ hostPc[h] = "done" => (hostResult[h] = "ok" <=> reply[h] = "ok")

\* try_send_and_observe_with: the observer of a command in flight is still to
\* be called, and only an accepted command is in flight.
ObserverOnce(h) ==
    /\ delivered[h] = IF observed[h] = <<"ok">> THEN 1 ELSE 0
    /\ Len(observed[h]) <= 1
    /\ hostPc[h] \in {"start", "done"}
    /\ observed[h] # <<>> =>
           (hostPc[h] = "done" /\ hostResult[h] = "accepted" /\ ~InFlight(h))
    /\ InFlight(h) => (hostPc[h] = "done" /\ hostResult[h] = "accepted")

\* call_with_input: a command is made once.
ControlOnce(h) ==
    /\ hostPc[h] \in {"start", "waiting", "done"}
    /\ hostPc[h] = "start" => ~InFlight(h)

HostTruth(h) ==
    /\ op[h] = "until" => UntilTruth(h)
    /\ op[h] = "strict" => StrictTruth(h)
    /\ op[h] = "observer" => ObserverOnce(h)
    /\ op[h] = "control" => ControlOnce(h)

Observations == Seq(Outcomes \cup {"refused"})

\* The two halves of the type invariant.
HostSide ==
    /\ op \in [Hosts -> Operations]
    /\ hostPc \in [Hosts -> HostPcs]
    /\ hostResult \in [Hosts -> SendResults]
    /\ expired \in [Hosts -> BOOLEAN]
    /\ attempt \in [Hosts -> 0 .. MaxAttempts]
    /\ claim \in [Hosts -> Claims]
    /\ reply \in [Hosts -> ReplyStates]
    /\ observed \in [Hosts -> Observations]
    /\ delivered \in [Hosts -> Nat] /\ ran \in [Hosts -> Nat]

QueueSide ==
    /\ commands \in Seq(Hosts) /\ Len(commands) <= QueueCap
    /\ hostWorker \in {"running", "unwinding", "stopping", "gone"}
    /\ running \in {<<>>} \cup {<<h>> : h \in Hosts}
    /\ claimLock \subseteq Until

TargetSide ==
    /\ shard \in {"running", "stopped", "failed"}
    /\ joined \in BOOLEAN /\ panicked \in BOOLEAN
    /\ mailbox \in 0 .. MailboxCap
    /\ open \in BOOLEAN

HostInv ==
    /\ HostSide /\ QueueSide /\ TargetSide /\ OnePlace /\ CleanExitStands
    /\ \A h \in Hosts : HostTruth(h)

-----------------------------------------------------------------------------
(* Where the commands are.                                                 *)

LEMMA EnqueueFlight ==
    ASSUME HostsAssumption, QueueSide, OnePlace, NEW h \in Hosts, ~InFlight(h), Accepts,
           Enqueue(h), UNCHANGED <<op, running, hostWorker, claimLock>>
    PROVE  /\ QueueSide' /\ OnePlace' /\ InFlight(h)'
           /\ \A g \in Hosts : g # h => (InFlight(g)' <=> InFlight(g))
  <1>0. commands \in Seq(Hosts) /\ Len(commands) \in Nat /\ DOMAIN commands = 1 .. Len(commands)
    BY DEF QueueSide
  <1>1. /\ commands' \in Seq(Hosts) /\ Len(commands') = Len(commands) + 1
        /\ DOMAIN commands' = 1 .. Len(commands) + 1
        /\ commands'[Len(commands) + 1] = h
        /\ \A n \in DOMAIN commands : commands'[n] = commands[n]
    BY <1>0 DEF Enqueue
  <1>2. Len(commands') <= QueueCap
    BY <1>0, <1>1 DEF Accepts, QueueFull, HostsAssumption
  <1>3. \A n \in DOMAIN commands' : n \in DOMAIN commands \/ n = Len(commands) + 1
    BY <1>0, <1>1
  <1>3a. \A n \in DOMAIN commands : n \in DOMAIN commands' /\ n # Len(commands) + 1
    BY <1>0, <1>1
  <1>3b. Len(commands) + 1 \in DOMAIN commands'
    BY <1>0, <1>1
  <1>4. QueueSide'
    BY <1>1, <1>2 DEF QueueSide, Until
  <1>5. OnePlace'
    BY <1>1, <1>3 DEF OnePlace, InFlight
  <1>6. InFlight(h)'
    BY <1>1, <1>3b DEF InFlight
  <1>7. \A g \in Hosts : g # h => (InFlight(g)' <=> InFlight(g))
    BY <1>1, <1>3, <1>3a DEF InFlight
  <1>8. QED  BY <1>4, <1>5, <1>6, <1>7

LEMMA TakeFlight ==
    ASSUME HostsAssumption, QueueSide, OnePlace, Take, UNCHANGED op
    PROVE  /\ QueueSide' /\ OnePlace'
           /\ \A g \in Hosts : InFlight(g)' <=> InFlight(g)
  <1>0. /\ commands \in Seq(Hosts) /\ commands # <<>> /\ running = <<>>
        /\ hostWorker = "running"
        /\ running' = <<Head(commands)>> /\ commands' = Tail(commands)
        /\ UNCHANGED <<hostWorker, claimLock>>
    BY DEF QueueSide, Take
  <1>1. /\ Len(commands) \in Nat \ {0} /\ DOMAIN commands = 1 .. Len(commands)
        /\ Head(commands) = commands[1] /\ Head(commands) \in Hosts
        /\ commands' \in Seq(Hosts) /\ Len(commands') = Len(commands) - 1
        /\ DOMAIN commands' = 1 .. Len(commands) - 1
        /\ \A n \in 1 .. Len(commands) - 1 : commands'[n] = commands[n + 1]
    BY <1>0
  <1>2. \A n \in DOMAIN commands' :
           /\ n + 1 \in DOMAIN commands /\ n + 1 # 1 /\ commands'[n] = commands[n + 1]
    BY <1>1
  <1>3. \A n \in DOMAIN commands : n = 1 \/ (n - 1 \in DOMAIN commands' /\ commands'[n - 1] = commands[n])
    BY <1>1
  <1>4. claimLock = {}
    BY <1>0 DEF OnePlace
  <1>5. QueueSide'
    <2>1. Len(commands') <= QueueCap
      BY <1>1 DEF QueueSide, HostsAssumption
    <2>2. QED  BY <1>0, <1>1, <1>4, <2>1 DEF QueueSide
  <1>6. OnePlace'
    <2>1. ASSUME NEW m \in DOMAIN commands', NEW n \in DOMAIN commands',
                 commands'[m] = commands'[n]
          PROVE  m = n
      <3>1. m + 1 = n + 1
        BY <2>1, <1>2 DEF OnePlace
      <3>2. QED  BY <3>1, <1>1
    <2>2. \A n \in DOMAIN commands' : running' # <<commands'[n]>>
      BY <1>0, <1>1, <1>2 DEF OnePlace
    <2>3. QED  BY <2>1, <2>2, <1>0, <1>4 DEF OnePlace
  <1>7. ASSUME NEW g \in Hosts PROVE InFlight(g)' <=> InFlight(g)
    <2>1. running' = <<g>> <=> g = commands[1]
      BY <1>0, <1>1
    <2>2. InFlight(g)' => InFlight(g)
      BY <2>1, <1>1, <1>2 DEF InFlight
    <2>3. InFlight(g) => InFlight(g)'
      BY <2>1, <1>0, <1>3 DEF InFlight
    <2>4. QED  BY <2>2, <2>3
  <1>8. QED  BY <1>5, <1>6, <1>7

\* The command that runs leaves the worker's hands.
LEMMA LeaveFlight ==
    ASSUME QueueSide, OnePlace, NEW h \in Hosts, running = <<h>>, running' = <<>>,
           claimLock' = claimLock \ {h}, UNCHANGED <<op, commands>>,
           hostWorker' \in {"running", "unwinding", "stopping", "gone"}
    PROVE  /\ QueueSide' /\ OnePlace' /\ ~InFlight(h)' /\ claimLock' = {}
           /\ \A g \in Hosts : g # h => (InFlight(g)' <=> InFlight(g))
  <1>1. claimLock' = {}
    BY DEF OnePlace
  <1>2. \A n \in DOMAIN commands : commands[n] # h
    BY DEF OnePlace
  <1>3. QueueSide'
    BY <1>1 DEF QueueSide
  <1>4. OnePlace'
    BY <1>1 DEF OnePlace
  <1>5. ~InFlight(h)'
    BY <1>2 DEF InFlight
  <1>6. \A g \in Hosts : g # h => (InFlight(g)' <=> InFlight(g))
    BY DEF InFlight
  <1>7. QED  BY <1>1, <1>3, <1>4, <1>5, <1>6

\* The head of the queue is dropped.
LEMMA DropFlight ==
    ASSUME HostsAssumption, QueueSide, OnePlace, commands # <<>>, commands' = Tail(commands),
           running = <<>>, UNCHANGED <<op, hostWorker, running, claimLock>>
    PROVE  /\ QueueSide' /\ OnePlace' /\ Head(commands) \in Hosts
           /\ \A g \in Hosts : g = Head(commands) => ~InFlight(g)'
           /\ \A g \in Hosts : g # Head(commands) => (InFlight(g)' <=> InFlight(g))
           /\ InFlight(Head(commands))
  <1>0. commands \in Seq(Hosts)
    BY DEF QueueSide
  <1>1. /\ Len(commands) \in Nat \ {0} /\ DOMAIN commands = 1 .. Len(commands)
        /\ Head(commands) = commands[1] /\ Head(commands) \in Hosts
        /\ commands' \in Seq(Hosts) /\ Len(commands') = Len(commands) - 1
        /\ DOMAIN commands' = 1 .. Len(commands) - 1
        /\ \A n \in 1 .. Len(commands) - 1 : commands'[n] = commands[n + 1]
    BY <1>0
  <1>2. \A n \in DOMAIN commands' :
           /\ n + 1 \in DOMAIN commands /\ n + 1 # 1 /\ commands'[n] = commands[n + 1]
    BY <1>1
  <1>3. \A n \in DOMAIN commands : n = 1 \/ (n - 1 \in DOMAIN commands' /\ commands'[n - 1] = commands[n])
    BY <1>1
  <1>3a. 1 \in DOMAIN commands
    BY <1>1
  <1>4. claimLock = {}
    BY DEF OnePlace
  <1>5. QueueSide'
    <2>1. Len(commands') <= QueueCap
      BY <1>1 DEF QueueSide, HostsAssumption
    <2>2. QED  BY <1>1, <1>4, <2>1 DEF QueueSide
  <1>6. OnePlace'
    <2>1. ASSUME NEW m \in DOMAIN commands', NEW n \in DOMAIN commands',
                 commands'[m] = commands'[n]
          PROVE  m = n
      <3>1. m + 1 = n + 1
        BY <2>1, <1>2 DEF OnePlace
      <3>2. QED  BY <3>1, <1>1
    <2>2. \A n \in DOMAIN commands' : running' # <<commands'[n]>>
      BY <1>0, <1>1, <1>2 DEF OnePlace
    <2>3. QED  BY <2>1, <2>2, <1>0, <1>4 DEF OnePlace
  <1>7. \A g \in Hosts : running # <<g>>
    OBVIOUS
  <1>8. \A g \in Hosts : g = commands[1] => ~InFlight(g)'
    BY <1>2, <1>3a, <1>7 DEF InFlight, OnePlace
  <1>9. ASSUME NEW g \in Hosts, g # commands[1] PROVE InFlight(g)' <=> InFlight(g)
    <2>1. InFlight(g)' => InFlight(g)
      BY <1>2, <1>7 DEF InFlight
    <2>2. InFlight(g) => InFlight(g)'
      BY <1>3, <1>7, <1>9 DEF InFlight
    <2>3. QED  BY <2>1, <2>2
  <1>10. InFlight(commands[1])
    BY <1>3a DEF InFlight
  <1>11. QED  BY <1>1, <1>5, <1>6, <1>8, <1>9, <1>10

\* Nothing moves, but the worker may lock the claim of what it runs.
LEMMA SameFlight ==
    ASSUME QueueSide, OnePlace, UNCHANGED <<op, commands, running>>,
           hostWorker' \in {"running", "unwinding", "stopping", "gone"},
           hostWorker' # "running" => running = <<>>,
           claimLock' = claimLock \/ \E h \in Until : (running = <<h>> /\ claimLock' = claimLock \cup {h})
    PROVE  /\ QueueSide' /\ OnePlace'
           /\ \A g \in Hosts : InFlight(g)' <=> InFlight(g)
  <1>1. QueueSide'
    BY DEF QueueSide, Until
  <1>2. OnePlace'
    BY DEF OnePlace
  <1>3. QED  BY <1>1, <1>2 DEF InFlight

-----------------------------------------------------------------------------
(* A step is about one host.                                               *)

\* The variables of the hosts change at h, if at all.
Moves(h) ==
    /\ UNCHANGED hostPc \/ \E l \in HostPcs : hostPc' = [hostPc EXCEPT ![h] = l]
    /\ UNCHANGED hostResult \/ \E l \in SendResults : hostResult' = [hostResult EXCEPT ![h] = l]
    /\ UNCHANGED expired \/ expired' = [expired EXCEPT ![h] = TRUE]
    /\ UNCHANGED attempt \/ \E l \in 0 .. MaxAttempts : attempt' = [attempt EXCEPT ![h] = l]
    /\ UNCHANGED claim \/ \E l \in Claims : claim' = [claim EXCEPT ![h] = l]
    /\ UNCHANGED reply \/ \E l \in ReplyStates : reply' = [reply EXCEPT ![h] = l]
    /\ UNCHANGED observed \/ \E l \in Observations : observed' = [observed EXCEPT ![h] = l]
    /\ UNCHANGED delivered \/ \E l \in Nat : delivered' = [delivered EXCEPT ![h] = l]
    /\ UNCHANGED ran \/ \E l \in Nat : ran' = [ran EXCEPT ![h] = l]

SameFor(g) ==
    /\ hostPc'[g] = hostPc[g] /\ hostResult'[g] = hostResult[g]
    /\ claim'[g] = claim[g] /\ reply'[g] = reply[g]
    /\ observed'[g] = observed[g] /\ delivered'[g] = delivered[g]

LEMMA MovesTypes ==
    ASSUME HostSide, NEW h \in Hosts, UNCHANGED op, Moves(h)
    PROVE  HostSide' /\ \A g \in Hosts : g # h => SameFor(g)
  <1>1. /\ hostPc' \in [Hosts -> HostPcs]
        /\ \A g \in Hosts : g # h => hostPc'[g] = hostPc[g]
    BY DEF HostSide, Moves
  <1>2. /\ hostResult' \in [Hosts -> SendResults]
        /\ \A g \in Hosts : g # h => hostResult'[g] = hostResult[g]
    BY DEF HostSide, Moves
  <1>3. expired' \in [Hosts -> BOOLEAN]
    BY DEF HostSide, Moves
  <1>4. attempt' \in [Hosts -> 0 .. MaxAttempts]
    BY DEF HostSide, Moves
  <1>5. /\ claim' \in [Hosts -> Claims]
        /\ \A g \in Hosts : g # h => claim'[g] = claim[g]
    BY DEF HostSide, Moves
  <1>6. /\ reply' \in [Hosts -> ReplyStates]
        /\ \A g \in Hosts : g # h => reply'[g] = reply[g]
    BY DEF HostSide, Moves
  <1>7. /\ observed' \in [Hosts -> Observations]
        /\ \A g \in Hosts : g # h => observed'[g] = observed[g]
    BY DEF HostSide, Moves
  <1>8. /\ delivered' \in [Hosts -> Nat]
        /\ \A g \in Hosts : g # h => delivered'[g] = delivered[g]
    BY DEF HostSide, Moves
  <1>9. ran' \in [Hosts -> Nat]
    BY DEF HostSide, Moves
  <1>10. op' \in [Hosts -> Operations]
    BY DEF HostSide
  <1>11. HostSide'
    BY <1>1, <1>2, <1>3, <1>4, <1>5, <1>6, <1>7, <1>8, <1>9, <1>10 DEF HostSide
  <1>12. QED
    BY <1>1, <1>2, <1>5, <1>6, <1>7, <1>8, <1>11 DEF SameFor

LEMMA TruthFrame ==
    ASSUME NEW g \in Hosts, UNCHANGED op, HostTruth(g), SameFor(g),
           InFlight(g)' <=> InFlight(g), g \in claimLock => g \in claimLock'
    PROVE  HostTruth(g)'
  <1>1. ASSUME UntilTruth(g) PROVE UntilTruth(g)'
    BY <1>1 DEF UntilTruth, SameFor
  <1>2. ASSUME StrictTruth(g) PROVE StrictTruth(g)'
    BY <1>2 DEF StrictTruth, SameFor
  <1>3. ASSUME ObserverOnce(g) PROVE ObserverOnce(g)'
    BY <1>3 DEF ObserverOnce, SameFor
  <1>4. ASSUME ControlOnce(g) PROVE ControlOnce(g)'
    BY <1>4 DEF ControlOnce, SameFor
  <1>5. QED  BY <1>1, <1>2, <1>3, <1>4 DEF HostTruth

\* A step about h keeps the invariant if it keeps what is said of h and of the
\* shared state.
LEMMA OneHostKeeps ==
    ASSUME HostInv, NEW h \in Hosts, UNCHANGED op, Moves(h),
           QueueSide', TargetSide', OnePlace', CleanExitStands', HostTruth(h)',
           \A g \in Hosts : g # h => (InFlight(g)' <=> InFlight(g)),
           \A g \in Hosts : g # h => (g \in claimLock => g \in claimLock')
    PROVE  HostInv'
  <1>1. HostSide' /\ \A g \in Hosts : g # h => SameFor(g)
    BY MovesTypes DEF HostInv
  <1>2. \A g \in Hosts : g # h => HostTruth(g)'
    BY <1>1, TruthFrame DEF HostInv
  <1>3. \A g \in Hosts : HostTruth(g)'
    BY <1>2
  <1>4. QED  BY <1>1, <1>3 DEF HostInv

LEMMA ShardKeeps ==
    ASSUME TargetSide, CleanExitStands, UNCHANGED shard \/ SetFailed,
           UNCHANGED <<joined, panicked, mailbox, open>>
    PROVE  TargetSide' /\ CleanExitStands'
  BY DEF TargetSide, CleanExitStands, SetFailed

\* What the steps of a host leave alone.
HostOnly(h) ==
    /\ UNCHANGED <<observed, running, hostWorker, claimLock, joined, panicked, mailbox, open,
                   delivered, ran>>
    /\ UNCHANGED shard \/ SetFailed

LEMMA HostOnlyKeeps ==
    ASSUME HostsAssumption, HostInv, NEW h \in Hosts, UNCHANGED op, Moves(h), HostOnly(h),
           \/ UNCHANGED commands
           \/ Accepts /\ Enqueue(h) /\ ~InFlight(h),
           ((InFlight(h)' <=> (InFlight(h) \/ Enqueue(h))) /\ HostSide') => HostTruth(h)'
    PROVE  HostInv'
  <1>0. HostSide /\ QueueSide /\ TargetSide /\ OnePlace /\ CleanExitStands
    BY DEF HostInv
  <1>1. TargetSide' /\ CleanExitStands'
    BY <1>0, ShardKeeps DEF HostOnly
  <1>2. HostSide'
    BY <1>0, MovesTypes
  <1>3. /\ QueueSide' /\ OnePlace'
        /\ \A g \in Hosts : g # h => (InFlight(g)' <=> InFlight(g))
        /\ InFlight(h)' <=> (InFlight(h) \/ Enqueue(h))
    <2>1. CASE UNCHANGED commands
      <3>1. /\ QueueSide' /\ OnePlace'
            /\ \A g \in Hosts : InFlight(g)' <=> InFlight(g)
        <4>1. /\ UNCHANGED <<op, commands, running>> /\ claimLock' = claimLock
              /\ hostWorker' \in {"running", "unwinding", "stopping", "gone"}
              /\ hostWorker' # "running" => running = <<>>
          BY <2>1, <1>0 DEF HostOnly, QueueSide, OnePlace
        <4>2. QED  BY <4>1, <1>0, SameFlight
      <3>2. ~Enqueue(h)
        BY <2>1, <1>0 DEF Enqueue, QueueSide
      <3>3. QED  BY <3>1, <3>2
    <2>2. CASE Accepts /\ Enqueue(h) /\ ~InFlight(h)
      <3>1. /\ QueueSide' /\ OnePlace' /\ InFlight(h)'
            /\ \A g \in Hosts : g # h => (InFlight(g)' <=> InFlight(g))
        BY <2>2, <1>0, EnqueueFlight DEF HostOnly
      <3>2. QED  BY <3>1, <2>2
    <2>3. QED  BY <2>1, <2>2
  <1>4. HostTruth(h)'
    BY <1>2, <1>3
  <1>5. \A g \in Hosts : g \in claimLock' <=> g \in claimLock
    BY DEF HostOnly
  <1>6. QED  BY <1>1, <1>3, <1>4, <1>5, OneHostKeeps

-----------------------------------------------------------------------------
(* send_observed_until.                                                    *)

LEMMA NotEnqueued ==
    ASSUME HostInv, NEW h, UNCHANGED commands
    PROVE  ~Enqueue(h)
  BY DEF HostInv, QueueSide, Enqueue

LEMMA UntilSuffices ==
    ASSUME NEW h \in Until, UNCHANGED op, UntilTruth(h)'
    PROVE  HostTruth(h)'
  BY DEF HostTruth, Until

LEMMA UntilTopKeeps ==
    ASSUME HostsAssumption, HostInv, NEW h \in Hosts, UNCHANGED op, UntilTop(h)
    PROVE  HostInv'
  <1>0. /\ h \in Hosts /\ h \in Until /\ UntilTruth(h) /\ HostSide
        /\ hostPc \in [Hosts -> HostPcs] /\ hostResult \in [Hosts -> SendResults]
        /\ claim \in [Hosts -> Claims] /\ reply \in [Hosts -> ReplyStates]
        /\ attempt \in [Hosts -> 0 .. MaxAttempts] /\ MaxAttempts \in Nat
    BY DEF HostInv, HostTruth, UntilTop, Until, HostSide, HostsAssumption
  <1>1. HostOnly(h)
    BY DEF HostOnly, UntilTop, HostReturns, targetVars, workerVars, exitVars, answerVars
  <1>2. Moves(h)
    BY <1>0 DEF Moves, UntilTop, HostReturns, HostPcs, SendResults, Claims, ReplyStates, Outcomes, targetVars, HostReturns
  <1>3. /\ hostPc[h] = "start" /\ UNCHANGED commands
        /\ \/ /\ hostPc'[h] = "done" /\ hostResult'[h] \in {"timeout", "worker_stopped"}
              /\ UNCHANGED <<claim, reply>>
           \/ /\ hostPc'[h] = "made" /\ claim'[h] = "pending" /\ reply'[h] = "open"
    BY <1>0 DEF UntilTop, HostReturns, workerVars
  <1>4. UNCHANGED commands
    BY <1>0 DEF UntilTop, HostReturns, workerVars, UntilTruth
  <1>4a. UNCHANGED commands => ~Enqueue(h)
    BY NotEnqueued
  <1>5. ASSUME InFlight(h)' <=> (InFlight(h) \/ Enqueue(h)) PROVE UntilTruth(h)'
    BY <1>0, <1>1, <1>3, <1>4, <1>4a, <1>5 DEF UntilTruth, HostOnly, Outcomes
  <1>6. QED
    BY <1>0, <1>1, <1>2, <1>4, <1>5, HostOnlyKeeps, UntilSuffices

LEMMA UntilOfferKeeps ==
    ASSUME HostsAssumption, HostInv, NEW h \in Hosts, UNCHANGED op, UntilOffer(h)
    PROVE  HostInv'
  <1>0. /\ h \in Hosts /\ h \in Until /\ UntilTruth(h) /\ HostSide
        /\ hostPc \in [Hosts -> HostPcs] /\ hostResult \in [Hosts -> SendResults]
        /\ claim \in [Hosts -> Claims] /\ reply \in [Hosts -> ReplyStates]
        /\ attempt \in [Hosts -> 0 .. MaxAttempts] /\ MaxAttempts \in Nat
    BY DEF HostInv, HostTruth, UntilOffer, Until, HostSide, HostsAssumption
  <1>1. HostOnly(h)
    BY DEF HostOnly, UntilOffer, HostReturns, targetVars, workerVars, exitVars, answerVars
  <1>2. Moves(h)
    BY <1>0 DEF Moves, UntilOffer, HostReturns, HostPcs, SendResults, Outcomes, targetVars, answerVars, HostReturns
  <1>3. /\ hostPc[h] = "made" /\ UNCHANGED <<claim, reply>>
        /\ \/ /\ hostPc'[h] = "done" /\ hostResult'[h] \in {"timeout", "worker_stopped"}
              /\ UNCHANGED commands
           \/ /\ hostPc'[h] = "waiting" /\ Accepts /\ Enqueue(h)
           \/ /\ hostPc'[h] = "backoff" /\ UNCHANGED commands
    BY <1>0 DEF UntilOffer, HostReturns, answerVars
  <1>4. \/ UNCHANGED commands
        \/ Accepts /\ Enqueue(h) /\ ~InFlight(h)
    BY <1>0 DEF UntilOffer, HostReturns, workerVars, UntilTruth
  <1>4a. UNCHANGED commands => ~Enqueue(h)
    BY NotEnqueued
  <1>5. ASSUME InFlight(h)' <=> (InFlight(h) \/ Enqueue(h)) PROVE UntilTruth(h)'
    BY <1>0, <1>1, <1>3, <1>4, <1>4a, <1>5 DEF UntilTruth, HostOnly, Outcomes
  <1>6. QED
    BY <1>0, <1>1, <1>2, <1>4, <1>5, HostOnlyKeeps, UntilSuffices

LEMMA UntilReplyKeeps ==
    ASSUME HostsAssumption, HostInv, NEW h \in Hosts, UNCHANGED op, UntilReply(h)
    PROVE  HostInv'
  <1>0. /\ h \in Hosts /\ h \in Until /\ UntilTruth(h) /\ HostSide
        /\ hostPc \in [Hosts -> HostPcs] /\ hostResult \in [Hosts -> SendResults]
        /\ claim \in [Hosts -> Claims] /\ reply \in [Hosts -> ReplyStates]
        /\ attempt \in [Hosts -> 0 .. MaxAttempts] /\ MaxAttempts \in Nat
    BY DEF HostInv, HostTruth, UntilReply, Until, HostSide, HostsAssumption
  <1>1. HostOnly(h)
    BY DEF HostOnly, UntilReply, Settle, HostReturns, Outcomes, targetVars, workerVars, exitVars, answerVars
  <1>2. Moves(h)
    BY <1>0 DEF Moves, UntilReply, Settle, HostReturns, Outcomes, HostPcs, SendResults, Outcomes, targetVars, answerVars
  <1>3. /\ hostPc[h] = "waiting" /\ UNCHANGED <<claim, reply, commands>>
        /\ \/ /\ reply[h] \in Outcomes
              /\ \/ reply[h] = "ok" /\ hostPc'[h] = "done" /\ hostResult'[h] = "ok"
                 \/ reply[h] = "mailbox_full" /\ hostPc'[h] = "backoff"
                 \/ reply[h] \notin {"ok", "mailbox_full"} /\ hostPc'[h] = "done"
                       /\ hostResult'[h] \in {"closed", "worker_stopped"}
           \/ /\ reply[h] = "hungup"
              /\ hostPc'[h] = "done" /\ hostResult'[h] = "worker_stopped"
    BY <1>0 DEF UntilReply, Settle, HostReturns, answerVars, workerVars, Outcomes
  <1>4. UNCHANGED commands
    BY <1>0 DEF UntilReply, Settle, HostReturns, Outcomes, workerVars, UntilTruth
  <1>4a. UNCHANGED commands => ~Enqueue(h)
    BY NotEnqueued
  <1>5. ASSUME InFlight(h)' <=> (InFlight(h) \/ Enqueue(h)) PROVE UntilTruth(h)'
    BY <1>0, <1>1, <1>3, <1>4, <1>4a, <1>5 DEF UntilTruth, HostOnly, Outcomes
  <1>6. QED
    BY <1>0, <1>1, <1>2, <1>4, <1>5, HostOnlyKeeps, UntilSuffices

LEMMA UntilTimedOutKeeps ==
    ASSUME HostsAssumption, HostInv, NEW h \in Hosts, UNCHANGED op, UntilTimedOut(h)
    PROVE  HostInv'
  <1>0. /\ h \in Hosts /\ h \in Until /\ UntilTruth(h) /\ HostSide
        /\ hostPc \in [Hosts -> HostPcs] /\ hostResult \in [Hosts -> SendResults]
        /\ claim \in [Hosts -> Claims] /\ reply \in [Hosts -> ReplyStates]
        /\ attempt \in [Hosts -> 0 .. MaxAttempts] /\ MaxAttempts \in Nat
    BY DEF HostInv, HostTruth, UntilTimedOut, Until, HostSide, HostsAssumption
  <1>1. HostOnly(h)
    BY DEF HostOnly, UntilTimedOut, targetVars, workerVars, exitVars, answerVars
  <1>2. Moves(h)
    BY <1>0 DEF Moves, UntilTimedOut, HostPcs, targetVars, answerVars
  <1>3. /\ hostPc[h] = "waiting" /\ hostPc'[h] = "deciding" /\ UNCHANGED <<claim, reply, commands>>
    BY <1>0 DEF UntilTimedOut, answerVars, workerVars
  <1>4. UNCHANGED commands
    BY <1>0 DEF UntilTimedOut, workerVars, UntilTruth
  <1>4a. UNCHANGED commands => ~Enqueue(h)
    BY NotEnqueued
  <1>5. ASSUME InFlight(h)' <=> (InFlight(h) \/ Enqueue(h)) PROVE UntilTruth(h)'
    BY <1>0, <1>1, <1>3, <1>4, <1>4a, <1>5 DEF UntilTruth, HostOnly, Outcomes
  <1>6. QED
    BY <1>0, <1>1, <1>2, <1>4, <1>5, HostOnlyKeeps, UntilSuffices

LEMMA UntilDecideKeeps ==
    ASSUME HostsAssumption, HostInv, NEW h \in Hosts, UNCHANGED op, UntilDecide(h)
    PROVE  HostInv'
  <1>0. /\ h \in Hosts /\ h \in Until /\ UntilTruth(h) /\ HostSide
        /\ hostPc \in [Hosts -> HostPcs] /\ hostResult \in [Hosts -> SendResults]
        /\ claim \in [Hosts -> Claims] /\ reply \in [Hosts -> ReplyStates]
        /\ attempt \in [Hosts -> 0 .. MaxAttempts] /\ MaxAttempts \in Nat
    BY DEF HostInv, HostTruth, UntilDecide, Until, HostSide, HostsAssumption
  <1>1. HostOnly(h)
    BY DEF HostOnly, UntilDecide, Cancel, Settle, HostReturns, Outcomes, targetVars, workerVars, exitVars, answerVars
  <1>2. Moves(h)
    BY <1>0 DEF Moves, UntilDecide, Cancel, Settle, HostReturns, Outcomes, HostPcs, SendResults, Claims, Outcomes, targetVars
  <1>3. /\ hostPc[h] = "deciding" /\ UNCHANGED <<reply, commands>> /\ h \notin claimLock
        /\ \/ /\ claim[h] \in Outcomes /\ UNCHANGED claim
              /\ \/ claim[h] = "ok" /\ hostPc'[h] = "done" /\ hostResult'[h] = "ok"
                 \/ claim[h] = "mailbox_full" /\ hostPc'[h] = "backoff"
                 \/ claim[h] \notin {"ok", "mailbox_full"} /\ hostPc'[h] = "done"
                       /\ hostResult'[h] \in {"closed", "worker_stopped"}
           \/ /\ claim[h] \notin Outcomes /\ claim'[h] = "cancelled"
              /\ hostPc'[h] = "done" /\ hostResult'[h] = "timeout"
    BY <1>0 DEF UntilDecide, Cancel, Settle, HostReturns, workerVars, Outcomes
  <1>4. UNCHANGED commands
    BY <1>0 DEF UntilDecide, Cancel, Settle, HostReturns, Outcomes, workerVars, UntilTruth
  <1>4a. UNCHANGED commands => ~Enqueue(h)
    BY NotEnqueued
  <1>5. ASSUME InFlight(h)' <=> (InFlight(h) \/ Enqueue(h)) PROVE UntilTruth(h)'
    BY <1>0, <1>1, <1>3, <1>4, <1>4a, <1>5 DEF UntilTruth, HostOnly, Outcomes
  <1>6. QED
    BY <1>0, <1>1, <1>2, <1>4, <1>5, HostOnlyKeeps, UntilSuffices

LEMMA UntilBackoffKeeps ==
    ASSUME HostsAssumption, HostInv, NEW h \in Hosts, UNCHANGED op, UntilBackoff(h)
    PROVE  HostInv'
  <1>0. /\ h \in Hosts /\ h \in Until /\ UntilTruth(h) /\ HostSide
        /\ hostPc \in [Hosts -> HostPcs] /\ hostResult \in [Hosts -> SendResults]
        /\ claim \in [Hosts -> Claims] /\ reply \in [Hosts -> ReplyStates]
        /\ attempt \in [Hosts -> 0 .. MaxAttempts] /\ MaxAttempts \in Nat
    BY DEF HostInv, HostTruth, UntilBackoff, Until, HostSide, HostsAssumption
  <1>1. HostOnly(h)
    BY DEF HostOnly, UntilBackoff, HostReturns, targetVars, workerVars, exitVars, answerVars
  <1>2. Moves(h)
    BY <1>0 DEF Moves, UntilBackoff, HostReturns, HostPcs, SendResults, targetVars, answerVars, HostReturns
  <1>3. /\ hostPc[h] = "backoff" /\ UNCHANGED <<claim, reply, commands>>
        /\ \/ hostPc'[h] = "done" /\ hostResult'[h] = "timeout"
           \/ hostPc'[h] = "start"
    BY <1>0 DEF UntilBackoff, HostReturns, answerVars, workerVars
  <1>4. UNCHANGED commands
    BY <1>0 DEF UntilBackoff, HostReturns, workerVars, UntilTruth
  <1>4a. UNCHANGED commands => ~Enqueue(h)
    BY NotEnqueued
  <1>5. ASSUME InFlight(h)' <=> (InFlight(h) \/ Enqueue(h)) PROVE UntilTruth(h)'
    BY <1>0, <1>1, <1>3, <1>4, <1>4a, <1>5 DEF UntilTruth, HostOnly, Outcomes
  <1>6. QED
    BY <1>0, <1>1, <1>2, <1>4, <1>5, HostOnlyKeeps, UntilSuffices


-----------------------------------------------------------------------------
(* The other operations of a host.                                         *)

LEMMA ExpireKeeps ==
    ASSUME HostsAssumption, HostInv, NEW h \in Hosts, UNCHANGED op, Expire(h)
    PROVE  HostInv'
  <1>1. HostOnly(h) /\ UNCHANGED commands
    BY DEF HostOnly, Expire, targetVars, workerVars, exitVars, answerVars
  <1>2. Moves(h)
    BY DEF Moves, Expire, targetVars, workerVars, exitVars, answerVars
  <1>3. SameFor(h)
    BY DEF SameFor, Expire, targetVars, answerVars
  <1>4. ~Enqueue(h)
    BY <1>1, NotEnqueued
  <1>5. (InFlight(h)' <=> (InFlight(h) \/ Enqueue(h))) => HostTruth(h)'
    BY <1>1, <1>3, <1>4, TruthFrame DEF HostInv, HostOnly
  <1>6. QED  BY <1>1, <1>2, <1>5, HostOnlyKeeps

LEMMA ObserverOfferKeeps ==
    ASSUME HostsAssumption, HostInv, NEW h \in Hosts, UNCHANGED op, ObserverOffer(h)
    PROVE  HostInv'
  <1>0. /\ op[h] = "observer" /\ ObserverOnce(h)
        /\ hostPc \in [Hosts -> HostPcs] /\ hostResult \in [Hosts -> SendResults]
    BY DEF HostInv, HostTruth, ObserverOffer, Observer, HostSide
  <1>1. HostOnly(h)
    BY DEF HostOnly, ObserverOffer, targetVars, answerVars
  <1>2. Moves(h)
    BY <1>0 DEF Moves, ObserverOffer, targetVars, answerVars, HostReturns, HostPcs, SendResults,
                Outcomes
  <1>3. /\ hostPc[h] = "start" /\ hostPc'[h] = "done" /\ UNCHANGED <<observed, delivered>>
        /\ \/ UNCHANGED commands
           \/ Accepts /\ Enqueue(h) /\ hostResult'[h] = "accepted"
    BY <1>0 DEF ObserverOffer, HostReturns, targetVars, answerVars
  <1>4. ~InFlight(h) /\ observed[h] = <<>>
    BY <1>0, <1>3 DEF ObserverOnce
  <1>5. UNCHANGED commands => ~Enqueue(h)
    BY NotEnqueued
  <1>6. ASSUME InFlight(h)' <=> (InFlight(h) \/ Enqueue(h)) PROVE ObserverOnce(h)'
    BY <1>0, <1>3, <1>4, <1>5, <1>6 DEF ObserverOnce
  <1>7. ObserverOnce(h)' => HostTruth(h)'
    BY <1>0 DEF HostTruth
  <1>8. QED  BY <1>1, <1>2, <1>3, <1>4, <1>6, <1>7, HostOnlyKeeps

LEMMA PlainOfferKeeps ==
    ASSUME HostsAssumption, HostInv, NEW h \in Hosts, UNCHANGED op, PlainOffer(h)
    PROVE  HostInv'
  <1>0. /\ \/ op[h] = "strict" /\ StrictTruth(h)
           \/ op[h] = "control" /\ ControlOnce(h)
        /\ hostPc \in [Hosts -> HostPcs] /\ hostResult \in [Hosts -> SendResults]
    BY DEF HostInv, HostTruth, PlainOffer, Strict, Control, HostSide
  <1>1. HostOnly(h)
    BY DEF HostOnly, PlainOffer, targetVars, answerVars
  <1>2. Moves(h)
    BY <1>0 DEF Moves, PlainOffer, targetVars, answerVars, HostReturns, HostPcs, SendResults,
                Outcomes
  <1>3. /\ hostPc[h] = "start" /\ UNCHANGED <<reply, delivered>>
        /\ \/ /\ UNCHANGED commands /\ hostPc'[h] = "done"
              /\ hostResult'[h] \in {"ingress_full", "worker_stopped"}
           \/ Accepts /\ Enqueue(h) /\ hostPc'[h] = "waiting"
    BY <1>0 DEF PlainOffer, HostReturns, targetVars, answerVars
  <1>4. ~InFlight(h)
    BY <1>0, <1>3 DEF StrictTruth, ControlOnce
  <1>5. UNCHANGED commands => ~Enqueue(h)
    BY NotEnqueued
  <1>6. ASSUME InFlight(h)' <=> (InFlight(h) \/ Enqueue(h)) PROVE HostTruth(h)'
    <2>1. CASE op[h] = "strict" /\ StrictTruth(h)
      <3>1. StrictTruth(h)'
        BY <2>1, <1>3, <1>4, <1>5, <1>6 DEF StrictTruth
      <3>2. QED  BY <2>1, <3>1 DEF HostTruth
    <2>2. CASE op[h] = "control" /\ ControlOnce(h)
      <3>1. ControlOnce(h)'
        BY <2>2, <1>3 DEF ControlOnce
      <3>2. QED  BY <2>2, <3>1 DEF HostTruth
    <2>3. QED  BY <2>1, <2>2, <1>0
  <1>7. QED  BY <1>1, <1>2, <1>3, <1>4, <1>6, HostOnlyKeeps

LEMMA StrictReplyKeeps ==
    ASSUME HostsAssumption, HostInv, NEW h \in Hosts, UNCHANGED op, StrictReply(h)
    PROVE  HostInv'
  <1>0. /\ op[h] = "strict" /\ StrictTruth(h)
        /\ hostPc \in [Hosts -> HostPcs] /\ hostResult \in [Hosts -> SendResults]
        /\ reply \in [Hosts -> ReplyStates]
    BY DEF HostInv, HostTruth, StrictReply, Strict, HostSide
  <1>1. HostOnly(h) /\ UNCHANGED commands
    BY DEF HostOnly, StrictReply, targetVars, answerVars, exitVars, workerVars
  <1>2. PICK r : r = IF reply[h] = "hungup" THEN "worker_stopped" ELSE reply[h]
    OBVIOUS
  <1>3. /\ hostPc[h] = "waiting" /\ reply[h] # "open"
        /\ hostPc' = [hostPc EXCEPT ![h] = "done"]
        /\ hostResult' = [hostResult EXCEPT ![h] = r]
        /\ UNCHANGED <<reply, delivered, claim, observed, expired, attempt, ran>>
    BY <1>2 DEF StrictReply, HostReturns, targetVars, answerVars
  <1>4. r \in SendResults
    BY <1>0, <1>2, <1>3 DEF ReplyStates, SendResults, Outcomes
  <1>5. Moves(h)
    BY <1>3, <1>4 DEF Moves, HostPcs
  <1>6. hostPc'[h] = "done" /\ hostResult'[h] = r
    BY <1>0, <1>3
  <1>7. ~Enqueue(h)
    BY <1>1, NotEnqueued
  <1>8. ASSUME InFlight(h)' <=> (InFlight(h) \/ Enqueue(h)) PROVE StrictTruth(h)'
    BY <1>0, <1>2, <1>3, <1>6, <1>7, <1>8 DEF StrictTruth
  <1>9. StrictTruth(h)' => HostTruth(h)'
    BY <1>0 DEF HostTruth
  <1>10. QED  BY <1>1, <1>5, <1>8, <1>9, HostOnlyKeeps

LEMMA ControlReplyKeeps ==
    ASSUME HostsAssumption, HostInv, NEW h \in Hosts, UNCHANGED op, ControlReply(h)
    PROVE  HostInv'
  <1>0. /\ op[h] = "control" /\ hostPc \in [Hosts -> HostPcs]
    BY DEF HostInv, ControlReply, Control, HostSide
  <1>1. HostOnly(h) /\ UNCHANGED commands
    BY DEF HostOnly, ControlReply, targetVars, answerVars, workerVars
  <1>2. Moves(h)
    BY DEF Moves, ControlReply, targetVars, answerVars, HostReturns, HostPcs, SendResults,
           Outcomes
  <1>3. hostPc'[h] = "done"
    BY <1>0 DEF ControlReply, HostReturns
  <1>4. HostTruth(h)'
    BY <1>0, <1>3 DEF HostTruth, ControlOnce
  <1>5. QED  BY <1>1, <1>2, <1>4, HostOnlyKeeps

LEMMA HostStepKeeps ==
    ASSUME HostsAssumption, HostInv, NEW h \in Hosts, UNCHANGED op, HostStep(h)
    PROVE  HostInv'
  BY UntilTopKeeps, UntilOfferKeeps, UntilReplyKeeps, UntilTimedOutKeeps, UntilDecideKeeps,
     UntilBackoffKeeps, ObserverOfferKeeps, PlainOfferKeeps, StrictReplyKeeps,
     ControlReplyKeeps
     DEF HostStep

-----------------------------------------------------------------------------
(* The worker.                                                             *)

\* Steps that tell no host anything.
LEMMA NoHostKeeps ==
    ASSUME HostInv, UNCHANGED op,
           UNCHANGED <<hostPc, hostResult, expired, attempt, claim, reply, observed, delivered,
                       ran>>,
           QueueSide', TargetSide', OnePlace', CleanExitStands',
           \A g \in Hosts : InFlight(g)' <=> InFlight(g),
           claimLock \subseteq claimLock'
    PROVE  HostInv'
  <1>1. HostSide'
    BY DEF HostInv, HostSide
  <1>2. ASSUME NEW g \in Hosts PROVE HostTruth(g)'
    <2>1. SameFor(g)
      BY DEF SameFor
    <2>2. QED  BY <2>1, TruthFrame DEF HostInv
  <1>3. QED  BY <1>1, <1>2 DEF HostInv

LEMMA TakeKeeps ==
    ASSUME HostsAssumption, HostInv, UNCHANGED op, Take
    PROVE  HostInv'
  <1>1. QueueSide' /\ OnePlace' /\ \A g \in Hosts : InFlight(g)' <=> InFlight(g)
    BY TakeFlight DEF HostInv
  <1>2. /\ UNCHANGED <<hostPc, hostResult, expired, attempt, claim, reply, observed, delivered,
                       ran, claimLock>>
        /\ UNCHANGED <<shard, joined, panicked, mailbox, open>>
    BY DEF Take, hostVars, answerVars, exitVars, targetVars
  <1>3. TargetSide' /\ CleanExitStands'
    BY <1>2 DEF HostInv, TargetSide, CleanExitStands
  <1>4. QED  BY <1>1, <1>2, <1>3, NoHostKeeps

\* The steps that move no command and tell no host anything.
LEMMA QuietKeeps ==
    ASSUME HostsAssumption, HostInv, UNCHANGED op,
           \/ \E h \in Hosts : ClaimLock(h)
           \/ Stop \/ PanicIdle \/ Unwound \/ Gone \/ Join \/ Consume \/ TargetStops
    PROVE  HostInv'
  <1>0. QueueSide /\ OnePlace /\ TargetSide /\ CleanExitStands /\ MailboxCap \in Nat
    BY DEF HostInv, HostsAssumption
  <1>1. UNCHANGED <<hostPc, hostResult, expired, attempt, claim, reply, observed, delivered,
                    ran, commands, running>>
    BY DEF ClaimLock, Stop, PanicIdle, Unwound, Gone, Join, Consume, TargetStops, hostVars, answerVars, exitVars,
           targetVars, workerVars
  <1>2. /\ hostWorker' \in {"running", "unwinding", "stopping", "gone"}
        /\ hostWorker' # "running" => running = <<>>
    BY <1>0 DEF ClaimLock, Stop, PanicIdle, Unwound, Gone, Join, Consume, TargetStops, workerVars, QueueSide,
           OnePlace
  <1>3. claimLock' = claimLock \/ \E h \in Until : (running = <<h>> /\ claimLock' = claimLock \cup {h})
    BY DEF ClaimLock, Stop, PanicIdle, Unwound, Gone, Join, Consume, TargetStops, workerVars
  <1>4. QueueSide' /\ OnePlace' /\ \A g \in Hosts : InFlight(g)' <=> InFlight(g)
    BY <1>0, <1>1, <1>2, <1>3, SameFlight
  <1>5. claimLock \subseteq claimLock'
    BY <1>3
  <1>6. TargetSide' /\ CleanExitStands'
    <2>1. CASE (\E h \in Hosts : ClaimLock(h)) \/ Stop \/ Unwound \/ Gone
      BY <2>1, <1>0 DEF ClaimLock, Stop, Unwound, Gone, exitVars, targetVars, TargetSide,
                         CleanExitStands
    <2>2. CASE Join
      <3>1. /\ shard' \in {"running", "stopped", "failed"} /\ joined' = TRUE
            /\ ~panicked => shard' = "stopped"
            /\ UNCHANGED <<panicked, mailbox, open>>
        BY <2>2, <1>0 DEF Join, SetFailed, targetVars, TargetSide
      <3>2. QED  BY <3>1, <1>0 DEF TargetSide, CleanExitStands
    <2>3. CASE Consume
      <3>1. UNCHANGED <<shard, joined, panicked, open>> /\ mailbox' \in 0 .. MailboxCap
        BY <2>3, <1>0 DEF Consume, exitVars, TargetSide
      <3>2. QED  BY <3>1, <1>0 DEF TargetSide, CleanExitStands
    <2>4. CASE TargetStops
      <3>1. UNCHANGED <<shard, joined, panicked>> /\ mailbox' \in 0 .. MailboxCap
                /\ open' = FALSE
        BY <2>4, <1>0 DEF TargetStops, exitVars, TargetSide
      <3>2. QED  BY <3>1, <1>0 DEF TargetSide, CleanExitStands
    <2>5. CASE PanicIdle
      <3>1. UNCHANGED <<shard, joined, mailbox, open>> /\ panicked' = TRUE
        BY <2>5 DEF PanicIdle, targetVars
      <3>2. QED  BY <3>1, <1>0 DEF TargetSide, CleanExitStands
    <2>6. QED  BY <2>1, <2>2, <2>3, <2>4, <2>5
  <1>7. QED  BY <1>1, <1>4, <1>5, <1>6, NoHostKeeps

\* Runtime::try_send: the message is delivered exactly if the outcome is Ok.
LEMMA TrySendSteps ==
    ASSUME HostsAssumption, HostSide, TargetSide, NEW h \in Hosts, TrySend(h)
    PROVE  /\ mailbox' \in 0 .. MailboxCap
           /\ \E l \in Nat : delivered' = [delivered EXCEPT ![h] = l]
           /\ delivered'[h] = IF MailboxOutcome = "ok" THEN delivered[h] + 1 ELSE delivered[h]
           /\ MailboxOutcome \in {"ok", "mailbox_full", "mailbox_closed"}
  <1>0. /\ delivered \in [Hosts -> Nat] /\ mailbox \in 0 .. MailboxCap
        /\ MailboxCap \in Nat \ {0}
    BY DEF HostSide, TargetSide, HostsAssumption
  <1>1. MailboxOutcome \in {"ok", "mailbox_full", "mailbox_closed"}
    BY DEF MailboxOutcome
  <1>2. mailbox' \in 0 .. MailboxCap
    BY <1>0 DEF TrySend, MailboxOutcome
  <1>3. PICK l \in Nat : l = IF MailboxOutcome = "ok" THEN delivered[h] + 1 ELSE delivered[h]
    BY <1>0
  <1>4. delivered' = [delivered EXCEPT ![h] = l]
    BY <1>3 DEF TrySend
  <1>5. delivered'[h] = l
    BY <1>0, <1>4
  <1>6. QED  BY <1>1, <1>2, <1>3, <1>4, <1>5

LEMMA RunClaimedKeeps ==
    ASSUME HostsAssumption, HostInv, NEW h \in Hosts, UNCHANGED op, RunClaimed(h)
    PROVE  HostInv'
  <1>0. /\ HostSide /\ QueueSide /\ TargetSide /\ OnePlace /\ CleanExitStands
        /\ h \in Until /\ UntilTruth(h) /\ claim \in [Hosts -> Claims]
        /\ reply \in [Hosts -> ReplyStates] /\ delivered \in [Hosts -> Nat]
    BY DEF HostInv, HostTruth, RunClaimed, Until, QueueSide, HostSide
  <1>1. /\ running = <<h>> /\ h \in claimLock /\ hostWorker = "running"
        /\ UNCHANGED <<hostPc, hostResult, expired, attempt, observed, ran, commands,
                       hostWorker, shard, joined, panicked, open>>
    BY DEF RunClaimed, hostVars, exitVars
  <1>2. InFlight(h)
    BY <1>1 DEF InFlight
  <1>3. CASE claim[h] = "cancelled"
    <2>1. /\ running' = <<>> /\ claimLock' = claimLock \ {h}
          /\ reply' = [reply EXCEPT ![h] = "hungup"]
          /\ UNCHANGED <<claim, mailbox, delivered>>
      BY <1>3 DEF RunClaimed, ClaimRun
    <2>2. Moves(h)
      BY <1>1, <2>1 DEF Moves, ReplyStates
    <2>3. /\ QueueSide' /\ OnePlace' /\ ~InFlight(h)'
          /\ \A g \in Hosts : g # h => (InFlight(g)' <=> InFlight(g))
      BY <1>0, <1>1, <2>1, LeaveFlight
    <2>4. TargetSide' /\ CleanExitStands'
      BY <1>0, <1>1, <2>1 DEF TargetSide, CleanExitStands
    <2>5. reply'[h] = "hungup"
      BY <1>0, <2>1
    <2>6. UntilTruth(h)'
      BY <1>0, <1>1, <1>2, <1>3, <2>1, <2>3, <2>5 DEF UntilTruth, Outcomes
    <2>7. QED  BY <1>0, <2>1, <2>2, <2>3, <2>4, <2>6, UntilSuffices, OneHostKeeps
  <1>4. CASE claim[h] # "cancelled"
    <2>1. /\ claim[h] = "pending" /\ TrySend(h)
          /\ claim' = [claim EXCEPT ![h] = MailboxOutcome]
          /\ UNCHANGED <<running, claimLock, reply>>
      BY <1>4 DEF RunClaimed, ClaimRun
    <2>2. /\ mailbox' \in 0 .. MailboxCap
          /\ \E l \in Nat : delivered' = [delivered EXCEPT ![h] = l]
          /\ delivered'[h] = IF MailboxOutcome = "ok" THEN delivered[h] + 1 ELSE delivered[h]
          /\ MailboxOutcome \in {"ok", "mailbox_full", "mailbox_closed"}
      BY <1>0, <2>1, TrySendSteps
    <2>3. Moves(h)
      BY <1>1, <2>1, <2>2 DEF Moves, Claims, Outcomes
    <2>4. /\ QueueSide' /\ OnePlace' /\ \A g \in Hosts : InFlight(g)' <=> InFlight(g)
      <3>1. hostWorker' \in {"running", "unwinding", "stopping", "gone"}
        BY <1>1
      <3>2. QED  BY <1>0, <1>1, <2>1, <3>1, SameFlight
    <2>5. TargetSide' /\ CleanExitStands'
      BY <1>0, <1>1, <2>2 DEF TargetSide, CleanExitStands
    <2>6. claim'[h] = MailboxOutcome
      BY <1>0, <2>1
    <2>7. UntilTruth(h)'
      <3>1. hostPc[h] \in {"waiting", "deciding"}
        <4>1. hostPc[h] \in HostPcs
          BY <1>0 DEF HostSide
        <4>2. QED  BY <4>1, <1>0, <1>2, <2>1 DEF UntilTruth, HostPcs
      <3>2. delivered[h] = 0 /\ reply[h] = "open"
        BY <3>1, <1>0, <1>2, <2>1 DEF UntilTruth
      <3>3. delivered'[h] = IF claim'[h] = "ok" THEN 1 ELSE 0
        BY <3>2, <2>2, <2>6
      <3>4. InFlight(h)' /\ hostPc'[h] \in {"waiting", "deciding"} /\ reply'[h] = "open"
                /\ h \in claimLock'
        BY <3>1, <3>2, <1>1, <1>2, <2>1, <2>4
      <3>5. claim'[h] # "cancelled"
        BY <2>2, <2>6
      <3>6. QED  BY <3>3, <3>4, <3>5 DEF UntilTruth, Outcomes
    <2>8. QED  BY <1>0, <2>1, <2>3, <2>4, <2>5, <2>7, UntilSuffices, OneHostKeeps
  <1>5. QED  BY <1>3, <1>4

LEMMA ReplyClaimedKeeps ==
    ASSUME HostsAssumption, HostInv, NEW h \in Hosts, UNCHANGED op, ReplyClaimed(h)
    PROVE  HostInv'
  <1>0. /\ HostSide /\ QueueSide /\ TargetSide /\ OnePlace /\ CleanExitStands
        /\ h \in Until /\ UntilTruth(h) /\ claim \in [Hosts -> Claims]
        /\ reply \in [Hosts -> ReplyStates] /\ hostPc[h] \in HostPcs
    BY DEF HostInv, HostTruth, ReplyClaimed, Until, QueueSide, HostSide
  <1>1. /\ running = <<h>> /\ claim[h] \in Outcomes
        /\ running' = <<>> /\ claimLock' = claimLock \ {h}
        /\ reply' = [reply EXCEPT ![h] = claim[h]]
        /\ UNCHANGED <<hostPc, hostResult, expired, attempt, observed, ran, commands, claim,
                       hostWorker, shard, joined, panicked, open, mailbox, delivered>>
    BY DEF ReplyClaimed, hostVars, exitVars, targetVars
  <1>2. InFlight(h)
    BY <1>1 DEF InFlight
  <1>3. Moves(h)
    <2>1. PICK l \in ReplyStates : l = claim[h]
      BY <1>1 DEF ReplyStates
    <2>2. QED  BY <1>1, <2>1 DEF Moves
  <1>4. /\ QueueSide' /\ OnePlace' /\ ~InFlight(h)'
        /\ \A g \in Hosts : g # h => (InFlight(g)' <=> InFlight(g))
    <2>1. hostWorker' \in {"running", "unwinding", "stopping", "gone"}
      BY <1>0, <1>1 DEF QueueSide
    <2>2. QED  BY <1>0, <1>1, <2>1, LeaveFlight
  <1>5. TargetSide' /\ CleanExitStands'
    BY <1>0, <1>1 DEF TargetSide, CleanExitStands
  <1>6. reply'[h] = claim[h]
    BY <1>0, <1>1
  <1>7. UntilTruth(h)'
    <2>1. hostPc[h] \in {"waiting", "deciding"}
      BY <1>0, <1>1, <1>2 DEF UntilTruth, HostPcs, Outcomes
    <2>2. QED  BY <2>1, <1>0, <1>1, <1>4, <1>6 DEF UntilTruth, Outcomes
  <1>8. QED  BY <1>0, <1>1, <1>3, <1>4, <1>5, <1>7, UntilSuffices, OneHostKeeps

\* An observer is called: the observations are one longer.
LEMMA ObservedSteps ==
    ASSUME HostSide, NEW h \in Hosts, NEW o \in Outcomes \cup {"refused"},
           observed' = [observed EXCEPT ![h] = Append(@, o)]
    PROVE  /\ \E l \in Observations : observed' = [observed EXCEPT ![h] = l]
           /\ observed[h] = <<>> => /\ observed'[h] = <<o>>
                                    /\ Len(observed'[h]) <= 1 /\ observed'[h] # <<>>
  <1>0. observed \in [Hosts -> Observations] /\ observed[h] \in Seq(Outcomes \cup {"refused"})
    BY DEF HostSide, Observations
  <1>1. Append(observed[h], o) \in Observations
    BY <1>0 DEF Observations
  <1>2. observed'[h] = Append(observed[h], o)
    BY <1>0
  <1>3. ASSUME observed[h] = <<>>
        PROVE  observed'[h] = <<o>> /\ Len(observed'[h]) <= 1 /\ observed'[h] # <<>>
    <2>1. observed'[h] = Append(<<>>, o)
      BY <1>2, <1>3
    <2>2. Append(<<>>, o) = <<o>> /\ Len(<<o>>) <= 1 /\ <<o>> # <<>>
      OBVIOUS
    <2>3. QED  BY <2>1, <2>2, Zenon
  <1>4. QED  BY <1>1, <1>3

LEMMA RunPlainKeeps ==
    ASSUME HostsAssumption, HostInv, NEW h \in Hosts, UNCHANGED op, RunPlain(h)
    PROVE  HostInv'
  <1>0. /\ HostSide /\ QueueSide /\ TargetSide /\ OnePlace /\ CleanExitStands /\ HostTruth(h)
        /\ reply \in [Hosts -> ReplyStates] /\ ran \in [Hosts -> Nat]
    BY DEF HostInv, HostSide
  <1>1. /\ running = <<h>> /\ running' = <<>>
        /\ UNCHANGED <<hostPc, hostResult, expired, attempt, commands, claim, claimLock,
                       hostWorker, shard, joined, panicked, open>>
    BY DEF RunPlain, hostVars, exitVars
  <1>2. InFlight(h)
    BY <1>1 DEF InFlight
  <1>3. h \notin Until
    BY <1>0 DEF RunPlain, Observer, Strict, Control, Until
  <1>4. claimLock' = claimLock \ {h}
    BY <1>0, <1>1, <1>3 DEF QueueSide
  <1>5. /\ QueueSide' /\ OnePlace' /\ ~InFlight(h)'
        /\ \A g \in Hosts : g # h => (InFlight(g)' <=> InFlight(g))
    <2>1. hostWorker' \in {"running", "unwinding", "stopping", "gone"}
      BY <1>0, <1>1 DEF QueueSide
    <2>2. QED  BY <1>0, <1>1, <1>4, <2>1, LeaveFlight
  <1>6. CASE h \in Observer /\ ObserverRun(h) /\ UNCHANGED <<reply, ran>>
    <2>0. ObserverOnce(h) /\ op[h] = "observer"
      BY <1>0, <1>6 DEF Observer, HostTruth
    <2>1. hostPc[h] = "done" /\ hostResult[h] = "accepted" /\ observed[h] = <<>>
              /\ delivered[h] = 0
      BY <2>0, <1>2 DEF ObserverOnce
    <2>2. PICK o \in Outcomes \cup {"refused"} :
             /\ observed' = [observed EXCEPT ![h] = Append(@, o)]
             /\ \/ o = "refused" /\ UNCHANGED <<mailbox, delivered>>
                \/ o = MailboxOutcome /\ TrySend(h)
      BY <1>6 DEF ObserverRun, MailboxOutcome, Outcomes
    <2>3. /\ \E l \in Observations : observed' = [observed EXCEPT ![h] = l]
          /\ observed[h] = <<>> => /\ observed'[h] = <<o>>
                                   /\ Len(observed'[h]) <= 1 /\ observed'[h] # <<>>
      BY <1>0, <2>2, ObservedSteps
    <2>4. /\ mailbox' \in 0 .. MailboxCap
          /\ UNCHANGED delivered \/ \E l \in Nat : delivered' = [delivered EXCEPT ![h] = l]
          /\ delivered'[h] = IF o = "ok" THEN 1 ELSE 0
      <3>1. CASE o = "refused" /\ UNCHANGED <<mailbox, delivered>>
        BY <3>1, <1>0, <2>1 DEF TargetSide
      <3>2. CASE o = MailboxOutcome /\ TrySend(h)
        BY <3>2, <1>0, <2>1, TrySendSteps
      <3>3. QED  BY <2>2, <3>1, <3>2
    <2>5. Moves(h)
      BY <1>1, <1>6, <2>3, <2>4 DEF Moves
    <2>6. ObserverOnce(h)'
      <3>1. <<o>> = <<"ok">> <=> o = "ok"
        OBVIOUS
      <3>2. observed'[h] = <<o>> /\ Len(observed'[h]) <= 1 /\ observed'[h] # <<>>
        BY <2>1, <2>3, Zenon
      <3>3. /\ delivered'[h] = IF observed'[h] = <<"ok">> THEN 1 ELSE 0
            /\ hostPc'[h] = "done" /\ hostResult'[h] = "accepted"
        BY <3>1, <3>2, <1>1, <2>1, <2>4
      <3>4. QED  BY <3>2, <3>3, <1>5 DEF ObserverOnce
    <2>7. HostTruth(h)'
      BY <2>0, <2>6 DEF HostTruth
    <2>8. TargetSide' /\ CleanExitStands'
      BY <1>0, <1>1, <2>4 DEF TargetSide, CleanExitStands
    <2>9. QED  BY <1>4, <1>5, <2>5, <2>7, <2>8, OneHostKeeps
  <1>7. CASE /\ h \in Strict /\ TrySend(h)
             /\ reply' = [reply EXCEPT ![h] = MailboxOutcome] /\ UNCHANGED <<observed, ran>>
    <2>0. StrictTruth(h) /\ op[h] = "strict"
      BY <1>0, <1>7 DEF Strict, HostTruth
    <2>1. hostPc[h] = "waiting" /\ delivered[h] = 0
      BY <2>0, <1>2 DEF StrictTruth
    <2>2. /\ mailbox' \in 0 .. MailboxCap
          /\ \E l \in Nat : delivered' = [delivered EXCEPT ![h] = l]
          /\ delivered'[h] = IF MailboxOutcome = "ok" THEN delivered[h] + 1 ELSE delivered[h]
          /\ MailboxOutcome \in {"ok", "mailbox_full", "mailbox_closed"}
      BY <1>0, <1>7, TrySendSteps
    <2>3. reply'[h] = MailboxOutcome
      BY <1>0, <1>7
    <2>4. Moves(h)
      BY <1>1, <1>7, <2>2 DEF Moves, ReplyStates, Outcomes
    <2>5. StrictTruth(h)'
      BY <1>1, <1>5, <2>1, <2>2, <2>3 DEF StrictTruth
    <2>6. HostTruth(h)'
      BY <2>0, <2>5 DEF HostTruth
    <2>7. TargetSide' /\ CleanExitStands'
      BY <1>0, <1>1, <2>2 DEF TargetSide, CleanExitStands
    <2>8. QED  BY <1>4, <1>5, <2>4, <2>6, <2>7, OneHostKeeps
  <1>8. CASE /\ h \in Control /\ ran' = [ran EXCEPT ![h] = @ + 1]
             /\ reply' = [reply EXCEPT ![h] = "ok"]
             /\ UNCHANGED <<mailbox, delivered, observed>>
    <2>1. PICK l \in Nat : l = ran[h] + 1
      BY <1>0
    <2>2. Moves(h)
      BY <1>1, <1>8, <2>1 DEF Moves, ReplyStates, Outcomes
    <2>3. HostTruth(h)'
      BY <1>0, <1>1, <1>5, <1>8 DEF HostTruth, Control, ControlOnce
    <2>4. TargetSide' /\ CleanExitStands'
      BY <1>0, <1>1, <1>8 DEF TargetSide, CleanExitStands
    <2>5. QED  BY <1>4, <1>5, <2>2, <2>3, <2>4, OneHostKeeps
  <1>9. QED  BY <1>6, <1>7, <1>8 DEF RunPlain

\* What a dropped command tells its host is true, once it is out of flight.
LEMMA DropTells ==
    ASSUME HostInv, NEW h \in Hosts, UNCHANGED op, DropCommand(h),
           UNCHANGED <<hostPc, hostResult, expired, attempt, delivered, ran>>,
           InFlight(h), ~InFlight(h)', h \in Until => claim[h] \notin Outcomes
    PROVE  Moves(h) /\ HostTruth(h)'
  <1>0. /\ HostSide /\ HostTruth(h) /\ op[h] \in Operations
        /\ claim \in [Hosts -> Claims] /\ reply \in [Hosts -> ReplyStates]
        /\ h \in Until => claim[h] \in {"pending", "cancelled"}
        /\ hostPc[h] \in HostPcs
    BY DEF HostInv, HostSide, Claims
  <1>1. CASE h \in Observer
    <2>0. ObserverOnce(h) /\ op[h] = "observer"
      BY <1>0, <1>1 DEF Observer, HostTruth
    <2>1. /\ observed' = [observed EXCEPT ![h] = Append(@, "worker_stopped")]
          /\ UNCHANGED <<claim, reply>>
      BY <2>0 DEF DropCommand, Until, Strict, Control
    <2>2. "worker_stopped" \in Outcomes \cup {"refused"}
      BY DEF Outcomes
    <2>3. /\ \E l \in Observations : observed' = [observed EXCEPT ![h] = l]
          /\ observed[h] = <<>> => /\ observed'[h] = <<"worker_stopped">>
                                   /\ Len(observed'[h]) <= 1 /\ observed'[h] # <<>>
      BY <1>0, <2>1, <2>2, ObservedSteps
    <2>4. Moves(h)
      BY <2>1, <2>3 DEF Moves
    <2>5. /\ hostPc[h] = "done" /\ hostResult[h] = "accepted" /\ observed[h] = <<>>
          /\ delivered[h] = 0 /\ <<"worker_stopped">> # <<"ok">>
      BY <2>0 DEF ObserverOnce
    <2>6. ObserverOnce(h)'
      <3>1. /\ observed'[h] = <<"worker_stopped">>
            /\ Len(observed'[h]) <= 1 /\ observed'[h] # <<>>
        BY <2>3, <2>5, Zenon
      <3>2. /\ delivered'[h] = IF observed'[h] = <<"ok">> THEN 1 ELSE 0
            /\ hostPc'[h] = "done" /\ hostResult'[h] = "accepted"
        BY <3>1, <2>5
      <3>3. QED  BY <3>1, <3>2 DEF ObserverOnce
    <2>7. QED  BY <2>0, <2>4, <2>6 DEF HostTruth
  <1>2. CASE h \in Until
    <2>0. UntilTruth(h) /\ op[h] = "until"
      BY <1>0, <1>2 DEF Until, HostTruth
    <2>1. /\ UNCHANGED observed
          /\ \/ /\ claim[h] = "pending"
                /\ claim' = [claim EXCEPT ![h] = "worker_stopped"]
                /\ reply' = [reply EXCEPT ![h] = "worker_stopped"]
             \/ /\ claim[h] = "cancelled" /\ UNCHANGED claim
                /\ reply' = [reply EXCEPT ![h] = "hungup"]
      BY <2>0, <1>0, <1>2 DEF DropCommand, Observer, Strict, Control
    <2>2. Moves(h)
      BY <2>1 DEF Moves, Claims, ReplyStates, Outcomes
    <2>3. \/ /\ claim[h] = "pending"
             /\ claim'[h] = "worker_stopped" /\ reply'[h] = "worker_stopped"
          \/ claim[h] = "cancelled" /\ claim'[h] = "cancelled"
      BY <1>0, <2>1
    <2>4. UntilTruth(h)'
      BY <2>0, <2>3, <1>0, <1>2 DEF UntilTruth, Outcomes, HostPcs
    <2>5. QED  BY <2>2, <2>4, <1>2, UntilSuffices
  <1>3. CASE h \in Strict \cup Control
    <2>1. op[h] \in {"strict", "control"}
      BY <1>3 DEF Strict, Control
    <2>2. /\ reply' = [reply EXCEPT ![h] = "hungup"] /\ UNCHANGED <<claim, observed>>
      BY <2>1 DEF DropCommand, Observer, Until
    <2>3. Moves(h)
      BY <2>2 DEF Moves, ReplyStates
    <2>4. reply'[h] = "hungup"
      BY <2>2, <1>0
    <2>5. CASE op[h] = "strict"
      <3>1. StrictTruth(h)
        BY <2>5, <1>0 DEF HostTruth
      <3>2. StrictTruth(h)'
        BY <3>1, <2>4 DEF StrictTruth
      <3>3. QED  BY <3>2, <2>3, <2>5 DEF HostTruth
    <2>6. CASE op[h] = "control"
      <3>1. ControlOnce(h)
        BY <2>6, <1>0 DEF HostTruth
      <3>2. ControlOnce(h)'
        BY <3>1 DEF ControlOnce
      <3>3. QED  BY <3>2, <2>3, <2>6 DEF HostTruth
    <2>7. QED  BY <2>1, <2>5, <2>6
  <1>4. QED  BY <1>0, <1>1, <1>2, <1>3 DEF Operations, Observer, Until, Strict, Control

LEMMA PanicKeeps ==
    ASSUME HostsAssumption, HostInv, NEW h \in Hosts, UNCHANGED op, Panic(h)
    PROVE  HostInv'
  <1>0. /\ HostSide /\ QueueSide /\ TargetSide /\ OnePlace /\ CleanExitStands /\ HostTruth(h)
        /\ reply \in [Hosts -> ReplyStates] /\ hostPc[h] \in HostPcs
    BY DEF HostInv, HostSide
  <1>1. /\ running = <<h>> /\ running' = <<>> /\ hostWorker' = "unwinding"
        /\ claimLock' = claimLock \ {h} /\ panicked' = TRUE
        /\ UNCHANGED <<hostPc, hostResult, expired, attempt, mailbox, open, delivered, ran,
                       commands, shard, joined>>
    BY DEF Panic, hostVars, targetVars
  <1>2. InFlight(h)
    BY <1>1 DEF InFlight
  <1>3. /\ QueueSide' /\ OnePlace' /\ ~InFlight(h)'
        /\ \A g \in Hosts : g # h => (InFlight(g)' <=> InFlight(g))
    BY <1>0, <1>1, LeaveFlight
  <1>4. TargetSide' /\ CleanExitStands'
    BY <1>0, <1>1 DEF TargetSide, CleanExitStands
  <1>5. Moves(h) /\ HostTruth(h)'
    <2>1. CASE h \in Until
      <3>0. UntilTruth(h)
        BY <2>1, <1>0 DEF Until, HostTruth
      <3>1. /\ claim[h] = "pending" /\ reply' = [reply EXCEPT ![h] = "hungup"]
            /\ UNCHANGED <<claim, observed>>
        BY <2>1 DEF Panic
      <3>2. Moves(h)
        BY <3>1, <1>1 DEF Moves, ReplyStates
      <3>3. reply'[h] = "hungup"
        BY <3>1, <1>0
      <3>4. UntilTruth(h)'
        BY <3>0, <3>1, <3>3, <1>0, <1>1, <1>2, <1>3 DEF UntilTruth, Outcomes, HostPcs
      <3>5. QED  BY <3>2, <3>4, <2>1, UntilSuffices
    <2>2. CASE h \notin Until
      <3>1. DropCommand(h)
        BY <2>2 DEF Panic
      <3>2. QED  BY <2>2, <3>1, <1>1, <1>2, <1>3, DropTells
    <2>3. QED  BY <2>1, <2>2
  <1>6. QED  BY <1>1, <1>3, <1>4, <1>5, OneHostKeeps

LEMMA DropQueuedKeeps ==
    ASSUME HostsAssumption, HostInv, UNCHANGED op, DropQueued
    PROVE  HostInv'
  <1>0. /\ HostSide /\ QueueSide /\ TargetSide /\ OnePlace /\ CleanExitStands
    BY DEF HostInv
  <1>h. PICK h : h = Head(commands)  OBVIOUS
  <1>1. /\ hostWorker = "stopping" /\ commands # <<>> /\ commands' = Tail(commands)
        /\ DropCommand(h) /\ h \notin claimLock
        /\ UNCHANGED <<hostPc, hostResult, expired, attempt, mailbox, open, delivered, ran,
                       shard, joined, panicked, hostWorker, running, claimLock>>
    BY <1>h DEF DropQueued, hostVars, targetVars, exitVars
  <1>2. running = <<>>
    BY <1>0, <1>1 DEF OnePlace
  <1>3. /\ QueueSide' /\ OnePlace' /\ h \in Hosts
        /\ ~InFlight(h)' /\ InFlight(h)
        /\ \A g \in Hosts : g # h => (InFlight(g)' <=> InFlight(g))
    BY <1>0, <1>1, <1>2, <1>h, DropFlight
  <1>4. TargetSide' /\ CleanExitStands'
    BY <1>0, <1>1 DEF TargetSide, CleanExitStands
  <1>5. Moves(h) /\ HostTruth(h)'
    <2>1. h \in Until => claim[h] \notin Outcomes
      BY <1>1, <1>3 DEF HostInv, HostTruth, UntilTruth, Until
    <2>2. QED  BY <2>1, <1>1, <1>3, DropTells
  <1>6. QED  BY <1>1, <1>3, <1>4, <1>5, OneHostKeeps

-----------------------------------------------------------------------------
(* The theorem.                                                            *)

LEMMA HostInvInit ==
    ASSUME HostsAssumption, HostInit
    PROVE  HostInv
  <1>0. /\ QueueCap \in Nat /\ MailboxCap \in Nat /\ MaxAttempts \in Nat
        /\ Mixes \subseteq [Hosts -> Operations]
    BY DEF HostsAssumption
  <1>1. HostSide
    <2>1. op \in [Hosts -> Operations]
      BY <1>0 DEF HostInit
    <2>2. hostPc \in [Hosts -> HostPcs] /\ hostResult \in [Hosts -> SendResults]
      BY DEF HostInit, HostPcs, SendResults
    <2>3. expired \in [Hosts -> BOOLEAN]
      BY DEF HostInit
    <2>4. attempt \in [Hosts -> 0 .. MaxAttempts]
      BY <1>0 DEF HostInit
    <2>5. claim \in [Hosts -> Claims] /\ reply \in [Hosts -> ReplyStates]
      BY DEF HostInit, Claims, ReplyStates
    <2>6. observed \in [Hosts -> Observations]
      <3>1. <<>> \in Observations
        BY DEF Observations
      <3>2. QED  BY <3>1 DEF HostInit
    <2>7. delivered \in [Hosts -> Nat] /\ ran \in [Hosts -> Nat]
      BY DEF HostInit
    <2>8. QED  BY <2>1, <2>2, <2>3, <2>4, <2>5, <2>6, <2>7 DEF HostSide
  <1>2. commands = <<>> /\ running = <<>> /\ claimLock = {} /\ hostWorker = "running"
    BY DEF HostInit
  <1>3. QueueSide
    BY <1>0, <1>2 DEF QueueSide
  <1>4. TargetSide
    <2>1. joined \in BOOLEAN /\ panicked \in BOOLEAN /\ open \in BOOLEAN
      BY Zenon DEF HostInit
    <2>2. shard \in {"running", "stopped", "failed"} /\ mailbox \in 0 .. MailboxCap
      BY <1>0 DEF HostInit
    <2>3. QED  BY <2>1, <2>2 DEF TargetSide
  <1>5. OnePlace
    BY <1>2 DEF OnePlace
  <1>6. CleanExitStands
    BY DEF HostInit, CleanExitStands
  <1>7. ASSUME NEW h \in Hosts PROVE HostTruth(h)
    <2>1. ~InFlight(h)
      BY <1>2 DEF InFlight
    <2>2. /\ hostPc[h] = "start" /\ claim[h] = "pending" /\ reply[h] = "open"
          /\ observed[h] = <<>> /\ delivered[h] = 0
      BY DEF HostInit
    <2>3. UntilTruth(h) /\ StrictTruth(h) /\ ControlOnce(h)
      BY <2>1, <2>2 DEF UntilTruth, StrictTruth, ControlOnce, Outcomes
    <2>4. ObserverOnce(h)
      BY <2>1, <2>2 DEF ObserverOnce
    <2>5. QED  BY <2>3, <2>4 DEF HostTruth
  <1>8. QED  BY <1>1, <1>3, <1>4, <1>5, <1>6, <1>7 DEF HostInv

LEMMA HostInvStep ==
    ASSUME HostsAssumption, HostInv, [HostNext]_sendVars
    PROVE  HostInv'
  <1>1. ASSUME UNCHANGED op, NEW h \in Hosts, HostStep(h) \/ Expire(h) \/ Panic(h)
        PROVE  HostInv'
    BY <1>1, HostStepKeeps, ExpireKeeps, PanicKeeps
  <1>2. ASSUME UNCHANGED op, WorkerStep
        PROVE  HostInv'
    BY <1>2, TakeKeeps, RunClaimedKeeps, ReplyClaimedKeeps, RunPlainKeeps, DropQueuedKeeps,
       QuietKeeps DEF WorkerStep
  <1>3. ASSUME UNCHANGED op, Stop \/ PanicIdle \/ Join \/ Consume \/ TargetStops
        PROVE  HostInv'
    BY <1>3, QuietKeeps
  <1>4. CASE UNCHANGED sendVars
    <2>1. UNCHANGED <<op, hostPc, hostResult, expired, attempt, claim, reply, observed,
                      delivered, ran, commands, hostWorker, running, claimLock>>
      BY <1>4 DEF sendVars, hostVars, answerVars, workerVars, targetVars
    <2>2. UNCHANGED <<shard, joined, panicked, mailbox, open>>
      BY <1>4 DEF sendVars, exitVars, targetVars
    <2>3. QueueSide' /\ OnePlace' /\ \A g \in Hosts : InFlight(g)' <=> InFlight(g)
      BY <2>1, SameFlight DEF HostInv, QueueSide, OnePlace
    <2>4. TargetSide' /\ CleanExitStands'
      BY <2>2 DEF HostInv, TargetSide, CleanExitStands
    <2>5. QED  BY <2>1, <2>3, <2>4, NoHostKeeps
  <1>5. QED  BY <1>1, <1>2, <1>3, <1>4 DEF HostNext

LEMMA HostInvImplies ==
    ASSUME HostInv
    PROVE  SendsTruth
  <1>1. HostTypeOK
    BY DEF HostInv, HostSide, QueueSide, TargetSide, HostTypeOK, Observations
  <1>2. DeliveredIffOk
    <2>1. ASSUME NEW h \in Until
          PROVE  /\ delivered[h] <= 1
                 /\ hostPc[h] = "done" => (delivered[h] = 1 <=> hostResult[h] = "ok")
      BY DEF HostInv, HostTruth, UntilTruth, Until
    <2>2. ASSUME NEW h \in Strict
          PROVE  /\ delivered[h] <= 1
                 /\ hostPc[h] = "done" => (delivered[h] = 1 <=> hostResult[h] = "ok")
      BY DEF HostInv, HostTruth, StrictTruth, Strict
    <2>3. QED  BY <2>1, <2>2 DEF DeliveredIffOk
  <1>3. ObserverTruth
    <2>1. ASSUME NEW h \in Observer PROVE ObserverOnce(h)
      BY DEF HostInv, HostTruth, Observer
    <2>2. ASSUME NEW h \in Observer
          PROVE  /\ Len(observed[h]) <= 1
                 /\ observed[h] # <<>> => hostResult[h] = "accepted"
      BY <2>1 DEF ObserverOnce
    <2>3. ASSUME NEW h \in Observer PROVE delivered[h] = 1 <=> observed[h] = <<"ok">>
      <3>1. delivered[h] = IF observed[h] = <<"ok">> THEN 1 ELSE 0
        BY <2>1 DEF ObserverOnce
      <3>2. QED  BY <3>1
    <2>4. QED  BY <2>2, <2>3 DEF ObserverTruth
  <1>4. QED  BY <1>1, <1>2, <1>3 DEF HostInv, SendsTruth

\* Commands of any number of hosts, in any mix of operations, with any queue and
\* mailbox and a worker that stops or panics at any time: a message is delivered
\* once if its host is told Ok and never otherwise, an observer is called at most
\* once and truly, and a clean exit stays on record.
THEOREM SendsStayTrue == ASSUME HostsAssumption PROVE HostSpec => []SendsTruth
  <1>1. HostInit => HostInv
    BY HostInvInit
  <1>2. HostInv /\ [HostNext]_sendVars => HostInv'
    BY HostInvStep
  <1>3. HostInv => SendsTruth
    BY HostInvImplies
  <1>4. QED  BY <1>1, <1>2, <1>3, PTL DEF HostSpec
=============================================================================
