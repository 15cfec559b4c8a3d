------------------------------ MODULE Shutdown ------------------------------
(***************************************************************************)
(* Shutdown of a threaded runtime (tina-runtime/src/shutdown.rs): the      *)
(* SharedShutdownState behind one mutex and one condition variable, the    *)
(* shutdown handles, the owner that drops the runtime, the joiner thread   *)
(* and, from threaded.rs and threaded_multi_shard.rs, the workers with     *)
(* their bounded command queues.                                           *)
(*                                                                         *)
(* A critical section is one step, except the walk of request_shutdown,    *)
(* which keeps the lock while workers go on and die under it.              *)
(***************************************************************************)
EXTENDS Integers, Sequences, FiniteSets, FiniteSetsExt, SequencesExt

CONSTANTS N,             \* shards, visited in the order of their ids
          QueueCapacity, \* commands a worker's queue holds
          Handles,       \* threads that use a shutdown handle
          Owner,         \* the thread that owns the runtime
          MaxRuns,       \* bound: commands other hosts submit
          MaxPanics,     \* bound: worker panics
          MaxRequests    \* bound: calls of request_shutdown

\* What the code asks of the constants.
ShutdownAssumption ==
    /\ N \in Nat \ {0} /\ QueueCapacity \in Nat \ {0}
    /\ Owner \notin Handles
    /\ MaxRuns \in Nat /\ MaxPanics \in Nat /\ MaxRequests \in Nat

VARIABLES queue, worker, metric,         \* per shard: commands, thread, LiveShardState
          signaled, handle, requested,   \* ShutdownState
          joining, report, joinerFailed,
          lock, waiting,                 \* holder of the mutex; threads on the condvar
          callerPc, result, todo,        \* callers; what the owner has left to signal
          joiner,                        \* the joiner and who runs it
          runs, panics, requests

workers == <<queue, worker, metric>>
shared == <<signaled, handle, requested, joining, report, joinerFailed>>
callers == <<callerPc, result, todo>>
closeVars == <<workers, shared, lock, waiting, callers, joiner, runs, panics, requests>>

Shards == 1..N
Callers == Handles \cup {Owner}
Free == "free"
Commands == {"Run", "Shutdown"}
None == [state |-> "none"]
ShardStates == [Shards -> {"Running", "Stopped", "Failed"}]
Reports == {None} \cup [state : {"Closed", "Failed"}, shards : ShardStates]

CallerPcs == {"idle", "walk", "send", "mark", "ensure", "inline", "wait", "blocking", "done"}
Results == {"none", "Ok", "CommandFull", "WorkerStopped", "Report", "JoinerFailed", "Timeout"}

CloseTypeOK ==
    /\ queue \in [Shards -> Seq(Commands)]
    /\ \A s \in Shards : Len(queue[s]) <= QueueCapacity
    /\ worker \in [Shards -> {"running", "clean", "failed", "panicked"}]
    /\ metric \in ShardStates
    /\ signaled \in [Shards -> BOOLEAN] /\ handle \in [Shards -> BOOLEAN]
    /\ requested \in BOOLEAN /\ joining \in BOOLEAN /\ joinerFailed \in BOOLEAN
    /\ report \in Reports
    /\ lock \in Handles \cup {Free} /\ waiting \subseteq Callers
    /\ callerPc \in [Callers -> CallerPcs]
    /\ todo \subseteq Shards
    /\ result \in [Callers -> Results]
    /\ joiner \in [pc : {"none", "take", "join", "publish"}, by : Callers \cup {Free},
                   todo : SUBSET Shards, failed : BOOLEAN, shards : {<<>>} \cup ShardStates]

NoJoiner == [pc |-> "none", by |-> Free, todo |-> {}, failed |-> FALSE, shards |-> <<>>]

CloseInit ==
    /\ queue = [s \in Shards |-> <<>>]
    /\ worker = [s \in Shards |-> "running"]
    /\ metric = [s \in Shards |-> "Running"]
    /\ signaled = [s \in Shards |-> FALSE] /\ handle = [s \in Shards |-> TRUE]
    /\ requested = FALSE /\ joining = FALSE /\ report = None /\ joinerFailed = FALSE
    /\ lock = Free /\ waiting = {}
    /\ callerPc = [c \in Callers |-> "idle"]
    /\ result = [c \in Callers |-> "none"] /\ todo = {}
    /\ joiner = NoJoiner
    /\ runs = 0 /\ panics = 0 /\ requests = 0

-----------------------------------------------------------------------------
(* Workers and the hosts that use them.                                    *)

Alive(s) == worker[s] = "running"
HasRoom(s) == Len(queue[s]) < QueueCapacity

\* LiveShardMetrics::set_state(Failed): Stopped is final.
AfterFailure(s) == [metric EXCEPT ![s] = IF @ = "Stopped" THEN @ ELSE "Failed"]

HostRun(s) ==
    /\ runs < MaxRuns /\ Alive(s) /\ HasRoom(s)
    /\ queue' = [queue EXCEPT ![s] = Append(@, "Run")]
    /\ runs' = runs + 1
    /\ UNCHANGED <<worker, metric, shared, lock, waiting, callers, joiner, panics, requests>>

\* A host call finds the worker gone, or loses patience with its answer.
HostCallFails(s) ==
    /\ ~Alive(s) \/ runs > 0
    /\ metric' = AfterFailure(s)
    /\ UNCHANGED <<queue, worker, shared, lock, waiting, callers, joiner, runs, panics, requests>>

\* The thread ends and its receiver with it.
Exit(s, how) ==
    /\ worker' = [worker EXCEPT ![s] = how]
    /\ queue' = [queue EXCEPT ![s] = <<>>]

WorkerRun(s) ==
    /\ Alive(s) /\ queue[s] # <<>> /\ Head(queue[s]) = "Run"
    /\ queue' = [queue EXCEPT ![s] = Tail(@)]
    /\ UNCHANGED <<worker, metric, shared, lock, waiting, callers, joiner, runs, panics, requests>>

WorkerPanic(s) ==
    /\ Alive(s) /\ queue[s] # <<>> /\ Head(queue[s]) = "Run"
    /\ panics < MaxPanics /\ panics' = panics + 1
    /\ Exit(s, "panicked")
    /\ UNCHANGED <<metric, shared, lock, waiting, callers, joiner, runs, requests>>

\* The worker drains and leaves its loop; the drivers may fail to shut down.
WorkerShutdown(s) ==
    /\ Alive(s) /\ queue[s] # <<>> /\ Head(queue[s]) = "Shutdown"
    /\ \E how \in {"clean", "failed"} : Exit(s, how)
    /\ UNCHANGED <<metric, shared, lock, waiting, callers, joiner, runs, panics, requests>>

-----------------------------------------------------------------------------
(* request_shutdown of a handle h.                                         *)

Return(c, r) == callerPc' = [callerPc EXCEPT ![c] = "idle"] /\ result' = [result EXCEPT ![c] = r]
MovesTo(c, l) == callerPc' = [callerPc EXCEPT ![c] = l] /\ UNCHANGED result
Unsignaled == {s \in Shards : ~signaled[s]}
requestUnchanged == <<handle, joining, report, joinerFailed, waiting, todo, joiner, runs, panics>>

RequestShutdown(h) ==
    /\ callerPc[h] = "idle" /\ lock = Free
    /\ requests < MaxRequests /\ requests' = requests + 1
    /\ IF requested THEN Return(h, "Ok") /\ UNCHANGED lock
                    ELSE lock' = h /\ MovesTo(h, "walk")
    /\ UNCHANGED <<workers, signaled, requested>> /\ UNCHANGED requestUnchanged

\* The next shard of the walk.
At(h, s) == callerPc[h] = "walk" /\ Unsignaled # {} /\ s = Min(Unsignaled)

WalkSignal(h, s) ==
    /\ At(h, s) /\ Alive(s) /\ HasRoom(s)
    /\ queue' = [queue EXCEPT ![s] = Append(@, "Shutdown")]
    /\ signaled' = [signaled EXCEPT ![s] = TRUE]
    /\ UNCHANGED <<worker, metric, requested, lock, callerPc, result, requests>> /\ UNCHANGED requestUnchanged

\* Mutant: a full queue counts as signaled, for the retry to skip.
WalkFullMut(h, s) ==
    /\ At(h, s) /\ Alive(s) /\ ~HasRoom(s)
    /\ lock' = Free /\ Return(h, "CommandFull")
    /\ signaled' = [signaled EXCEPT ![s] = TRUE]
    /\ UNCHANGED <<workers, requested, requests>> /\ UNCHANGED requestUnchanged

WalkFull(h, s) ==
    /\ At(h, s) /\ Alive(s) /\ ~HasRoom(s)
    /\ lock' = Free /\ Return(h, "CommandFull")
    /\ UNCHANGED <<workers, signaled, requested, requests>> /\ UNCHANGED requestUnchanged

WalkGone(h, s) ==
    /\ At(h, s) /\ ~Alive(s)
    /\ metric' = AfterFailure(s)
    /\ signaled' = [signaled EXCEPT ![s] = TRUE]
    /\ lock' = Free /\ Return(h, "WorkerStopped")
    /\ UNCHANGED <<queue, worker, requested, requests>> /\ UNCHANGED requestUnchanged

WalkCommit(h) ==
    /\ callerPc[h] = "walk" /\ Unsignaled = {}
    /\ requested' = TRUE
    /\ lock' = Free /\ MovesTo(h, "ensure")
    /\ UNCHANGED <<workers, signaled, requests>> /\ UNCHANGED requestUnchanged

-----------------------------------------------------------------------------
(* shutdown_blocking and the waits of the owner, in Drop and then in       *)
(* shutdown_report.                                                        *)

ownerUnchanged == <<handle, joining, report, joinerFailed, lock, waiting, result, joiner,
                    runs, panics, requests>>

OwnerDrop ==
    /\ callerPc[Owner] = "idle" /\ lock = Free
    /\ todo' = Unsignaled
    /\ callerPc' = [callerPc EXCEPT ![Owner] = "send"]
    /\ UNCHANGED <<workers, signaled, requested>> /\ UNCHANGED ownerUnchanged

\* A blocking send waits for room or for the worker to be gone.
OwnerSend ==
    /\ callerPc[Owner] = "send" /\ todo # {}
    /\ LET s == Min(todo)
       IN  /\ Alive(s) => HasRoom(s)
           /\ queue' = IF Alive(s) THEN [queue EXCEPT ![s] = Append(@, "Shutdown")] ELSE queue
    /\ callerPc' = [callerPc EXCEPT ![Owner] = "mark"]
    /\ UNCHANGED <<worker, metric, signaled, requested, todo>> /\ UNCHANGED ownerUnchanged

OwnerMark ==
    /\ callerPc[Owner] = "mark" /\ lock = Free
    /\ signaled' = [signaled EXCEPT ![Min(todo)] = TRUE]
    /\ todo' = todo \ {Min(todo)}
    /\ callerPc' = [callerPc EXCEPT ![Owner] = "send"]
    /\ UNCHANGED <<workers, requested>> /\ UNCHANGED ownerUnchanged

OwnerCommit ==
    /\ callerPc[Owner] = "send" /\ todo = {} /\ lock = Free
    /\ requested' = TRUE
    /\ callerPc' = [callerPc EXCEPT ![Owner] = "ensure"]
    /\ UNCHANGED <<workers, signaled, todo>> /\ UNCHANGED ownerUnchanged

-----------------------------------------------------------------------------
(* The joiner.                                                             *)

\* What follows ensure_joiner_started in c.
Ensured(c) == IF c = Owner THEN MovesTo(c, "wait") ELSE Return(c, "Ok")

MayStart == ~joining /\ report = None /\ Unsignaled = {} /\ \E s \in Shards : handle[s]
ensureUnchanged == <<workers, signaled, handle, requested, report, joinerFailed, lock, waiting,
                     todo, runs, panics, requests>>

NotStarted(c) ==
    /\ callerPc[c] = "ensure" /\ lock = Free /\ ~MayStart
    /\ Ensured(c)
    /\ UNCHANGED <<joining, joiner>> /\ UNCHANGED ensureUnchanged

Spawned(c) ==
    /\ callerPc[c] = "ensure" /\ lock = Free /\ MayStart
    /\ joining' = TRUE
    /\ joiner' = [NoJoiner EXCEPT !.pc = "take"]
    /\ Ensured(c)
    /\ UNCHANGED ensureUnchanged

\* The thread cannot be spawned: c joins inline.
SpawnFailed(c) ==
    /\ callerPc[c] = "ensure" /\ lock = Free /\ MayStart
    /\ joining' = TRUE
    /\ joiner' = [NoJoiner EXCEPT !.pc = "take", !.by = c]
    /\ MovesTo(c, "inline")
    /\ UNCHANGED ensureUnchanged

joinUnchanged == <<queue, worker, signaled, requested, lock, todo, runs, requests>>

JoinerTakes ==
    /\ joiner.pc = "take" /\ lock = Free
    /\ joiner' = [joiner EXCEPT !.pc = "join", !.todo = {s \in Shards : handle[s]}]
    /\ handle' = [s \in Shards |-> FALSE]
    /\ UNCHANGED <<metric, joining, report, joinerFailed, waiting, callerPc, result, panics>>
    /\ UNCHANGED joinUnchanged

\* The state a joined worker is left in.
Joined(s) == IF worker[s] = "clean" THEN [metric EXCEPT ![s] = "Stopped"] ELSE AfterFailure(s)

JoinerJoins ==
    /\ joiner.pc = "join" /\ joiner.todo # {}
    /\ LET s == Min(joiner.todo)
       IN  /\ ~Alive(s)
           /\ metric' = Joined(s)
           /\ joiner' = [joiner EXCEPT !.todo = @ \ {s}, !.failed = @ \/ worker[s] # "clean"]
    /\ UNCHANGED <<handle, joining, report, joinerFailed, waiting, callerPc, result, panics>>
    /\ UNCHANGED joinUnchanged

JoinerReads ==
    /\ joiner.pc = "join" /\ joiner.todo = {} /\ lock = Free
    /\ joiner' = [joiner EXCEPT !.pc = "publish", !.shards = metric]
    /\ UNCHANGED <<metric, handle, joining, report, joinerFailed, waiting, callerPc, result, panics>>
    /\ UNCHANGED joinUnchanged

\* The joiner ends; if it ran inline, its caller goes on.
JoinerEnds ==
    /\ joiner' = NoJoiner
    /\ joining' = FALSE
    /\ IF joiner.by = Free THEN UNCHANGED <<callerPc, result>> ELSE Ensured(joiner.by)

\* Mutant: nobody is notified.
JoinerPublishesMut ==
    /\ joiner.pc = "publish" /\ lock = Free
    /\ report' = [state |-> IF joiner.failed THEN "Failed" ELSE "Closed", shards |-> joiner.shards]
    /\ JoinerEnds
    /\ UNCHANGED <<metric, handle, joinerFailed, waiting, panics>> /\ UNCHANGED joinUnchanged

JoinerPublishes ==
    /\ joiner.pc = "publish" /\ lock = Free
    /\ report' = [state |-> IF joiner.failed THEN "Failed" ELSE "Closed", shards |-> joiner.shards]
    /\ waiting' = {}
    /\ JoinerEnds
    /\ UNCHANGED <<metric, handle, joinerFailed, panics>> /\ UNCHANGED joinUnchanged

\* Dropping the payload of a panicked worker panics in the joiner; joiner_main
\* catches it.  (The two critical steps are one: nothing can come between.)
JoinerPanics ==
    /\ joiner.pc = "join" /\ joiner.todo # {} /\ lock = Free
    /\ worker[Min(joiner.todo)] = "panicked"
    /\ panics < MaxPanics /\ panics' = panics + 1
    /\ metric' = Joined(Min(joiner.todo))
    /\ joinerFailed' = TRUE
    /\ waiting' = {}
    /\ JoinerEnds
    /\ UNCHANGED <<handle, report>> /\ UNCHANGED joinUnchanged

-----------------------------------------------------------------------------
(* Waiting for the report.                                                 *)

Answered == report # None \/ joinerFailed
Answer == IF report # None THEN "Report" ELSE "JoinerFailed"
waitUnchanged == <<workers, shared, lock, todo, joiner, runs, panics, requests>>

WaitReport(h) ==
    /\ callerPc[h] = "idle" /\ lock = Free
    /\ IF Answered THEN Return(h, Answer) /\ UNCHANGED waiting
                   ELSE MovesTo(h, "wait") /\ waiting' = waiting \cup {h}
    /\ UNCHANGED waitUnchanged

\* A notified thread, or one that is about to wait, looks at the state.
Wake(c) ==
    /\ callerPc[c] \in {"wait", "blocking"} /\ c \notin waiting /\ lock = Free
    /\ IF ~Answered THEN MovesTo(c, callerPc[c]) /\ waiting' = waiting \cup {c}
       ELSE /\ UNCHANGED waiting
            /\ IF c \in Handles THEN Return(c, Answer)
               ELSE /\ callerPc' = [callerPc EXCEPT ![c] = "done"]
                    /\ result' = [result EXCEPT ![c] = Answer]
    /\ UNCHANGED waitUnchanged

\* A timed wait ends; the owner's shutdown_report then waits without a limit.
WaitTimeout(c) ==
    /\ callerPc[c] = "wait" /\ c \in waiting /\ lock = Free
    /\ waiting' = waiting \ {c}
    /\ IF c \in Handles THEN Return(c, IF Answered THEN Answer ELSE "Timeout")
                        ELSE MovesTo(c, "blocking")
    /\ UNCHANGED waitUnchanged

-----------------------------------------------------------------------------
Worker(s) == WorkerRun(s) \/ WorkerPanic(s) \/ WorkerShutdown(s)
Request(h) == WalkCommit(h) \/ \E s \in Shards : WalkSignal(h, s) \/ WalkFull(h, s) \/ WalkGone(h, s)
EnsureJoiner(c) == NotStarted(c) \/ Spawned(c) \/ SpawnFailed(c)
Joiner == JoinerTakes \/ JoinerJoins \/ JoinerReads \/ JoinerPublishes \/ JoinerPanics
OwnerStops == OwnerSend \/ OwnerMark \/ OwnerCommit

CloseNext ==
    \/ \E s \in Shards : HostRun(s) \/ HostCallFails(s) \/ Worker(s)
    \/ \E h \in Handles : RequestShutdown(h) \/ Request(h) \/ WaitReport(h)
    \/ \E c \in Callers : EnsureJoiner(c) \/ Wake(c) \/ WaitTimeout(c)
    \/ OwnerDrop \/ OwnerStops
    \/ Joiner

\* Threads that are not blocked run on; nobody is obliged to ask, to drop the
\* runtime or to lose patience.
CloseFairness ==
    /\ \A s \in Shards : WF_closeVars(Worker(s))
    /\ \A h \in Handles : WF_closeVars(Request(h))
    /\ \A c \in Callers : WF_closeVars(EnsureJoiner(c)) /\ WF_closeVars(Wake(c))
    /\ WF_closeVars(OwnerStops)
    /\ WF_closeVars(Joiner)

CloseSpec == CloseInit /\ [][CloseNext]_closeVars
FairCloseSpec == CloseSpec /\ CloseFairness

-----------------------------------------------------------------------------
(* Properties.                                                             *)

\* A shard marked signaled will stop: its queue holds a Shutdown or its worker
\* is gone.  request_shutdown skips it on every retry and the joiner blocks on
\* it, so a wrong mark hangs every waiter.
SignaledWillStop ==
    \A s \in Shards : signaled[s] => (~Alive(s) \/ "Shutdown" \in ToSet(queue[s]))

\* A request is committed, and a joiner at work, only when every shard is signaled.
CommittedIsComplete ==
    (requested \/ joining \/ joiner.pc # "none" \/ report # None) => Unsignaled = {}

\* The cached report is terminal truth: every worker has ended, it says Closed
\* exactly if all ended cleanly, and its topology shows Stopped for those that
\* did, whatever host calls saw of the dying workers.
ReportTruth ==
    report # None =>
        /\ \A s \in Shards : ~Alive(s)
        /\ report.state = "Closed" <=> \A s \in Shards : worker[s] = "clean"
        /\ \A s \in Shards : report.shards[s] = IF worker[s] = "clean" THEN "Stopped" ELSE "Failed"

\* Waiters never get two different truths: after a joiner failed no report is
\* cached, so nobody is told Report after another was told the joiner failed.
OneTruth == ~(joinerFailed /\ report # None)

\* shutdown_report of the owner returns, although the queues were full, the
\* joiner could not be spawned, panicked, or finished before the owner waited.
OwnerReturns == callerPc[Owner] # "idle" ~> callerPc[Owner] = "done"

\* When a request_shutdown has returned Ok an answer comes, although nobody
\* drops the runtime.
OkIsAnswered == \A h \in Handles : result[h] = "Ok" ~> Answered

\* An answer reaches every handle that waits for it, without its timeout.
WaitersWake == \A h \in Handles : h \in waiting /\ Answered ~> h \notin waiting

\* The shutdown state, from the first mark to the cached report, is true.
ShutdownSound == CloseTypeOK /\ SignaledWillStop /\ CommittedIsComplete /\ ReportTruth /\ OneTruth

\* Nobody waits for ever for a shutdown that was asked for.
ShutdownAnswers == OwnerReturns /\ OkIsAnswered /\ WaitersWake
=============================================================================
