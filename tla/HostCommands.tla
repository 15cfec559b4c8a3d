---------------------------- MODULE HostCommands ----------------------------
(***************************************************************************)
(* Host threads and one worker of the threaded runtime (tina-runtime,      *)
(* threaded.rs).  A host hands a command to the worker through a bounded   *)
(* queue.  Four operations differ in how they learn what became of it:     *)
(*   "until"    send_observed_until: waits up to a deadline, and retries   *)
(*   "observer" try_send_and_observe_with: a callback, no waiting          *)
(*   "strict"   send_and_observe: waits without a bound                    *)
(*   "control"  call_with_input: waits up to control_call_timeout          *)
(* The worker may stop, or panic while it runs a command, at any time; the *)
(* commands still queued are then dropped one by one.                      *)
(***************************************************************************)
EXTENDS Integers, Sequences

CONSTANTS
    Hosts,
    Mixes,        \* what the hosts may be about, each one operation
    QueueCap,     \* command_capacity
    MailboxCap,   \* capacity of the target's mailbox
    MaxAttempts   \* bound: retries of send_observed_until

Operations == {"until", "observer", "strict", "control"}

\* What the code asks of the constants.
HostsAssumption ==
    /\ Mixes \subseteq [Hosts -> Operations]
    /\ QueueCap \in Nat \ {0} /\ MailboxCap \in Nat \ {0}
    /\ MaxAttempts \in Nat \ {0}

VARIABLES
    op,         \* the operation of each host
    hostPc,     \* where each host is
    hostResult, \* what the host was told: "none" while it has not returned
    expired,    \* the host's deadline has passed
    attempt,    \* attempts send_observed_until made
    claim,      \* DeadlineObservedState of the present attempt
    reply,      \* the reply channel: a value, "open", or "hungup"
    observed,   \* what the observer was called with, in order
    commands,   \* the command queue
    hostWorker, \* "running", "unwinding" (a panic), "stopping" (queue being dropped), "gone"
    running,    \* the command in the worker's hands, as a sequence of length 0 or 1
    claimLock,  \* hosts whose claim the worker holds locked
    shard,      \* LiveShardState in the metrics
    joined,     \* the joiner has merged the worker's exit
    panicked,   \* the worker panicked
    mailbox,    \* messages in the target's mailbox
    open,       \* the target takes messages
    delivered,  \* ghost: how often a message of the host entered the mailbox
    ran         \* ghost: how often a control command of the host ran

hostVars == <<hostPc, hostResult, expired, attempt>>
answerVars == <<claim, reply, observed>>
workerVars == <<commands, hostWorker, running, claimLock>>
exitVars == <<shard, joined, panicked>>
targetVars == <<mailbox, open, delivered, ran>>
sendVars == <<op, hostVars, answerVars, workerVars, exitVars, targetVars>>

Outcomes == {"ok", "mailbox_full", "mailbox_closed", "worker_stopped"}

Until == {h \in Hosts : op[h] = "until"}
Observer == {h \in Hosts : op[h] = "observer"}
Strict == {h \in Hosts : op[h] = "strict"}
Control == {h \in Hosts : op[h] = "control"}

HostInit ==
    /\ op \in Mixes
    /\ hostPc = [h \in Hosts |-> "start"]
    /\ hostResult = [h \in Hosts |-> "none"]
    /\ expired = [h \in Hosts |-> FALSE]
    /\ attempt = [h \in Hosts |-> 0]
    /\ claim = [h \in Hosts |-> "pending"]
    /\ reply = [h \in Hosts |-> "open"]
    /\ observed = [h \in Hosts |-> <<>>]
    /\ commands = <<>>
    /\ hostWorker = "running"
    /\ running = <<>>
    /\ claimLock = {}
    /\ shard = "running"
    /\ joined = FALSE
    /\ panicked = FALSE
    /\ mailbox = 0
    /\ open = TRUE
    /\ delivered = [h \in Hosts |-> 0]
    /\ ran = [h \in Hosts |-> 0]

-----------------------------------------------------------------------------
(* The command queue: a bounded channel whose receiver is the worker.      *)

Disconnected == hostWorker \in {"stopping", "gone"}
QueueFull == Len(commands) >= QueueCap

Accepts == ~Disconnected /\ ~QueueFull

Failed == shard = "failed"

\* set_state(Failed): a clean exit that was joined is final.
SetFailed == shard' = IF shard = "stopped" THEN shard ELSE "failed"

HostReturns(h, r) ==
    /\ hostPc' = [hostPc EXCEPT ![h] = "done"]
    /\ hostResult' = [hostResult EXCEPT ![h] = r]

Enqueue(h) == commands' = Append(commands, h)

\* The deadline passes, or the bounded wait runs out.
Expire(h) ==
    /\ h \in Until \cup Control
    /\ ~expired[h]
    /\ expired' = [expired EXCEPT ![h] = TRUE]
    /\ UNCHANGED <<answerVars, workerVars, exitVars, targetVars, hostPc, hostResult,
                   attempt>>

-----------------------------------------------------------------------------
(* send_observed_until.                                                    *)

\* The checks at the head of the loop, and a fresh attempt.
UntilTop(h) ==
    /\ h \in Until
    /\ hostPc[h] = "start"
    /\ \/ /\ expired[h]
          /\ HostReturns(h, "timeout")
          /\ UNCHANGED <<attempt, claim, reply>>
       \/ /\ ~expired[h]
          /\ Failed
          /\ HostReturns(h, "worker_stopped")
          /\ UNCHANGED <<attempt, claim, reply>>
       \/ /\ ~expired[h]
          /\ ~Failed
          /\ attempt[h] < MaxAttempts
          /\ hostPc' = [hostPc EXCEPT ![h] = "made"]
          /\ attempt' = [attempt EXCEPT ![h] = @ + 1]
          /\ claim' = [claim EXCEPT ![h] = "pending"]
          /\ reply' = [reply EXCEPT ![h] = "open"]
          /\ UNCHANGED hostResult
    /\ UNCHANGED <<workerVars, exitVars, targetVars, expired, observed>>

\* The deadline is checked again once the message is made; a command that is
\* refused is disarmed, so that dropping it reports nothing.
UntilOffer(h) ==
    /\ h \in Until
    /\ hostPc[h] = "made"
    /\ \/ /\ expired[h]
          /\ HostReturns(h, "timeout")
          /\ UNCHANGED <<commands, shard>>
       \/ /\ ~expired[h]
          /\ Accepts
          /\ Enqueue(h)
          /\ hostPc' = [hostPc EXCEPT ![h] = "waiting"]
          /\ UNCHANGED <<hostResult, shard>>
       \/ /\ ~expired[h]
          /\ ~Disconnected /\ QueueFull
          /\ hostPc' = [hostPc EXCEPT ![h] = "backoff"]
          /\ UNCHANGED <<hostResult, commands, shard>>
       \/ /\ ~expired[h]
          /\ Disconnected
          /\ SetFailed
          /\ HostReturns(h, "worker_stopped")
          /\ UNCHANGED commands
    /\ UNCHANGED <<answerVars, targetVars, expired, attempt, hostWorker, running, claimLock,
                   joined, panicked>>

\* What the loop does with the outcome of an attempt.
Settle(h, outcome) ==
    \/ outcome = "ok" /\ HostReturns(h, "ok")
    \/ /\ outcome = "mailbox_full"
       /\ hostPc' = [hostPc EXCEPT ![h] = "backoff"]
       /\ UNCHANGED hostResult
    \/ outcome = "mailbox_closed" /\ HostReturns(h, "closed")
    \/ outcome = "worker_stopped" /\ HostReturns(h, "worker_stopped")

\* wait_until hears from the worker: an outcome, or the sender hung up.
UntilReply(h) ==
    /\ h \in Until
    /\ hostPc[h] = "waiting"
    /\ \/ reply[h] \in Outcomes /\ Settle(h, reply[h]) /\ UNCHANGED shard
       \/ reply[h] = "hungup" /\ HostReturns(h, "worker_stopped") /\ SetFailed
    /\ UNCHANGED <<answerVars, workerVars, targetVars, expired, attempt, joined, panicked>>

\* recv_timeout runs out with nothing in the channel.
UntilTimedOut(h) ==
    /\ h \in Until
    /\ hostPc[h] = "waiting"
    /\ expired[h]
    /\ reply[h] = "open"
    /\ hostPc' = [hostPc EXCEPT ![h] = "deciding"]
    /\ UNCHANGED <<answerVars, workerVars, exitVars, targetVars, hostResult, expired,
                   attempt>>

\* Mutant: the wait ends without cancelling the attempt.
CancelNothing(h) == HostReturns(h, "timeout") /\ UNCHANGED claim

\* A pending attempt is cancelled, one the worker completed keeps its outcome.
Cancel(h) ==
    IF claim[h] \in Outcomes
    THEN Settle(h, claim[h]) /\ UNCHANGED claim
    ELSE HostReturns(h, "timeout") /\ claim' = [claim EXCEPT ![h] = "cancelled"]

\* ... which is decided under the lock the worker takes to run the attempt.
UntilDecide(h) ==
    /\ h \in Until
    /\ hostPc[h] = "deciding"
    /\ h \notin claimLock
    /\ Cancel(h)
    /\ UNCHANGED <<workerVars, exitVars, targetVars, expired, attempt, reply, observed>>

\* Full mailbox or queue: once more, unless the deadline has passed.
UntilBackoff(h) ==
    /\ h \in Until
    /\ hostPc[h] = "backoff"
    /\ IF expired[h]
       THEN HostReturns(h, "timeout")
       ELSE hostPc' = [hostPc EXCEPT ![h] = "start"] /\ UNCHANGED hostResult
    /\ UNCHANGED <<answerVars, workerVars, exitVars, targetVars, expired, attempt>>

-----------------------------------------------------------------------------
(* The three other operations.                                             *)

\* try_send_and_observe_with_preflight.
ObserverOffer(h) ==
    /\ h \in Observer
    /\ hostPc[h] = "start"
    /\ \/ Failed /\ HostReturns(h, "worker_stopped") /\ UNCHANGED <<commands, shard>>
       \/ ~Failed /\ Accepts /\ Enqueue(h) /\ HostReturns(h, "accepted") /\ UNCHANGED shard
       \/ ~Failed /\ ~Disconnected /\ QueueFull /\ HostReturns(h, "ingress_full")
             /\ UNCHANGED <<commands, shard>>
       \/ ~Failed /\ Disconnected /\ HostReturns(h, "worker_stopped") /\ SetFailed
             /\ UNCHANGED commands
    /\ UNCHANGED <<answerVars, targetVars, expired, attempt, hostWorker, running, claimLock,
                   joined, panicked>>

\* send_and_observe and call_with_input hand over a plain command.
PlainOffer(h) ==
    /\ h \in Strict \cup Control
    /\ hostPc[h] = "start"
    /\ \/ Accepts /\ Enqueue(h) /\ hostPc' = [hostPc EXCEPT ![h] = "waiting"]
             /\ UNCHANGED <<hostResult, shard>>
       \/ ~Disconnected /\ QueueFull /\ HostReturns(h, "ingress_full")
             /\ UNCHANGED <<commands, shard>>
       \/ Disconnected /\ HostReturns(h, "worker_stopped") /\ SetFailed /\ UNCHANGED commands
    /\ UNCHANGED <<answerVars, targetVars, expired, attempt, hostWorker, running, claimLock,
                   joined, panicked>>

StrictReply(h) ==
    /\ h \in Strict
    /\ hostPc[h] = "waiting"
    /\ reply[h] # "open"
    /\ HostReturns(h, IF reply[h] = "hungup" THEN "worker_stopped" ELSE reply[h])
    /\ UNCHANGED <<answerVars, workerVars, exitVars, targetVars, expired, attempt>>

\* A control call that is not answered in time also marks the worker failed.
ControlReply(h) ==
    /\ h \in Control
    /\ hostPc[h] = "waiting"
    /\ \/ reply[h] \in Outcomes /\ HostReturns(h, "ok") /\ UNCHANGED shard
       \/ reply[h] = "hungup" /\ HostReturns(h, "worker_stopped") /\ SetFailed
       \/ reply[h] = "open" /\ expired[h] /\ HostReturns(h, "unresponsive") /\ SetFailed
    /\ UNCHANGED <<answerVars, workerVars, targetVars, expired, attempt, joined, panicked>>

-----------------------------------------------------------------------------
(* The worker.                                                             *)

Take ==
    /\ hostWorker = "running"
    /\ running = <<>>
    /\ commands # <<>>
    /\ running' = <<Head(commands)>>
    /\ commands' = Tail(commands)
    /\ UNCHANGED <<hostVars, answerVars, exitVars, targetVars, hostWorker, claimLock>>

\* Runtime::try_send on the target.
MailboxOutcome ==
    IF ~open THEN "mailbox_closed"
    ELSE IF mailbox >= MailboxCap THEN "mailbox_full" ELSE "ok"

TrySend(h) ==
    /\ mailbox' = IF MailboxOutcome = "ok" THEN mailbox + 1 ELSE mailbox
    /\ delivered' = [delivered EXCEPT ![h] = IF MailboxOutcome = "ok" THEN @ + 1 ELSE @]

\* DeadlineObservedCommand::run takes the lock of its claim.
ClaimLock(h) ==
    /\ running = <<h>>
    /\ h \in Until
    /\ h \notin claimLock
    /\ hostWorker = "running"
    /\ claimLock' = claimLock \cup {h}
    /\ UNCHANGED <<hostVars, answerVars, exitVars, targetVars, commands, hostWorker,
                   running>>

\* A cancelled attempt is dropped; otherwise the mailbox decides.
ClaimRun(h) ==
    IF claim[h] = "cancelled"
    THEN UNCHANGED <<claim, mailbox, delivered>>
    ELSE /\ TrySend(h)
         /\ claim' = [claim EXCEPT ![h] = MailboxOutcome]

RunClaimed(h) ==
    /\ running = <<h>>
    /\ h \in claimLock
    /\ claim[h] \in {"pending", "cancelled"}
    /\ hostWorker = "running"
    /\ ClaimRun(h)
    /\ IF claim[h] = "cancelled"
       THEN /\ running' = <<>>
            /\ claimLock' = claimLock \ {h}
            /\ reply' = [reply EXCEPT ![h] = "hungup"]
       ELSE UNCHANGED <<running, claimLock, reply>>
    /\ UNCHANGED <<hostVars, exitVars, observed, commands, hostWorker, open, ran>>

\* The reply is sent and the lock released when run returns.
ReplyClaimed(h) ==
    /\ running = <<h>>
    /\ h \in claimLock
    /\ claim[h] \in Outcomes
    /\ reply' = [reply EXCEPT ![h] = claim[h]]
    /\ claimLock' = claimLock \ {h}
    /\ running' = <<>>
    /\ UNCHANGED <<hostVars, exitVars, targetVars, claim, observed, commands, hostWorker>>

\* SendObservedCommand::run: the preflight may refuse, else the mailbox decides.
ObserverRun(h) ==
    \/ /\ observed' = [observed EXCEPT ![h] = Append(@, "refused")]
       /\ UNCHANGED <<mailbox, delivered>>
    \/ /\ TrySend(h)
       /\ observed' = [observed EXCEPT ![h] = Append(@, MailboxOutcome)]

\* Commands that run in one go.
RunPlain(h) ==
    /\ running = <<h>>
    /\ hostWorker = "running"
    /\ \/ /\ h \in Observer
          /\ ObserverRun(h)
          /\ UNCHANGED <<reply, ran>>
       \/ /\ h \in Strict
          /\ TrySend(h)
          /\ reply' = [reply EXCEPT ![h] = MailboxOutcome]
          /\ UNCHANGED <<observed, ran>>
       \/ /\ h \in Control
          /\ ran' = [ran EXCEPT ![h] = @ + 1]
          /\ reply' = [reply EXCEPT ![h] = "ok"]
          /\ UNCHANGED <<mailbox, delivered, observed>>
    /\ running' = <<>>
    /\ UNCHANGED <<hostVars, exitVars, claim, commands, hostWorker, claimLock, open>>

\* Mutant: dropping a command tells nobody.
DropCommandSilently(h) ==
    UNCHANGED answerVars

\* Drop of a command that was never run: an armed observer is called, a pending
\* claim is completed and answered; other reply channels hang up.
DropCommand(h) ==
    \/ /\ h \in Observer
       /\ observed' = [observed EXCEPT ![h] = Append(@, "worker_stopped")]
       /\ UNCHANGED <<claim, reply>>
    \/ /\ h \in Until
       /\ claim[h] = "pending"
       /\ claim' = [claim EXCEPT ![h] = "worker_stopped"]
       /\ reply' = [reply EXCEPT ![h] = "worker_stopped"]
       /\ UNCHANGED observed
    \/ /\ h \in Strict \cup Control \/ (h \in Until /\ claim[h] # "pending")
       /\ reply' = [reply EXCEPT ![h] = "hungup"]
       /\ UNCHANGED <<claim, observed>>

\* A panic in the mailbox or in a command: the unwinding drops the command it
\* was running, while the queue still takes commands.  A deadline command is disarmed as it starts to run, so its host
\* sees the channel hang up; an observer is called as for a dropped command.
Panic(h) ==
    /\ running = <<h>>
    /\ hostWorker = "running"
    /\ h \in Until => h \in claimLock /\ claim[h] = "pending"
    /\ hostWorker' = "unwinding"
    /\ panicked' = TRUE
    /\ running' = <<>>
    /\ claimLock' = claimLock \ {h}
    /\ IF h \in Until
       THEN reply' = [reply EXCEPT ![h] = "hungup"] /\ UNCHANGED <<claim, observed>>
       ELSE DropCommand(h)
    /\ UNCHANGED <<hostVars, targetVars, commands, shard, joined>>

\* A panic with no command running: in a step of the runtime.
PanicIdle ==
    /\ hostWorker = "running"
    /\ running = <<>>
    /\ hostWorker' = "unwinding"
    /\ panicked' = TRUE
    /\ UNCHANGED <<hostVars, answerVars, targetVars, commands, running, claimLock, shard, joined>>

\* The unwinding comes to the receiver, which disconnects.
Unwound ==
    /\ hostWorker = "unwinding"
    /\ hostWorker' = "stopping"
    /\ UNCHANGED <<hostVars, answerVars, exitVars, targetVars, commands, running, claimLock>>

\* The worker leaves its loop: the receiver disconnects.
Stop ==
    /\ hostWorker = "running"
    /\ running = <<>>
    /\ hostWorker' = "stopping"
    /\ UNCHANGED <<hostVars, answerVars, exitVars, targetVars, commands, running, claimLock>>

\* The receiver drops what is queued; a claim's lock is taken for it.
DropQueued ==
    /\ hostWorker = "stopping"
    /\ commands # <<>>
    /\ Head(commands) \notin claimLock
    /\ DropCommand(Head(commands))
    /\ commands' = Tail(commands)
    /\ UNCHANGED <<hostVars, exitVars, targetVars, hostWorker, running, claimLock>>

Gone ==
    /\ hostWorker = "stopping"
    /\ commands = <<>>
    /\ hostWorker' = "gone"
    /\ UNCHANGED <<hostVars, answerVars, exitVars, targetVars, commands, running, claimLock>>

\* The joiner of shutdown.rs merges the exit into the metrics.
Join ==
    /\ hostWorker = "gone"
    /\ ~joined
    /\ joined' = TRUE
    /\ IF panicked THEN SetFailed ELSE shard' = "stopped"
    /\ UNCHANGED <<hostVars, answerVars, workerVars, targetVars, panicked>>

\* The target takes a message; it stops.
Consume ==
    /\ hostWorker = "running" /\ running = <<>>
    /\ mailbox > 0
    /\ mailbox' = mailbox - 1
    /\ UNCHANGED <<hostVars, answerVars, workerVars, exitVars, open, delivered, ran>>

TargetStops ==
    /\ hostWorker = "running" /\ running = <<>>
    /\ open
    /\ open' = FALSE
    /\ mailbox' = 0
    /\ UNCHANGED <<hostVars, answerVars, workerVars, exitVars, delivered, ran>>

HostStep(h) ==
    \/ UntilTop(h) \/ UntilOffer(h) \/ UntilReply(h)
    \/ UntilTimedOut(h) \/ UntilDecide(h) \/ UntilBackoff(h)
    \/ ObserverOffer(h) \/ PlainOffer(h) \/ StrictReply(h) \/ ControlReply(h)

WorkerStep ==
    \/ Take
    \/ \E h \in Hosts : ClaimLock(h) \/ RunClaimed(h) \/ ReplyClaimed(h) \/ RunPlain(h)
    \/ Unwound \/ DropQueued \/ Gone

HostNext ==
    /\ \/ \E h \in Hosts : HostStep(h) \/ Expire(h) \/ Panic(h)
       \/ WorkerStep
       \/ Stop \/ PanicIdle \/ Join \/ Consume \/ TargetStops
    /\ UNCHANGED op

HostSpec == HostInit /\ [][HostNext]_sendVars

\* What happens in the end: threads are scheduled, handlers and observers
\* return, deadlines pass.
ThreadStep == WorkerStep \/ \E h \in Hosts : HostStep(h) \/ Expire(h)

-----------------------------------------------------------------------------
(* Properties.                                                             *)

HostPcs == {"start", "made", "waiting", "deciding", "backoff", "done"}
Claims == {"pending", "cancelled"} \cup Outcomes
ReplyStates == {"open", "hungup"} \cup Outcomes
SendResults == {"none", "accepted", "timeout", "closed", "ingress_full", "unresponsive"}
               \cup Outcomes

\* The variables have the types of the code's fields, and the bounded queues
\* their bounds.
HostTypeOK ==
    /\ op \in [Hosts -> Operations]
    /\ hostPc \in [Hosts -> HostPcs]
    /\ hostResult \in [Hosts -> SendResults]
    /\ expired \in [Hosts -> BOOLEAN]
    /\ attempt \in [Hosts -> 0 .. MaxAttempts]
    /\ claim \in [Hosts -> Claims]
    /\ reply \in [Hosts -> ReplyStates]
    /\ observed \in [Hosts -> Seq(Outcomes \cup {"refused"})]
    /\ commands \in Seq(Hosts) /\ Len(commands) <= QueueCap
    /\ hostWorker \in {"running", "unwinding", "stopping", "gone"}
    /\ running \in {<<>>} \cup {<<h>> : h \in Hosts}
    /\ claimLock \subseteq Until
    /\ shard \in {"running", "stopped", "failed"}
    /\ joined \in BOOLEAN /\ panicked \in BOOLEAN
    /\ mailbox \in 0 .. MailboxCap
    /\ open \in BOOLEAN
    /\ delivered \in [Hosts -> Nat] /\ ran \in [Hosts -> Nat]

\* A host that waits is told the truth: its message entered the mailbox exactly
\* once if it got Ok, and never, now or later, if it got anything else.  This is
\* the "Timeout is unambiguous" of send_observed_until, over all its retries.
DeliveredIffOk ==
    \A h \in Until \cup Strict :
        /\ delivered[h] <= 1
        /\ hostPc[h] = "done" => (delivered[h] = 1 <=> hostResult[h] = "ok")

\* An observer is called at most once, never for a command that was refused at
\* the queue, and with Ok exactly if the message was delivered.
ObserverTruth ==
    \A h \in Observer :
        /\ Len(observed[h]) <= 1
        /\ observed[h] # <<>> => hostResult[h] = "accepted"
        /\ delivered[h] = 1 <=> observed[h] = <<"ok">>

\* A clean exit stays on record once it was joined, although calls that race it
\* see hung up channels and report a failure (LiveShardMetrics::set_state).
CleanExitStands == joined /\ ~panicked => shard = "stopped"

\* send_observed_until documents WorkerStopped as "worker thread is gone".
StoppedMeansGone ==
    \A h \in Until : hostResult[h] = "worker_stopped" => hostWorker # "running"

\* Every host thread gets its answer, whatever becomes of the worker, and the
\* observer of every accepted command is called, by the worker or by the drop of
\* the queue.  Scheduled threads and passing deadlines take only finitely many
\* steps, so it says where they may come to rest: only when all have returned.
HostsReturn ==
    \/ ENABLED ThreadStep
    \/ \A h \in Hosts : /\ hostPc[h] = "done"
                       /\ h \in Observer /\ hostResult[h] = "accepted" => observed[h] # <<>>

\* What hosts, observers and the metrics are told of a command is what became
\* of it.
SendsTruth == HostTypeOK /\ DeliveredIffOk /\ ObserverTruth /\ CleanExitStands
=============================================================================
