----------------------------- MODULE Supervision -----------------------------
(***************************************************************************)
(* Supervised restarts on one shard: supervise, the failure of a child,    *)
(* the restart policy and its budget, RestartChildren and StopChildren     *)
(* (tina-runtime/src/dispatch.rs, registration.rs; tina/src/isolate.rs).   *)
(*                                                                         *)
(* One isolate is the parent.  Its children have records, in the order in  *)
(* which they were started; an incarnation of a child is a number.  The    *)
(* shard also hosts children of an owner on another shard.  Isolate ids    *)
(* are counted by each shard for itself, and that owner happens to have    *)
(* the parent's id.                                                        *)
(*                                                                         *)
(* A child whose result the parent observes holds a reserved slot of the   *)
(* parent's mailbox.                                                       *)
(***************************************************************************)
EXTENDS Integers, Sequences, SequencesExt, FiniteSets

CONSTANTS
    Configs,       \* [policy, max, period]; period 0 is a lifetime budget
    Early,         \* is the parent supervised before its first child starts
    Slots,         \* capacity of the parent's mailbox
    MaxIds,        \* incarnations in a run
    MaxRecords,    \* records at a time
    MaxHosted,     \* records of the other shard's owner
    MaxTime

Policies == {"OneForOne", "OneForAll", "RestForOne"}

\* What the code asks of the constants.
SupervisionAssumption ==
    /\ \A cfg \in Configs : cfg.policy \in Policies /\ cfg.max \in Nat /\ cfg.period \in Nat
    /\ Early \in BOOLEAN
    /\ Slots \in Nat \ {0}

VARIABLES
    running,       \* has the parent not stopped
    sup,           \* the SupervisorRecord: [config, used, started], or None
    now,
    kin,           \* [records, queued, reserved, live, next]; see below
    triggers,      \* when restarts were triggered since the last supervise
    blame          \* [at, panics]: the record whose failure the last step answered,
                   \* and the factories that panicked then; at is 0 for other steps

\* kin.records is child_records; queued and reserved are the parent's mailbox;
\* live are the incarnations that run; next is the next one's number.
vars == <<running, sup, now, kin, triggers, blame>>

Nobody == [at |-> 0, panics |-> {}]
None == [config |-> "none"]
Supervised == sup # None

\* A record's previous_child only rejects what comes late and is left out.
Records ==
    [child : 1 .. MaxIds, ord : Nat, recipe : BOOLEAN, observed : BOOLEAN,
     reserved : BOOLEAN, settled : BOOLEAN, remote : BOOLEAN]

TypeOK ==
    /\ running \in BOOLEAN
    /\ Supervised => sup.used \in 0 .. sup.config.max /\ sup.started \in -1 .. now
    /\ \A i \in DOMAIN kin.records : kin.records[i] \in Records
    /\ kin.queued >= 0 /\ kin.reserved >= 0 /\ kin.queued + kin.reserved <= Slots
    /\ \A c \in kin.live : c < kin.next

----------------------------------------------------------------------------
(* The end of an incarnation.                                              *)

RecordOf(k, c) == SelectInSeq(k.records, LAMBDA rec : rec.child = c /\ ~rec.remote)

Release(k) == [k EXCEPT !.reserved = @ - 1]

\* settle_child_terminal_observation.  heard: there is a result and the mapper
\* takes it.
Settle(k, c, heard) ==
    LET i == RecordOf(k, c)
    IN  IF i = 0 \/ ~k.records[i].observed \/ k.records[i].settled
          THEN k
          ELSE LET done == [k EXCEPT !.records[i].settled = TRUE, !.records[i].reserved = FALSE]
               IN  IF heard /\ running THEN [Release(done) EXCEPT !.queued = @ + 1]
                   ELSE Release(done)

\* prune_terminal_child_records
Prune(k, c) ==
    [k EXCEPT !.records =
       SelectSeq(@, LAMBDA rec : rec.child # c \/ rec.recipe \/ Supervised)]

\* stop_entry_full; nothing happens to one that has stopped already.
StopEntry(k, c, heard) ==
    IF c \notin k.live THEN k
    ELSE Prune(Settle([k EXCEPT !.live = @ \ {c}], c, heard), c)

----------------------------------------------------------------------------
(* Restarts.                                                               *)

Full(k) == k.queued + k.reserved = Slots

\* deliver_observed_continuation: a full mailbox sends it to the overflow lane.
Tell(k) == IF Full(k) THEN k ELSE [k EXCEPT !.queued = @ + 1]

\* restart_child_record.  The old incarnation stops first; a reservation for the
\* new one may then fail, or the factory panic, and the record stays as it is.
RestartRecord(k, i, panics) ==
    LET rec == k.records[i]
        down == StopEntry(k, rec.child, FALSE)
        ready == IF rec.observed THEN [down EXCEPT !.reserved = @ + 1] ELSE down
        fresh == [ready EXCEPT !.records[i].child = ready.next,
                               !.records[i].reserved = rec.observed,
                               !.records[i].settled = FALSE,
                               !.live = @ \cup {ready.next}, !.next = @ + 1]
    IN  IF ~rec.recipe THEN k
        ELSE IF rec.observed /\ Full(down) THEN down
        ELSE IF panics THEN down
        ELSE IF rec.observed THEN Tell(fresh) ELSE fresh

\* The records Chosen picks, one after the other; Panics are the ones whose
\* factory panics.
RestartAll(k, chosen, panics) ==
    FoldLeft(LAMBDA acc, i : IF i \in chosen THEN RestartRecord(acc, i, i \in panics) ELSE acc,
             k, [i \in DOMAIN k.records |-> i])

\* Mutant: the failed child is not among the rest.
RestartsYounger(policy, ord, failed) ==
    CASE policy = "OneForOne"  -> ord = failed
      [] policy = "OneForAll"  -> TRUE
      [] policy = "RestForOne" -> ord > failed

\* RestartPolicy::restarts of ChildRelation::from_ordinals
Restarts(policy, ord, failed) ==
    CASE policy = "OneForOne"  -> ord = failed
      [] policy = "OneForAll"  -> TRUE
      [] policy = "RestForOne" -> ord >= failed

\* record_restart_at: the first restart opens the window, one that comes a
\* period later opens the next.
Window(s) ==
    IF s.config.period = 0 THEN s
    ELSE IF s.started < 0 THEN [s EXCEPT !.started = now]
    ELSE IF now - s.started >= s.config.period THEN [s EXCEPT !.used = 0, !.started = now]
    ELSE s

\* Mutant: one restart too many.
ExhaustedLate(s) == s.used > s.config.max
Exhausted(s) == s.used >= s.config.max

RoomFor(k) == k.next + Len(k.records) <= MaxIds + 1

\* A child panics or reports a failure: it stops, and supervise_failed_child
\* answers unless the parent has stopped or the budget is used up.
ChildFails(c, panics) ==
    /\ RoomFor(kin)
    /\ LET down == StopEntry(kin, c, FALSE)
           i == RecordOf(down, c)
       IN  IF i = 0 \/ ~Supervised \/ ~running \/ Exhausted(Window(sup))
             THEN /\ kin' = down /\ blame' = Nobody
                  /\ UNCHANGED <<sup, triggers>>
             ELSE LET policy == sup.config.policy
                      ord(j) == down.records[j].ord
                  IN  /\ kin' = RestartAll(down,
                                  {j \in DOMAIN down.records : Restarts(policy, ord(j), ord(i))},
                                  panics)
                      /\ sup' = [Window(sup) EXCEPT !.used = @ + 1]
                      /\ triggers' = Append(triggers, now)
                      /\ blame' = [at |-> i, panics |-> panics]
    /\ UNCHANGED <<running, now>>

----------------------------------------------------------------------------
(* What else happens to the family.                                        *)

Calm == blame' = Nobody

\* try_supervise: a new configuration starts with a fresh budget.
Supervise(cfg) ==
    /\ Early => kin.next = 1 \/ Supervised
    /\ sup' = [config |-> cfg, used |-> 0, started |-> -1]
    /\ triggers' = <<>>
    /\ Calm /\ UNCHANGED <<running, now, kin>>

OwnRecords(k) == SelectSeq(k.records, LAMBDA rec : ~rec.remote)

NewRecord(ord, recipe, observed, remote) ==
    [child |-> kin.next, ord |-> ord, recipe |-> recipe, observed |-> observed,
     reserved |-> observed, settled |-> FALSE, remote |-> remote]

Register(k, rec) ==
    [k EXCEPT !.records = Append(@, rec), !.live = @ \cup {k.next}, !.next = @ + 1]

\* Spawn and SpawnObserved with record_child.  Without a free slot an observed
\* child is not started.
SpawnChild(recipe, observed) ==
    /\ running /\ kin.next <= MaxIds /\ Len(kin.records) < MaxRecords
    /\ Early => Supervised
    /\ ~(observed /\ Full(kin))
    /\ LET rec == NewRecord(Len(OwnRecords(kin)), recipe, observed, FALSE)
           k == Register(kin, rec)
       IN  kin' = IF observed THEN Tell([k EXCEPT !.reserved = @ + 1]) ELSE k
    /\ Calm /\ UNCHANGED <<running, sup, now, triggers>>

\* register_remote_child for an owner on another shard, who counts the ordinal.
HostChild(recipe) ==
    /\ kin.next <= MaxIds
    /\ LET hosted == SelectSeq(kin.records, LAMBDA rec : rec.remote)
       IN  /\ Len(hosted) < MaxHosted
           /\ kin' = Register(kin, NewRecord(Len(hosted), recipe, FALSE, TRUE))
    /\ Calm /\ UNCHANGED <<running, sup, now, triggers>>

\* A child stops by itself, with a result or without.
ChildStops(c, heard) ==
    /\ kin' = StopEntry(kin, c, heard)
    /\ Calm /\ UNCHANGED <<running, sup, now, triggers>>

\* The parent restarts its children; no budget is asked.
RestartChildren(panics) ==
    /\ running /\ RoomFor(kin)
    /\ kin' = RestartAll(kin, {i \in DOMAIN kin.records : ~kin.records[i].remote}, panics)
    /\ Calm /\ UNCHANGED <<running, sup, now, triggers>>

StopChildren ==
    /\ running
    /\ kin' = FoldLeft(LAMBDA k, rec : StopEntry(k, rec.child, FALSE), kin, OwnRecords(kin))
    /\ Calm /\ UNCHANGED <<running, sup, now, triggers>>

\* The parent stops: dispose_parent_terminal_reservations, and its mailbox is
\* emptied.
ParentStops ==
    /\ running /\ running' = FALSE
    /\ LET open == {i \in DOMAIN kin.records : kin.records[i].reserved}
       IN  kin' = [kin EXCEPT !.queued = 0, !.reserved = @ - Cardinality(open),
                     !.records = [i \in DOMAIN @ |->
                        IF i \in open THEN [@[i] EXCEPT !.reserved = FALSE, !.settled = TRUE]
                        ELSE @[i]]]
    /\ Calm /\ UNCHANGED <<sup, now, triggers>>

\* Somebody sends to the parent; the parent takes a message.
Send ==
    /\ running /\ ~Full(kin)
    /\ kin' = [kin EXCEPT !.queued = @ + 1]
    /\ Calm /\ UNCHANGED <<running, sup, now, triggers>>

Take ==
    /\ running /\ kin.queued > 0
    /\ kin' = [kin EXCEPT !.queued = @ - 1]
    /\ Calm /\ UNCHANGED <<running, sup, now, triggers>>

Tick ==
    /\ now < MaxTime /\ now' = now + 1
    /\ Calm /\ UNCHANGED <<running, sup, kin, triggers>>

Init ==
    /\ running = TRUE /\ sup = None /\ now = 0
    /\ kin = [records |-> <<>>, queued |-> 0, reserved |-> 0, live |-> {}, next |-> 1]
    /\ triggers = <<>> /\ blame = Nobody

Next ==
    \/ \E cfg \in Configs : Supervise(cfg)
    \/ \E recipe, observed \in BOOLEAN : SpawnChild(recipe, observed)
    \/ \E recipe \in BOOLEAN : HostChild(recipe)
    \/ \E c \in kin.live, panics \in SUBSET (DOMAIN kin.records) : ChildFails(c, panics)
    \/ \E c \in kin.live, heard \in BOOLEAN : ChildStops(c, heard)
    \/ \E panics \in SUBSET (DOMAIN kin.records) : RestartChildren(panics)
    \/ StopChildren \/ ParentStops \/ Send \/ Take \/ Tick

Spec == Init /\ [][Next]_vars

----------------------------------------------------------------------------
(* Properties.                                                             *)

\* The slots set aside in the parent's mailbox are those of the children whose
\* results it waits for, one each, through stops, restarts that are skipped and
\* factories that panic; and none remains once the parent has stopped.
ReservedTruth ==
    /\ kin.reserved = Cardinality({i \in DOMAIN kin.records : kin.records[i].reserved})
    /\ \A i \in DOMAIN kin.records :
          LET rec == kin.records[i]
          IN  rec.reserved <=> rec.observed /\ rec.child \in kin.live /\ running

\* Every incarnation that runs is the current one of a record, so a restart or
\* a stop of the children reaches it.
LiveRecorded == \A c \in kin.live : \E i \in DOMAIN kin.records : kin.records[i].child = c

\* What the budget promises of the restarts that were triggered: no more than
\* max of them in a lifetime or since the window opened, and no more than twice
\* max in any stretch as long as the period, which two windows may share.
BudgetBound ==
    Supervised =>
       LET cfg == sup.config
           during(t, len) == Cardinality({i \in DOMAIN triggers : triggers[i] \in t .. t + len - 1})
       IN  IF cfg.period = 0 THEN Len(triggers) <= cfg.max
           ELSE /\ sup.started >= 0 => during(sup.started, MaxTime + 1) <= cfg.max
                /\ \A t \in 0 .. now : during(t, cfg.period) <= 2 * cfg.max

\* The records a failure of record b selects, by the order in which the
\* children were started.
Selected(b) ==
    LET own == {i \in DOMAIN kin.records : ~kin.records[i].remote}
    IN  CASE sup.config.policy = "OneForOne"  -> {b}
          [] sup.config.policy = "OneForAll"  -> own
          [] sup.config.policy = "RestForOne" -> {i \in own : i >= b}

\* A supervised failure replaces every restartable child the policy selects,
\* unless its factory panics or the parent's mailbox has no slot for it, and
\* leaves the others as they were, the ones that had stopped included.
Selects ==
    blame'.at # 0 =>
       \A i \in DOMAIN kin.records :
          LET rec == kin.records[i]
          IN  IF i \in Selected(blame'.at)
                THEN rec.recipe =>
                       /\ rec.child \notin kin'.live
                       /\ \/ kin'.records[i].child \in kin'.live
                          \/ i \in blame'.panics
                          \/ rec.observed /\ (Full(kin) \/ Full(kin'))
                ELSE /\ kin'.records[i] = rec
                     /\ rec.child \in kin.live <=> rec.child \in kin'.live

PolicyKept == [][Selects]_vars

\* What the policy says of OneForOne: only the child that failed restarts.
OnlyTheFailed ==
    [][blame'.at # 0 /\ sup.config.policy = "OneForOne" =>
         \A i \in DOMAIN kin.records \ {blame'.at} :
            kin'.records[i].child = kin.records[i].child]_vars

\* What supervise says: a supervisor restarts its own direct children.
OnlyItsOwn ==
    [][blame'.at # 0 =>
         \A i \in DOMAIN kin.records :
            kin.records[i].remote => kin'.records[i].child = kin.records[i].child]_vars

\* Restarts stay within the budget, and whatever is restarted or skipped, each
\* child that runs has its record and each reserved slot its child.
RestartsSound == TypeOK /\ BudgetBound /\ LiveRecorded /\ ReservedTruth
=============================================================================
