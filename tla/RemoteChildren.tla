--------------------------- MODULE RemoteChildren ---------------------------
(***************************************************************************)
(* Ownership of children that live on another shard: spawn_observed        *)
(* (...).on_shard(..), its cancellation, StopChildren, RestartChildren and *)
(* the stop of the owner (tina-runtime/src/dispatch.rs, remote.rs,         *)
(* registration.rs), over the lanes of ShardTransport.                     *)
(*                                                                         *)
(* The owners live on shard Home and their children on shard Away.  A      *)
(* child is <<request, incarnation>>: the request that asked for it and    *)
(* how often it was restarted.  Requests are numbered by asked, the global *)
(* call ids.                                                               *)
(***************************************************************************)
EXTENDS ShardTransport, FiniteSets

CONSTANTS
    Home, Away,
    Owners,
    MaxSpawns,     \* remote spawns in a run
    MaxLocals,     \* local children in a run
    MaxControls,   \* uses of StopChildren and RestartChildren in a run
    MaxEnds,       \* children that end by themselves and owners that are swept
    Recipes        \* subset of BOOLEAN: are children spawned with a restart recipe

\* What the code asks of the constants.
PlaceAssumption == TransportAssumption /\ Shards = {Home, Away} /\ Home # Away

VARIABLES
    owner,       \* owner[o]: running; stopped by itself; swept by a supervisor
    asked,       \* asked[r]: the owner, the ordinal and the recipe of request r
    pending,     \* Home: pending_remote_spawns
    records,     \* Home: the child_records of the owners
    hosted,      \* Away: the child_records with a remote_owner
    live,        \* the children that run on Away
    tombs,       \* Away: remote_spawn_cancel_tombstones
    locals, controls, ends,
    given, twice, \* <<owner, ordinal>> given out; given out more than once
    evicted,     \* requests whose tombstone was pushed out
    early,       \* requests that were cancelled on Away before they came
    overtaken,   \* requests whose child's restart was overtaken on its lane
    abandoned    \* requests whose child was recorded for an owner that was swept

family == <<owner, asked, pending, records, hosted, live, tombs, locals, controls, ends>>
ordinals == <<given, twice>>
ghosts == <<ordinals, evicted, early, overtaken, abandoned>>
vars == <<transport, family, ghosts>>

Requests == 1 .. Len(asked)
OwnerOf(c) == asked[c[1]].owner

TypeOK ==
    /\ owner \in [Owners -> {"running", "stopped", "swept"}]
    /\ Len(asked) <= MaxSpawns /\ locals <= MaxLocals /\ controls <= MaxControls
    /\ ends <= MaxEnds
    /\ \A p \in ToSet(pending) : p.req \in Requests
    /\ \A c \in live : c[1] \in Requests
    /\ \A h \in ToSet(hosted) : h.child \in live \/ h.recipe
    /\ Len(tombs) <= Cap /\ ToSet(tombs) \subseteq Requests

----------------------------------------------------------------------------
(* The owner's shard.                                                      *)

Of(o, seq) == SelectSeq(seq, LAMBDA x : x.owner = o)

\* next_child_ordinal, for a spawn on another shard.
NextOrdinal(o) == Len(Of(o, records)) + Len(Of(o, pending))

\* record_child, for a spawn on Home: spawns in flight are not counted.
LocalOrdinal(o) == Len(Of(o, records))

Given(o, ord) ==
    /\ given' = given \cup {<<o, ord>>}
    /\ twice' = twice \cup ({<<o, ord>>} \cap given)

Local == <<0, 0>>
IsRemote(rec) == rec.child # Local

\* A handler of an owner runs in the step of Home's pass.
Handles(o) == pc[Home] = "step" /\ Idle(Home) /\ owner[o] = "running"

Sends(envelopes) == hand' = [hand EXCEPT ![Home] = envelopes]

SpawnObservedOn(o, recipe) ==
    /\ Handles(o) /\ Len(asked) < MaxSpawns
    /\ LET r == Len(asked) + 1
           p == [req |-> r, owner |-> o, ord |-> NextOrdinal(o), recipe |-> recipe]
       IN  /\ asked' = Append(asked, p)
           /\ pending' = Append(pending, p)
           /\ Sends(<<p @@ [kind |-> "SpawnRequest", to |-> Away]>>)
    /\ Given(o, NextOrdinal(o))
    /\ UNCHANGED <<queue, overflow, looping, state, evicted, early, overtaken, abandoned>>
    /\ UNCHANGED <<owner, records, hosted, live, tombs, locals, controls, ends>>

\* A child on Home takes an ordinal as well: record_child counts the records,
\* on_shard(Home) takes the next one.  Its record goes when it stops
\* (prune_terminal_child_records).
SpawnLocal(o, ord) ==
    /\ Handles(o) /\ locals < MaxLocals
    /\ locals' = locals + 1
    /\ records' = Append(records, [owner |-> o, ord |-> ord, child |-> Local, recipe |-> FALSE])
    /\ Given(o, ord)
    /\ UNCHANGED <<transport, evicted, early, overtaken, abandoned>>
    /\ UNCHANGED <<owner, asked, pending, hosted, live, tombs, controls, ends>>

LocalStops(i) ==
    /\ pc[Home] = "step" /\ Idle(Home)
    /\ ~IsRemote(records[i])
    /\ records' = RemoveAt(records, i)
    /\ UNCHANGED <<transport, ghosts>>
    /\ UNCHANGED <<owner, asked, pending, hosted, live, tombs, locals, controls, ends>>

ControlFor(kind, rec) ==
    [kind |-> kind, to |-> Away, owner |-> rec.owner, ord |-> rec.ord, child |-> rec.child]

Controls(kind, recs) == [i \in DOMAIN recs |-> ControlFor(kind, recs[i])]

\* stop_children: remote children are asked to stop, local ones stop at once.
StopChildren(o) ==
    /\ Handles(o) /\ controls < MaxControls
    /\ controls' = controls + 1
    /\ Sends(Controls("ChildStop", SelectSeq(Of(o, records), IsRemote)))
    /\ records' = SelectSeq(records, LAMBDA rec : rec.owner # o \/ IsRemote(rec))
    /\ UNCHANGED <<queue, overflow, looping, state, ghosts>>
    /\ UNCHANGED <<owner, asked, pending, hosted, live, tombs, locals, ends>>

\* restart_children, its remote half: a child without a recipe is skipped.
RestartChildren(o) ==
    /\ Handles(o) /\ controls < MaxControls
    /\ controls' = controls + 1
    /\ Sends(Controls("ChildRestart",
                      SelectSeq(Of(o, records), LAMBDA rec : IsRemote(rec) /\ rec.recipe)))
    /\ UNCHANGED <<queue, overflow, looping, state, ghosts>>
    /\ UNCHANGED <<owner, asked, pending, records, hosted, live, tombs, locals, ends>>

\* The owner stops, fails or panics: cleanup_remote_children_for_owner cancels
\* what is in flight and stops what is there, then the entry stops.
Stop(o) ==
    /\ Handles(o)
    /\ owner' = [owner EXCEPT ![o] = "stopped"]
    /\ LET mine == Of(o, pending)
           cancels == [i \in DOMAIN mine |->
                         [kind |-> "SpawnCancel", to |-> Away, owner |-> o, req |-> mine[i].req]]
       IN  Sends(cancels \o Controls("ChildStop", SelectSeq(Of(o, records), IsRemote)))
    /\ UNCHANGED <<queue, overflow, looping, state, ghosts>>
    /\ UNCHANGED <<asked, pending, records, hosted, live, tombs, locals, controls, ends>>

\* Somebody else stops the owner (the StopChildren of its parent, a restart by
\* its supervisor): stop_entry without the cleanup, so nobody is left to stop
\* the remote children on record.
Sweep(o) ==
    /\ Handles(o) /\ ends < MaxEnds
    /\ ends' = ends + 1
    /\ owner' = [owner EXCEPT ![o] = "swept"]
    /\ abandoned' = abandoned
         \cup {rec.child[1] : rec \in {x \in ToSet(records) : x.owner = o /\ IsRemote(x)}}
    /\ UNCHANGED <<transport, ordinals, evicted, early, overtaken>>
    /\ UNCHANGED <<asked, pending, records, hosted, live, tombs, locals, controls>>

Without(seq, r) == SelectSeq(seq, LAMBDA p : p.req # r)

\* What an envelope on its way to the same shard, kept in the overflow, loses
\* its turn to when e goes into the channel directly.
Overtakes(s, e) ==
    IF Lane(e) = "terminal" /\ Lossless(s, e) = "Ok"
      THEN {x \in ToSet(overflow[s]) : x.to = e.to} ELSE {}

\* Routing.  A request that the channel refuses is settled with
\* DestinationUnavailable; a cancel that was taken ends the wait for its reply.
RouteOne(s) ==
    /\ Route(s)
    /\ LET e == Head(hand[s])
           gone == \/ e.kind = "SpawnRequest" /\ Routed(s, e) # "Ok"
                   \/ e.kind = "SpawnCancel" /\ Routed(s, e) = "Ok"
       IN  /\ pending' = IF gone THEN Without(pending, e.req) ELSE pending
           /\ overtaken' = overtaken
                \cup {x.child[1] : x \in {y \in Overtakes(s, e) : y.kind = "ChildRestart"}}
    /\ UNCHANGED <<owner, asked, records, hosted, live, tombs, locals, controls, ends>>
    /\ UNCHANGED <<ordinals, evicted, early, abandoned>>

\* harvest_remote_spawn_reply.  A reply nobody waits for is dropped.  The child
\* is recorded unless its ordinal is taken; an owner that stopped meanwhile
\* sends it a stop.
HarvestSpawnReply(e) ==
    LET waiting == SelectSeq(pending, LAMBDA p : p.req = e.req)
    IN  IF waiting = <<>>
          THEN hand' = hand /\ UNCHANGED <<pending, records>>
          ELSE LET p == Head(waiting)
                   taken == \E rec \in ToSet(records) : rec.owner = p.owner /\ rec.ord = p.ord
                   rec == [owner |-> p.owner, ord |-> p.ord, child |-> <<e.req, 0>>,
                           recipe |-> p.recipe]
               IN  /\ pending' = Without(pending, e.req)
                   /\ records' = IF e.ok /\ ~taken THEN Append(records, rec) ELSE records
                   /\ Sends(IF e.ok /\ owner[p.owner] # "running"
                              THEN <<ControlFor("ChildStop", rec)>> ELSE <<>>)

\* harvest_remote_child_restarted
HarvestRestarted(e) ==
    /\ records' = [i \in DOMAIN records |->
         IF e.ok /\ records[i].owner = e.owner /\ records[i].ord = e.ord
              /\ records[i].child = e.child
           THEN [records[i] EXCEPT !.child = e.new] ELSE records[i]]
    /\ UNCHANGED <<hand, pending>>

HarvestHome ==
    /\ Receive(Home)
    /\ LET e == Incoming(Home)
       IN  \/ e.kind = "SpawnReply" /\ HarvestSpawnReply(e)
           \/ e.kind = "ChildRestarted" /\ HarvestRestarted(e)
           \/ e.kind = "ChildStopped" /\ UNCHANGED <<hand, pending, records>>
    /\ UNCHANGED <<owner, asked, hosted, live, tombs, locals, controls, ends, ghosts>>

----------------------------------------------------------------------------
(* The children's shard.                                                   *)

Answers(envelope) == hand' = [hand EXCEPT ![Away] = <<envelope>>]

\* stop_entry and prune_terminal_child_records: the record of a child that
\* cannot be restarted goes with it.
Stopped(c) ==
    /\ live' = live \ {c}
    /\ hosted' = SelectSeq(hosted, LAMBDA h : h.child # c \/ h.recipe)

SpawnReply(e, ok) == [kind |-> "SpawnReply", to |-> Home, req |-> e.req, ok |-> ok]

\* harvest_remote_spawn_request: a tombstone, a capacity of zero or a factory
\* that panics answers with an error.
HarvestSpawnRequest(e) ==
    /\ \/ /\ UNCHANGED <<hosted, live>>
          /\ Answers(SpawnReply(e, FALSE))
       \/ /\ e.req \notin ToSet(tombs)
          /\ hosted' = Append(hosted, [req |-> e.req, owner |-> e.owner, ord |-> e.ord,
                                       child |-> <<e.req, 0>>, recipe |-> e.recipe])
          /\ live' = live \cup {<<e.req, 0>>}
          /\ Answers(SpawnReply(e, TRUE))
    /\ UNCHANGED <<tombs, evicted, early>>

\* stop_remote_owned_child: the record of the owner's ordinal says which child
\* it is now.
Current(o, ord, child) ==
    LET mine == SelectSeq(hosted, LAMBDA h : h.owner = o /\ h.ord = ord)
    IN  IF mine = <<>> THEN child ELSE Head(mine).child

\* Mutant: the child the envelope names is stopped, whatever replaced it.
StopRemoteOwnedByName(o, ord, child) ==
    /\ Stopped(child)
    /\ Answers([kind |-> "ChildStopped", to |-> Home, owner |-> o, ord |-> ord, child |-> child])
StopRemoteOwned(o, ord, child) ==
    /\ Stopped(Current(o, ord, child))
    /\ Answers([kind |-> "ChildStopped", to |-> Home, owner |-> o, ord |-> ord,
                child |-> Current(o, ord, child)])

\* remember_remote_spawn_cancel: the oldest tombstone makes room for a new one.
Remember(r) ==
    IF r \in ToSet(tombs)
      THEN UNCHANGED <<tombs, evicted>>
      ELSE /\ tombs' = Append(IF Len(tombs) = Cap THEN Tail(tombs) ELSE tombs, r)
           /\ evicted' = IF Len(tombs) = Cap THEN evicted \cup {Head(tombs)} ELSE evicted

OnItsWay(r) ==
    \E e \in ToSet(queue["ordinary"][Home][Away]) : e.kind = "SpawnRequest" /\ e.req = r

HarvestSpawnCancel(e) ==
    /\ Remember(e.req)
    /\ early' = IF OnItsWay(e.req) THEN early \cup {e.req} ELSE early
    /\ LET mine == SelectSeq(hosted, LAMBDA h : h.req = e.req)
       IN  IF mine = <<>>
             THEN UNCHANGED <<hand, hosted, live>>
             ELSE StopRemoteOwned(e.owner, Head(mine).ord, Head(mine).child)

\* restart_remote_owned_child: the record must still name that child and hold a
\* recipe.  The old child stops before the factory runs, which may panic.
HarvestChildRestart(e) ==
    LET mine == {i \in DOMAIN hosted : /\ hosted[i].owner = e.owner /\ hosted[i].ord = e.ord
                                       /\ hosted[i].child = e.child /\ hosted[i].recipe}
        i == CHOOSE i \in mine : \A j \in mine : i <= j
        new == <<e.child[1], e.child[2] + 1>>
        reply(ok) == [kind |-> "ChildRestarted", to |-> Home, owner |-> e.owner, ord |-> e.ord,
                      child |-> e.child, ok |-> ok, new |-> IF ok THEN new ELSE e.child]
    IN  \/ /\ mine = {}
           /\ UNCHANGED <<hosted, live>>
           /\ Answers(reply(FALSE))
        \/ /\ mine # {}
           /\ live' = live \ {e.child}
           /\ hosted' = hosted
           /\ Answers(reply(FALSE))
        \/ /\ mine # {}
           /\ live' = (live \ {e.child}) \cup {new}
           /\ hosted' = [hosted EXCEPT ![i].child = new, ![i].req = 0]
           /\ Answers(reply(TRUE))

HarvestAway ==
    /\ Receive(Away)
    /\ LET e == Incoming(Away)
       IN  \/ e.kind = "SpawnRequest" /\ HarvestSpawnRequest(e)
           \/ e.kind = "SpawnCancel" /\ HarvestSpawnCancel(e)
           \/ /\ e.kind = "ChildStop"
              /\ StopRemoteOwned(e.owner, e.ord, e.child)
              /\ UNCHANGED <<tombs, evicted, early>>
           \/ /\ e.kind = "ChildRestart"
              /\ HarvestChildRestart(e)
              /\ UNCHANGED <<tombs, evicted, early>>
    /\ UNCHANGED <<owner, asked, pending, records, locals, controls, ends, ordinals, overtaken,
                   abandoned>>

\* A child stops, fails or panics in a handler of its own.
ChildStops(c) ==
    /\ pc[Away] = "step" /\ Idle(Away) /\ ends < MaxEnds
    /\ ends' = ends + 1
    /\ Stopped(c)
    /\ UNCHANGED <<transport, ghosts>>
    /\ UNCHANGED <<owner, asked, pending, records, tombs, locals, controls>>

----------------------------------------------------------------------------
Loop(s) ==
    /\ \/ RetryOverflow(s) \/ SkipEmpty(s) \/ EndLane(s)
       \/ EndStep(s) /\ hand' = hand
    /\ UNCHANGED <<family, ghosts>>

Worker(s) ==
    \/ RouteOne(s) \/ Loop(s)
    \/ s = Home /\ HarvestHome
    \/ s = Away /\ HarvestAway

Init ==
    /\ TransportInit
    /\ owner = [o \in Owners |-> "running"]
    /\ asked = <<>> /\ pending = <<>> /\ records = <<>>
    /\ hosted = <<>> /\ live = {} /\ tombs = <<>>
    /\ locals = 0 /\ controls = 0 /\ ends = 0
    /\ given = {} /\ twice = {} /\ evicted = {} /\ early = {}
    /\ overtaken = {} /\ abandoned = {}

Next ==
    \/ \E s \in Shards : Worker(s)
    \/ \E o \in Owners :
         \/ \E recipe \in Recipes : SpawnObservedOn(o, recipe)
         \/ \E ord \in {LocalOrdinal(o), NextOrdinal(o)} : SpawnLocal(o, ord)
         \/ StopChildren(o) \/ RestartChildren(o) \/ Stop(o) \/ Sweep(o)
    \/ \E i \in DOMAIN records : LocalStops(i)
    \/ \E c \in live : ChildStops(c)

Spec == Init /\ [][Next]_vars

----------------------------------------------------------------------------
(* Properties.                                                             *)

\* Nothing is on its way.
Quiet ==
    \A s \in Shards :
       /\ hand[s] = <<>> /\ overflow[s] = <<>>
       /\ \A t \in Shards, lane \in Lanes : queue[lane][s][t] = <<>>

Clash(c) == <<OwnerOf(c), asked[c[1]].ord>> \in twice

\* Once an owner is gone and the lanes are empty none of its remote children
\* runs, whatever the end raced with: a request, a reply, a restart, the child's
\* own end.  Four things excuse a child: it was on record when somebody else
\* stopped the owner, which runs no cleanup (dispatch.rs:2673, 3504); its
\* tombstone was pushed out by later cancels; its ordinal was given out twice;
\* or the restart that made it was overtaken by the stop.
NoOrphan ==
    Quiet => \A c \in live :
                owner[OwnerOf(c)] # "running" =>
                   c[1] \in abandoned \cup evicted \cup overtaken \/ Clash(c)

\* With the lanes empty a running owner's record names the incarnation that
\* runs now, so StopChildren and RestartChildren reach it.
OwnerKnows ==
    Quiet => \A c \in live :
                owner[OwnerOf(c)] = "running" =>
                   \/ \E rec \in ToSet(records) : rec.owner = OwnerOf(c) /\ rec.child = c
                   \/ Clash(c)

\* With the lanes empty a running owner has heard what became of each spawn.
SpawnsHeard == Quiet => \A q \in ToSet(pending) : owner[q.owner] # "running"

\* A remote child ends with an owner that stops by itself or before the child
\* was heard of, and is known to its owner until then.
ChildrenOwned == TypeOK /\ NoOrphan /\ OwnerKnows /\ SpawnsHeard

\* What the plan of the ownership protocol says of a cancel that comes first:
\* the request that follows is rejected and makes no child.
CancelSticks == \A c \in live : c[1] \notin early

\* What the plan says of the owner's stop: a child that was admitted on its
\* shard is not orphaned.
AdmittedNotOrphaned ==
    Quiet => \A c \in live : owner[OwnerOf(c)] # "stopped"

\* The same of an owner whose parent or supervisor stops it.
SweptNotOrphaned ==
    Quiet => \A c \in live : owner[OwnerOf(c)] # "swept"

\* What the test of a stop that races with a restart says: no incarnation that
\* a restart made outlives the owner.
ReplacementStopped ==
    Quiet => \A c \in live : c[2] > 0 => owner[OwnerOf(c)] # "stopped"

=============================================================================
