------------------------------ MODULE MCLinks -------------------------------
(***************************************************************************)
(* What travels between shards and between processes: envelopes on the     *)
(* lanes of two shards, children on the other shard, and an RPC stream.  A *)
(* behaviour is about one of them: focus says which, and the others stay   *)
(* as they were created.  The traffic between shards that fail or exit and *)
(* the RPC stream are ShardTraffic and RpcLink as they are, with the       *)
(* constants of the cfg; the others are instances.  A cfg chooses among    *)
(* them with Focuses.                                                      *)
(***************************************************************************)
EXTENDS ShardTraffic, RpcLink

CONSTANTS Focuses, OneOwner

VARIABLES focus,
          lanes, late, held, place, turn, budget, drain, next, up,     \* its own ShardTransport
          owner, spawns, pending, records, hosted, live, tombs, locals, controls, ends,
          handed, twice, evicted, early, overtaken, abandoned          \* RemoteChildren

\* Two shards with channels of one place; a pass drains one envelope.
Pair == {"a", "b"}
Peers == [s \in Pair |-> SetToSeq(Pair \ {s})]

Flow(from, to, kind, call) ==
    [from |-> from, to |-> to, kind |-> kind, call |-> call, id |-> 0]
AToB == {Flow("a", "b", "Send", FALSE), Flow("a", "b", "CallReply", FALSE)}
Replies == {Flow("a", "b", "CallReply", FALSE), Flow("b", "a", "CallReply", FALSE)}

\* Calls and replies while b may fail or exit.
FaultyFlows == Replies \cup {Flow("a", "b", "Send", TRUE)}

\* Both lanes of b flooded while hosts post commands; two workers full of
\* replies for each other.
Flood == INSTANCE ShardTraffic WITH Shards <- Pair, PeerSeq <- Peers, Cap <- 1,
    Budget <- 1, Flows <- AToB, Burst <- 2, Mortal <- {},
    Commanded <- {"b"}, Hushable <- FALSE
Mutual == INSTANCE ShardTraffic WITH Shards <- Pair, PeerSeq <- Peers, Cap <- 1,
    Budget <- 1, Flows <- Replies, Burst <- 2, Mortal <- {},
    Commanded <- {}, Hushable <- TRUE

\* One owner whose child is restarted; two spawns; a local child in between.
Restarts == INSTANCE RemoteChildren WITH Shards <- Pair, PeerSeq <- Peers, Cap <- 1,
    Budget <- 1, Home <- "a", Away <- "b", Owners <- OneOwner, MaxSpawns <- 1,
    MaxLocals <- 0, MaxControls <- 2, MaxEnds <- 1, Recipes <- BOOLEAN,
    queue <- lanes, overflow <- late, hand <- held, pc <- place, lead <- turn,
    left <- budget, at <- drain, start <- next, state <- up,
    asked <- spawns, given <- handed
Spawns == INSTANCE RemoteChildren WITH Shards <- Pair, PeerSeq <- Peers, Cap <- 1,
    Budget <- 1, Home <- "a", Away <- "b", Owners <- OneOwner, MaxSpawns <- 2,
    MaxLocals <- 0, MaxControls <- 0, MaxEnds <- 1, Recipes <- {FALSE},
    queue <- lanes, overflow <- late, hand <- held, pc <- place, lead <- turn,
    left <- budget, at <- drain, start <- next, state <- up,
    asked <- spawns, given <- handed
Ordinals == INSTANCE RemoteChildren WITH Shards <- Pair, PeerSeq <- Peers, Cap <- 1,
    Budget <- 1, Home <- "a", Away <- "b", Owners <- OneOwner, MaxSpawns <- 1,
    MaxLocals <- 1, MaxControls <- 1, MaxEnds <- 1, Recipes <- {TRUE},
    queue <- lanes, overflow <- late, hand <- held, pc <- place, lead <- turn,
    left <- budget, at <- drain, start <- next, state <- up,
    asked <- spawns, given <- handed

\* A stream of one unit with write queues of one frame, and one of two units
\* whose server takes one request at a time.
Each(n) == [s \in Ends |-> n]
Narrow == [wireCap |-> 1, readChunk |-> 2, queueCap |-> Each(1), inFlightCap |-> Each(2),
           breaks |-> FALSE, asks |-> 2]
Stream == [wireCap |-> 2, readChunk |-> 3, queueCap |-> Each(2),
           inFlightCap |-> [Each(1) EXCEPT !["client"] = 2], breaks |-> FALSE,
           asks |-> 2]
\* A server that breaks the protocol, and a read that holds two frames.
Broken == [wireCap |-> 4, readChunk |-> 4, queueCap |-> Each(1), inFlightCap |-> Each(1),
           breaks |-> TRUE, asks |-> 1]
Streams == {Narrow, Stream, Broken}

\* For one request: a stream that holds a whole frame.
OneStream == {[wireCap |-> 2, readChunk |-> 2, queueCap |-> Each(1), inFlightCap |-> Each(2),
               breaks |-> TRUE, asks |-> 1]}

ASSUME LinksAssumption ==
    /\ TrafficAssumption /\ Flood!TrafficAssumption /\ Mutual!TrafficAssumption
    /\ Restarts!PlaceAssumption

childVars == <<lanes, late, held, place, turn, budget, drain, next, up,
               owner, spawns, pending, records, hosted, live, tombs, locals, controls, ends,
               handed, twice, evicted, early, overtaken, abandoned>>
allVars == <<focus, vars, childVars, rpcVars>>

AnyInit ==
    /\ focus \in Focuses
    /\ IF "flood" \in Focuses THEN Flood!Init ELSE Init
    /\ Restarts!Init
    /\ RpcInit /\ (focus # "rpc" => link = CHOOSE c \in LinkConfigs : TRUE)

Traffic(name) == /\ focus = name
                 /\ UNCHANGED <<focus, childVars, rpcVars>>
Children(name) == /\ focus = name
                  /\ UNCHANGED <<focus, vars, rpcVars>>
Rpc == /\ focus = "rpc"
       /\ UNCHANGED <<focus, vars, childVars>>

AnyNext ==
    \/ Traffic("faulty") /\ Next
    \/ Traffic("flood") /\ Flood!Next
    \/ Traffic("mutual") /\ Mutual!Next
    \/ Children("restarts") /\ Restarts!Next
    \/ Children("spawns") /\ Spawns!Next
    \/ Children("ordinals") /\ Ordinals!Next
    \/ Rpc /\ RpcNext

AnySpec == AnyInit /\ [][AnyNext]_allVars

\* Workers and connections keep going: see ShardTraffic and RpcLink.
WorkerA == \/ Traffic("flood") /\ Flood!Worker("a")
           \/ Traffic("mutual") /\ Mutual!Worker("a")
           \/ Rpc /\ ClientLoop
WorkerB == \/ Traffic("flood") /\ Flood!Worker("b")
           \/ Traffic("mutual") /\ Mutual!Worker("b")
           \/ Rpc /\ ServerLoop

AnyFairSpec == AnySpec /\ WF_allVars(WorkerA) /\ WF_allVars(WorkerB)

-----------------------------------------------------------------------------

\* See RemoteChildren: children end with their owner and are known to it.
ChildrenOwned == /\ focus = "restarts" => Restarts!ChildrenOwned
                 /\ focus = "spawns" => Spawns!ChildrenOwned
                 /\ focus = "ordinals" => Ordinals!ChildrenOwned

\* See ShardTraffic: under a flood on both lanes each channel is drained and
\* each posted command is read; the overflow lanes of workers full of replies
\* for each other empty once the handlers stop.
LanesProgress ==
    /\ \A lane \in {"terminal", "ordinary"} :
          queue[lane]["a"]["b"] # <<>> ~> queue[lane]["a"]["b"] = <<>>
    /\ Flood!CommandsRead
    /\ Mutual!OverflowEmpties
=============================================================================
