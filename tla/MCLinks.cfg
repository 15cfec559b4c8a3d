CONSTANTS
    Focuses = {"faulty", "restarts", "spawns", "ordinals", "rpc"}
    Shards <- Pair
    PeerSeq <- Peers
    Cap = 1
    Budget = 1
    Ids = {i1, i2, i3}
    Flows <- FaultyFlows
    Burst = 1
    Mortal = {"b"}
    Commanded = {}
    Hushable = FALSE
    OneOwner = {o1}
    MaxRequests = 2
    LinkConfigs <- Streams
    IoFaults = TRUE
SPECIFICATION AnySpec
CHECK_DEADLOCK FALSE
INVARIANTS NeverLost ChildrenOwned RequestsSettle StreamIntact
