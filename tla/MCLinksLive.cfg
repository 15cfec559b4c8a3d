CONSTANTS
    Focuses = {"flood", "mutual", "rpc"}
    Shards <- Pair
    PeerSeq <- Peers
    Cap = 1
    Budget = 1
    Ids = {i1, i2, i3}
    Flows <- FaultyFlows
    Burst = 1
    Mortal = {"b"}
    Commanded = {}
    Hushable = FALSE
    OneOwner = {o1}
    MaxRequests = 1
    LinkConfigs <- OneStream
    IoFaults = TRUE
SPECIFICATION AnyFairSpec
CHECK_DEADLOCK FALSE
PROPERTIES LanesProgress CloseSpreads
