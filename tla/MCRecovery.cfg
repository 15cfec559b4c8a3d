\* Two crashes and an I/O error anywhere; five or six incarnations; two calls to a
\* mailbox of one place, over channels of one place.
CONSTANTS
    Ids = 5
    Hosted = 1
    Time = 3
    WorkBound = 3
    Indices = 4
    Crashes = 2
    IoErrors = 1
    Shards = {"a", "b"}
    PeerSeq <- Peers
    Cap = 1
    Budget = 1
    Home = "a"
    Away = "b"
    MaxCalls = 2
    MailCap = 1
    Faults = {"b"}
SPECIFICATION AnySpec
CHECK_DEADLOCK FALSE
INVARIANTS RestartsSound RecoverySound CallsSettleOnce
PROPERTIES PolicyKept
