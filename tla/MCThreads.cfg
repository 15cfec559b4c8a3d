\* Two shards with one-command queues, a handle that may retry and the owner.
\* Three hosts share a queue of one command and a mailbox of one message.  Three
\* calls over reused channels, replies late or never.
CONSTANTS
    N = 2
    QueueCapacity = 1
    Handles = {h1}
    Owner = owner
    MaxRuns = 2
    MaxPanics = 2
    MaxRequests = 2
    Hosts = {1, 2, 3}
    Mixes <- HostMixes
    QueueCap = 1
    MailboxCap = 1
    MaxAttempts = 2
    MaxCalls = 3
    PoolCap = 1
    NoReply = NoReply
    Threads = {1, 2}
    Scopes = {"requests", "bytes"}
    Cap <- ScopeCap
    Charges <- ThreadCharges
    MaxRounds = 2
SPECIFICATION FairSpec
CHECK_DEADLOCK FALSE
INVARIANTS ShutdownSound SendsTruth HostsReturn RepliesKeptApart ScopeSound
PROPERTIES ShutdownAnswers ImplementsCap
