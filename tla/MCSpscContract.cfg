SPECIFICATION FairSpec
CONSTANTS
    Msgs = {m1}
    Producers = {p1}
    Consumers = {c1}
    Closers = {k1, k2}
    Capacity = 2
    Wrap = 4
    NoMsg = NoMsg
INVARIANTS NoSpuriousPanic
PROPERTIES ImplementsMailbox EveryCallReturns
CHECK_DEADLOCK FALSE
