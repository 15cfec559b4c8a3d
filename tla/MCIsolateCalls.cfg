SPECIFICATION Spec
CONSTANTS
    Roots = 2
    Supervisable = {}
    MaxIsolates = 2
    MaxCalls = 2
    MaxSlots = 1
    MaxEffects = 2
    MaxOverflow = 1
    Capacity = 1
    RingCapacity = 1
INVARIANTS SettledOnce OwnersAlive NoOrphanCall RingTruth RuntimeInvariant
