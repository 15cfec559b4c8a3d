SPECIFICATION Spec
CONSTANTS
    Roots = 1
    Supervisable = {}
    MaxIsolates = 2
    MaxCalls = 1
    MaxSlots = 0
    MaxEffects = 1
    MaxOverflow = 1
    Capacity = 2
    RingCapacity = 1
INVARIANTS EntersItsHandler
