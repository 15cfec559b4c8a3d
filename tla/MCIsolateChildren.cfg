SPECIFICATION Spec
CONSTANTS
    Roots = 1
    Supervisable = {1}
    MaxIsolates = 3
    MaxCalls = 1
    MaxSlots = 0
    MaxEffects = 1
    MaxOverflow = 1
    Capacity = 2
    RingCapacity = 1
INVARIANTS RoundLive ReservationsHonoured
