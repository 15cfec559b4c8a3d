SPECIFICATION FairSpec
CONSTANTS
    Roots = 1
    Supervisable = {1, 2}
    MaxIsolates = 2
    MaxCalls = 1
    MaxSlots = 1
    MaxEffects = 2
    MaxOverflow = 1
    Capacity = 1
    RingCapacity = 1
PROPERTIES CallsSettle 
