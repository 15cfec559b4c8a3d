SPECIFICATION Spec
CONSTANTS
    Msgs = {m1}
    Producers = {p1, p2}
    Consumers = {c1, c2}
    Closers = {k1}
    Capacity = 1
    Wrap = 4
    NoMsg = NoMsg
SYMMETRY Symmetric
INVARIANTS RingInv SlotSafety DropExactlyOnce
CHECK_DEADLOCK FALSE
