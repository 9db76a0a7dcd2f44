SPECIFICATION Spec
CONSTANTS
    Streams = {a, b, c}
    Servers = {s1, s2}
    Px = px
    None = none
    Admin = admin
    MaxConn = 1
    MaxPollEvents = 1
    MaxEvents = 3
SYMMETRY Symmetry
INVARIANTS TypeOK LengthLedger SlotLedger PendconnAlive SlotOfTarget NoneStranded
CHECK_DEADLOCK FALSE
