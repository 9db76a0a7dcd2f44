SPECIFICATION Spec
CONSTANTS
    Streams = {a, b, c}
    Servers = {s1}
    Px = px
    None = none
    Admin = admin
    MaxConn = 1
    MaxPollEvents = 1
    MaxEvents = 3
SYMMETRY Symmetry
INVARIANT NoneLeftUnserved
CHECK_DEADLOCK FALSE
