SPECIFICATION FairSpec
CONSTANTS
    t1 = t1
    Threads = {t1, t2, t3}
    None = none
    NbTgroups = 2
    GroupOf <- MCGroupOf
    FullCallers = {t1}
    MaxRequests = 3
INVARIANTS Isolation FullIsolation
PROPERTIES Served PollerLeft
CHECK_DEADLOCK FALSE
