SPECIFICATION FairSpec
CONSTANTS
    t1 = t1
    Threads = {t1, t2}
    None = none
    NbTgroups = 2
    GroupOf <- MCGroupOf
    FullCallers = {t1, t2}
    MaxRequests = 3
PROPERTY FullServed
CHECK_DEADLOCK FALSE
