SPECIFICATION FairSpec
CONSTANTS
    MaxTime = 5
    MaxWrites = 3
    MaxLogins = 2
    TooLarge = {2}
INVARIANTS
    TypeOK
    StampTellsContent
PROPERTY
    ViewConverges
CHECK_DEADLOCK FALSE
