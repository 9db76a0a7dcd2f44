SPECIFICATION FairSpec
CONSTANTS
    Parts = 2
    Tags = 3
INVARIANTS
    TypeOK
    Alternation
    OnlyKnownLosses
PROPERTIES
    AnswersMatch
    WaitEnds
