SPECIFICATION FairSpec
CONSTANTS
    Sessions = {s1, s2}
    Names = {"ann", "o'hara"}
    Quoting = {"o'hara"}
    Passwords = {"x", "y"}
    Hash <- MCHash
    NoSession = nobody
    Ended = ended
    MaxRows = 2
    MaxFaults = 1
    MaxAltered = 1
INVARIANTS
    TypeOK
    AdmittedIsRegistered
    InsertsLocked
PROPERTY
    RegistrationCompletes
CHECK_DEADLOCK FALSE
