SPECIFICATION Spec
CONSTANTS
    s1 = s1
    s2 = s2
    u1 = u1
    u2 = u2
    bad = bad
    Sessions = {s1, s2}
    Users = {u1, u2}
    UserOf <- MCUserOf
    Routes = {"near", "far"}
    KeyOf <- MCKeyOf
    DistOf <- MCDistOf
    ReadBack <- MCReadBack
    IdTexts = {"1", "2", "08"}
    Decode <- MCDecode
    BadNumber = bad
    Ops = {"add", "update", "removeGreater", "clear"}
    Refresher = refresher
    NoThread = nobody
    Leaked = leaked
    MaxId = 2
    MaxFaults = 0
SYMMETRY ExchangeClients
INVARIANTS
    TypeOK
    Serialized
    CommandSnapshotCurrent
    OwnerOfIdFixed
    IdsIssuedOnce
PROPERTIES
    OnlyOwnRowsChange
    ImplementsRouteTable
