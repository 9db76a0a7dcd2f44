SPECIFICATION Spec
CONSTANTS
    s1 = s1
    s2 = s2
    u1 = u1
    u2 = u2
    bad = bad
    Sessions = {s1, s2}
    Users = {u1, u2}
    UserOf <- MCUserOf
    Routes = {"near", "half"}
    KeyOf <- MCKeyOf
    DistOf <- MCDistOf
    ReadBack <- MCReadBack
    IdTexts = {"1", "08"}
    Decode <- MCDecode
    BadNumber = bad
    Ops = {"add", "addIfMax", "removeById", "removeLower", "removeAnyByDistance"}
    Refresher = refresher
    NoThread = nobody
    Leaked = leaked
    MaxId = 2
    MaxFaults = 1
SYMMETRY ExchangeClients
INVARIANTS
    Serialized
    CommandSnapshotCurrent
    IdsIssuedOnce
PROPERTY
    ImplementsRouteTable
