\* Two clients change the members of one group; counts as libmongoc reports them.
CONSTANTS
    Client = {c1, c2}
    User = {u1}
    Group = {g1}
    Key = {k1}
    SizedKey = {k1}
    Past = Past
    None = None
    u1 = u1
    u2 = u2
    g1 = g1
    g2 = g2
    k1 = k1
    k2 = k2
    k3 = k3
    Ops <- AddRemoveOps
    MaxAttempts = 2
    CountWidth = 32
    MaxCalls = 2
    MaxFaults = 0
    RegisteredKey <- OneUser
    InitialMembers <- GroupOfU1
    InitialIndexes <- BothIndexes
SPECIFICATION Spec
PROPERTIES
    GaveUpMeansNotDone
