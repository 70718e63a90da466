\* Two clients change the members of one group; counts as 64-bit integers.
CONSTANTS
    Client = {c1, c2}
    User = {u1, u2}
    Group = {g1}
    Key = {k1}
    SizedKey = {k1}
    Past = Past
    None = None
    u1 = u1
    u2 = u2
    g1 = g1
    g2 = g2
    k1 = k1
    k2 = k2
    k3 = k3
    Ops <- QueryOps
    MaxAttempts = 2
    CountWidth = 64
    MaxCalls = 2
    MaxFaults = 1
    RegisteredKey <- TwoUsers
    InitialMembers <- GroupOfU1
    InitialIndexes <- BothIndexes
SPECIFICATION Spec
PROPERTIES
    ImplementsDirectory
