\* Two clients and users, three calls in all, a lagging secondary, and one outage
\* of the primary or one fault.
CONSTANTS
    Client = {c1, c2}
    User = {u1, u2}
    Group = {g1}
    Key = {k1}
    SizedKey = {k1}
    Past = Past
    None = None
    u1 = u1
    u2 = u2
    g1 = g1
    k1 = k1
    Ops <- ReplicaOps
    MaxAttempts = 2
    CountWidth = 32
    MaxCalls = 2
    MaxFaults = 1
    MaxOutages = 1
    RegisteredKey <- TwoUsers
    InitialMembers <- GroupOfU1
    InitialIndexes <- BothIndexes
SYMMETRY Clients
CONSTRAINT FewEvents
SPECIFICATION ReplicaSpec
INVARIANTS
    ReplicasSound
    LagReachesNoWrite
    OutUnlessBlind
