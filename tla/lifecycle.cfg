\* One client calls every operation in every order, from a database without indexes.
CONSTANTS
    Client = {c1}
    User = {u1, u2}
    Group = {g1, g2}
    Key = {k1, k2, k3}
    SizedKey = {k1, k2}
    Past = Past
    None = None
    u1 = u1
    u2 = u2
    g1 = g1
    g2 = g2
    k1 = k1
    k2 = k2
    k3 = k3
    Ops <- AllOps
    MaxAttempts = 2
    CountWidth = 32
    MaxCalls = 5
    MaxFaults = 0
    RegisteredKey <- OneUser
    InitialMembers <- NoGroups
    InitialIndexes <- NoIndexes
SPECIFICATION Spec
INVARIANTS
    MembersRegistered
    KeysMatchUsers
