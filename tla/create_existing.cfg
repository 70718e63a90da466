\* One client, no fault: create_group for a group that exists.
CONSTANTS
    Client = {c1}
    User = {u1}
    Group = {g1}
    Key = {k1}
    SizedKey = {k1}
    Past = Past
    None = None
    u1 = u1
    u2 = u2
    g1 = g1
    g2 = g2
    k1 = k1
    k2 = k2
    k3 = k3
    Ops <- MembershipOps
    MaxAttempts = 10
    CountWidth = 32
    MaxCalls = 1
    MaxFaults = 0
    RegisteredKey <- OneUser
    InitialMembers <- GroupOfU1
    InitialIndexes <- BothIndexes
SPECIFICATION Spec
PROPERTIES
    CreateExistingThrows
