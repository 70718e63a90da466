\* One client deletes a user while another changes the groups.
CONSTANTS
    Client = {c1, c2}
    User = {u1}
    Group = {g1, g2}
    Key = {k1}
    SizedKey = {k1}
    Past = Past
    None = None
    u1 = u1
    u2 = u2
    g1 = g1
    g2 = g2
    k1 = k1
    k2 = k2
    k3 = k3
    Ops <- DeletionOps
    MaxAttempts = 2
    CountWidth = 32
    MaxCalls = 2
    MaxFaults = 1
    RegisteredKey <- OneUser
    InitialMembers <- TwoGroups
    InitialIndexes <- BothIndexes
SPECIFICATION Spec
INVARIANTS
    SignaturesValid
    OutBeforeDeletion
PROPERTIES
    ImplementsDirectory
