\* Two runs of the sample program, one after the other, with one failure.
CONSTANTS
    Client = {c1, c2}
    User = {"user1", "user2"}
    Group = {"group1", "group2"}
    Key = {k1}
    SizedKey = {k1}
    SampleKey = k1
    Past = Past
    None = None
    k1 = k1
    Ops <- AllOps
    MaxAttempts = 10
    CountWidth = 32
    MaxCalls = 54
    MaxFaults = 1
    RegisteredKey <- OldUsers
    InitialMembers <- OldGroups
    InitialIndexes <- NoIndexes
SPECIFICATION SampleSpec
INVARIANTS
    CleanRunReturns
    UserErrorMeansEarlierFailure
    SecondUserRefused
    CrashLeavesNoOrphan
PROPERTIES
    CleanRunResult
