\* Two processes that run the enclave and share the token file, with two failures.
CONSTANTS
    Process = {p1, p2}
    Zero = Zero
    Torn = Torn
    MaxFaults = 2
    Used <- OneOfEach
SPECIFICATION RuntimeSpec
INVARIANTS
    HostTypeOK
    NoTornTokenPassed
    StreamClosedAfterInit
    TokenSavedForNextRun
    ErrorPathBounded
    FailedCallsEnd
PROPERTIES
    ErrorEndsProcess
