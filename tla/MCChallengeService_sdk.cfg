SPECIFICATION Spec
CONSTANTS
    w1 = w1
    s1 = s1
    i1 = i1
    p1 = p1
    Absent = Absent
    None = None
    Client <- TwoClients
    OriginsOf <- SomeOrigins
    Worker <- OneOfEach
    Burst = 2
    Setting <- SomeSettings
    Digests <- SomeDigests
    Lengths <- MessageLengths
INVARIANT SdkSolutionAccepted
CHECK_DEADLOCK FALSE
