SPECIFICATION MCSpec
CONSTANTS
    fp = fp
    r1 = r1
    r2 = r2
    r3 = r3
    r4 = r4
    r5 = r5
    r6 = r6
    Request <- AllRequests
    Key = {fp}
    BaseRate = 4
    Window = 2
    Slots = 2
    Faults = TRUE
    Duration <- MCDuration
    Admin = TRUE
    MaxTime = 3
    MaxUnblocks = 1
    MaxBlocks = 2
VIEW View
SYMMETRY Symmetry
INVARIANTS TypeOK OvershootBounded TightenedBounded
PROPERTY TighteningKept
CHECK_DEADLOCK FALSE
