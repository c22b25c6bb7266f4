SPECIFICATION Spec
CONSTANTS
    ChannelSize = 2
    BatchMax = 2
    Databases = {TRUE}
    MaxEntries = 6
INVARIANT ShutdownKeepsEntries
CHECK_DEADLOCK FALSE
