SPECIFICATION FairSpec
CONSTANTS
    ChannelSize = 2
    BatchMax = 2
    Databases = {TRUE, FALSE}
    MaxEntries = 6
INVARIANTS TypeOK Bounded
PROPERTIES ImplementsLossyLog EveryEntrySettles
CHECK_DEADLOCK FALSE
