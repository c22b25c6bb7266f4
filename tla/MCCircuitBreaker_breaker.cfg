SPECIFICATION FairSpec
CONSTANTS
    r1 = r1
    r2 = r2
    Caller <- TwoCallers
    Threshold = 2
    Period = 1
    Cancellations = TRUE
    MaxCount = 3
INVARIANTS TypeOK CounterAgrees
PROPERTIES OutageIsNoticed RecoveryIsNoticed
