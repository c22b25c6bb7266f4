SPECIFICATION FairSpec
CONSTANTS
    Run = {v1, v2}
    MaxIssued = 2
    MaxResets = 1
    MaxRenders = 1
INVARIANTS TypeOK TokenIsEarned StatusIsHonest
PROPERTY SliderComesBack
CHECK_DEADLOCK FALSE
