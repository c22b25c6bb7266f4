SPECIFICATION FairSpec
CONSTANTS
    c1 = c1
    r1 = r1
    r2 = r2
    Challenge <- OneChallenge
    Request <- TwoRequests
    Second = 2
    TTL = 1
    Expiry = 4
    MaxStall = 1
    Stores = {"memory", "redis"}
    Wirings <- NoneOrBoth
    SecretSurvives = FALSE
    RedisFaults = {"applied", "unapplied"}
    Decisions = {"none", "block"}
    LastIssue = 0
    MaxTime = 8
    MaxRestarts = 1
    MaxFaults = 1
INVARIANTS TypeOK AtMostOnce SpentIsRemembered ReplayIsHonest RecordsAgree
PROPERTIES ImplementsSingleUse EveryRequestAnswered NoncesAreForgotten
