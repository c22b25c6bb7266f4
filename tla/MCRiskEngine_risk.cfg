SPECIFICATION Spec
CONSTANTS
    e1 = e1
    e2 = e2
    i1 = i1
    f1 = f1
    f2 = f2
    t1 = t1
    t2 = t2
    t3 = t3
    Short = short
    Signature <- TheirSignatures
    Evaluation <- TwoEvaluations
    Ip <- OneIp
    Fp <- TwoFps
    Trajectory <- ThreeTrajectories
    Habits <- SomeHabits
    Overrides = {"none", "block"}
    Counts <- SomeCounts
    Configured = TRUE
SYMMETRY Symmetry
INVARIANTS TypeOK HarshMeansReplay ForeverOnlyByFault
PROPERTY RememberedIsReviewed
CHECK_DEADLOCK FALSE
