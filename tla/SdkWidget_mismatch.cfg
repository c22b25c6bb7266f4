SPECIFICATION Spec
CONSTANTS
    Run = {v1}
    MaxIssued = 2
    MaxResets = 0
    MaxRenders = 0
INVARIANT SolvedIsSubmitted
CHECK_DEADLOCK FALSE
