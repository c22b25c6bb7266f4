SPECIFICATION FairSpec
CONSTANTS
    a1 = a1
    poller = poller
    e1 = e1
    n1 = n1
    n2 = n2
    Name <- TwoNames
    NoName = NoName
    Admin <- OneAdmin
    Poller = poller
    Evaluation <- OneEvaluation
    RuleCount = 2
    Rows <- SomeRows
    MaxWrites = 2
    Tables <- SomeTables
    ScoreActions = {"pass", "escalate"}
INVARIANTS TypeOK AcknowledgedIsLive
PROPERTIES NeverOlder VerdictIsGrounded RulesCatchUp
