SPECIFICATION Spec
CONSTANTS
    a1 = a1
    poller = poller
    e1 = e1
    n1 = n1
    n2 = n2
    Name <- TwoNames
    NoName = NoName
    Admin <- OneAdmin
    Poller = poller
    Evaluation <- OneEvaluation
    RuleCount = 2
    Rows <- SomeRows
    MaxWrites = 1
    Tables <- SomeTables
    ScoreActions = {"pass", "escalate"}
PROPERTY OutageKeepsRules
