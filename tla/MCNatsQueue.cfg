\* Three tasks, two replicas of the analysis and no parser.
CONSTANTS
    d1 = d1
    d2 = d2
    d3 = d3
    a1 = a1
    a2 = a2
    NoMessage = NoMessage
    Doc = {d1, d2, d3}
    ParserWorker = {}
    AnalysisWorker = {a1, a2}
    MaxAttempts = 2
    MaxErrors = 0
    Disruptions = {"crash", "loss", "outage"}
SPECIFICATION FairSpec
INVARIANTS TypeOK BackoffKept HoldUpBounded
PROPERTIES ImplementsTaskQueue DeliveredGetsItsTurn
CHECK_DEADLOCK FALSE
