\* The queue is unreachable and the client goes away.
CONSTANTS
    d1 = d1
    d2 = d2
    p1 = p1
    p2 = p2
    a1 = a1
    a2 = a2
    NoTask = NoTask
    Doc = {d1}
    Blank = {}
    ParserWorker = {p1}
    AnalysisWorker = {a1}
    MaxAttempts = 5
    EnqueueAttempts = 3
    MaxErrors = 3
    Disruptions = {"cancel"}
SPECIFICATION Spec
PROPERTY EnqueueFailureMarksFailed
CHECK_DEADLOCK FALSE
