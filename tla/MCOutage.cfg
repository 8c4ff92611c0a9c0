\* Calls may fail for ever, contexts be cancelled, and lists be cut off.
CONSTANTS
    d1 = d1
    d2 = d2
    p1 = p1
    p2 = p2
    a1 = a1
    a2 = a2
    NoTask = NoTask
    Doc = {d1, d2}
    Blank = {d2}
    ParserWorker = {p1}
    AnalysisWorker = {a1}
    MaxAttempts = 2
    EnqueueAttempts = 3
    MaxErrors = 2
    Disruptions = {"cut", "outage", "cancel"}
SPECIFICATION FairSpec
INVARIANT SingleErrorTolerated
PROPERTIES ImplementsLifecycle WorkEnds UploadIsAnswered AcceptedBecomesReady
CHECK_DEADLOCK FALSE
