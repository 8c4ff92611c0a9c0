\* Two documents, one of them without words, two replicas of the parser;
\* everything may fail but the reading of rows.
CONSTANTS
    d1 = d1
    d2 = d2
    p1 = p1
    p2 = p2
    a1 = a1
    a2 = a2
    NoTask = NoTask
    Doc = {d1, d2}
    Blank = {d2}
    ParserWorker = {p1, p2}
    AnalysisWorker = {a1}
    MaxAttempts = 2
    EnqueueAttempts = 2
    MaxErrors = 0
    Disruptions = {"crash", "loss", "cancel", "outage"}
SPECIFICATION Spec
SYMMETRY Workers
INVARIANTS TypeOK ServedSummaryIsComplete ChunkCopiesBounded SingleCustody ReadyIsComplete FailedIsInert
PROPERTIES ImplementsLifecycle ChunksFrozenOnceAnalysed StatusIsFinal
CHECK_DEADLOCK FALSE
