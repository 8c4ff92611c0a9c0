\* A gateway, an analysis worker and a query service start together; everything may fail.
CONSTANTS
    g1 = g1
    p1 = p1
    p2 = p2
    a1 = a1
    q1 = q1
    Nobody = Nobody
    Gateway = {g1}
    Parser = {}
    Analysis = {a1}
    Query = {q1}
    Failing = {"config", "database", "queue", "cache", "session", "crash"}
SPECIFICATION FairSpec
INVARIANTS TypeOK OneMigrates SchemaIsThere
PROPERTIES LockIsReturned EveryStartEnds
CHECK_DEADLOCK FALSE
