\* Two concurrent requests, a document on its way, and an entry that expires twice.
CONSTANTS
    d1 = d1
    d2 = d2
    q1 = q1
    q2 = q2
    r1 = r1
    r2 = r2
    Doc = {d1}
    Question = {q1}
    Request = {r1, r2}
    Body <- OneBody
    TTL = 1
    Timeout = 2
    Horizon = 3
    Failing = {"cache"}
    MaxCopies = 2
    MayCut = TRUE
SPECIFICATION RetrievalSpec
SYMMETRY Requests
INVARIANTS TypeOK AnswersRestOnAnalysedDocuments ReadyIsInScope
PROPERTIES AnswersAreCurrent CacheFailsNoQuery
CHECK_DEADLOCK FALSE
