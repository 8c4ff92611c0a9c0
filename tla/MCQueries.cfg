\* One request after the other, with many bodies; everything may
\* fail; the clock moves once.
CONSTANTS
    d1 = d1
    d2 = d2
    q1 = q1
    q2 = q2
    r1 = r1
    Doc = {d1, d2}
    Question = {q1, q2}
    Request = {r1}
    Body <- ManyBodies
    TTL = 1
    Timeout = 1
    Horizon = 1
    Failing = {"cache", "embedder", "store", "llm", "client"}
SPECIFICATION FairSpec
INVARIANT AnswersOwnQuestion
PROPERTY EveryQueryAnswered
CHECK_DEADLOCK FALSE
