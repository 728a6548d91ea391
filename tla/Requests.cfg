CONSTANTS
    Request = {r1, r2}
    PoolSize = 1
SPECIFICATION FairSpecFew
CHECK_DEADLOCK FALSE
INVARIANTS
    TypeOK
    AnswersTellWhatHappened
PROPERTY
    EveryRequestEnds
