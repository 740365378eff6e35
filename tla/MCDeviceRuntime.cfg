SPECIFICATION Spec
CONSTANTS
    Requests = {r1}
    MaxSessions = 2
    MaxVersion = 2
    MaxFaults = 1
INVARIANTS
    TypeOK
    AnswerIsHonest
    NothingRunsAcrossSessions
    CancelFollows
PROPERTY WithdrawnStaysOff
CHECK_DEADLOCK FALSE
