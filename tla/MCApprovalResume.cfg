SPECIFICATION FairSpec
CONSTANTS
    Resumes = {p1, p2, p3}
    Turn = turn
    Other = other
    None = None
    MaxInterrupts = 2
    MaxFaults = 1
INVARIANTS
    TypeOK
    DecisionRunsOnce
    RunsUnderItsClaim
    CheckpointOutlivesTheRun
    PendingIsAnswerable
PROPERTIES
    ClaimSettles
    RowSettles
CHECK_DEADLOCK FALSE
