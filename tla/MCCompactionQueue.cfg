SPECIFICATION FairSpec
CONSTANTS
    Workers = {w1, w2}
    None = None
    MaxAttempts = 2
    ReconcileAttempts = 3
    Contents = {1}
    MaxMessages = 3
    MaxMutations = 0
    MaxHints = 1
INVARIANTS NoReplyIsForgotten AttemptsAreBounded
PROPERTIES JobSettles
CHECK_DEADLOCK FALSE
