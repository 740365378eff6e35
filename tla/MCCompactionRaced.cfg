SPECIFICATION Spec
CONSTANTS
    Workers = {w1}
    None = None
    MaxAttempts = 1
    ReconcileAttempts = 1
    Contents = {1}
    MaxMessages = 3
    MaxMutations = 1
    MaxHints = 0
SYMMETRY RunSymmetry
INVARIANTS MemoryMatchesTranscript
CHECK_DEADLOCK FALSE
