SPECIFICATION Spec
CONSTANTS
    Workers = {w1, w2}
    None = None
    MaxAttempts = 1
    ReconcileAttempts = 1
    Contents = {0, 1}
    MaxMessages = 3
    MaxMutations = 1
    MaxHints = 0
SYMMETRY RunSymmetry
INVARIANTS TypeOK MemoryMatchesUnraced
PROPERTIES MemoryMovesForward
CHECK_DEADLOCK FALSE
