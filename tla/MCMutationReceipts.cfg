SPECIFICATION Spec
CONSTANTS
    Executions = {e1, e2, e3}
    MaxAttempts = 2
INVARIANTS
    TypeOK
    OneExecutionActs
    AtMostOnceUnlessFailed
PROPERTY CompletedIsFinal
SYMMETRY Symmetry
CHECK_DEADLOCK FALSE
