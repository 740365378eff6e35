SPECIFICATION Spec
CONSTANTS
    Executions = {e1, e2}
    MaxAttempts = 2
INVARIANT AtMostOnce
CHECK_DEADLOCK FALSE
