SPECIFICATION FairSpec
CONSTANTS
    Worker = Worker
    FaultPoints = {"create", "running", "prepare", "graph", "interrupt", "partial", "answer", "images", "error", "mark"}
CHECK_DEADLOCK FALSE
INVARIANTS TypeOK TurnIsSettled StoredBeforeSettled TextIsKept FailureIsTold
PROPERTIES TurnEnds StopNeedsNoSignal
