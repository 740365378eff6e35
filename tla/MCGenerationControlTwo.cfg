SPECIFICATION Spec
CONSTANTS
    Generations = {g1, g2}
    Conversations = {c1}
    Processes = {p1}
    Hosts = {h1}
    Tasks = {t1, t2, t3}
    Keys = {k1, k2}
    MaxRoll = 1
    None = None
    ConversationOf <- OneConversation
    HostOf <- OneHost
SYMMETRY Symmetry
CHECK_DEADLOCK FALSE
INVARIANTS OneStreamPerConversation CancelMeansStopped EpochLeasedOnce
PROPERTIES ImplementsLifecycle
