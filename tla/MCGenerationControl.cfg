SPECIFICATION Spec
CONSTANTS
    Generations = {g1}
    Conversations = {c1}
    Processes = {p1, p2}
    Hosts = {h1}
    Tasks = {t1, t2, t3}
    Keys = {k1}
    MaxRoll = 1
    None = None
    ConversationOf <- OneConversation
    HostOf <- OneHost
SYMMETRY Symmetry
CHECK_DEADLOCK FALSE
INVARIANTS TypeOK ActiveRowsAreOwned OwnersKeepTheirRows RetrySucceeds
    ReplayAnswersTheSame
