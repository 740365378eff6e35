SPECIFICATION FairSpec
CONSTANTS
    Generations = {g1}
    Conversations = {c1}
    Processes = {p1}
    Hosts = {h1}
    Tasks = {t1, t2, t3}
    Keys = {k1}
    MaxRoll = 0
    None = None
    ConversationOf <- OneConversation
    HostOf <- OneHost
CHECK_DEADLOCK FALSE
PROPERTIES ActiveRowsSettle
