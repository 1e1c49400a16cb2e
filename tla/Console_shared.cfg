CONSTANTS
    Clients = {c1, c2}
    Owners  = {c1, c2}
    Nobody  = nobody
    Backlog = 1
    LineMax = 1
    MaxOut  = 1
SPECIFICATION FairSpec
PROPERTIES
    OverEndsClients
    LastWordsRead
CHECK_DEADLOCK FALSE
