CONSTANTS
    Clients = {c1, c2}
    Owners  = {c1}
    Nobody  = nobody
    Backlog = 1
    LineMax = 2
    MaxOut  = 1
SPECIFICATION FairSpec
PROPERTIES
    ConnectAnswered
CHECK_DEADLOCK FALSE
