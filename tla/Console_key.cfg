CONSTANTS
    Clients = {c1}
    Owners  = {c1}
    Nobody  = nobody
    Backlog = 2
    LineMax = 2
    MaxOut  = 1
SPECIFICATION Spec
INVARIANT DetachKeyObeyed
CHECK_DEADLOCK FALSE
