CONSTANTS
    Clients = {c1, c2, f}
    Owners  = {c1, c2}
    Nobody  = nobody
    Backlog = 2
    LineMax = 2
    MaxOut  = 2
SPECIFICATION Spec
INVARIANTS
    TypeOK
    TerminalsKept
    SupervisorSurvives
CHECK_DEADLOCK FALSE
