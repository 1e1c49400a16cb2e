CONSTANTS
    Controllers = {"cpu", "memory"}
    Options <- SafetyLines
SPECIFICATION Spec
INVARIANTS
    TypeOK
    BarrierHolds
    ChannelsAgree
    SetupFitsNamespaces
    OrphanNeverRuns
    CleanExit
PROPERTY ContainerSpec
CHECK_DEADLOCK FALSE
