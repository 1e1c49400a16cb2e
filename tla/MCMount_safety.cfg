CONSTANTS
    Specs     <- Pairs
    HostDirs  <- Dirs
    HostFiles <- Files
    RootPath  <- Srv
    Nodes     <- TwoNodes
SPECIFICATION Spec
INVARIANTS
    SpecsHonoured
    SystemInPlace
    RootUntouched
CHECK_DEADLOCK FALSE
