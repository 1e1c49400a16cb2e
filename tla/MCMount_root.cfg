CONSTANTS
    Specs     <- AtRootPath
    HostDirs  <- Dirs
    HostFiles <- Files
    RootPath  <- Srv
    Nodes     <- TwoNodes
SPECIFICATION Spec
INVARIANT MountsAreRelative
CHECK_DEADLOCK FALSE
