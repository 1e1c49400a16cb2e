SPECIFICATION Spec
CONSTANTS
    Multiple = {"mount"}
    Single = {"chroot", "user", "attach"}
    Integer = {"attach"}
    Flags = {"ephemeral"}
    Comma = ","
    Backslash = "bs"
    Letters = {"a", "9"}
    Digits = {"9"}
    CommandLines <- SomeLines
    MountValues <- Mounts
    MapValues <- Maps
    Empty = ""
    Paths = {"/p", "/q"}
    Number <- Numerals
    IdBits = 2
    Caps <- ThreeCaps
    setpcap = "setpcap"
    All = "all"
    Unknown = "nosuch"
    MaxArgs = 3
    HeldSets <- SomeHeld
    Lengths = {1, 2, 3, 4, 5, 6, 7, 8, 9, 10, 11, 12, 13, 14, 15}
    OtherLengths = {1, 2, 3, 4, 15}
    Lists <- Pairs
    Devices <- HostDevices
    Temp = "pflask-pid"
    OtherNames = {"renamed"}
    MaxMeddle = 2
    Passwd <- Accounts
    Invokers = {0, 3}
    SubIds = {10, 11, 12, 13, 14, 15, 16, 17, 18, 19}
    UserMaps <- SomeMaps
    TtyGids = {0, 5}
    Groups = {7}
INVARIANTS
    OptionsAsWritten FieldsHaveMeaning CapsAsAsked
    ReadAsMeant RefusalHeard OnlyNamedMoved Delivered NothingLeft
    RunsAsUser MapsAsAsked ConsoleOwned
CHECK_DEADLOCK FALSE
