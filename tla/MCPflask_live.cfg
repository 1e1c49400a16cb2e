CONSTANTS
    Controllers = {"cpu"}
    Options <- LiveLines
SPECIFICATION FairSpec
PROPERTIES
    LaunchResolves
    DeathEndsLoop
    HangupEndsLoop
    HelperResolves
    StopHonoured
    OrphansDie
CHECK_DEADLOCK FALSE
