CONSTANTS
    Controllers = {"cpu"}
    Options <- EphemeralLines
SPECIFICATION Spec
INVARIANT EphemeralDiscarded
CHECK_DEADLOCK FALSE
