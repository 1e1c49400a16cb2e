CONSTANTS
    Letters = {65, 66}
    MaxLen  = 4
SPECIFICATION Spec
INVARIANTS
    PlacesOrdered
    PrefixIsBelow
CHECK_DEADLOCK FALSE
