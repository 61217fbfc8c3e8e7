SPECIFICATION Spec
CONSTANTS
    Uses <- AllUses
    MaxPending = 4
INVARIANTS
    NoStuckButtons
    NoStuckKeys
    NoStuckModifiers
    UnfocusedIsNeutral
    TapsTimeOut
CHECK_DEADLOCK FALSE
