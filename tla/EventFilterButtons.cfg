SPECIFICATION Spec
CONSTANTS
    Uses <- ButtonUses
    MaxPending = 4
PROPERTIES
    OnlyButtonOneIsMapped
CHECK_DEADLOCK FALSE
