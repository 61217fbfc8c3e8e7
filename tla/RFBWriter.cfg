SPECIFICATION FairSpec
CONSTANTS
    BUFFER_SIZE = 6
    MsgSize <- MCMsgSize
    Positions = {p1, p2}
    NoPos = noPos
    Masks = {up, left, middle}
    NoButtons = up
    MiddleMasks = {middle}
    KeyEvents = {aDown}
    MaxStream = 8
INVARIANTS
    Framed
    MoveLastIsMove
    NothingWaits
    PointerKnown
PROPERTIES
    ImplementsOutputStream
    EventuallyWritten
CHECK_DEADLOCK FALSE
