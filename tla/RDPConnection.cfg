SPECIFICATION FairSpec
CONSTANTS
    small = small
    large = large
    Sizes <- MCSizes
    NoSize = NoSize
    Unasked <- MCSizes
    MaxChoices = 2
    MaxResizes = 2
INVARIANTS
    ContextOutlivesUse
    SendsAreSynchronized
    FrameBufferFollows
PROPERTIES
    CloseReturns
    EndIsTold
CHECK_DEADLOCK FALSE
