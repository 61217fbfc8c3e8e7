SPECIFICATION FairSpec
CONSTANTS
    MaxPrompts = 2
    MaxLines = 2
INVARIANTS
    PromptIsAsked
PROPERTIES
    SilentAfterCancel
    AttemptEnds
    TunnelEnds
CHECK_DEADLOCK FALSE
