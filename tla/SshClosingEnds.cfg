SPECIFICATION FairSpec
CONSTANTS
    MaxPrompts = 2
    MaxLines = 2
PROPERTY ClosingEnds
CHECK_DEADLOCK FALSE
