SPECIFICATION FairSpec
CONSTANTS
    small = small
    large = large
    Sizes <- MCSizes
    NoSize = NoSize
    Unasked = {}
    MaxChoices = 2
    MaxResizes = 2
INVARIANT DesktopMatchesWindow
CHECK_DEADLOCK FALSE
