SPECIFICATION MCSpec
CONSTANTS
    small = small
    large = large
    Sizes <- MCSizes
    MaxVersion = 1
    MaxQueue = 1
    MaxPreferences = 1
INVARIANTS
    NeverStarved
    WindowShowsScreen
PROPERTIES
    LastChangeIsShown
CHECK_DEADLOCK FALSE
