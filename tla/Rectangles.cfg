SPECIFICATION Spec
CONSTANTS
    Width = 3
    Height = 3
    HextileSide = 2
    ZRLESide = 2
    Full = 2
    SubLists <- MCSubLists
    Colors <- MCColors
    RawFrames <- MCRawFrames
    CopyFrames <- MCCopyFrames
    RREFrames <- MCRREFrames
    HextileFrames <- MCHextileFrames
    ZRLEFrames <- MCZRLEFrames
    Palettes <- MCPalettes
    Screens <- MCScreens
    MaxRectangles = 1
INVARIANTS
    ShowsScreen
    InStep
CHECK_DEADLOCK FALSE
