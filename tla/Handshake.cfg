SPECIFICATION FairSpec
CONSTANTS
    Versions <- MCVersions
    Offers <- MCOffers
    Sessions <- AllSessions
    MaxQueue = 2
INVARIANTS
    ServerUnderstands
    ReaderMatches
    SheetHasPurpose
    IncomingNeverStranded
PROPERTIES
    NothingAfterTheEnd
    HandshakeEnds
CHECK_DEADLOCK FALSE
