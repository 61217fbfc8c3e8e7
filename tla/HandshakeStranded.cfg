SPECIFICATION Spec
CONSTANTS
    Versions <- MCVersions
    Offers <- MCOffers
    Sessions <- Outgoing
    MaxQueue = 2
INVARIANTS
    NeverStranded
CHECK_DEADLOCK FALSE
