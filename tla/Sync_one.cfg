SPECIFICATION FairSpec
CONSTANTS
    b1 = b1
    b2 = b2
    b3 = b3
    p1 = p1
    p2 = p2
    NoClose = NoClose
    Garbled = Garbled
    Bodies <- MCTwoBodies
    Syncers <- MCOneSyncer
    Days <- MCOneDay
    Configured <- MCOneAuth
    MaxSegs = 2
    MaxInFlight = 2
    MaxFailures = 1
    Faults = {}
INVARIANTS TypeOK AckedIsStored OneLogicalCopy RequestsFit AllOrNothing
PROPERTIES StoreOnlyGrows EvidenceArrives
