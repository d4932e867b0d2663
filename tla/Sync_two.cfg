SPECIFICATION Spec
CONSTANTS
    b1 = b1
    b2 = b2
    b3 = b3
    p1 = p1
    p2 = p2
    NoClose = NoClose
    Garbled = Garbled
    Bodies <- MCTwoBodies
    Syncers <- MCTwoSyncers
    Days <- MCOneDay
    Configured <- MCOneOfTwo
    MaxSegs = 1
    MaxInFlight = 1
    MaxFailures = 1
    Faults = {}
INVARIANTS AckedIsStored OneLogicalCopy
SYMMETRY MCSymmetry
