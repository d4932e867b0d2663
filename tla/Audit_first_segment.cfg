SPECIFICATION Spec
CONSTANTS
    w1 = w1
    Writers <- MCOneWriter
    MaxSegs = 2
    MaxEvents = 1
    MaxKeys = 1
    Days <- MCOneDay
    MaxRecorded = 2
    MaxAuths = 1
    MaxAnchors = 1
    StampedKeys = 1
    RenewedKeys = 1
    MaxDamage = 1
INVARIANT MissingSegmentsAreDetected
CHECK_DEADLOCK FALSE
