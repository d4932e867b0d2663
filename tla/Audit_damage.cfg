SPECIFICATION Spec
CONSTANTS
    w1 = w1
    Writers <- MCOneWriter
    MaxSegs = 3
    MaxEvents = 2
    MaxKeys = 3
    Days <- MCTwoDays
    MaxRecorded = 3
    MaxAuths = 2
    MaxAnchors = 1
    StampedKeys = 1
    RenewedKeys = 2
    MaxDamage = 2
INVARIANTS TypeOK WholeEvidenceVerifies CompleteReportsAreSound BundlesAreSound VerifiersAgree AnchoredSegmentsAreGenuine KeyGapsAreDisclosed AccusationsAreGrounded
CHECK_DEADLOCK FALSE
