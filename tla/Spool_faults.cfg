SPECIFICATION Spec
CONSTANTS
    b1 = b1
    b2 = b2
    b3 = b3
    NoBody = NoBody
    Bodies <- MCBodies
    Days <- MCDays
    OccurredDay <- MCOccurredDay
    MaxSegs = 3
    MaxLines = 4
    MaxFailures = 2
    FaultSets <- MCFaultSets
INVARIANTS TypeOK AckedEventsAreKept ClosedSegmentsVerify RecoveryNeverRefuses EventsAreUnique
PROPERTIES ClosedStaysClosed ImplementsEvidenceLog
