SPECIFICATION Spec
CONSTANTS
    o1 = o1
    o2 = o2
    o3 = o3
    refund = refund
    wipe = wipe
    amount = amount
    urgent = urgent
    AnyAction = AnyAction
    Never = Never
    Ops <- MCOps
    Actions <- MCActions
    Paths <- MCPaths
    Issued <- MCIssued
    Studied <- MCStudied
    Inputs <- MCInputs
    StudiedInputs <- MCStudiedInputs
    Times <- MCTimes
    DayLength = 3
    Revocations <- MCRevocations
    MaxEvents = 3
INVARIANT BoundaryExecutionsAreAmbiguous
SYMMETRY MCSymmetry
CHECK_DEADLOCK FALSE
