SPECIFICATION Spec
CONSTANTS
    Requests = {c1, c2, c3}
    MaxFaults = 2
    None = None
CHECK_DEADLOCK FALSE
INVARIANTS
    TypeOK
    CancelExcludesSuccess
    CancellationIsVisible
    CancellationHasOwner
    AcknowledgedUnlessRestored
SYMMETRY Symmetry
