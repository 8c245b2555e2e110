SPECIFICATION Spec
CONSTANTS
    Events = {e1, e2}
    Callbacks = {c1, c2}
    Resumers = {w1, w2}
    Gateways = {g1, g2}
    MaxRounds = 2
    MaxCallbacks = 2
    MaxDeliveries = 2
    MaxFaults = 1
    None = None
CHECK_DEADLOCK FALSE
INVARIANTS
    TypeOK
    OneShotRunsOnce
    ClaimedIsAccepted
    DisownedOnlyAfterFault
    RowsAgree
    ShownIsTrue
PROPERTIES
    EndIsFinal
SYMMETRY Symmetry
