SPECIFICATION FairSpec
CONSTANTS
    Events = {e1}
    Callbacks = {c1}
    Resumers = {w1}
    Gateways = {g1}
    MaxRounds = 2
    MaxCallbacks = 2
    MaxDeliveries = 2
    MaxFaults = 2
    None = None
CHECK_DEADLOCK FALSE
PROPERTIES
    CallbacksEnd
    UserIsTold
    InteractionEnds
