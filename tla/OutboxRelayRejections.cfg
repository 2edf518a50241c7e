SPECIFICATION Spec
CONSTANTS
    r1 = r1  r2 = r2
    Relays <- OneRelay
    Events <- Events2
    Kinds <- Refunds
    MaxRetries = 1
    BatchSize = 2
    IdsInUse = {}
    MaxFaults = 0
    None = None
    Idle <- Idles
PROPERTIES RejectionsAreCompensated
CHECK_DEADLOCK FALSE
