SPECIFICATION Spec
CONSTANTS
    r1 = r1  r2 = r2
    Relays <- OneRelay
    Events <- Events1
    Kinds <- Refunds
    MaxRetries = 1
    BatchSize = 1
    IdsInUse = {}
    MaxFaults = 0
    None = None
    Idle <- Idles
INVARIANTS RejectionIsDefinite
CHECK_DEADLOCK FALSE
