SPECIFICATION FairSpec
CONSTANTS
    r1 = r1  r2 = r2
    Relays <- OneRelay
    Events <- Events2
    Kinds <- RefundsAndNotices
    MaxRetries = 1
    BatchSize = 1
    IdsInUse = {}
    MaxFaults = 0
    None = None
    Idle <- Idles
PROPERTIES HalfOpenIsDecided
CHECK_DEADLOCK FALSE
