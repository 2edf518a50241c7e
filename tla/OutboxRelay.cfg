SPECIFICATION FairSpec
CONSTANTS
    r1 = r1  r2 = r2
    Relays <- OneRelay
    Events <- Events2
    Kinds <- AllKinds
    MaxRetries = 1
    BatchSize = 2
    IdsInUse <- Second
    MaxFaults = 1
    None = None
    Idle <- Idles
INVARIANTS TypeOK CompletedMeansHandled RefundOrCompensation
PROPERTIES ImplementsQueue EventsMoveOn StopsWhenTold
CHECK_DEADLOCK FALSE
