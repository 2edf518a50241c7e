SPECIFICATION OneLiveSpec
CONSTANTS
    w1 = w1  w2 = w2  t1 = t1
    Workers <- Two
    Events <- Events2
    Txs <- Payment
    Payloads <- Anything
    MaxRetries = 1
    BatchSize = 2
    MaxFaults = 1
    None = None
INVARIANTS TypeOK ClaimsAreExclusive DeadOnlyWhenExhausted CompletedMeansAccepted EffectOnce
PROPERTIES ImplementsQueue EveryEventSettles
CHECK_DEADLOCK FALSE
