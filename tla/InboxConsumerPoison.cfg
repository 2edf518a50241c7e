SPECIFICATION FairSpec
CONSTANTS
    w1 = w1  w2 = w2  t1 = t1
    Workers <- OneWorker
    Events <- Events2
    Txs <- Payment
    Payloads <- Poison
    MaxRetries = 1
    BatchSize = 1
    MaxFaults = 0
    None = None
PROPERTIES PoisonIsBuried
CHECK_DEADLOCK FALSE
