SPECIFICATION Spec
CONSTANTS
    w1 = w1  w2 = w2  t1 = t1  t2 = t2
    Workers <- TwoWorkers
    Txs <- OnePayment
    Preloaded <- NoPayment
    HostCreated <- NoPayment
    Targets <- LifeCycle
    ABSENT = ABSENT
    None = None
PROPERTIES SerializedUpdates
