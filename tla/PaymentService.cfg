SPECIFICATION FairSpec
CONSTANTS
    w1 = w1  w2 = w2  t1 = t1  t2 = t2
    Workers <- TwoWorkers
    Txs <- TwoPayments
    Preloaded <- OnePayment
    HostCreated <- SecondPayment
    Targets <- Paths
    ABSENT = ABSENT
    None = None
INVARIANTS TypeOK NoticesTellStatus NoStaleDecision LocksComeFree
PROPERTIES ImplementsLedger CallsFinish
