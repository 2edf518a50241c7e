SPECIFICATION FairSpec
CONSTANTS
    p1 = p1  p2 = p2  p3 = p3  r1 = r1  r2 = r2  w1 = w1
    asaas = asaas  mercadopago = mercadopago
    Processes <- Pods
    Versions <- TwoVersions
    Files <- Builds
    Providers <- Gateways
    Internal = Internal
    Nobody = Nobody
    Gateway = asaas
    Payments <- OnePayment
    Announced <- Money
    Workers <- OneWorker
    Relays <- TwoRelays
    InboxIds <- TwoRows
    OutboxIds <- OnePayment
    MaxRetries = 0
    BatchSize = 1
    MaxFaults = 1
    None = None
INVARIANTS VersionsTellSchema DoneMeansCurrent RegistrationsKept SagaAgrees MoneyIsFollowedUp RefundOrCompensation
PROPERTIES ImplementQueues EngineServes RefundsEnd
CHECK_DEADLOCK FALSE
