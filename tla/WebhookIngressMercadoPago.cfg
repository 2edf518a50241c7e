SPECIFICATION FairSpec
CONSTANTS
    p1 = p1  h1 = h1  h2 = h2  a1 = a1  a2 = a2
    Payments <- OnePayment
    LastStatus = 2
    Handlers <- TwoHandlers
    Admins <- TwoAdmins
    Adapter = "mercadopago"
    MaxRotations = 0
    MaxFaults = 0
    None = None
PROPERTIES NothingMissed
CHECK_DEADLOCK FALSE
