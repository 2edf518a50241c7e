SPECIFICATION FairSpec
CONSTANTS
    p1 = p1  h1 = h1  h2 = h2  a1 = a1  a2 = a2
    Payments <- OnePayment
    LastStatus = 2
    Handlers <- TwoHandlers
    Admins <- TwoAdmins
    Adapter = "asaas"
    MaxRotations = 2
    MaxFaults = 1
    None = None
INVARIANTS TypeOK AnsweredIsKept OneRowPerNotice RotationIsSmooth
PROPERTIES NothingMissed
CHECK_DEADLOCK FALSE
