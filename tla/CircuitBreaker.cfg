SPECIFICATION FairSpec
CONSTANTS
    c1 = c1  c2 = c2
    Callers <- Two
    Forgetful <- First
    Scale = 4
    Keep = 1
    Weight = 1
    FailureThreshold = 2
    MinRequests = 3
    NoCaller = NoCaller
INVARIANTS TypeOK ProbeIsOut NoTripLost
PROPERTIES ReopensByTest OneProbe OpenIsTested HalfOpenResolves
