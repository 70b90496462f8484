SPECIFICATION Spec
CONSTANTS
    r1 = r1
    r2 = r2
    r3 = r3
    c1 = c1
    c2 = c2
    None = None
    Request = {r1, r2, r3}
    Conn = {c1, c2}
    Workloads <- Mixes
    Contents <- InStore
    Late <- Later
    TTL = 2
    MaxClock = 3
    MaxFaults = 2
INVARIANTS
    TypeOK
    OwnFailureOnly
    
    KevFreshEnough
PROPERTIES
    KevFetchedOnce
    EveryoneAnswered
