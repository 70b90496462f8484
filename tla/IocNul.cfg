SPECIFICATION Spec
CONSTANTS
    s1 = s1
    s2 = s2
    s3 = s3
    k1 = k1
    k2 = k2
    k3 = k3
    NoRow = NoRow
    Untouched = Untouched
    NoTime = NoTime
    Keep = Keep
    Session = {s1, s2}
    Key = {k1, k2}
    MaxRow = 3
    MaxClock = 2
    Retention = 0
    MaxFaults = 0
    Workloads <- NulWork
    StartRows <- NoRows
INVARIANTS
    CreatedCountHonest
