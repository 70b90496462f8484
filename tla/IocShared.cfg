SPECIFICATION FairSpec
CONSTANTS
    s1 = s1
    s2 = s2
    s3 = s3
    k1 = k1
    k2 = k2
    k3 = k3
    NoRow = NoRow
    Untouched = Untouched
    NoTime = NoTime
    Keep = Keep
    Session = {s1, s2, s3}
    Key = {k1, k2, k3}
    MaxRow = 4
    MaxClock = 1
    Retention = 0
    MaxFaults = 1
    Workloads <- SharedWorks
    StartRows <- TwoRows
INVARIANTS
    TypeOK
    CreatedCountHonest
    ItemsAccounted
    NoDuplicatesUnlessShared
PROPERTIES
    Termination
    CatalogSpec
