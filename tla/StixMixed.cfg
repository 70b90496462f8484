SPECIFICATION Spec
CONSTANTS
    s1 = s1
    s2 = s2
    s3 = s3
    x = x
    y = y
    yy = yy
    NoName = NoName
    Session = {s1, s2, s3}
    Name = {x, y, yy}
    Slug <- Slugs
    Holdings <- Mixed
    Jobs <- MixedJobs
    Span = 2
    KnownSets <- Known
    MaxFaults = 1
INVARIANTS
    TypeOK
    RefsResolve
    NewCountHonest
    ConflictNeedsNewcomer
PROPERTIES
    Termination
