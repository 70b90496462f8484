SPECIFICATION Spec
CONSTANTS
    s1 = s1
    s2 = s2
    s3 = s3
    x = x
    y = y
    yy = yy
    NoName = NoName
    Session = {s1}
    Name = {x, y, yy}
    Slug <- Slugs
    Holdings <- Aged
    Jobs <- HistoryJobs
    Span = 2
    KnownSets <- Known
    MaxFaults = 0
INVARIANTS
    HistoryReachesBack
