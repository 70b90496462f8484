SPECIFICATION Spec
CONSTANTS
    a = a
    b = b
    p1 = p1
    p2 = p2
    Proc = {p1, p2}
    SourceMap <- TwoSources
    Asks <- PullLists
    MaxPulls = 1
    MaxBeats = 1
    MaxFaults = 1
    MaxSent = 10
INVARIANTS
    TypeOK
    RepeatsBounded
PROPERTIES
    AskedIsServed
    QueueSpec
