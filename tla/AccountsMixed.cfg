SPECIFICATION FairSpec
CONSTANTS
    s1 = s1
    s2 = s2
    s3 = s3
    b1 = b1
    b2 = b2
    b3 = b3
    old = old
    new = new
    NoRow = NoRow
    Untouched = Untouched
    NoTime = NoTime
    NoToken = NoToken
    Session = {s1, s2, s3}
    Box = {b1, b2, b3}
    Secret = {old, new}
    MaxUser = 4
    MaxKey = 4
    MaxClock = 2
    MaxFaults = 1
    MaxFailed = 2
    Lockout = 1
    ShortLife = 1
    LongLife = 1
    Workloads <- MixedWork
    StartUsers <- TwoAdmins
    StartKeys <- SomeKeys
    StartTokens <- StartingTokens
INVARIANTS
    TypeOK
    EmailsUnique
    PasswordCurrent
    BarredStayOut
    UsageNotInflated
PROPERTIES
    SwitchedOffStays
    LastAdminByStaleActor
    Termination
