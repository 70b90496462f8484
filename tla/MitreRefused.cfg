SPECIFICATION Spec
CONSTANTS
    daily = daily
    manual = manual
    te = te
    tm = tm
    ti = ti
    qe = qe
    qm = qm
    g1 = g1
    g2 = g2
    access = access
    impact = impact
    NoName = NoName
    Sync = {daily, manual}
    Key = {te, tm, ti, qe, qm, g1, g2}
    Kind <- Kinded
    Name <- Named
    Releases <- Both
    Gradings <- Refusal
    Catalogues <- Stored
    MaxFaults = 0
INVARIANTS
    OneFailureOneBundle
