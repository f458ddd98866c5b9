SPECIFICATION Spec
CONSTANTS
    Analysis = {a1, a2}
    Artifact = {1, 2}
    MaxAlerts = 1
    MinHistory = 1
    m1 = m1
    m2 = m2
    Mac = {m1, m2}
    ManualHost = {x}
    Ip = {ip}
    NoHost = NoHost
    Capture <- Captures
    User = {u1, u2}
    MaxEdits = 3
SYMMETRY Symmetry
INVARIANTS
    TypeOK
    FirstSeenOnce
    SeenBooksExact
    DecisionsStand
    GoneStaysGone
CHECK_DEADLOCK FALSE
