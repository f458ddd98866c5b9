SPECIFICATION Spec
CONSTANTS
    Upload = {u1, u2}
    Sweeper = {beat}
    MaxName = 2
    MaxScans = 2
    MaxClock = 7
    MinAge = 2
    Deadline = 2
    TicksPerDay = 2
    DaysPerMonth = 2
    RetentionDays = 1
    u1 = u1
    u2 = u2
    beat = beat
INVARIANTS
    TypeOK
    SourceKept
    InFlightKept
PROPERTIES
    AlertsKept
    YoungFilesLeftAlone
CHECK_DEADLOCK FALSE
