SPECIFICATION Spec
CONSTANTS
    Upload = {u1, u2}
    Sweeper = {beat, admin}
    admin = admin
    MaxName = 2
    MaxScans = 2
    MaxClock = 3
    MinAge = 2
    Deadline = 2
    TicksPerDay = 2
    DaysPerMonth = 2
    RetentionDays = 1
    u1 = u1
    u2 = u2
    beat = beat
PROPERTY YoungFilesLeftAlone
CHECK_DEADLOCK FALSE
