SPECIFICATION FairSpec
CONSTANTS
    Capture = {c1}
    FastWorker = {f1, f2}
    SlowWorker = {w1}
    MaxScans = 2
    MaxAlerts = 2
    MaxFound = 1
    MaxFaults = 1
    c1 = c1
    f1 = f1
    f2 = f2
    w1 = w1
PROPERTIES
    UploadAnswered
    CompletedIsEnriched
    LifecycleImplemented
CHECK_DEADLOCK FALSE
