SPECIFICATION Spec
CONSTANTS
    Capture = {c1}
    FastWorker = {f1}
    SlowWorker = {w1, w2}
    MaxScans = 2
    MaxAlerts = 4
    MaxFound = 1
    MaxFaults = 2
    c1 = c1
    f1 = f1
    w1 = w1
    w2 = w2
SYMMETRY WorkerSymmetry
INVARIANTS
    TypeOK
    MergeAligned
    BlobMirrorsTable
    OneScanPerDelivery
CHECK_DEADLOCK FALSE
