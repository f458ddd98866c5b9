\* enrichment.py: "Appended carved/YARA alerts are also pushed into
\* results['alerts'] so the blob and the alerts table keep the same count".
SPECIFICATION Spec
CONSTANTS
    Capture = {c1}
    FastWorker = {f1}
    SlowWorker = {w1, w2}
    MaxScans = 1
    MaxAlerts = 3
    MaxFound = 1
    MaxFaults = 1
    c1 = c1
    f1 = f1
    w1 = w1
    w2 = w2
INVARIANT CountsAgree
CHECK_DEADLOCK FALSE
