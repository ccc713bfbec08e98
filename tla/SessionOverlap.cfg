CONSTANTS
    Workers = {w1, w2}
    RunIds = {m1, m2}
    NoRun = NoRun
    NoWorker = NoWorker
    MaxFaults = 0

SPECIFICATION Spec
INVARIANT SingleActiveRun
CHECK_DEADLOCK FALSE
