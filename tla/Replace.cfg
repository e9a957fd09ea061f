\* Three threads of two processes, under every fault.
SPECIFICATION Spec
CONSTANTS
    t1 = t1
    t2 = t2
    t3 = t3
    p1 = p1
    p2 = p2
    i1 = i1
    i2 = i2
    Threads = {t1, t2, t3}
    Processes = {p1, p2}
    ProcessOf <- MCProcessOf
    Pids = {i1, i2}
    MaxCalls = 3
    MaxStarts = 3
    Faults = {"io", "dirsync", "unlink", "kill", "powercut"}
    None = None
INVARIANTS TypeOK TargetWhole OkSurvives NoLitter
PROPERTY AtomicAndDurable
SYMMETRY MCSymmetry
VIEW MCView
CHECK_DEADLOCK FALSE
