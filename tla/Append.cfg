\* Every fault, on a new file and on one that was there.
SPECIFICATION Spec
CONSTANTS
    MaxAppends = 4
    Faults = {"kill", "nospace", "sync", "powercut"}
INVARIANTS TypeOK AckedOnDisk ReadableUntilCut CallOrder
CHECK_DEADLOCK FALSE
