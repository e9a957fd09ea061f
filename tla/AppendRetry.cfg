\* The disk is full for a moment, and a later append succeeds.
SPECIFICATION Spec
CONSTANTS
    MaxAppends = 2
    Faults = {"nospace"}
INVARIANT AckedParses
CHECK_DEADLOCK FALSE
