\* The power goes after a file was archived.
SPECIFICATION Spec
CONSTANTS
    None = None
    w1 = w1
    w2 = w2
    c1 = c1
    c2 = c2
    Windows = {w1, w2}
    Contents = {c1, c2}
    Routes = {"file"}
    MaxUnanswered = 2
    MaxOps = 2
    Faults = {"powercut"}
INVARIANT IndexHasFile
SYMMETRY Symmetry
CHECK_DEADLOCK FALSE
