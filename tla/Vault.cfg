\* Two windows and every operation, under deaths, errors, power cuts and edits of the source.
SPECIFICATION Spec
CONSTANTS
    None = None
    w1 = w1
    w2 = w2
    c1 = c1
    c2 = c2
    Windows = {w1, w2}
    Contents = {c1, c2}
    Routes = {"file", "bytes", "receipt", "complete"}
    MaxOps = 4
    Faults = {"kill", "io", "dirsync", "powercut", "edit"}
    MaxUnanswered = 3
INVARIANTS TypeOK AnsweredKept AuditNeverAhead StatsFresh
PROPERTY IndexSound
CONSTRAINT Bounds
VIEW MCView
SYMMETRY Symmetry
CHECK_DEADLOCK FALSE
