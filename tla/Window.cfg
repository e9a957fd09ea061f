\* Imports, completions and profile edits under every fault.
SPECIFICATION Spec
CONSTANTS
    None = None
    Unreadable = Unreadable
    d1 = d1
    d2 = d2
    n1 = n1
    n2 = n2
    Documents = {d1, d2}
    Nifs = {n1, n2}
    IssuerOf <- MCIssuerOf
    Obligations = {o1}
    MaxReads = 2
    MaxLines = 3
    MaxSeconds = 1
    Faults = {"before", "archive", "link", "record", "spoil"}
INVARIANTS TypeOK ModelFresh RegisteredApart LinkedRight
