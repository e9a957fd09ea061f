\* The rate printed on a paper against the IVA printed on it.
SPECIFICATION Spec
CONSTANTS
    None = None
    Absent = Absent
    Mark = Mark
    Glyphs <- MCGlyphs
    CountryCodes = {"DE", "US"}
    Dictionaries <- MCDictionaries
    Documents <- MCDocuments
    MaxDepth = 3
    ProfileNif = 123456789
    PackRetention = 2300
    TypedInto <- MCTypedInto
    MaxEdits = 2
INVARIANTS PrintedRateChecked
CHECK_DEADLOCK FALSE
