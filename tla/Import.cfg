\* A document from its file to the ledger.  Once it is recorded nothing is left to do.
SPECIFICATION Spec
CONSTANTS
    None = None
    Absent = Absent
    Mark = Mark
    Glyphs <- MCGlyphs
    CountryCodes = {"DE", "US"}
    Dictionaries <- MCDictionaries
    Documents <- MCDocuments
    MaxDepth = 3
    ProfileNif = 123456789
    PackRetention = 2300
    TypedInto <- MCTypedInto
    MaxEdits = 2
INVARIANTS TypeOK TextFaithful SilenceSaid
PROPERTIES Finishes RecordedIsTrue
CHECK_DEADLOCK FALSE
