\* The pages over a window's profile, ledger and agenda, and the form.
SPECIFICATION Spec
CONSTANTS
    None = None
    Mark = Mark
    Garbled = Garbled
    EmbeddedPack <- MCEmbeddedPack
    OtherPacks <- MCOtherPacks
    RuleOf <- MCRuleOf
    Published <- MCPublished
    Vaults <- MCVaults
    Receipts <- MCReceipts
    Typed <- MCTyped
    Meant <- MCMeant
    StartDays <- MCStartDays
    MaxDays = 1
    MaxOpen = 1
    MaxDone = 1
    MaxWork = 2
INVARIANTS TypeOK Reopens FiguresAgree RulesDecided
PROPERTIES SavedAsMeant CeilingWatched RefinesCalendar
