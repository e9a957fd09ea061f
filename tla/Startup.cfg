\* Starts in six environments, with a pointer, repositories and links.
SPECIFICATION Spec
CONSTANTS
    None = None
    Names <- MCNames
    Envs <- MCEnvs
    Folders <- MCFolders
    Links <- MCLinks
    AppRoot <- MCAppRoot
    OtherRepos <- MCOtherRepos
    Chosen <- MCChosen
    MaxOpen = 3
    MaxEdits = 2
INVARIANTS TypeOK KeptOut SourceShown
PROPERTIES RefusedLeavesNothing
CHECK_DEADLOCK FALSE
