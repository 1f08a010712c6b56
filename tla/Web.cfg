SPECIFICATION MCSpec
CONSTANTS
    Files = {"brief", "notes", "photo", "scan"}
    KindOf <- MCKindOf
    Inputs <- MCInputs
    MaxFiles = 2
    Submits = 2
    Restarts = 1
    Streams = 2
    Tokens = 3
    Mounts = 2
    Takes = 2
    Modes <- MCModes
    Accepts = {"document", "image"}
    MaxAttached = 2
    Selections <- MCSelections
    Picks = 3
INVARIANTS
    ShowsItsInput
    RetryWhereItHelps
    StreamFaithful
PROPERTIES
    WebSettles
    FilesStay
CHECK_DEADLOCK FALSE
