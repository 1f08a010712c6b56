SPECIFICATION MCSpec
CONSTANTS
    Pages <- MCPages
    Limit = 3
    Loads = 2
    Reloads = 1
    Changes = 2
    Screens <- MCScreens
    MaxPerKind = 2
    MaxOverlapSamples = 2
    MaxCutoffSamples = 2
    Forms = {"form"}
    Requests <- MCRequests
    Before = 1
    After = 2
    GetAfter = 1
    Settle = 1
    Buffer = 1
    Duplicate = 1
    Reused = FALSE
    Sends = 2
    Triggers = 2
    Toggles = 2
    ActsUntil = 2
    FillForms <- MCFillForms
    Values <- MCValues
    Regions = 2
    Texts = {"saved", "failed"}
    QuietFor = 1
    Acts = 2
INVARIANTS
    OneVoice
    ScanOutlivesLoad
    HealthIsRight
    EvidenceIsTrue
PROPERTIES
    ChangesReported
    ReportsAreTrue
    EveryCaptureEnds
    FilledAsReported
CHECK_DEADLOCK FALSE
