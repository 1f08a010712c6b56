SPECIFICATION Spec
CONSTANTS
    Forms <- MCForms
    Plans <- MCPlans
    MaxCases = 12
    NoField = ""
INVARIANTS
    OneFaultEach
    OneTestEach
PROPERTIES
    MergeKeepsBest
CHECK_DEADLOCK FALSE
