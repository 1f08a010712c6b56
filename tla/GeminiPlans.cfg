SPECIFICATION FairGeminiSpec
CONSTANTS
    Asks <- MCAsks
    Signatures <- MCSignatures
    SignatureOf <- MCSignatureOf
    NoAsk = 0
    MaxPlans = 2
    Faults = 1
    Crashes = 1
INVARIANTS
    StoredAreNewest
PROPERTIES
    EveryAskIsAnswered
CHECK_DEADLOCK FALSE
