SPECIFICATION FairSpec
CONSTANTS
    MaxEvidence = 2
    MaxAttempts = 2
    Lifetimes = 2
    StoreErrors = 1
INVARIANTS TypeOK EvidenceCovered AttemptBudget OverlapOnlyByOrphan
PROPERTIES SettledStays JobsSettle
CHECK_DEADLOCK FALSE
