CONSTANTS
    Attachment = {a}
    Worker = {w1, w2}
    Batch = {hourly, manual}
    Ticker = hourly
    Verdict <- MCVerdict
    Kinds <- MCKinds
    MaxAttempts = 2
    MaxSupplement = 2
    MaxFaults = 1
    None = None
SPECIFICATION FairSpec
INVARIANTS AttemptsBounded RowsOnce
PROPERTIES ResultsStand AnalysisEnds
CHECK_DEADLOCK FALSE
