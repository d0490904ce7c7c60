CONSTANTS
    User = {u1}
    Runner = {r1, r2}
    Offsets <- MCOffsets
    Opening = 0
    Overdue = 0
    Goal = {"reviewing", "submitted", "won"}
    Publishable <- MCPublishable
    SafeMethod = TRUE
    MaxTime = 1
    MaxEntries = 1
    MaxFaults = 1
SPECIFICATION FairSpec
INVARIANTS SubmittedIsConfirmed LookupBounded OfficialOutcome ToldOfOutcome
PROPERTY LookupEnds
CHECK_DEADLOCK FALSE
