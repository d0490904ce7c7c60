CONSTANTS
    Request = {r1, r2}
    Target = {a, b}
    MaxRank = 1
    Limit <- MCLimit
    Trial = 1
    MaxMonth = 1
    MaxPlanChanges = 1
    MaxFaults = 1
SPECIFICATION Spec
SYMMETRY Symmetry
INVARIANTS FailuresAreFree ReleaseIsSafe DraftsMatchCharges
PROPERTIES ImplementsQuota
CHECK_DEADLOCK FALSE
