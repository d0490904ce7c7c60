CONSTANTS
    MaxRank = 2
    Month = 2
    Pay = {p1, p2, p3}
    NoPay = NoPay
    Refund = {r1}
    Runner = {ticker}
    LastRequest = 3
    MaxTime = 4
    UploadEnd = 1
    MaxEntries = 1
    MaxFaults = 0
SPECIFICATION Spec
ACTION_CONSTRAINT OneAtATime
SYMMETRY Symmetry
INVARIANTS PlanInForceIsBacked
PROPERTIES NoEarlyLoss RefundIsRight
CHECK_DEADLOCK FALSE
