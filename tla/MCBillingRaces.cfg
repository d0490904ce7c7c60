CONSTANTS
    MaxRank = 2
    Month = 1
    Pay = {p1, p2}
    NoPay = NoPay
    Refund = {r1}
    Runner = {ticker}
    LastRequest = 1
    MaxTime = 1
    UploadEnd = 0
    MaxEntries = 0
    MaxFaults = 1
SPECIFICATION Spec
SYMMETRY Symmetry
INVARIANTS RowIsSound PlanWasPaid LedgerMatchesToss
CHECK_DEADLOCK FALSE
