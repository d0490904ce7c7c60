SPECIFICATION Spec
ACTION_CONSTRAINT Bounds
CONSTANTS
    Scheduler = {s1, s2}
    Worker = {w1, w2}
    Event = {1, 2}
    TimeOnly = {1}
    Timed = {6}
    Offset <- MCOffset
    Deadline = {2, 6}
    Contact = {c1}
    Member = {m1}
    Grace = 5
    None = None
    Quota = 1
    MaxTime = 7
    MaxChanges = 2
    MaxFaults = 1
SYMMETRY MCSymmetry
INVARIANTS RemindedOnce NotRetroactive NothingMissed MailBounded
CHECK_DEADLOCK FALSE
