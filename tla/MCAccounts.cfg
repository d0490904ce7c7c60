CONSTANTS
    User = {u1, u2, u3}
    Social = {u3}
    Provider = {google, naver}
    Company = {c}
    Invitation = {i1, i2}
    Request = {r1, r2}
    Seats = 2
    MaxLeavers = 1
    None = None
SPECIFICATION Spec
SYMMETRY Symmetry
INVARIANTS SeatsKept NobodyLeftBehind CanLogIn
PROPERTIES NoEviction
CHECK_DEADLOCK FALSE
