CONSTANTS
    Collector = {c1, c2}
    Announcing = {c1}
    Sweep = {}
    View = {}
    Content <- MCContent
    Limit = {}
    MaxChanges = 2
    MaxFaults = 1
SPECIFICATION Spec
INVARIANTS StoreConsistent ChangesAreTrue OnlyFaultsSilence
CHECK_DEADLOCK FALSE
