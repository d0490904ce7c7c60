CONSTANTS
    Collector = {c1}
    Announcing = {c1}
    Sweep = {s}
    View = {w}
    Content <- MCContent
    Limit = {l}
    MaxChanges = 1
    MaxFaults = 1
SPECIFICATION FairSpec
PROPERTIES SourceIsFollowed
CHECK_DEADLOCK FALSE
