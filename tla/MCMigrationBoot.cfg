CONSTANTS
    Script <- ApplySteps
    Collector = {g2b, bizinfo}
    Release = {"empty", "embedded"}
    MaxBoots = 2
    MaxActs = 1
SPECIFICATION Spec
SYMMETRY Symmetry
INVARIANT ServerStarts
CHECK_DEADLOCK FALSE
