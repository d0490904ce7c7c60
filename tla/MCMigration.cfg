CONSTANTS
    Script <- ApplySteps
    Collector = {g2b, bizinfo}
    Release = {"empty", "first", "embedded", "earlier", "current"}
    MaxBoots = 3
    MaxActs = 1
SPECIFICATION Spec
SYMMETRY Symmetry
INVARIANTS OnlyKnownFailures SchemaServes GrandfatheredOnce
PROPERTIES EditsKept
CHECK_DEADLOCK FALSE
