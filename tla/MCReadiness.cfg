CONSTANTS
    Class <- MCClass
    SmallCap = 2
    Client = {c1, c2}
    Type = {"procurement", "support_program"}
    Published <- MCPublished
    Profile <- MCProfile
    Answer <- MCAnswer
    Record <- MCRecord
    Kind = {"financial"}
    MaxDay = 2
    MaxEdits = 2
    MaxEvents = 2
SPECIFICATION ReadinessSpec
SYMMETRY MCSymmetry
INVARIANTS GradeIsBacked EnginesAgree AnswerStands AddedOnce
PROPERTIES ViewShowsCurrent
CHECK_DEADLOCK FALSE
