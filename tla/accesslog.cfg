SPECIFICATION Spec
CONSTANTS
    Requests = {r1, r2, r3}
    HasPath = TRUE
SYMMETRY Symmetry
INVARIANTS TypeOK LinesAccountedFor NoLineAfterGivingUp
PROPERTIES SettledForGood ImplementsLineLog
