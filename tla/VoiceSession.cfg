SPECIFICATION Spec
CONSTANTS
    Attempts = {a1, a2}
    None = None
    Impatient = FALSE
    MaxLeft = 1
INVARIANTS
    TypeOK
    SessionIsCurrent
PROPERTIES
    ReportsKept
    ServerDecides
    StartSettles
CHECK_DEADLOCK FALSE
