SPECIFICATION Spec
CONSTANTS
    Requests = {r1, r2}
    States = {s1, s2}
    Calendars = {k1}
    MaxTokens = 3
    Rotates = FALSE
    Revokes = TRUE
    None = None
INVARIANTS
    TypeOK
    StaysDisconnected
PROPERTIES
    
    TargetWritable
SYMMETRY Interchangeable
CHECK_DEADLOCK FALSE
