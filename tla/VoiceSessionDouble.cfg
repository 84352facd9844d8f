SPECIFICATION Spec
CONSTANTS
    Attempts = {a1, a2, a3}
    None = None
    Impatient = TRUE
    MaxLeft = 1
INVARIANTS
    OneSession
SYMMETRY AnyAttempt
CHECK_DEADLOCK FALSE
