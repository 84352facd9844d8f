SPECIFICATION Spec
CONSTANTS
    Attempts = {a1, a2}
    None = None
    Impatient = FALSE
    MaxLeft = 1
INVARIANTS
    MicrophoneReleased
CHECK_DEADLOCK FALSE
