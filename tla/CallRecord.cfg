SPECIFICATION FairSpec
CONSTANTS
    w1 = w1
    w2 = w2
    Segments = {g1}
    Streams = {s1, s2}
    Workers = {w1, w2}
    NoSegment = NoSegment
    NoOne = NoOne
    MaxAttempts = 2
    MaxRevision = 2
    MaxCallbacks = 1
    MaxRetries = 1
INVARIANTS
    TypeOK
    RecordIsCurrent
    ClaimsBounded
PROPERTIES
    NothingTakenBack
    ImplementsDocument
    EndsAndSettles
CHECK_DEADLOCK FALSE
