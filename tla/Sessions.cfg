SPECIFICATION Spec
CONSTANTS
    Companies = {c1, c2}
    Sessions = {s1, s2}
    Tokens = {t1, t2}
    Requests = {r1}
    MaxSecrets = 2
    MaxOvertaken = 1
    None = None
INVARIANTS
    TypeOK
    SessionsEnd
    TokensOnce
SYMMETRY Interchangeable
CHECK_DEADLOCK FALSE
