SPECIFICATION Spec
CONSTANTS
    r1 = r1
    r2 = r2
    r3 = r3
    p1 = p1
    p2 = p2
    Requests = {r1}
    Processes = {p1}
    Home <- TwoHomes
    Keys = {k1}
    Slots <- TwoSlots
    Zones = {berlin}
    NoRequest = NoRequest
INVARIANTS
    ProviderErrorsFail
CHECK_DEADLOCK FALSE
