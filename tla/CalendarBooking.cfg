SPECIFICATION FairSpec
CONSTANTS
    r1 = r1
    r2 = r2
    r3 = r3
    p1 = p1
    p2 = p2
    Requests = {r1, r2, r3}
    Processes = {p1, p2}
    Home <- TwoHomes
    Keys = {k1, k2}
    Slots <- TwoSlots
    Zones = {berlin, athens}
    NoRequest = NoRequest
INVARIANTS
    TypeOK
    SerializedBookingsDisjoint
    ConfirmedMeansOneEvent
PROPERTIES
    EveryCallEnds
    ImplementsLedger
CONSTRAINTS
    Ordered
    OneZoneOrTwoCalls
CHECK_DEADLOCK FALSE
