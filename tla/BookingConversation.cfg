SPECIFICATION Spec
CONSTANTS
    Sessions = {s1, s2}
    Services = {cut, colour}
    Times = {t1, t2}
    Customers = {c1, c2}
    Window = Window
    None = None
    MaxVersion = 2
INVARIANTS
    TypeOK
    BookedAsTold
    OneBookingPerCall
    ConfirmedAndAgreed
    NoDeadEnd
PROPERTY ImplementsAgreement
CONSTRAINT Bounds
SYMMETRY Interchangeable
CHECK_DEADLOCK FALSE
