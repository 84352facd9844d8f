SPECIFICATION Spec
CONSTANTS
    Users = {u1, u2}
    Companies = {c1, c2}
    Invitations = {i1, i2}
    Statuses = {"active", "suspended"}
    Requests = {r1}
    MaxOvertaken = 1
    None = None
INVARIANTS
    TypeOK
PROPERTIES
    LeadersStay
    InvitationsOnce
    OneCompany
CONSTRAINT Bounds
SYMMETRY Interchangeable
CHECK_DEADLOCK FALSE
