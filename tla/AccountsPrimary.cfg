SPECIFICATION Spec
CONSTANTS
    Users = {u1, u2}
    Companies = {c1}
    Invitations = {i1}
    Statuses = {"active", "suspended"}
    Requests = {}
    MaxOvertaken = 1
    None = None
PROPERTIES
    PrimaryStays
SYMMETRY Interchangeable
CHECK_DEADLOCK FALSE
