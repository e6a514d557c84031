SPECIFICATION Spec
CONSTANTS
    Users = {u1, u2, u3}
    Founder = u1
    Invitations = {i1, i2}
    Requests = {r1, r2}
    Limits = {2, 3}
SYMMETRY Symmetry
INVARIANTS
    HasOwner
    SeatsWithinPlan
    NoSpareInvitation
PROPERTIES
    OwnerKept
    ProcessedOnce
CHECK_DEADLOCK FALSE
