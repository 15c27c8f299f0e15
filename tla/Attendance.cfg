\* One day, two corrections, two calls and a sweep at once.
SPECIFICATION Spec
CONSTANTS
    d1 = d1
    d2 = d2
    c1 = c1
    c2 = c2
    r1 = r1
    r2 = r2
    Days = {d1}
    Corrections = {c1, c2}
    Requests = {r1, r2}
    Nothing = nothing
SYMMETRY MCSymmetry
INVARIANT RejectedLeavesNoTrace
PROPERTIES LockedDaysStand PresenceIsKept CheckOutStands
CHECK_DEADLOCK FALSE
