SPECIFICATION RosterSpec
CONSTANTS
    Employees = {ann, bob, cat}
    Dates = {d1}
    Swaps = {q1, q2}
    Calls = {c1, c2}
    Nobody = Nobody
    ann = ann
    bob = bob
    cat = cat
    d1 = d1
    q1 = q1
    q2 = q2
    c1 = c1
    c2 = c2
SYMMETRY Symmetry
INVARIANTS PayrollCanResolve SwapsAreWhole
PROPERTY LockedRosterStands
CHECK_DEADLOCK FALSE
