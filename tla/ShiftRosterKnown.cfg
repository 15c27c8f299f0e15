\* The properties the code does not keep (README, Known disagreements), one at a time:
\* TLC finds the active one violated; activate another to see its trace.
SPECIFICATION RosterSpec
CONSTANTS
    Employees = {ann, bob, cat}
    Dates = {d1}
    Swaps = {q1, q2}
    Calls = {c1, c2}
    Nobody = Nobody
    ann = ann
    bob = bob
    cat = cat
    d1 = d1
    q1 = q1
    q2 = q2
    c1 = c1
    c2 = c2
SYMMETRY Symmetry
CHECK_DEADLOCK FALSE
PROPERTY CancelledStaysCancelled
\* PROPERTY SettledDatesStand
