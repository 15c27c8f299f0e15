\* The properties the code does not keep (README, Known disagreements), one at a time:
\* TLC finds the active one violated; activate another to see its trace.
SPECIFICATION Spec
CONSTANTS
    d1 = d1
    d2 = d2
    c1 = c1
    c2 = c2
    r1 = r1
    r2 = r2
    Days = {d1}
    Corrections = {c1, c2}
    Requests = {r1, r2}
    Nothing = nothing
SYMMETRY MCSymmetry
CHECK_DEADLOCK FALSE
PROPERTY ApprovedCounts
\* PROPERTY OnlyForgottenAreClosed
