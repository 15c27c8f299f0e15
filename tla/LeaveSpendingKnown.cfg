\* The properties the code does not keep (README, Known disagreements), one at a time:
\* TLC finds the active one violated; activate another to see its trace.
CONSTANTS
    e1 = e1
    e2 = e2
    r1 = r1
    r2 = r2
    Staff = {e1, e2}
    Allocation <- MCAllocation
    Present = {e1, e2}
    Appliers = {a1, a2}
    Rows = {r1, r2}
    OwnerOf <- MCOwnerOf
    Days <- MCDays
    MaxDaysPerYear = 1
    Runs = {n1, n2}
    Actors = {u1, u2}
SPECIFICATION SpendingSpec
SYMMETRY MCSymmetry
INVARIANT CeilingRespected
\* INVARIANT DayCoveredOnce
\* PROPERTY NobodyPassedOver
