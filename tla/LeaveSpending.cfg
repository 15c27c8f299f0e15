CONSTANTS
    e1 = e1
    e2 = e2
    r1 = r1
    r2 = r2
    Staff = {e1, e2}
    Allocation <- MCAllocation
    Present = {e2}
    Appliers = {a1, a2}
    Rows = {r1, r2}
    OwnerOf <- MCOwnerOf
    Days <- MCDays
    MaxDaysPerYear = 2
    Runs = {n1, n2}
    Actors = {u1, u2}
SPECIFICATION SpendingSpec
SYMMETRY MCSymmetry
INVARIANTS AppliedOnce EveryDaySpentOnce WholeCompany PaidByAStandingRun
PROPERTY PaymentStands
