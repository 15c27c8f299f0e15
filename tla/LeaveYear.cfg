\* Two active employees, two accrual runs, beside and after each other, failing and dying.
CONSTANTS
    e1 = e1
    e2 = e2
    Employees = {e1, e2}
    Active = {e1, e2}
    Entitlement <- MCEntitlement
    LastYear <- MCLastYear
    Cap = 1
    Jobs = {j1, j2}
    HRTotals <- MCHRTotals
    MaxUsed <- MCMaxUsed
    MaxLate <- MCMaxLate
SYMMETRY Runs
SPECIFICATION Spec
INVARIANT ExpiredAfterAccrual
PROPERTIES DeductionsSurvive CarriedOnce
