\* The properties the code does not keep (README, Known disagreements), one at a time:
\* TLC finds the active one violated; activate another to see its trace.
CONSTANTS
    e1 = e1
    e2 = e2
    Employees = {e1, e2}
    Active = {e1, e2}
    Entitlement <- MCEntitlement
    LastYear <- KnownLastYear
    Cap = 2
    Jobs = {j1, j2}
    HRTotals <- KnownHRTotals
    MaxUsed <- KnownMaxUsed
    MaxLate <- KnownMaxLate
SYMMETRY Runs
SPECIFICATION Spec
PROPERTY ForfeitedStaysForfeited
\* PROPERTY RunTwiceIsSafe
\* INVARIANT RemainingIsWhatIsLeft
\* PROPERTY ExpiredDaysWereCarried
