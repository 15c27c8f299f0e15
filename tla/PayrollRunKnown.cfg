\* The properties the code does not keep (README, Known disagreements), one at a time:
\* TLC finds the active one violated; activate another to see its trace.
CONSTANTS
    e1 = e1
    e2 = e2
    a1 = a1
    a2 = a2
    l1 = l1
    i1 = i1
    i2 = i2
    u1 = u1
    u2 = u2
    Periods = {1, 2}
    MaxRuns = 2
    Employees = {e1, e2}
    Payrolls <- MCPayrolls
    Missed <- MCMissed
    Actors = {u1, u2}
    Advances = {a1, a2}
    EmployeeOf <- MCEmployeeOf
    PeriodOf <- MCPeriodOf
    Limit = 1
    Loans = {l1}
    Borrower <- MCBorrower
    Installments = {i1, i2}
    LoanOf <- MCLoanOf
    Amount <- MCAmount
    DueIn <- MCDueIn
SPECIFICATION Spec
INVARIANT ClosedPeriodsAreSettled
\* INVARIANT ReservedWithinLimit
\* INVARIANT CancelledIsRegistrable
