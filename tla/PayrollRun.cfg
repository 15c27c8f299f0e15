CONSTANTS
    e1 = e1
    e2 = e2
    a1 = a1
    a2 = a2
    l1 = l1
    i1 = i1
    i2 = i2
    u1 = u1
    u2 = u2
    Periods = {1, 2}
    MaxRuns = 2
    Employees = {e1, e2}
    Payrolls <- MCPayrolls
    Missed <- MCMissed
    Actors = {u1, u2}
    Advances = {a1}
    EmployeeOf <- MCEmployeeOf
    PeriodOf <- MCPeriodOf
    Limit = 1
    Loans = {l1}
    Borrower <- MCBorrower
    Installments = {i1, i2}
    LoanOf <- MCLoanOf
    Amount <- MCAmount
    DueIn <- MCDueIn
SPECIFICATION Spec
SYMMETRY MCSymmetry
INVARIANTS OneLiveRun ClaimsHeldByLiveRuns PaidOncePerPeriod LoansSettle
PROPERTY ApprovedMoneyStands
