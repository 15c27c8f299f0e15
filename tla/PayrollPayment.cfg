CONSTANTS
    e1 = e1
    e2 = e2
    l1 = l1
    i1 = i1
    i2 = i2
    u1 = u1
    u2 = u2
    b1 = b1
    b2 = b2
    b3 = b3
    b4 = b4
    Periods = {1}
    MaxRuns = 2
    Employees = {e1, e2}
    Payrolls <- MCPayrolls
    Missed = {}
    Actors = {u1, u2}
    Advances = {}
    EmployeeOf <- MCNothing
    PeriodOf <- MCNothing
    Limit = 0
    Loans = {l1}
    Borrower <- MCBorrower
    Installments = {i1, i2}
    LoanOf <- MCLoanOf
    Amount <- MCAmount
    DueIn <- MCDueIn
    Requests <- MCRequests
    IdempotencyKeys = {1, 2, 3, 4, 5, 6, 7, 8, 9, 10, 11, 12}
    BankReferences = {b1, b2, b3, b4}
SPECIFICATION PaymentSpec
INVARIANT BatchTellsItsPayments
PROPERTIES ImplementsPayout ImplementsPayrollRun
