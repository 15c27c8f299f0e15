----------------------------- MODULE PayrollRun -----------------------------
(***************************************************************************)
(* Payroll periods and runs (payroll.service.ts) and what a run claims:    *)
(* arrears of closed periods (payroll-arrears.service.ts), earned wage     *)
(* access already paid out (modules/ewa) and loan instalments that are due *)
(* (modules/employee-loan), until the run is settled or voided.            *)
(*                                                                         *)
(* createPayrollRun is one serialisable transaction under the company's    *)
(* row lock, as is voidPayrollRun; settlement is one transaction; every    *)
(* other claim is a conditional update.  Two handlers read first and write *)
(* later without a lock: closePayrollPeriod and the registration of        *)
(* arrears.                                                                *)
(***************************************************************************)
EXTENDS Integers, FiniteSetsExt

CONSTANTS
    Periods,        \* numbered in calendar order from 1
    MaxRuns,        \* payroll_runs rows that may be created
    Employees,
    Payrolls,       \* the sets of employees who may have a salary to be paid at a time
    Missed,         \* the <<employee, period>> pairs HR may find left out
    Actors,         \* payroll users
    Advances,       \* earned_wage_accesses rows, of one unit each
    EmployeeOf,     \* [Advances -> Employees]
    PeriodOf,       \* [Advances -> Periods]
    Limit,          \* units an employee may have reserved in a period
    Loans,
    Borrower,       \* [Loans -> Employees]
    Installments,
    LoanOf,         \* [Installments -> Loans]
    Amount,         \* [Installments -> Nat]
    DueIn           \* [Installments -> Periods]: due by the end of that period

ASSUME PayrollAssumption ==
    /\ Payrolls \subseteq (SUBSET Employees) \ {{}} /\ Missed \subseteq Employees \X Periods
    /\ Periods \subseteq Nat \ {0} /\ MaxRuns \in Nat /\ Limit \in Nat
    /\ EmployeeOf \in [Advances -> Employees] /\ PeriodOf \in [Advances -> Periods]
    /\ Borrower \in [Loans -> Employees] /\ LoanOf \in [Installments -> Loans]
    /\ Amount \in [Installments -> Nat \ {0}] /\ DueIn \in [Installments -> Periods]
    /\ IsFiniteSet(Installments) /\ \A l \in Loans : \E i \in Installments : LoanOf[i] = l

Runs == 1..MaxRuns
Keys == Missed   \* rows of payroll_arrears, unique by employee and period

RunStatus == {"NONE", "COMPLETED", "APPROVED", "DISBURSED", "VOIDED"}
ArrearsStatus == {"NONE", "CHECKED", "PENDING", "APPLIED", "CANCELLED"}
AdvanceStatus ==
    {"NONE", "PENDING", "APPROVED", "PAID", "DEDUCTED", "REJECTED", "CANCELLED"}

VARIABLES
    period,         \* [closed, reviewed] of each period
    closing,        \* periods whose closePayrollPeriod has passed its check
    run,            \* payroll_runs; slips are the employees with a payslip
    arrears,        \* payroll_arrears; CHECKED is a registration without its row yet
    advance,        \* earned_wage_accesses
    installment,    \* loan_installments with the runs that have a snapshot of each
    loan            \* [paid, balance] of each loan

claims == <<arrears, advance, installment>>
vars == <<period, closing, run, claims, loan>>

TypeOK ==
    /\ period \in [Periods -> [closed : BOOLEAN, reviewed : BOOLEAN]]
    /\ closing \subseteq Periods
    /\ run \in [Runs -> [status : RunStatus, type : {"REGULAR", "THR"}, period : Periods \cup {0},
                         createdBy : SUBSET Actors, approvedBy : SUBSET Actors,
                         slips : SUBSET Employees]]
    /\ arrears \in [Keys -> [status : ArrearsStatus, run : SUBSET Runs]]
    /\ advance \in [Advances -> [status : AdvanceStatus, run : SUBSET Runs]]
    /\ installment \in [Installments -> [paid : BOOLEAN, run : SUBSET Runs]]
    /\ loan \in [Loans -> [paid : BOOLEAN, balance : Nat]]

AmountOf(is) == MapThenSumSet(LAMBDA i : Amount[i], is)
Unpaid(l) == {i \in Installments : LoanOf[i] = l /\ ~installment[i].paid}

NoRun == [status |-> "NONE", type |-> "REGULAR", period |-> 0,
          createdBy |-> {}, approvedBy |-> {}, slips |-> {}]

\* Loans are approved before the story starts, each with its schedule.
Init ==
    /\ period = [p \in Periods |-> [closed |-> FALSE, reviewed |-> FALSE]]
    /\ closing = {}
    /\ run = [n \in Runs |-> NoRun]
    /\ arrears = [k \in Keys |-> [status |-> "NONE", run |-> {}]]
    /\ advance = [a \in Advances |-> [status |-> "NONE", run |-> {}]]
    /\ installment = [i \in Installments |-> [paid |-> FALSE, run |-> {}]]
    /\ loan = [l \in Loans |-> [paid |-> FALSE,
                                balance |-> AmountOf({i \in Installments : LoanOf[i] = l})]]

-----------------------------------------------------------------------------
(* Periods.                                                                *)

ConfirmAttendance(p) ==
    /\ ~period[p].closed
    /\ period' = [period EXCEPT ![p].reviewed = TRUE]
    /\ UNCHANGED <<closing, run, claims, loan>>

Live(n) == run[n].status \in {"COMPLETED", "APPROVED", "DISBURSED"}
LiveIn(p) == {n \in Runs : Live(n) /\ run[n].period = p}

\* closePayrollPeriod looks at one run of the period, whichever comes first, and
\* writes CLOSED by an update of its own.
CheckClose(p) ==
    /\ LiveIn(p) = {} \/ \E n \in LiveIn(p) : run[n].status \in {"APPROVED", "DISBURSED"}
    /\ closing' = closing \cup {p}
    /\ UNCHANGED <<period, run, claims, loan>>

ClosePeriod(p) ==
    /\ p \in closing
    /\ closing' = closing \ {p}
    /\ period' = [period EXCEPT ![p].closed = TRUE]
    /\ UNCHANGED <<run, claims, loan>>

-----------------------------------------------------------------------------
(* Runs.                                                                   *)

\* One run per period and type; a voided one frees its slot.
FreeUnlessCompleted(t, p) ==  \* bug: only a run not yet approved takes the slot
    \A n \in LiveIn(p) : run[n].type = t => run[n].status # "COMPLETED"
FreeSlot(t, p) == \A n \in LiveIn(p) : run[n].type # t

CanCreate(n, t, p) ==
    /\ run[n].status = "NONE"
    /\ \A m \in 1..(n - 1) : run[m].status # "NONE"
    /\ ~period[p].closed
    /\ FreeSlot(t, p)

NewRun(n, t, p, u, staff) ==
    run' = [run EXCEPT ![n] = [status |-> "COMPLETED", type |-> t, period |-> p,
                               createdBy |-> {u}, approvedBy |-> {}, slips |-> staff]]

\* What the run of period p collects for the employees on its payroll.
DueArrears(staff) == {k \in Keys : k[1] \in staff /\ arrears[k].status = "PENDING"}
DueAdvances(p, staff) ==
    {a \in Advances : EmployeeOf[a] \in staff /\ PeriodOf[a] = p /\ advance[a].status = "PAID"}
DueAgain(p, staff) ==  \* bug: an instalment with a snapshot is due until it is paid
    {i \in Installments : /\ Borrower[LoanOf[i]] \in staff /\ DueIn[i] <= p
                          /\ ~installment[i].paid}
DueInstallments(p, staff) ==
    {i \in Installments : /\ Borrower[LoanOf[i]] \in staff /\ DueIn[i] <= p
                          /\ ~installment[i].paid /\ installment[i].run = {}}

\* Collected and claimed in one transaction, conditionally, so the two agree.
ClaimArrears(n, staff) ==
    [k \in Keys |-> IF k \in DueArrears(staff) THEN [status |-> "APPLIED", run |-> {n}]
                                                ELSE arrears[k]]
ClaimAdvances(n, p, staff) ==
    [a \in Advances |-> IF a \in DueAdvances(p, staff)
                        THEN [status |-> "DEDUCTED", run |-> {n}] ELSE advance[a]]
ClaimInstallments(n, p, staff) ==
    [i \in Installments |-> IF i \in DueInstallments(p, staff)
                            THEN [installment[i] EXCEPT !.run = @ \cup {n}]
                            ELSE installment[i]]

CreateRegularRun(n, p, u, staff) ==
    /\ CanCreate(n, "REGULAR", p)
    /\ period[p].reviewed
    /\ NewRun(n, "REGULAR", p, u, staff)
    /\ arrears' = ClaimArrears(n, staff)
    /\ advance' = ClaimAdvances(n, p, staff)
    /\ installment' = ClaimInstallments(n, p, staff)
    /\ UNCHANGED <<period, closing, loan>>

\* The holiday allowance is calculated on its own and claims nothing.
CreateThrRun(n, p, u, staff) ==
    /\ CanCreate(n, "THR", p)
    /\ NewRun(n, "THR", p, u, staff)
    /\ UNCHANGED <<period, closing, claims, loan>>

\* Voiding hands back every claim of this run, and of no other, in one transaction.
VoidableApproved(n) ==  \* bug: approved money is voided
    run[n].status \in {"COMPLETED", "APPROVED"}
Voidable(n) == run[n].status = "COMPLETED"

KeepsArrears(n) == arrears  \* bug: the applied arrears stay with the dead run
ReleaseArrears(n) ==
    [k \in Keys |-> IF arrears[k].status = "APPLIED" /\ arrears[k].run = {n}
                    THEN [status |-> "PENDING", run |-> {}] ELSE arrears[k]]
ReleaseAdvances(n) ==
    [a \in Advances |-> IF advance[a].status = "DEDUCTED" /\ advance[a].run = {n}
                        THEN [status |-> "PAID", run |-> {}] ELSE advance[a]]
ReleaseInstallments(n) ==
    [i \in Installments |-> [installment[i] EXCEPT !.run = @ \ {n}]]

VoidRun(n) ==
    /\ Voidable(n)
    /\ run' = [run EXCEPT ![n].status = "VOIDED"]
    /\ arrears' = ReleaseArrears(n)
    /\ advance' = ReleaseAdvances(n)
    /\ installment' = ReleaseInstallments(n)
    /\ UNCHANGED <<period, closing, loan>>

ApproveRun(n, u) ==
    /\ run[n].status = "COMPLETED"
    /\ u \notin run[n].createdBy
    /\ run' = [run EXCEPT ![n].status = "APPROVED", ![n].approvedBy = {u}]
    /\ UNCHANGED <<period, closing, claims, loan>>

\* settlePayrollPaymentBatch: the run is claimed, the instalments frozen on its slips
\* are paid and taken off their loans, or nothing happens at all.
Frozen(n) == {i \in Installments : n \in installment[i].run}
FrozenOf(n, l) == {i \in Frozen(n) : LoanOf[i] = l}
LeftAfter(n, l) == Unpaid(l) \ FrozenOf(n, l)

LoansAgree(n) ==
    /\ \A i \in Frozen(n) : ~installment[i].paid /\ ~loan[LoanOf[i]].paid
    /\ \A l \in Loans : FrozenOf(n, l) # {} =>
         /\ AmountOf(FrozenOf(n, l)) <= loan[l].balance
         /\ (loan[l].balance = AmountOf(FrozenOf(n, l))) <=> (LeftAfter(n, l) = {})

SettlesByHalves(n) ==  \* bug: a loan is marked paid and keeps its balance
    [l \in Loans |-> IF FrozenOf(n, l) # {} /\ LeftAfter(n, l) = {}
                     THEN [loan[l] EXCEPT !.paid = TRUE] ELSE loan[l]]
SettledLoans(n) ==
    [l \in Loans |-> IF FrozenOf(n, l) = {} THEN loan[l]
                     ELSE [paid |-> LeftAfter(n, l) = {},
                           balance |-> loan[l].balance - AmountOf(FrozenOf(n, l))]]

Settle(n, u) ==
    /\ run[n].status = "APPROVED" /\ u \notin run[n].approvedBy
    /\ LoansAgree(n)
    /\ run' = [run EXCEPT ![n].status = "DISBURSED"]
    /\ installment' = [i \in Installments |-> IF i \in Frozen(n)
                                              THEN [installment[i] EXCEPT !.paid = TRUE]
                                              ELSE installment[i]]
    /\ loan' = SettledLoans(n)
    /\ UNCHANGED <<period, closing, arrears, advance>>

-----------------------------------------------------------------------------
(* Arrears: for somebody a closed period left out.                         *)

\* Any payslip of the period counts, whatever became of its run, and any earlier row.
HasPayslip(e, p) == \E n \in Runs : run[n].period = p /\ e \in run[n].slips

RegistrableWhileOpen(k) ==  \* bug: a period that may still pay the employee
    ~HasPayslip(k[1], k[2]) /\ arrears[k].status = "NONE"
Registrable(k) ==
    period[k[2]].closed /\ ~HasPayslip(k[1], k[2]) /\ arrears[k].status = "NONE"

CheckArrears(k) ==
    /\ Registrable(k)
    /\ arrears' = [arrears EXCEPT ![k].status = "CHECKED"]
    /\ UNCHANGED <<period, closing, run, advance, installment, loan>>

RegisterArrears(k) ==
    /\ arrears[k].status = "CHECKED"
    /\ arrears' = [arrears EXCEPT ![k].status = "PENDING"]
    /\ UNCHANGED <<period, closing, run, advance, installment, loan>>

CancelArrears(k) ==
    /\ arrears[k].status = "PENDING"
    /\ arrears' = [arrears EXCEPT ![k].status = "CANCELLED"]
    /\ UNCHANGED <<period, closing, run, advance, installment, loan>>

-----------------------------------------------------------------------------
(* Earned wage access: the status is claimed as it was read, so a decision *)
(* is one step.                                                            *)

Reserved(e, p) ==
    {a \in Advances : /\ EmployeeOf[a] = e /\ PeriodOf[a] = p
                      /\ advance[a].status \in {"PENDING", "APPROVED", "PAID"}}

Advance(a, from, to) ==
    /\ advance[a].status = from
    /\ advance' = [advance EXCEPT ![a].status = to]
    /\ UNCHANGED <<period, closing, run, arrears, installment, loan>>

\* createRequest counts and inserts under the employee's row lock.
RequestAdvance(a) ==
    /\ Cardinality(Reserved(EmployeeOf[a], PeriodOf[a])) < Limit
    /\ Advance(a, "NONE", "PENDING")

ApproveAdvance(a) == Advance(a, "PENDING", "APPROVED")
RejectAdvance(a) == Advance(a, "PENDING", "REJECTED")
CancelAdvance(a) == Advance(a, "PENDING", "CANCELLED")
MarkAdvancePaid(a) == Advance(a, "APPROVED", "PAID")

-----------------------------------------------------------------------------
Next ==
    \/ \E p \in Periods : ConfirmAttendance(p) \/ CheckClose(p) \/ ClosePeriod(p)
    \/ \E n \in Runs, p \in Periods, u \in Actors, staff \in Payrolls :
         CreateRegularRun(n, p, u, staff) \/ CreateThrRun(n, p, u, staff)
    \/ \E n \in Runs : VoidRun(n)
    \/ \E n \in Runs, u \in Actors : ApproveRun(n, u) \/ Settle(n, u)
    \/ \E k \in Keys : CheckArrears(k) \/ RegisterArrears(k) \/ CancelArrears(k)
    \/ \E a \in Advances :
         \/ RequestAdvance(a) \/ ApproveAdvance(a) \/ RejectAdvance(a)
         \/ CancelAdvance(a) \/ MarkAdvancePaid(a)

Spec == Init /\ [][Next]_vars

-----------------------------------------------------------------------------
(* What is promised.                                                       *)

\* "One run per period PER TYPE": never two runs that could both be paid.
OneLiveRun ==
    \A n, m \in Runs :
        Live(n) /\ Live(m) /\ run[n].period = run[m].period /\ run[n].type = run[m].type
            => n = m

\* A claim is held by exactly one regular run, that run stands and has a payslip for
\* the employee; what no run holds is open to the next one.  No claim is "pinned to a
\* dead run", none is held twice.
Holds(n, e) == Live(n) /\ run[n].type = "REGULAR" /\ e \in run[n].slips
ClaimsHeldByLiveRuns ==
    /\ \A k \in Keys : IF arrears[k].status = "APPLIED"
                       THEN \E n \in Runs : arrears[k].run = {n} /\ Holds(n, k[1])
                       ELSE arrears[k].run = {}
    /\ \A a \in Advances : IF advance[a].status = "DEDUCTED"
                           THEN \E n \in Runs : advance[a].run = {n} /\ Holds(n, EmployeeOf[a])
                           ELSE advance[a].run = {}
    /\ \A i \in Installments :
         \/ installment[i].run = {}
         \/ \E n \in Runs : installment[i].run = {n} /\ Holds(n, Borrower[LoanOf[i]])

\* Nobody is paid twice for a period: whoever has arrears for it has no payslip in
\* any regular run of it, although the check and the row are two statements.
PaidOncePerPeriod ==
    \A k \in Keys :
        arrears[k].status # "NONE" =>
            ~\E n \in LiveIn(k[2]) : run[n].type = "REGULAR" /\ k[1] \in run[n].slips

\* A loan's balance is what its schedule still has to pay, an instalment is paid
\* exactly when the run that froze it was disbursed, and an approved run can always
\* be settled: reconciliation never meets a loan that does not agree.
LoansSettle ==
    /\ \A l \in Loans : /\ loan[l].balance = AmountOf(Unpaid(l))
                        /\ loan[l].paid <=> Unpaid(l) = {}
    /\ \A i \in Installments :
         installment[i].paid <=> \E n \in installment[i].run : run[n].status = "DISBURSED"
    /\ \A n \in Runs : run[n].status = "APPROVED" => LoansAgree(n)

\* "Approved/disbursed money can never be voided": from approval on a run only gets
\* disbursed, and none of its claims moves.
MoneyStands ==
    \A n \in Runs : run[n].status \in {"APPROVED", "DISBURSED"} =>
        /\ run'[n].status \in {"APPROVED", "DISBURSED"}
        /\ \A k \in Keys : n \in arrears[k].run <=> n \in arrears'[k].run
        /\ \A a \in Advances : n \in advance[a].run <=> n \in advance'[a].run
        /\ \A i \in Installments : n \in installment[i].run <=> n \in installment'[i].run
ApprovedMoneyStands == [][MoneyStands]_vars

\* "closing over an unapproved run permanently locks it in limbo"
\* (payroll.service.ts:316-317).
ClosedPeriodsAreSettled ==
    \A p \in Periods : period[p].closed =>
        \A n \in LiveIn(p) : run[n].status \in {"APPROVED", "DISBURSED"}

\* Pending, approved and paid requests reserve the limit, and creation keeps the
\* reservation within it (docs/ewa-access-and-transitions.md).
ReservedWithinLimit ==
    \A e \in Employees, p \in Periods : Cardinality(Reserved(e, p)) <= Limit

\* "the row is cancelled and then registered again - not edited"
\* (docs/payroll-arrears.md:48-50).
CancelledIsRegistrable ==
    \A k \in Keys : arrears[k].status = "CANCELLED" => ENABLED CheckArrears(k)
=============================================================================
