--------------------------- MODULE LeaveSpending ---------------------------
(***************************************************************************)
(* What spends leave besides a request of one's own: the collective day    *)
(* off (collective-leave.service.ts) and the exchange of days for money    *)
(* (leave-encashment.service.ts), on the same balances, with ordinary      *)
(* leave, attendance and payroll runs in between.                          *)
(*                                                                         *)
(* apply plans on reads made before it locks anything, then deducts,       *)
(* creates the requests and claims the declaration in one transaction; the *)
(* balance is read again under its lock, the plan is not.  An encashment   *)
(* is checked and created in separate statements, approved under the       *)
(* balance's lock, and claimed by the payroll run that pays it.            *)
(***************************************************************************)
EXTENDS LeaveBalance, FiniteSetsExt

CONSTANTS
    Staff,
    Allocation,     \* [Staff -> Nat], days of the leave type at the start
    Present,        \* the employees who may clock in on the day
    Appliers,       \* apply requests in flight at one time
    Rows,           \* leave_encashments rows that may be requested
    OwnerOf,        \* [Rows -> Staff]
    Days,           \* [Rows -> Nat]
    MaxDaysPerYear, \* leave_encashment_max_days_per_year, 0 for no ceiling
    Runs,           \* payroll runs
    Actors          \* users who request and approve encashments

ASSUME SpendingAssumption ==
    /\ Allocation \in [Staff -> Nat] /\ Present \subseteq Staff
    /\ OwnerOf \in [Rows -> Staff] /\ Days \in [Rows -> Nat \ {0}]
    /\ MaxDaysPerYear \in Nat /\ IsFiniteSet(Rows)

Declarations == {"NONE", "DECLARED", "APPLIED", "CANCELLED"}
PlanOutcomes == {"SKIPPED_EXISTING_LEAVE", "SKIPPED_ATTENDANCE", "DEDUCTED", "UNPAID"}

\* How the collective day was booked for an employee: one request a booking.
Bookings == {"PAID", "UNPAID"}

\* An encashment; CHECKED is a request that passed its checks and has no row yet.
\* The requester and the run that paid it are sets of at most one.
Encashments == [status : {"NONE", "CHECKED", "PENDING", "APPROVED", "REJECTED", "PAID"},
                requestedBy : SUBSET Actors, run : SUBSET Runs]

VARIABLES
    balance,        \* leave_balances of each employee
    declaration,    \* status of the collective_leaves row
    ownLeave,       \* an employee's own leave request on the day
    attendance,     \* an employee's attendance record of the day
    booked,         \* collective leave requests per employee and booking
    plan,           \* the plans in flight: a set of at most one per applier
    locked,         \* the payroll period of the day is reviewed or closed
    withdrawn,      \* history: see TakenBack
    row,            \* leave_encashments
    run             \* payroll runs: "NONE", "PAID" (calculated) or "VOIDED"

collective == <<declaration, ownLeave, attendance, booked, plan, locked, withdrawn>>
encashment == <<row, run>>
spendingVars == <<balance, collective, encashment>>

SpendingTypeOK ==
    /\ balance \in [Staff -> Balances]
    /\ declaration \in Declarations
    /\ ownLeave \in [Staff -> {"NONE", "PENDING", "APPROVED"}]
    /\ attendance \in [Staff -> {"NONE", "PRESENT", "DELETED"}]
    /\ booked \in [Staff -> [Bookings -> Nat]]
    /\ plan \in [Appliers -> SUBSET [Staff -> PlanOutcomes]]
    /\ locked \in BOOLEAN /\ withdrawn \subseteq Staff
    /\ row \in [Rows -> Encashments]
    /\ run \in [Runs -> {"NONE", "PAID", "VOIDED"}]

SpendingInit ==
    /\ balance = [e \in Staff |-> SetTotal(NoBalance, Allocation[e])]
    /\ declaration = "NONE"
    /\ ownLeave = [e \in Staff |-> "NONE"] /\ attendance = [e \in Staff |-> "NONE"]
    /\ booked = [e \in Staff |-> [k \in Bookings |-> 0]]
    /\ plan = [a \in Appliers |-> {}]
    /\ locked = FALSE /\ withdrawn = {}
    /\ row = [r \in Rows |-> [status |-> "NONE", requestedBy |-> {}, run |-> {}]]
    /\ run = [n \in Runs |-> "NONE"]

-----------------------------------------------------------------------------
(* The collective day.                                                     *)

\* declare: one declaration a date, in an open payroll period.
Declare ==
    /\ declaration = "NONE" /\ ~locked
    /\ declaration' = "DECLARED"
    /\ UNCHANGED <<balance, ownLeave, attendance, booked, plan, locked, withdrawn, encashment>>

Cancel ==
    /\ declaration = "DECLARED"
    /\ declaration' = "CANCELLED"
    /\ UNCHANGED <<balance, ownLeave, attendance, booked, plan, locked, withdrawn, encashment>>

\* buildPlan: leave of one's own comes before attendance, attendance before the day.
Outcome(e) ==
    CASE ownLeave[e] # "NONE" -> "SKIPPED_EXISTING_LEAVE"
      [] ownLeave[e] = "NONE" /\ attendance[e] = "PRESENT" -> "SKIPPED_ATTENDANCE"
      [] OTHER -> IF Sufficient(balance[e], 1) THEN "DEDUCTED" ELSE "UNPAID"
Skipped(p) == {e \in Staff : p[e] \in {"SKIPPED_EXISTING_LEAVE", "SKIPPED_ATTENDANCE"}}
SkippedInFlight(e) == \E a \in Appliers : \E p \in plan[a] : e \in Skipped(p)

\* history: of those who took back what they were skipped for, a new plan forgets the
\* ones no plan in flight skips; it sees them as they are.
BuildPlan(a) ==
    /\ plan[a] = {} /\ declaration = "DECLARED" /\ ~locked
    /\ plan' = [plan EXCEPT ![a] = {[e \in Staff |-> Outcome(e)]}]
    /\ withdrawn' = {e \in withdrawn : SkippedInFlight(e)}
    /\ UNCHANGED <<declaration, balance, ownLeave, attendance, booked, locked, encashment>>

\* A balance that went since the plan makes the day unpaid.
PaidFromAsPlanned(p) ==  \* bug: the balance is not read again
    {e \in Staff : p[e] = "DEDUCTED"}
PaidFrom(p) == {e \in Staff : p[e] = "DEDUCTED" /\ Sufficient(balance[e], 1)}
UnpaidAsPlanned(p) ==  \* bug: an employee whose balance went is left out
    {e \in Staff : p[e] = "UNPAID"}
UnpaidBy(p) == Staff \ (Skipped(p) \cup PaidFrom(p))

\* The claim on DECLARED: the loser's deductions and requests are rolled back.
ClaimsAny == declaration # "CANCELLED"  \* bug: an applied day is applied again
ClaimsDeclaration == declaration = "DECLARED"

Booked(p) ==
    [e \in Staff |->
       [k \in Bookings |->
          booked[e][k] + IF \/ k = "PAID" /\ e \in PaidFrom(p)
                            \/ k = "UNPAID" /\ e \in UnpaidBy(p) THEN 1 ELSE 0]]

Apply(a) ==
    /\ \E p \in plan[a] :
         /\ ClaimsDeclaration
         /\ balance' = [e \in Staff |-> IF e \in PaidFrom(p) THEN Deduct(balance[e], 1)
                                                                 ELSE balance[e]]
         /\ booked' = Booked(p)
         /\ declaration' = "APPLIED"
    /\ plan' = [plan EXCEPT ![a] = {}]
    /\ UNCHANGED <<ownLeave, attendance, locked, withdrawn, encashment>>

\* The claim is lost, or the process dies: nothing of the transaction stays.
RollBack(a) ==
    /\ plan[a] # {}
    /\ plan' = [plan EXCEPT ![a] = {}]
    /\ UNCHANGED <<declaration, balance, ownLeave, attendance, booked, locked, withdrawn,
                   encashment>>

-----------------------------------------------------------------------------
(* What goes on meanwhile.                                                 *)

\* An ordinary request of one day on that date is filed, unless the employee has
\* leave on it already, and decided or withdrawn (LeaveRequests has the whole story).
FileOwnLeave(e) ==
    /\ ownLeave[e] = "NONE"
    /\ \A k \in Bookings : booked[e][k] = 0
    /\ Sufficient(balance[e], 1)
    /\ ownLeave' = [ownLeave EXCEPT ![e] = "PENDING"]
    /\ UNCHANGED <<declaration, balance, attendance, booked, plan, locked, withdrawn, encashment>>

ApproveOwnLeave(e) ==
    /\ ownLeave[e] = "PENDING"
    /\ ~locked /\ Sufficient(balance[e], 1)
    /\ balance' = [balance EXCEPT ![e] = Deduct(@, 1)]
    /\ ownLeave' = [ownLeave EXCEPT ![e] = "APPROVED"]
    /\ UNCHANGED <<declaration, attendance, booked, plan, locked, withdrawn, encashment>>

\* history: the leave, the presence or the booking of an employee is taken back after the
\* day was applied, or while a plan in flight still skips her for it.
TakenBack(e) == IF declaration = "APPLIED" \/ SkippedInFlight(e) THEN {e} ELSE {}

\* A pending request is rejected, or cancelled by its owner or HR.
DropPending(e) ==
    /\ ownLeave[e] = "PENDING"
    /\ ownLeave' = [ownLeave EXCEPT ![e] = "NONE"]
    /\ withdrawn' = withdrawn \cup TakenBack(e)
    /\ UNCHANGED <<declaration, balance, attendance, booked, plan, locked, encashment>>
RejectOwnLeave(e) == DropPending(e)
CancelPending(e) == DropPending(e)

CancelApproved(e) ==
    /\ ownLeave[e] = "APPROVED" /\ ~locked
    /\ balance' = [balance EXCEPT ![e] = Restore(@, 1)]
    /\ ownLeave' = [ownLeave EXCEPT ![e] = "NONE"]
    /\ withdrawn' = withdrawn \cup TakenBack(e)
    /\ UNCHANGED <<declaration, attendance, booked, plan, locked, encashment>>

\* The request the collective day made is an approved request like any other, and is
\* cancelled like one; the unpaid leave type has no balance to give the day back to.
CancelBooked(e, k) ==
    /\ booked[e][k] > 0 /\ ~locked
    /\ balance' = [balance EXCEPT ![e] = IF k = "PAID" THEN Restore(@, 1) ELSE @]
    /\ booked' = [booked EXCEPT ![e][k] = @ - 1]
    /\ withdrawn' = withdrawn \cup TakenBack(e)
    /\ UNCHANGED <<declaration, ownLeave, attendance, plan, locked, encashment>>

\* One record an employee and day, also when it is only marked deleted (Attendance).
ClockIn(e) ==
    /\ e \in Present /\ attendance[e] = "NONE"
    /\ attendance' = [attendance EXCEPT ![e] = "PRESENT"]
    /\ UNCHANGED <<declaration, balance, ownLeave, booked, plan, locked, withdrawn, encashment>>

DeleteAttendance(e) ==
    /\ attendance[e] = "PRESENT" /\ ~locked
    /\ attendance' = [attendance EXCEPT ![e] = "DELETED"]
    /\ withdrawn' = withdrawn \cup TakenBack(e)
    /\ UNCHANGED <<declaration, balance, ownLeave, booked, plan, locked, encashment>>

LockPayrollPeriod ==
    /\ locked' = TRUE
    /\ UNCHANGED <<declaration, balance, ownLeave, attendance, booked, plan, withdrawn, encashment>>

-----------------------------------------------------------------------------
(* Encashment.                                                             *)

Committed == {"PENDING", "APPROVED", "PAID"}
Having(e, statuses) == {r \in Rows : OwnerOf[r] = e /\ row[r].status \in statuses}
DaysOf(rows) == MapThenSumSet(LAMBDA r : Days[r], rows)

\* request, up to its last check: the balance as it is, the ceiling against what is
\* committed; then the row.
WithinCeiling(r) ==
    \/ MaxDaysPerYear = 0
    \/ DaysOf(Having(OwnerOf[r], Committed)) + Days[r] <= MaxDaysPerYear
CheckRequest(r, u) ==
    /\ row[r].status = "NONE"
    /\ Sufficient(balance[OwnerOf[r]], Days[r])
    /\ WithinCeiling(r)
    /\ row' = [row EXCEPT ![r].status = "CHECKED", ![r].requestedBy = {u}]
    /\ UNCHANGED <<balance, collective, run>>

CreateRequest(r) ==
    /\ row[r].status = "CHECKED"
    /\ row' = [row EXCEPT ![r].status = "PENDING"]
    /\ UNCHANGED <<balance, collective, run>>

\* approve: maker is not checker, the balance is read again under its lock, and the
\* row is claimed while PENDING in the same transaction.
ApprovableAgain(r, u) ==  \* bug: the claim does not ask for PENDING
    row[r].status \in {"PENDING", "APPROVED"} /\ u \notin row[r].requestedBy
Approvable(r, u) == row[r].status = "PENDING" /\ u \notin row[r].requestedBy
Approve(r, u) ==
    /\ Approvable(r, u)
    /\ Sufficient(balance[OwnerOf[r]], Days[r])
    /\ balance' = [balance EXCEPT ![OwnerOf[r]] = Deduct(@, Days[r])]
    /\ row' = [row EXCEPT ![r].status = "APPROVED"]
    /\ UNCHANGED <<collective, run>>

Reject(r) ==
    /\ row[r].status = "PENDING"
    /\ row' = [row EXCEPT ![r].status = "REJECTED"]
    /\ UNCHANGED <<balance, collective, run>>

\* A payroll run pays every approved row (approvedByEmployee, markPaid) ...
PayableAlways(r) ==  \* bug: a paid row is collected again
    row[r].status \in {"APPROVED", "PAID"}
Payable(r) == row[r].status = "APPROVED"
MarkPaid(n) ==
    /\ run[n] = "NONE"
    /\ row' = [r \in Rows |-> IF Payable(r)
                              THEN [row[r] EXCEPT !.status = "PAID", !.run = {n}]
                              ELSE row[r]]
    /\ run' = [run EXCEPT ![n] = "PAID"]
    /\ UNCHANGED <<balance, collective>>

\* ... and gives back its own when it is voided, without giving back the days.
ReleasableClaims(r, n) ==  \* bug: looks for rows as they were collected
    row[r].status = "APPROVED" /\ row[r].run = {n}
Releasable(r, n) == row[r].status = "PAID" /\ row[r].run = {n}
ReleasePaid(n) ==
    /\ run[n] = "PAID"
    /\ row' = [r \in Rows |-> IF Releasable(r, n)
                              THEN [row[r] EXCEPT !.status = "APPROVED", !.run = {}]
                              ELSE row[r]]
    /\ run' = [run EXCEPT ![n] = "VOIDED"]
    /\ UNCHANGED <<balance, collective>>

-----------------------------------------------------------------------------
SpendingNext ==
    \/ Declare \/ Cancel \/ LockPayrollPeriod
    \/ \E a \in Appliers : BuildPlan(a) \/ Apply(a) \/ RollBack(a)
    \/ \E e \in Staff : \/ FileOwnLeave(e) \/ ApproveOwnLeave(e) \/ RejectOwnLeave(e)
                       \/ CancelPending(e) \/ CancelApproved(e)
                       \/ ClockIn(e) \/ DeleteAttendance(e)
    \/ \E e \in Staff, k \in Bookings : CancelBooked(e, k)
    \/ \E r \in Rows : CreateRequest(r) \/ Reject(r)
    \/ \E r \in Rows, u \in Actors : CheckRequest(r, u) \/ Approve(r, u)
    \/ \E n \in Runs : MarkPaid(n) \/ ReleasePaid(n)

SpendingSpec == SpendingInit /\ [][SpendingNext]_spendingVars

-----------------------------------------------------------------------------
(* What is promised.                                                       *)

Times(e) == booked[e]["PAID"] + booked[e]["UNPAID"]

\* "Two HR users pressing apply at once must not both deduct a day from everybody":
\* nobody is booked twice, and nobody at all unless the declaration stands applied.
AppliedOnce ==
    \A e \in Staff : Times(e) <= 1 /\ (Times(e) = 1 => declaration = "APPLIED")

\* A day is spent once: the used days of a balance are the days booked as paid, the
\* employee's own leave and the days exchanged for money, through voided runs and
\* lost races, and never more than there were ("Never a negative balance").
EveryDaySpentOnce ==
    \A e \in Staff :
        /\ balance[e].used = booked[e]["PAID"]
                             + (IF ownLeave[e] = "APPROVED" THEN 1 ELSE 0)
                             + DaysOf(Having(e, {"APPROVED", "PAID"}))
        /\ balance[e].remaining >= 0

\* All or nothing: when the day is applied, an employee without a booking has leave of her
\* own or had clocked in, unless that, or the booking, was taken back too late for the plan.
WholeCompany ==
    declaration = "APPLIED" =>
        \A e \in Staff \ withdrawn :
            Times(e) = 0 => ownLeave[e] # "NONE" \/ attendance[e] = "PRESENT"

\* A paid encashment was paid by exactly one run, and that run stands: a replacement
\* pays again what the voided run paid and nothing else.
PaidByAStandingRun ==
    \A r \in Rows :
        IF row[r].status = "PAID" THEN \E n \in Runs : row[r].run = {n} /\ run[n] = "PAID"
                                  ELSE row[r].run = {}

\* Once paid by a run that is not voided, a row is never released or paid again.
PaymentStands ==
    [][\A r \in Rows, n \in Runs :
         row[r].run = {n} /\ run'[n] = "PAID" => row'[r].run = {n}]_spendingVars

\* "An employee who already has leave that day keeps it" and is not booked a second
\* time (collective-leave.service.ts:114-115).
DayCoveredOnce ==
    \A e \in Staff : ownLeave[e] # "NONE" => Times(e) = 0

\* "Half a company on leave is worse than none" (collective-leave.service.ts:235): at the
\* moment the day is applied, nobody is passed over who has neither leave of her own nor
\* attendance.
NobodyPassedOver ==
    [][declaration # "APPLIED" /\ declaration' = "APPLIED" =>
         \A e \in Staff :
             Times(e)' = 0 => ownLeave[e] # "NONE" \/ attendance[e] = "PRESENT"]_spendingVars

\* "The ceiling counts days already committed this year [...] otherwise two pending
\* requests could together exceed a limit each of them respects alone"
\* (leave-encashment.service.ts:145-147).
CeilingRespected ==
    MaxDaysPerYear > 0 =>
        \A e \in Staff : DaysOf(Having(e, Committed)) <= MaxDaysPerYear
=============================================================================
