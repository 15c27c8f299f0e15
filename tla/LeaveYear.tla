----------------------------- MODULE LeaveYear -----------------------------
(***************************************************************************)
(* A leave year opens and its carried days run out.                        *)
(* leave.scheduler.ts accrues every active employee and then expires last  *)
(* year's rows; carryover-expiry.service.ts forfeits carried days after a  *)
(* cut-off; meanwhile leave is approved and cancelled on the same rows.    *)
(* Writers that lock a row are one step; the two jobs read outside the     *)
(* locks they later take, or take none, and the reads are steps here.      *)
(***************************************************************************)
EXTENDS LeaveBalance, FiniteSetsExt

CONSTANTS
    Employees,
    Active,         \* the employees whose status is ACTIVE
    Entitlement,    \* [Employees -> Nat], what the year entitles each to
    Cap,            \* leave_carryover_max_days
    LastYear,       \* [Employees -> Nat], days left of last year at the start
    Jobs,           \* accrual runs in flight: the cron job and HTTP triggers
    HRTotals,       \* [Employees -> SUBSET Nat], the allocations HR may set for each
    MaxUsed,        \* bound: days of leave approved in the year, for each employee
    MaxLate         \* bound: days of last year approved late, after the turn

ASSUME LeaveYearAssumption ==
    /\ Active \subseteq Employees
    /\ Entitlement \in [Employees -> Nat] /\ LastYear \in [Employees -> Nat]
    /\ MaxUsed \in [Employees -> Nat] /\ MaxLate \in [Employees -> Nat]
    /\ Cap \in Nat /\ HRTotals \in [Employees -> SUBSET Nat]

\* What a run knows of the employee it is accruing: the carried days recorded in
\* this year's row, if there is one, and then the carried days it will write.
Idle == [at |-> "IDLE", todo |-> {}, failed |-> {}]
JobStates ==
    {Idle}
    \cup [at : {"PICK"}, todo : SUBSET Employees, failed : SUBSET Employees]
    \cup [at : {"READ", "WRITE"}, emp : Employees, row : BOOLEAN, carry : Nat,
          todo : SUBSET Employees, failed : SUBSET Employees]

VARIABLES
    cur,        \* this year's leave_balances row of each employee
    prev,       \* last year's row
    taken,      \* days of this year's leave approved and not cancelled
    job,        \* the accrual runs
    due,        \* the rows the sweep has read and not yet written
    lapped      \* history: the runs whose employee another run has accrued meanwhile

vars == <<cur, prev, taken, job, due, lapped>>

TypeOK ==
    /\ cur \in [Employees -> Balances]
    /\ prev \in [Employees -> Balances]
    /\ taken \in [Employees -> Nat]
    /\ job \in [Jobs -> JobStates]
    /\ due \in [Employees -> SUBSET Balances]
    /\ lapped \in SUBSET Jobs

Init ==
    /\ cur = [e \in Employees |-> NoBalance]
    /\ prev = [e \in Employees |-> Accrued(NoBalance, LastYear[e], 0)]
    /\ taken = [e \in Employees |-> 0]
    /\ job = [j \in Jobs |-> Idle]
    /\ due = [e \in Employees |-> {}]
    /\ lapped = {}

-----------------------------------------------------------------------------
(* runYearlyLeaveAccrual.                                                  *)

StartAccrual(j) ==
    /\ job[j] = Idle
    /\ job' = [job EXCEPT ![j] = [at |-> "PICK", todo |-> Active, failed |-> {}]]
    /\ UNCHANGED <<cur, prev, taken, due, lapped>>

\* findAccrualInputs runs its four queries side by side; the order that matters is
\* this year's row first and last year's after it.
ReadCurrent(j) ==
    /\ job[j].at = "PICK"
    /\ \E e \in job[j].todo :
         job' = [job EXCEPT ![j] =
                   [at |-> "READ", emp |-> e, row |-> cur[e].exists, carry |-> cur[e].carry,
                    todo |-> job[j].todo \ {e}, failed |-> job[j].failed]]
    /\ UNCHANGED <<cur, prev, taken, due, lapped>>

\* Once a row for the year exists, the figure it recorded is the truth.
CarriedAfresh(j) == CarryOver(prev[job[j].emp].remaining, Cap)  \* bug: derived again
Carried(j) == IF job[j].row THEN job[j].carry
                            ELSE CarryOver(prev[job[j].emp].remaining, Cap)
ReadPrevious(j) ==
    /\ job[j].at = "READ"
    /\ job' = [job EXCEPT ![j].at = "WRITE", ![j].carry = Carried(j)]
    /\ UNCHANGED <<cur, prev, taken, due, lapped>>

\* upsertAccruedBalance locks the row and keeps its used days.
UpsertAccruedReset(e, carry) ==  \* bug: the days used are not taken off again
    [Accrued(cur[e], Entitlement[e], carry) EXCEPT !.remaining = Entitlement[e] + carry]
UpsertAccrued(e, carry) == Accrued(cur[e], Entitlement[e], carry)
\* Nothing keeps two runs apart: HTTP triggers one beside the scheduled one.
Overtaken(j) ==
    {i \in Jobs \ {j} : job[i].at \in {"READ", "WRITE"} /\ job[i].emp = job[j].emp}
WriteAccrued(j) ==
    /\ job[j].at = "WRITE"
    /\ cur' = [cur EXCEPT ![job[j].emp] = UpsertAccrued(job[j].emp, job[j].carry)]
    /\ job' = [job EXCEPT ![j] =
                 [at |-> "PICK", todo |-> job[j].todo, failed |-> job[j].failed]]
    /\ lapped' = (lapped \ {j}) \cup Overtaken(j)
    /\ UNCHANGED <<prev, taken, due>>

\* A missing join date, a lost connection: the employee is left out of the expiry.
FailureForgotten(j) == job[j].failed  \* bug: the failed employee is not recorded
Failure(j) == job[j].failed \cup {job[j].emp}
FailAccrual(j) ==
    /\ job[j].at \in {"READ", "WRITE"}
    /\ job' = [job EXCEPT ![j] =
                 [at |-> "PICK", todo |-> job[j].todo, failed |-> Failure(j)]]
    /\ lapped' = lapped \ {j}
    /\ UNCHANGED <<cur, prev, taken, due>>

\* One updateMany over every row of last year, whoever owns it.
Expirable(e) == prev[e].remaining > 0 /\ ~prev[e].expired
ExpirePrevious(j) ==
    /\ job[j].at = "PICK" /\ job[j].todo = {}
    /\ prev' = [e \in Employees |->
                  IF e \notin job[j].failed /\ Expirable(e) THEN Expire(prev[e])
                                                            ELSE prev[e]]
    /\ job' = [job EXCEPT ![j] = Idle]
    /\ UNCHANGED <<cur, taken, due, lapped>>

CrashAccrual(j) ==
    /\ job[j] # Idle
    /\ job' = [job EXCEPT ![j] = Idle]
    /\ lapped' = lapped \ {j}
    /\ UNCHANGED <<cur, prev, taken, due>>

-----------------------------------------------------------------------------
(* sweepCarryOverExpiry, after the cut-off: findMany, then one update a row. *)

Due(b) == b.carry > 0 /\ ~b.carryExpired /\ ~b.expired
ReadDueRows ==
    /\ \A e \in Employees : due[e] = {}
    /\ due' = [e \in Employees |-> IF Due(cur[e]) THEN {cur[e]} ELSE {}]
    /\ UNCHANGED <<cur, prev, taken, job, lapped>>

\* The update writes figures computed from the row as it was read, and takes no lock.
SweptRow(now, read) ==
    IF Forfeited(read) > 0
    THEN [now EXCEPT !.carryExpired = TRUE, !.total = Forfeit(read).total,
                     !.remaining = Forfeit(read).remaining]
    ELSE [now EXCEPT !.carryExpired = TRUE]
WriteForfeit(e) ==
    /\ \E read \in due[e] : cur' = [cur EXCEPT ![e] = SweptRow(@, read)]
    /\ due' = [due EXCEPT ![e] = {}]
    /\ UNCHANGED <<prev, taken, job, lapped>>

CrashSweep ==
    /\ \E e \in Employees : due[e] # {}
    /\ due' = [e \in Employees |-> {}]
    /\ UNCHANGED <<cur, prev, taken, job, lapped>>

-----------------------------------------------------------------------------
(* Leave taken on the rows meanwhile (LeaveRequests has the whole story).  *)

ApproveLeave(e) ==
    /\ taken[e] < MaxUsed[e] /\ Sufficient(cur[e], 1)
    /\ cur' = [cur EXCEPT ![e] = Deduct(@, 1)]
    /\ taken' = [taken EXCEPT ![e] = @ + 1]
    /\ UNCHANGED <<prev, job, due, lapped>>

CancelLeave(e) ==
    /\ taken[e] > 0
    /\ cur' = [cur EXCEPT ![e] = Restore(@, 1)]
    /\ taken' = [taken EXCEPT ![e] = @ - 1]
    /\ UNCHANGED <<prev, job, due, lapped>>

\* Leave of last year is still decided after the turn of the year.
ApproveLate(e) ==
    /\ prev[e].used < MaxLate[e] /\ Sufficient(prev[e], 1)
    /\ prev' = [prev EXCEPT ![e] = Deduct(@, 1)]
    /\ UNCHANGED <<cur, taken, job, due, lapped>>

CancelLate(e) ==
    /\ prev[e].used > 0
    /\ prev' = [prev EXCEPT ![e] = Restore(@, 1)]
    /\ UNCHANGED <<cur, taken, job, due, lapped>>

UpsertLeaveBalance(e, total) ==
    /\ cur' = [cur EXCEPT ![e] = SetTotal(@, total)]
    /\ UNCHANGED <<prev, taken, job, due, lapped>>

Next ==
    \/ \E j \in Jobs : StartAccrual(j) \/ ReadCurrent(j) \/ ReadPrevious(j)
                       \/ WriteAccrued(j) \/ FailAccrual(j) \/ ExpirePrevious(j)
                       \/ CrashAccrual(j)
    \/ ReadDueRows \/ CrashSweep
    \/ \E e \in Employees : WriteForfeit(e) \/ ApproveLeave(e) \/ CancelLeave(e)
                              \/ ApproveLate(e) \/ CancelLate(e)
    \/ \E e \in Employees : \E n \in HRTotals[e] : UpsertLeaveBalance(e, n)

Spec == Init /\ [][Next]_vars

-----------------------------------------------------------------------------
(* What the jobs promise.                                                  *)

\* What is left agrees with the leave taken.
Agrees(e) == cur[e].remaining = AtLeast0(cur[e].total - taken[e])
\* The sweep writes figures it computed before leave was taken or given back.
Overrun(e) == WriteForfeit(e) /\ \E read \in due[e] : read.used # taken[e]

\* What is left of a row keeps agreeing with the leave taken on it, whatever the accrual
\* runs have read before (the lock of leave.repository.ts:216-218): only a sweep that read
\* the row before a deduction or a restoration can break it, and the next cancellation
\* repairs what a sweep broke.
DeductionsSurvive ==
    [][\A e \in Employees :
         /\ Agrees(e) => Agrees(e)' \/ Overrun(e)
         /\ taken'[e] < taken[e] => Agrees(e)']_vars

\* Days are carried within the cap and once: the figure of the first accrual stays,
\* however often the jobs run, overlap, fail or die, unless the run that changes it read
\* the employee before another run accrued her.
CarriedOnce ==
    [][\A e \in Employees :
         /\ cur'[e].carry <= Cap
         /\ cur[e].carry > 0 /\ cur'[e].carry # cur[e].carry =>
              \E j \in lapped : job[j].emp = e /\ WriteAccrued(j)]_vars

\* Last year's days of an active employee are zeroed only after this year's row was
\* written: "expiry must not touch an employee whose accrual failed"
\* (leave.scheduler.ts:54-57).
ExpiredAfterAccrual == \A e \in Active : prev[e].expired => cur[e].exists

\* "Once a row for this year exists, the figure it recorded is the truth"
\* (leave.service.ts:543-547): the days of last year that expire were carried first, also
\* when it was HR and not the job that created this year's row.
ExpiredDaysWereCarried ==
    [][\A e \in Active :
         prev'[e].expired /\ ~prev[e].expired =>
             cur[e].carry >= CarryOver(prev[e].remaining, Cap)]_vars

\* "Keep the total/used/remaining invariant under concurrent deductions"
\* (leave.repository.ts:156).
RemainingIsWhatIsLeft ==
    \A e \in Employees : cur[e].remaining = AtLeast0(cur[e].total - cur[e].used)

\* "Accrual must be safe to run twice" (leave.service.ts:543), also beside another run:
\* what was carried stays.
RunTwiceIsSafe ==
    [][\A e \in Employees : cur[e].carry > 0 => cur'[e].carry = cur[e].carry]_vars

\* The same promise once the cut-off has passed: no accrual gives back the days the sweep
\* forfeited "once" (carryover-expiry.service.ts:24-25).
ForfeitedStaysForfeited ==
    [][\A j \in Jobs, e \in Employees :
         WriteAccrued(j) /\ cur[e].carryExpired => cur'[e].total <= cur[e].total]_vars
=============================================================================
