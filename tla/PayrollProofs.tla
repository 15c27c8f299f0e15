---------------------------- MODULE PayrollProofs ----------------------------
(***************************************************************************)
(* Theorems about PayrollRun and PayrollPayment for any number of periods, *)
(* runs, employees, advances, loans, instalments, requests, keys and bank  *)
(* references.  What a loan's balance comes to rests on the facts about    *)
(* sums of module Sums.                                                    *)
(***************************************************************************)
EXTENDS PayrollPayment, Sums

-----------------------------------------------------------------------------
(* PayrollRun: runs and the claims they hold.                              *)

RunRows ==
    [status : RunStatus, type : {"REGULAR", "THR"}, period : Periods \cup {0},
     createdBy : SUBSET Actors, approvedBy : SUBSET Actors, slips : SUBSET Employees]

\* The rows without the loans' balances.
Rows ==
    /\ period \in [Periods -> [closed : BOOLEAN, reviewed : BOOLEAN]]
    /\ run \in [Runs -> RunRows]
    /\ arrears \in [Keys -> [status : ArrearsStatus, run : SUBSET Runs]]
    /\ advance \in [Advances -> [status : AdvanceStatus, run : SUBSET Runs]]
    /\ installment \in [Installments -> [paid : BOOLEAN, run : SUBSET Runs]]

\* Arrears are only ever checked in a closed period, and a closed period stays closed.
ArrearsOfClosedPeriods == \A k \in Keys : arrears[k].status # "NONE" => period[k[2]].closed

Inductive ==
    Rows /\ OneLiveRun /\ ClaimsHeldByLiveRuns /\ ArrearsOfClosedPeriods /\ PaidOncePerPeriod

LEMMA KeyTypes == \A k \in Keys : k[1] \in Employees /\ k[2] \in Periods
BY PayrollAssumption DEF Keys

LEMMA OwnerTypes ==
    /\ \A a \in Advances : EmployeeOf[a] \in Employees
    /\ \A i \in Installments : Borrower[LoanOf[i]] \in Employees
BY PayrollAssumption

LEMMA Initially == Init => Inductive
<1> SUFFICES ASSUME Init PROVE Inductive
  OBVIOUS
<1>1. Rows
  BY DEF Init, Rows, RunRows, NoRun, RunStatus, ArrearsStatus, AdvanceStatus
<1>2. OneLiveRun /\ PaidOncePerPeriod /\ ArrearsOfClosedPeriods
  BY DEF Init, OneLiveRun, PaidOncePerPeriod, ArrearsOfClosedPeriods, Live, NoRun
<1>3. ClaimsHeldByLiveRuns
  BY DEF Init, ClaimsHeldByLiveRuns
<1> QED BY <1>1, <1>2, <1>3 DEF Inductive

-----------------------------------------------------------------------------
(* One lemma for each kind of step.                                        *)

\* A new run of either type, whose claims are looked at below.
LEMMA NewRunKeeps ==
    ASSUME Rows, OneLiveRun, NEW n \in Runs, NEW t \in {"REGULAR", "THR"}, NEW p \in Periods,
           NEW u \in Actors, NEW staff \in Payrolls,
           CanCreate(n, t, p), NewRun(n, t, p, u, staff)
    PROVE  /\ run' \in [Runs -> RunRows]
           /\ OneLiveRun'
           /\ ~Live(n)
           /\ run'[n] = [status |-> "COMPLETED", type |-> t, period |-> p,
                         createdBy |-> {u}, approvedBy |-> {}, slips |-> staff]
           /\ \A m \in Runs \ {n} : run'[m] = run[m]
<1>1. staff \in SUBSET Employees
  BY PayrollAssumption
<1>2. /\ run' \in [Runs -> RunRows]
      /\ run'[n] = [status |-> "COMPLETED", type |-> t, period |-> p,
                    createdBy |-> {u}, approvedBy |-> {}, slips |-> staff]
      /\ \A m \in Runs \ {n} : run'[m] = run[m]
  BY <1>1 DEF Rows, NewRun, RunRows, RunStatus
<1>3. ~Live(n)
  BY DEF CanCreate, Live
<1>4. \A m \in Runs \ {n} : Live(m) /\ run[m].period = p => run[m].type # t
  BY DEF CanCreate, FreeSlot, LiveIn
<1>5. OneLiveRun'
  BY <1>2, <1>4 DEF OneLiveRun, Live
<1> QED BY <1>2, <1>3, <1>5

LEMMA RegularRunKeeps ==
    ASSUME Inductive, NEW n \in Runs, NEW p \in Periods, NEW u \in Actors, NEW staff \in Payrolls,
           CreateRegularRun(n, p, u, staff)
    PROVE  Inductive'
<1> USE DEF Inductive
<1>1. /\ CanCreate(n, "REGULAR", p) /\ NewRun(n, "REGULAR", p, u, staff)
      /\ arrears' = ClaimArrears(n, staff) /\ advance' = ClaimAdvances(n, p, staff)
      /\ installment' = ClaimInstallments(n, p, staff) /\ period' = period
  BY DEF CreateRegularRun
<1>2. /\ OneLiveRun' /\ ~Live(n)
      /\ run'[n] = [status |-> "COMPLETED", type |-> "REGULAR", period |-> p,
                    createdBy |-> {u}, approvedBy |-> {}, slips |-> staff]
      /\ \A m \in Runs \ {n} : run'[m] = run[m]
      /\ run' \in [Runs -> RunRows]
  BY <1>1, NewRunKeeps
<1>3. Rows'
  BY <1>1, <1>2 DEF Rows, ClaimArrears, ClaimAdvances, ClaimInstallments, ArrearsStatus, AdvanceStatus
<1>4. ArrearsOfClosedPeriods'
  BY <1>1 DEF ArrearsOfClosedPeriods, ClaimArrears, DueArrears
<1>5. PaidOncePerPeriod'
  <2> SUFFICES ASSUME NEW k \in Keys, arrears'[k].status # "NONE", NEW m \in Runs,
                      m \in LiveIn(k[2])', run'[m].type = "REGULAR", k[1] \in run'[m].slips
               PROVE  FALSE
    BY DEF PaidOncePerPeriod, LiveIn
  <2>1. arrears[k].status # "NONE"
    BY <1>1 DEF ClaimArrears, DueArrears
  <2>2. CASE m = n
    BY <1>1, <1>2, <2>1, <2>2 DEF LiveIn, ArrearsOfClosedPeriods, CanCreate
  <2>3. CASE m # n
    BY <1>2, <2>1, <2>3 DEF PaidOncePerPeriod, LiveIn, Live
  <2> QED BY <2>2, <2>3
<1>6. ClaimsHeldByLiveRuns'
  <2>1. \A m \in Runs, e \in Employees : Holds(m, e) => Holds(m, e)'
    BY <1>2 DEF Holds, Live
  <2>2. \A e \in staff : Holds(n, e)'
    BY <1>2 DEF Holds, Live
  <2>3. ASSUME NEW k \in Keys
        PROVE  IF arrears'[k].status = "APPLIED"
               THEN \E m \in Runs : arrears'[k].run = {m} /\ Holds(m, k[1])'
               ELSE arrears'[k].run = {}
    <3>1. CASE k \in DueArrears(staff)
      BY <1>1, <2>2, <3>1 DEF ClaimArrears, DueArrears
    <3>2. CASE k \notin DueArrears(staff)
      BY <1>1, <2>1, <3>2, KeyTypes DEF ClaimArrears, ClaimsHeldByLiveRuns
    <3> QED BY <3>1, <3>2
  <2>4. ASSUME NEW a \in Advances
        PROVE  IF advance'[a].status = "DEDUCTED"
               THEN \E m \in Runs : advance'[a].run = {m} /\ Holds(m, EmployeeOf[a])'
               ELSE advance'[a].run = {}
    <3>1. CASE a \in DueAdvances(p, staff)
      BY <1>1, <2>2, <3>1 DEF ClaimAdvances, DueAdvances
    <3>2. CASE a \notin DueAdvances(p, staff)
      BY <1>1, <2>1, <3>2, PayrollAssumption DEF ClaimAdvances, ClaimsHeldByLiveRuns
    <3> QED BY <3>1, <3>2
  <2>5. ASSUME NEW i \in Installments
        PROVE  \/ installment'[i].run = {}
               \/ \E m \in Runs : installment'[i].run = {m} /\ Holds(m, Borrower[LoanOf[i]])'
    <3>1. CASE i \in DueInstallments(p, staff)
      <4>1. installment'[i].run = {n}
        BY <1>1, <3>1 DEF ClaimInstallments, DueInstallments, Rows
      <4> QED BY <2>2, <3>1, <4>1 DEF DueInstallments
    <3>2. CASE i \notin DueInstallments(p, staff)
      BY <1>1, <2>1, <3>2, PayrollAssumption DEF ClaimInstallments, ClaimsHeldByLiveRuns
    <3> QED BY <3>1, <3>2
  <2> QED BY <2>3, <2>4, <2>5 DEF ClaimsHeldByLiveRuns
<1> QED BY <1>2, <1>3, <1>4, <1>5, <1>6

LEMMA ThrRunKeeps ==
    ASSUME Inductive, NEW n \in Runs, NEW p \in Periods, NEW u \in Actors, NEW staff \in Payrolls,
           CreateThrRun(n, p, u, staff)
    PROVE  Inductive'
<1> USE DEF Inductive
<1>1. /\ CanCreate(n, "THR", p) /\ NewRun(n, "THR", p, u, staff) /\ period' = period
      /\ arrears' = arrears /\ advance' = advance /\ installment' = installment
  BY DEF CreateThrRun, claims
<1>2. /\ OneLiveRun' /\ ~Live(n)
      /\ run'[n] = [status |-> "COMPLETED", type |-> "THR", period |-> p,
                    createdBy |-> {u}, approvedBy |-> {}, slips |-> staff]
      /\ \A m \in Runs \ {n} : run'[m] = run[m]
      /\ run' \in [Runs -> RunRows]
  BY <1>1, NewRunKeeps
<1>3. Rows'
  BY <1>1, <1>2 DEF Rows
<1>4. ArrearsOfClosedPeriods'
  BY <1>1 DEF ArrearsOfClosedPeriods
<1>5. PaidOncePerPeriod'
  BY <1>1, <1>2 DEF PaidOncePerPeriod, LiveIn, Live
<1>6. ClaimsHeldByLiveRuns'
  <2>1. \A m \in Runs, e \in Employees : Holds(m, e) => Holds(m, e)'
    BY <1>2 DEF Holds, Live
  <2> QED BY <1>1, <2>1, KeyTypes, OwnerTypes DEF ClaimsHeldByLiveRuns
<1> QED BY <1>2, <1>3, <1>4, <1>5, <1>6

\* A run is the same run to its claims.
Same(n) ==
    /\ Live(n)' <=> Live(n)
    /\ run'[n].type = run[n].type /\ run'[n].period = run[n].period
    /\ run'[n].slips = run[n].slips

\* Every step that moves no claim, ends no run and opens no period.
LEMMA StandingKeeps ==
    ASSUME Inductive, Rows', \A n \in Runs : Same(n),
           \A p \in Periods : period[p].closed => period'[p].closed,
           \A k \in Keys : /\ arrears'[k].run = arrears[k].run
                           /\ (arrears'[k].status = "APPLIED") <=> (arrears[k].status = "APPLIED")
                           /\ arrears'[k].status # "NONE" => arrears[k].status # "NONE",
           \A a \in Advances :
             /\ advance'[a].run = advance[a].run
             /\ (advance'[a].status = "DEDUCTED") <=> (advance[a].status = "DEDUCTED"),
           \A i \in Installments : installment'[i].run = installment[i].run
    PROVE  Inductive'
<1> USE DEF Inductive, Same
<1>1. OneLiveRun'
  BY DEF OneLiveRun
<1>2. ArrearsOfClosedPeriods'
  BY KeyTypes DEF ArrearsOfClosedPeriods
<1>3. PaidOncePerPeriod'
  BY DEF PaidOncePerPeriod, LiveIn
<1>4. ClaimsHeldByLiveRuns'
  <2>1. \A n \in Runs, e \in Employees : Holds(n, e)' <=> Holds(n, e)
    BY DEF Holds
  <2> QED BY <2>1, KeyTypes, OwnerTypes DEF ClaimsHeldByLiveRuns
<1> QED BY <1>1, <1>2, <1>3, <1>4

LEMMA ApproveKeeps ==
    ASSUME Inductive, NEW n \in Runs, NEW u \in Actors, ApproveRun(n, u)
    PROVE  Inductive'
<1>1. /\ period' = period /\ arrears' = arrears /\ advance' = advance
      /\ installment' = installment /\ run[n].status = "COMPLETED"
      /\ run' = [run EXCEPT ![n] = [@ EXCEPT !.status = "APPROVED", !.approvedBy = {u}]]
  BY DEF ApproveRun, claims
<1>2. run \in [Runs -> RunRows] /\ run[n] \in RunRows
  BY DEF Inductive, Rows, RunRows
<1>3. [run[n] EXCEPT !.status = "APPROVED", !.approvedBy = {u}] \in RunRows
  BY <1>2 DEF RunRows, RunStatus
<1>4. run' \in [Runs -> RunRows]
  BY <1>1, <1>2, <1>3
<1>5. Rows'
  BY <1>1, <1>4 DEF Inductive, Rows, RunRows
<1>6. \A m \in Runs : Same(m)
  BY <1>1, <1>2 DEF RunRows, Same, Live
<1> QED BY <1>1, <1>5, <1>6, StandingKeeps

LEMMA SettleKeeps ==
    ASSUME Inductive, NEW n \in Runs, NEW u \in Actors, Settle(n, u)
    PROVE  Inductive'
<1>1. \A i \in Installments :
        installment'[i] = IF i \in Frozen(n) THEN [installment[i] EXCEPT !.paid = TRUE]
                                             ELSE installment[i]
  BY DEF Settle
<1>2. Rows'
  <2>1. run' \in [Runs -> RunRows]
    <3>1. run \in [Runs -> RunRows] /\ run' = [run EXCEPT ![n] = [@ EXCEPT !.status = "DISBURSED"]]
      BY DEF Inductive, Rows, RunRows, Settle
    <3>2. [run[n] EXCEPT !.status = "DISBURSED"] \in RunRows
      BY <3>1 DEF RunRows, RunStatus
    <3> QED BY <3>1, <3>2
  <2>2. installment' \in [Installments -> [paid : BOOLEAN, run : SUBSET Runs]]
    BY DEF Inductive, Settle, Rows
  <2> QED BY <2>1, <2>2 DEF Inductive, Settle, Rows, RunRows
<1>3. \A m \in Runs : Same(m)
  BY DEF Inductive, Settle, Rows, RunStatus, Same, Live
<1>4. \A i \in Installments : installment'[i].run = installment[i].run
  BY <1>1 DEF Inductive, Rows
<1> QED BY <1>2, <1>3, <1>4, StandingKeeps DEF Settle

LEMMA PeriodKeeps ==
    ASSUME Inductive, NEW p \in Periods,
           ConfirmAttendance(p) \/ CheckClose(p) \/ ClosePeriod(p)
    PROVE  Inductive'
<1>1. run' = run /\ arrears' = arrears /\ advance' = advance /\ installment' = installment
  BY DEF ConfirmAttendance, CheckClose, ClosePeriod, claims
<1>2. /\ period' \in [Periods -> [closed : BOOLEAN, reviewed : BOOLEAN]]
      /\ \A q \in Periods : period[q].closed => period'[q].closed
  <2>1. period \in [Periods -> [closed : BOOLEAN, reviewed : BOOLEAN]]
    BY DEF Inductive, Rows
  <2>2. CASE ConfirmAttendance(p)
    BY <2>1, <2>2 DEF ConfirmAttendance
  <2>3. CASE CheckClose(p)
    BY <2>1, <2>3 DEF CheckClose
  <2>4. CASE ClosePeriod(p)
    BY <2>1, <2>4 DEF ClosePeriod
  <2> QED BY <2>2, <2>3, <2>4
<1>3. \A n \in Runs : Same(n)
  BY <1>1 DEF Same, Live
<1>4. Rows'
  BY <1>1, <1>2 DEF Inductive, Rows
<1> QED BY <1>1, <1>2, <1>3, <1>4, StandingKeeps

\* A registration finds no payslip in a closed period, and a period once closed gets
\* no run any more.
LEMMA ArrearsKeep ==
    ASSUME Inductive, NEW k \in Keys,
           CheckArrears(k) \/ RegisterArrears(k) \/ CancelArrears(k)
    PROVE  Inductive'
<1>1. /\ run' = run /\ period' = period /\ advance' = advance /\ installment' = installment
      /\ \A n \in Runs : Same(n)
  BY DEF CheckArrears, RegisterArrears, CancelArrears, Same, Live
<1>2. Rows'
  <2>1. \E s \in ArrearsStatus : arrears' = [arrears EXCEPT ![k].status = s]
    BY DEF CheckArrears, RegisterArrears, CancelArrears, ArrearsStatus
  <2>2. arrears' \in [Keys -> [status : ArrearsStatus, run : SUBSET Runs]]
    BY <2>1 DEF Inductive, Rows
  <2> QED BY <1>1, <2>2 DEF Inductive, Rows
<1>3. CASE RegisterArrears(k) \/ CancelArrears(k)
  <2>1. \A j \in Keys : /\ arrears'[j].run = arrears[j].run
                        /\ (arrears'[j].status = "APPLIED") <=> (arrears[j].status = "APPLIED")
                        /\ arrears'[j].status # "NONE" => arrears[j].status # "NONE"
    BY <1>3 DEF Inductive, Rows, RegisterArrears, CancelArrears
  <2> QED BY <1>1, <1>2, <2>1, StandingKeeps
<1>4. CASE CheckArrears(k)
  <2>1. /\ period[k[2]].closed /\ ~HasPayslip(k[1], k[2])
        /\ arrears'[k].status = "CHECKED" /\ arrears'[k].run = arrears[k].run
        /\ arrears[k].status = "NONE"
        /\ \A j \in Keys \ {k} : arrears'[j] = arrears[j]
    BY <1>4 DEF Inductive, Rows, CheckArrears, Registrable
  <2>2. OneLiveRun' /\ ArrearsOfClosedPeriods'
    BY <1>1, <2>1 DEF Inductive, OneLiveRun, ArrearsOfClosedPeriods, Live
  <2>3. PaidOncePerPeriod'
    BY <1>1, <2>1 DEF Inductive, PaidOncePerPeriod, LiveIn, Live, HasPayslip
  <2>4. ClaimsHeldByLiveRuns'
    <3>1. \A n \in Runs, e \in Employees : Holds(n, e)' <=> Holds(n, e)
      BY <1>1 DEF Holds, Same
    <3> QED BY <1>1, <2>1, <3>1, KeyTypes, OwnerTypes DEF Inductive, ClaimsHeldByLiveRuns
  <2> QED BY <1>2, <2>2, <2>3, <2>4 DEF Inductive
<1> QED BY <1>3, <1>4

\* The decisions on an advance never claim it and never free it.
LEMMA AdvanceKeeps ==
    ASSUME Inductive, NEW a \in Advances, NEW from \in AdvanceStatus \ {"DEDUCTED"},
           NEW to \in AdvanceStatus \ {"DEDUCTED"}, Advance(a, from, to)
    PROVE  Inductive'
<1>1. run' = run /\ period' = period /\ arrears' = arrears /\ installment' = installment
  BY DEF Advance
<1>2. \A n \in Runs : Same(n)
  BY <1>1 DEF Same, Live
<1>3. /\ Rows'
      /\ \A b \in Advances :
           /\ advance'[b].run = advance[b].run
           /\ (advance'[b].status = "DEDUCTED") <=> (advance[b].status = "DEDUCTED")
  BY <1>1 DEF Inductive, Rows, Advance
<1> QED BY <1>1, <1>2, <1>3, StandingKeeps

-----------------------------------------------------------------------------
(* Voiding.                                                                *)

\* What the run held is handed back, what others hold is held by runs that stand.
LEMMA VoidKeeps ==
    ASSUME Inductive, NEW n \in Runs, VoidRun(n)
    PROVE  Inductive'
<1> USE DEF Inductive
<1>1. /\ run[n].status = "COMPLETED" /\ period' = period
      /\ run' = [run EXCEPT ![n] = [@ EXCEPT !.status = "VOIDED"]]
      /\ arrears' = ReleaseArrears(n) /\ advance' = ReleaseAdvances(n)
      /\ installment' = ReleaseInstallments(n)
  BY DEF VoidRun, Voidable
<1>2. /\ run' \in [Runs -> RunRows] /\ run'[n].status = "VOIDED"
      /\ \A m \in Runs \ {n} : run'[m] = run[m]
  <2>1. run \in [Runs -> RunRows]
    BY DEF Rows
  <2>2. [run[n] EXCEPT !.status = "VOIDED"] \in RunRows
    BY <2>1 DEF RunRows, RunStatus
  <2> QED BY <1>1, <2>1, <2>2 DEF RunRows
<1>3. Rows'
  <2>1. arrears' \in [Keys -> [status : ArrearsStatus, run : SUBSET Runs]]
    BY <1>1 DEF Rows, ReleaseArrears, ArrearsStatus
  <2>2. advance' \in [Advances -> [status : AdvanceStatus, run : SUBSET Runs]]
    BY <1>1 DEF Rows, ReleaseAdvances, AdvanceStatus
  <2>3. installment' \in [Installments -> [paid : BOOLEAN, run : SUBSET Runs]]
    BY <1>1 DEF Rows, ReleaseInstallments
  <2> QED BY <1>1, <1>2, <2>1, <2>2, <2>3 DEF Rows
<1>4. ~Live(n)' /\ \A m \in Runs \ {n} : Live(m)' <=> Live(m)
  BY <1>2 DEF Live
<1>5. OneLiveRun' /\ ArrearsOfClosedPeriods'
  BY <1>1, <1>2, <1>4 DEF OneLiveRun, ArrearsOfClosedPeriods, ReleaseArrears
<1>6. PaidOncePerPeriod'
  BY <1>1, <1>2, <1>4 DEF PaidOncePerPeriod, LiveIn, ReleaseArrears
<1>7. ClaimsHeldByLiveRuns'
  <2>1. \A m \in Runs \ {n}, e \in Employees : Holds(m, e) => Holds(m, e)'
    BY <1>2, <1>4 DEF Holds
  <2>2. ASSUME NEW k \in Keys
        PROVE  IF arrears'[k].status = "APPLIED"
               THEN \E m \in Runs : arrears'[k].run = {m} /\ Holds(m, k[1])'
               ELSE arrears'[k].run = {}
    BY <1>1, <2>1, KeyTypes DEF ClaimsHeldByLiveRuns, ReleaseArrears
  <2>3. ASSUME NEW a \in Advances
        PROVE  IF advance'[a].status = "DEDUCTED"
               THEN \E m \in Runs : advance'[a].run = {m} /\ Holds(m, EmployeeOf[a])'
               ELSE advance'[a].run = {}
    BY <1>1, <2>1, PayrollAssumption DEF ClaimsHeldByLiveRuns, ReleaseAdvances
  <2>4. ASSUME NEW i \in Installments
        PROVE  \/ installment'[i].run = {}
               \/ \E m \in Runs : installment'[i].run = {m} /\ Holds(m, Borrower[LoanOf[i]])'
    <3>1. installment'[i].run = installment[i].run \ {n}
      BY <1>1 DEF Rows, ReleaseInstallments
    <3>2. CASE installment[i].run = {}
      BY <3>1, <3>2
    <3>3. CASE \E m \in Runs : installment[i].run = {m} /\ Holds(m, Borrower[LoanOf[i]])
      BY <2>1, <3>1, <3>3, PayrollAssumption
    <3> QED BY <3>2, <3>3 DEF ClaimsHeldByLiveRuns
  <2> QED BY <2>2, <2>3, <2>4 DEF ClaimsHeldByLiveRuns
<1> QED BY <1>3, <1>5, <1>6, <1>7

-----------------------------------------------------------------------------
(* The theorems.                                                           *)

LEMMA StepKeeps == Inductive /\ [Next]_vars => Inductive'
<1> SUFFICES ASSUME Inductive, [Next]_vars PROVE Inductive'
  OBVIOUS
<1>1. ASSUME NEW p \in Periods, ConfirmAttendance(p) \/ CheckClose(p) \/ ClosePeriod(p)
      PROVE  Inductive'
  BY <1>1, PeriodKeeps
<1>2. ASSUME NEW n \in Runs, NEW p \in Periods, NEW u \in Actors, NEW staff \in Payrolls,
             CreateRegularRun(n, p, u, staff) \/ CreateThrRun(n, p, u, staff)
      PROVE  Inductive'
  BY <1>2, RegularRunKeeps, ThrRunKeeps
<1>3. ASSUME NEW n \in Runs, VoidRun(n) PROVE Inductive'
  BY <1>3, VoidKeeps
<1>4. ASSUME NEW n \in Runs, NEW u \in Actors, ApproveRun(n, u) \/ Settle(n, u)
      PROVE  Inductive'
  BY <1>4, ApproveKeeps, SettleKeeps
<1>5. ASSUME NEW k \in Keys, CheckArrears(k) \/ RegisterArrears(k) \/ CancelArrears(k)
      PROVE  Inductive'
  BY <1>5, ArrearsKeep
<1>6. ASSUME NEW a \in Advances, \/ RequestAdvance(a) \/ ApproveAdvance(a) \/ RejectAdvance(a)
                                \/ CancelAdvance(a) \/ MarkAdvancePaid(a)
      PROVE  Inductive'
  <2>1. PICK from \in AdvanceStatus \ {"DEDUCTED"}, to \in AdvanceStatus \ {"DEDUCTED"} :
             Advance(a, from, to)
    BY <1>6 DEF RequestAdvance, ApproveAdvance, RejectAdvance, CancelAdvance, MarkAdvancePaid,
                AdvanceStatus
  <2> QED BY <2>1, AdvanceKeeps
<1>7. CASE UNCHANGED vars
  <2>1. /\ run' = run /\ period' = period /\ arrears' = arrears /\ advance' = advance
        /\ installment' = installment
    BY <1>7 DEF vars, claims
  <2>2. Rows' /\ \A n \in Runs : Same(n)
    BY <2>1 DEF Inductive, Rows, Same, Live
  <2> QED BY <2>1, <2>2, StandingKeeps
<1> QED BY <1>1, <1>2, <1>3, <1>4, <1>5, <1>6, <1>7 DEF Next

LEMMA Invariantly == Spec => []Inductive
BY Initially, StepKeeps, PTL DEF Spec

\* However creation, voiding and approval interleave, no two runs of one period and
\* type stand at once.
THEOREM OneRunPerPeriod == Spec => []OneLiveRun
<1>1. Inductive => OneLiveRun
  BY DEF Inductive
<1> QED BY <1>1, Invariantly, PTL

\* Arrears, advances and instalments are claimed by one standing regular run with a
\* payslip for their employee, or by none.
THEOREM ClaimsStand == Spec => []ClaimsHeldByLiveRuns
<1>1. Inductive => ClaimsHeldByLiveRuns
  BY DEF Inductive
<1> QED BY <1>1, Invariantly, PTL

\* Nobody has arrears for a period whose regular run pays them, although the check and
\* the row are two statements: payrolls are only calculated in open periods and
\* arrears only checked in closed ones.
THEOREM PaidOnce == Spec => []PaidOncePerPeriod
<1>1. Inductive => PaidOncePerPeriod
  BY DEF Inductive
<1> QED BY <1>1, Invariantly, PTL

-----------------------------------------------------------------------------
(* Loans.  That an approved run can be settled follows from what the       *)
(* balances and the paid instalments are, so only those two are inductive. *)

LoanRows == loan \in [Loans -> [paid : BOOLEAN, balance : Nat]]

LoansAddUp ==
    \A l \in Loans : loan[l].balance = AmountOf(Unpaid(l)) /\ (loan[l].paid <=> Unpaid(l) = {})

PaidByDisbursedRuns ==
    \A i \in Installments :
        installment[i].paid <=> \E n \in installment[i].run : run[n].status = "DISBURSED"

LoansInv == LoanRows /\ closing \subseteq Periods /\ LoansAddUp /\ PaidByDisbursedRuns

LEMMA AmountIsSum == ASSUME NEW S PROVE AmountOf(S) = SumOf(Amount, S)
BY DEF AmountOf, SumOf

LEMMA AmountsAreNumbers ==
    ASSUME NEW S \in SUBSET Installments
    PROVE  /\ IsFiniteSet(S) /\ \A i \in S : Amount[i] \in Nat \ {0}
           /\ \A i \in S : Amount[i] \in Nat
           /\ AmountOf(S) \in Nat
           /\ AmountOf(S) = 0 <=> S = {}
<1>1. IsFiniteSet(S) /\ (\A i \in S : Amount[i] \in Nat \ {0}) /\ \A i \in S : Amount[i] \in Nat
  BY PayrollAssumption, FS_Subset
<1>2. SumOf(Amount, S) \in Nat /\ (SumOf(Amount, S) = 0 <=> S = {})
  BY <1>1, SumType, SumIsPositive
<1> QED BY <1>1, <1>2, AmountIsSum

\* Taking a part off: what is left comes to the difference.
LEMMA AmountOfRest ==
    ASSUME NEW S \in SUBSET Installments, NEW T \in SUBSET S
    PROVE  /\ AmountOf(S \ T) = AmountOf(S) - AmountOf(T)
           /\ AmountOf(T) <= AmountOf(S)
<1>1. IsFiniteSet(S) /\ \A i \in S : Amount[i] \in Nat
  BY AmountsAreNumbers
<1>2. /\ SumOf(Amount, S \ T) = SumOf(Amount, S) - SumOf(Amount, T)
      /\ SumOf(Amount, T) <= SumOf(Amount, S)
  BY <1>1, SumOfPart, SumOfPartIsLess
<1> QED BY <1>2, AmountIsSum

\* An instalment frozen on an approved run is frozen on no other and not paid.
LEMMA FrozenIsUnpaid ==
    ASSUME Rows, ClaimsHeldByLiveRuns, PaidByDisbursedRuns, NEW n \in Runs,
           run[n].status = "APPROVED", NEW l \in Loans
    PROVE  FrozenOf(n, l) \subseteq Unpaid(l)
<1> SUFFICES ASSUME NEW i \in Installments, n \in installment[i].run
             PROVE  ~installment[i].paid
  BY DEF FrozenOf, Frozen, Unpaid
<1>1. installment[i].run = {n}
  BY DEF ClaimsHeldByLiveRuns
<1> QED BY <1>1 DEF PaidByDisbursedRuns

\* Reconciliation finds every loan of an approved run in agreement with the instalments.
LEMMA ApprovedAgrees ==
    ASSUME Rows, ClaimsHeldByLiveRuns, LoansInv, NEW n \in Runs, run[n].status = "APPROVED"
    PROVE  LoansAgree(n)
<1>1. ASSUME NEW i \in Frozen(n)
      PROVE  ~installment[i].paid /\ ~loan[LoanOf[i]].paid
  <2>1. i \in Installments /\ LoanOf[i] \in Loans /\ i \in FrozenOf(n, LoanOf[i])
    BY PayrollAssumption DEF Frozen, FrozenOf
  <2>2. i \in Unpaid(LoanOf[i])
    BY <2>1, FrozenIsUnpaid DEF LoansInv
  <2> QED BY <2>1, <2>2 DEF LoansInv, LoansAddUp, Unpaid
<1>2. ASSUME NEW l \in Loans
      PROVE  /\ AmountOf(FrozenOf(n, l)) <= loan[l].balance
             /\ (loan[l].balance = AmountOf(FrozenOf(n, l))) <=> (LeftAfter(n, l) = {})
  <2>1. FrozenOf(n, l) \in SUBSET Unpaid(l) /\ Unpaid(l) \in SUBSET Installments
    BY FrozenIsUnpaid DEF LoansInv, Unpaid
  <2>2. loan[l].balance = AmountOf(Unpaid(l))
    BY DEF LoansInv, LoansAddUp
  <2>3. LeftAfter(n, l) \in SUBSET Installments /\ FrozenOf(n, l) \in SUBSET Installments
    BY <2>1 DEF LeftAfter
  <2>4. /\ AmountOf(LeftAfter(n, l)) = AmountOf(Unpaid(l)) - AmountOf(FrozenOf(n, l))
        /\ AmountOf(FrozenOf(n, l)) <= AmountOf(Unpaid(l))
    BY <2>1, AmountOfRest DEF LeftAfter
  <2>5. /\ AmountOf(LeftAfter(n, l)) = 0 <=> LeftAfter(n, l) = {}
        /\ AmountOf(LeftAfter(n, l)) \in Nat /\ AmountOf(FrozenOf(n, l)) \in Nat
        /\ AmountOf(Unpaid(l)) \in Nat
    BY <2>1, <2>3, AmountsAreNumbers
  <2> QED BY <2>2, <2>4, <2>5
<1> QED BY <1>1, <1>2 DEF LoansAgree

LEMMA LoansInitially == Init => LoansInv
<1> SUFFICES ASSUME Init PROVE LoansInv
  OBVIOUS
<1>1. \A i \in Installments : installment[i].paid = FALSE /\ installment[i].run = {}
  BY DEF Init
<1>2. ASSUME NEW l \in Loans
      PROVE  /\ Unpaid(l) = {i \in Installments : LoanOf[i] = l} /\ Unpaid(l) # {}
             /\ loan[l].paid = FALSE /\ loan[l].balance = AmountOf(Unpaid(l))
             /\ loan[l].balance \in Nat
  <2>1. Unpaid(l) = {i \in Installments : LoanOf[i] = l}
    BY <1>1 DEF Unpaid
  <2>2. Unpaid(l) # {}
    BY <2>1, PayrollAssumption
  <2>3. AmountOf(Unpaid(l)) \in Nat
    BY <2>1, AmountsAreNumbers
  <2> QED BY <2>1, <2>2, <2>3 DEF Init
<1>3. LoanRows
  BY <1>2 DEF Init, LoanRows
<1>4. LoansAddUp
  BY <1>2 DEF LoansAddUp
<1>5. PaidByDisbursedRuns /\ closing \subseteq Periods
  BY <1>1 DEF Init, PaidByDisbursedRuns
<1> QED BY <1>3, <1>4, <1>5 DEF LoansInv

\* What every step but settlement leaves alone.
LEMMA LoansStand ==
    ASSUME LoansInv, loan' = loan, closing' \subseteq Periods,
           \A i \in Installments :
             /\ installment'[i].paid = installment[i].paid
             /\ (\E n \in installment'[i].run : run'[n].status = "DISBURSED")
                  <=> \E n \in installment[i].run : run[n].status = "DISBURSED"
    PROVE  LoansInv'
<1>1. \A l \in Loans : Unpaid(l)' = Unpaid(l)
  BY DEF Unpaid
<1>2. LoansAddUp'
  BY <1>1 DEF LoansInv, LoansAddUp
<1> QED BY <1>2 DEF LoansInv, LoanRows, PaidByDisbursedRuns

\* A run is created over no instalment's head: what it claims was held by no run.
LEMMA CreationKeepsLoans ==
    ASSUME Inductive, LoansInv, NEW n \in Runs, NEW p \in Periods, NEW u \in Actors,
           NEW staff \in Payrolls, CreateRegularRun(n, p, u, staff) \/ CreateThrRun(n, p, u, staff)
    PROVE  LoansInv'
<1>1. /\ run[n].status = "NONE" /\ run'[n].status = "COMPLETED"
      /\ \A m \in Runs \ {n} : run'[m] = run[m]
      /\ loan' = loan /\ closing' = closing
  BY DEF Inductive, Rows, CreateRegularRun, CreateThrRun, CanCreate, NewRun
<1>2. ASSUME NEW i \in Installments
      PROVE  /\ installment'[i].paid = installment[i].paid
             /\ installment'[i].run \subseteq installment[i].run \cup {n}
             /\ installment[i].run \subseteq installment'[i].run
  <2>1. CASE CreateRegularRun(n, p, u, staff)
    BY <2>1 DEF CreateRegularRun, ClaimInstallments, Inductive, Rows
  <2>2. CASE CreateThrRun(n, p, u, staff)
    BY <2>2 DEF CreateThrRun, claims
  <2> QED BY <2>1, <2>2
<1>3. ASSUME NEW i \in Installments
      PROVE  (\E m \in installment'[i].run : run'[m].status = "DISBURSED")
               <=> \E m \in installment[i].run : run[m].status = "DISBURSED"
  <2>1. installment[i].run \subseteq Runs
    BY DEF Inductive, Rows
  <2> QED BY <1>1, <1>2, <2>1
<1> QED BY <1>1, <1>2, <1>3, LoansStand DEF LoansInv

LEMMA VoidKeepsLoans ==
    ASSUME Inductive, LoansInv, NEW n \in Runs, VoidRun(n)
    PROVE  LoansInv'
<1>1. /\ run[n].status = "COMPLETED" /\ run'[n].status = "VOIDED"
      /\ \A m \in Runs \ {n} : run'[m] = run[m]
      /\ loan' = loan /\ closing' = closing
  BY DEF Inductive, Rows, RunRows, VoidRun, Voidable
<1>2. ASSUME NEW i \in Installments
      PROVE  /\ installment'[i].paid = installment[i].paid
             /\ installment'[i].run = installment[i].run \ {n}
             /\ installment[i].run \subseteq Runs
  BY DEF VoidRun, ReleaseInstallments, Inductive, Rows
<1>3. ASSUME NEW i \in Installments
      PROVE  (\E m \in installment'[i].run : run'[m].status = "DISBURSED")
               <=> \E m \in installment[i].run : run[m].status = "DISBURSED"
  BY <1>1, <1>2
<1> QED BY <1>1, <1>2, <1>3, LoansStand DEF LoansInv

\* Settlement takes from each loan what the run froze of it.
LEMMA SettleKeepsLoans ==
    ASSUME Inductive, LoansInv, NEW n \in Runs, NEW u \in Actors, Settle(n, u)
    PROVE  LoansInv'
<1>1. /\ run[n].status = "APPROVED" /\ closing' = closing
      /\ run'[n].status = "DISBURSED" /\ \A m \in Runs \ {n} : run'[m] = run[m]
  BY DEF Settle, Inductive, Rows, RunRows
<1>2. \A i \in Installments : /\ installment'[i].run = installment[i].run
                              /\ installment'[i].paid <=> (installment[i].paid \/ i \in Frozen(n))
  BY DEF Settle, Inductive, Rows
<1>3. PaidByDisbursedRuns'
  <2> SUFFICES ASSUME NEW i \in Installments
               PROVE  installment'[i].paid
                        <=> \E m \in installment'[i].run : run'[m].status = "DISBURSED"
    BY DEF PaidByDisbursedRuns
  <2>1. installment[i].run \subseteq Runs
    BY DEF Inductive, Rows
  <2>2. CASE n \in installment[i].run
    BY <1>1, <1>2, <2>2 DEF Frozen
  <2>3. CASE n \notin installment[i].run
    BY <1>1, <1>2, <2>1, <2>3 DEF Frozen, LoansInv, PaidByDisbursedRuns
  <2> QED BY <2>2, <2>3
<1>4. ASSUME NEW l \in Loans
      PROVE  /\ Unpaid(l)' = Unpaid(l) \ FrozenOf(n, l)
             /\ loan'[l] \in [paid : BOOLEAN, balance : Nat]
             /\ loan'[l].balance = AmountOf(Unpaid(l) \ FrozenOf(n, l))
             /\ loan'[l].paid <=> Unpaid(l) \ FrozenOf(n, l) = {}
  <2>1. Unpaid(l)' = Unpaid(l) \ FrozenOf(n, l)
    BY <1>2 DEF Unpaid, FrozenOf, Frozen
  <2>2. CASE FrozenOf(n, l) = {}
    <3>1. loan'[l] = loan[l] /\ Unpaid(l) \ FrozenOf(n, l) = Unpaid(l)
      BY <2>2 DEF Settle, SettledLoans
    <3> QED BY <2>1, <3>1 DEF LoansInv, LoansAddUp, LoanRows
  <2>3. CASE FrozenOf(n, l) # {}
    <3>1. /\ loan'[l].paid = (Unpaid(l) \ FrozenOf(n, l) = {})
          /\ loan'[l].balance = loan[l].balance - AmountOf(FrozenOf(n, l))
          /\ loan'[l] = [paid |-> loan'[l].paid, balance |-> loan'[l].balance]
      BY <2>3 DEF Settle, SettledLoans, LeftAfter
    <3>2. FrozenOf(n, l) \in SUBSET Unpaid(l) /\ Unpaid(l) \in SUBSET Installments
      BY <1>1, FrozenIsUnpaid DEF LoansInv, Inductive, Unpaid
    <3>3. AmountOf(Unpaid(l) \ FrozenOf(n, l)) = AmountOf(Unpaid(l)) - AmountOf(FrozenOf(n, l))
      BY <3>2, AmountOfRest
    <3>4. Unpaid(l) \ FrozenOf(n, l) \in SUBSET Installments
      BY <3>2
    <3>5. AmountOf(Unpaid(l) \ FrozenOf(n, l)) \in Nat
      BY <3>4, AmountsAreNumbers
    <3>6. loan[l].balance = AmountOf(Unpaid(l))
      BY DEF LoansInv, LoansAddUp
    <3>7. loan'[l].balance = AmountOf(Unpaid(l) \ FrozenOf(n, l)) /\ loan'[l].paid \in BOOLEAN
      BY <3>1, <3>3, <3>6
    <3> QED BY <2>1, <3>1, <3>5, <3>7
  <2> QED BY <2>2, <2>3
<1>5. LoansAddUp'
  <2>1. \A l \in Loans : AmountOf(Unpaid(l))' = AmountOf(Unpaid(l) \ FrozenOf(n, l))
    BY <1>4
  <2> QED BY <1>4, <2>1 DEF LoansAddUp
<1>6. LoanRows'
  BY <1>4 DEF LoanRows, Settle, SettledLoans
<1> QED BY <1>1, <1>3, <1>5, <1>6 DEF LoansInv

LEMMA LoansStep == Inductive /\ LoansInv /\ [Next]_vars => LoansInv'
<1> SUFFICES ASSUME Inductive, LoansInv, [Next]_vars PROVE LoansInv'
  OBVIOUS
<1>1. ASSUME run' = run, installment' = installment, loan' = loan, closing' \subseteq Periods
      PROVE  LoansInv'
  BY <1>1, LoansStand
<1>2. ASSUME NEW p \in Periods, ConfirmAttendance(p) \/ CheckClose(p) \/ ClosePeriod(p)
      PROVE  LoansInv'
  BY <1>1, <1>2 DEF ConfirmAttendance, CheckClose, ClosePeriod, claims, LoansInv
<1>3. ASSUME NEW n \in Runs, NEW u \in Actors, ApproveRun(n, u) PROVE LoansInv'
  <2>1. \A m \in Runs : (run'[m].status = "DISBURSED") <=> (run[m].status = "DISBURSED")
    BY <1>3 DEF ApproveRun, Inductive, Rows, RunRows
  <2>2. installment' = installment /\ loan' = loan /\ closing' = closing
    BY <1>3 DEF ApproveRun, claims
  <2>3. \A i \in Installments : installment[i].run \subseteq Runs
    BY DEF Inductive, Rows
  <2> QED BY <2>1, <2>2, <2>3, LoansStand DEF LoansInv
<1>4. ASSUME NEW k \in Keys, CheckArrears(k) \/ RegisterArrears(k) \/ CancelArrears(k)
      PROVE  LoansInv'
  BY <1>1, <1>4 DEF CheckArrears, RegisterArrears, CancelArrears, LoansInv
<1>5. ASSUME NEW a \in Advances, NEW from, NEW to, Advance(a, from, to) PROVE LoansInv'
  BY <1>1, <1>5 DEF Advance, LoansInv
<1>6. CASE UNCHANGED vars
  BY <1>1, <1>6 DEF vars, claims, LoansInv
<1> QED BY <1>2, <1>3, <1>4, <1>5, <1>6, CreationKeepsLoans, VoidKeepsLoans, SettleKeepsLoans
        DEF Next, RequestAdvance, ApproveAdvance, RejectAdvance, CancelAdvance, MarkAdvancePaid

LEMMA LoansInvariantly == Spec => []LoansInv
BY Invariantly, LoansInitially, LoansStep, PTL DEF Spec

\* Every row of payroll, claims and loans keeps its type: no balance goes negative.
THEOREM PayrollTypeCorrect == Spec => []TypeOK
<1>1. Inductive /\ LoansInv => TypeOK
  BY DEF Inductive, Rows, RunRows, LoansInv, LoanRows, TypeOK
<1> QED BY <1>1, Invariantly, LoansInvariantly, PTL

\* A loan's balance is always what its schedule has left to pay, an instalment is paid
\* exactly when the run that froze it was disbursed, and reconciliation of an approved
\* run never meets a loan that does not agree with it.
THEOREM LoansReconcile == Spec => []LoansSettle
<1>1. Inductive /\ LoansInv => LoansSettle
  BY ApprovedAgrees DEF Inductive, LoansInv, LoansAddUp, PaidByDisbursedRuns, LoansSettle
<1> QED BY <1>1, Invariantly, LoansInvariantly, PTL

-----------------------------------------------------------------------------
(* What a step may never do.                                               *)

\* New runs claim what no run holds, and a void gives back what its own run held.
LEMMA StepsOfRunsStand ==
    ASSUME Inductive, NEW n \in Runs,
           \/ \E p \in Periods, u \in Actors, staff \in Payrolls :
                CreateRegularRun(n, p, u, staff) \/ CreateThrRun(n, p, u, staff)
           \/ VoidRun(n)
    PROVE  MoneyStands
<1> USE DEF Inductive
<1>1. run[n].status \in {"NONE", "COMPLETED"} /\ \A m \in Runs \ {n} : run'[m] = run[m]
  BY DEF CreateRegularRun, CreateThrRun, CanCreate, NewRun, VoidRun, Voidable, Rows
<1> SUFFICES ASSUME NEW m \in Runs \ {n}
             PROVE  /\ \A k \in Keys : m \in arrears[k].run <=> m \in arrears'[k].run
                    /\ \A a \in Advances : m \in advance[a].run <=> m \in advance'[a].run
                    /\ \A i \in Installments : m \in installment[i].run <=> m \in installment'[i].run
  BY <1>1 DEF MoneyStands
<1>2. ASSUME NEW p \in Periods, NEW u \in Actors, NEW staff \in Payrolls,
             CreateRegularRun(n, p, u, staff)
      PROVE  /\ \A k \in Keys : m \in arrears[k].run <=> m \in arrears'[k].run
             /\ \A a \in Advances : m \in advance[a].run <=> m \in advance'[a].run
             /\ \A i \in Installments : m \in installment[i].run <=> m \in installment'[i].run
  <2>1. \A k \in Keys : m \in arrears[k].run <=> m \in arrears'[k].run
    BY <1>2 DEF CreateRegularRun, ClaimArrears, DueArrears, ClaimsHeldByLiveRuns
  <2>2. \A a \in Advances : m \in advance[a].run <=> m \in advance'[a].run
    BY <1>2 DEF CreateRegularRun, ClaimAdvances, DueAdvances, ClaimsHeldByLiveRuns
  <2>3. \A i \in Installments : m \in installment[i].run <=> m \in installment'[i].run
    BY <1>2 DEF CreateRegularRun, ClaimInstallments, DueInstallments, Rows
  <2> QED BY <2>1, <2>2, <2>3
<1>3. CASE \E p \in Periods, u \in Actors, staff \in Payrolls : CreateThrRun(n, p, u, staff)
  BY <1>3 DEF CreateThrRun, claims
<1>4. CASE VoidRun(n)
  <2>1. \A k \in Keys : m \in arrears[k].run <=> m \in arrears'[k].run
    BY <1>4 DEF VoidRun, ReleaseArrears
  <2>2. \A a \in Advances : m \in advance[a].run <=> m \in advance'[a].run
    BY <1>4 DEF VoidRun, ReleaseAdvances
  <2>3. \A i \in Installments : m \in installment[i].run <=> m \in installment'[i].run
    BY <1>4 DEF VoidRun, ReleaseInstallments, Rows
  <2> QED BY <2>1, <2>2, <2>3
<1> QED BY <1>2, <1>3, <1>4

\* Approval and settlement only move the run on; nothing else moves a run or a claim.
LEMMA OtherStepsStand ==
    ASSUME Inductive, Next,
           ~\E n \in Runs : \/ VoidRun(n)
                           \/ \E p \in Periods, u \in Actors, staff \in Payrolls :
                                CreateRegularRun(n, p, u, staff) \/ CreateThrRun(n, p, u, staff)
    PROVE  MoneyStands
<1> USE DEF Inductive
<1>1. ASSUME NEW p \in Periods, ConfirmAttendance(p) \/ CheckClose(p) \/ ClosePeriod(p)
      PROVE  MoneyStands
  BY <1>1 DEF ConfirmAttendance, CheckClose, ClosePeriod, claims, MoneyStands
<1>2. ASSUME NEW n \in Runs, NEW u \in Actors, ApproveRun(n, u) PROVE MoneyStands
  <2>1. \A m \in Runs : run[m].status \in {"APPROVED", "DISBURSED"} => run'[m] = run[m]
    BY <1>2 DEF ApproveRun, Rows
  <2> QED BY <1>2, <2>1 DEF ApproveRun, claims, MoneyStands
<1>3. ASSUME NEW n \in Runs, NEW u \in Actors, Settle(n, u) PROVE MoneyStands
  <2>1. \A m \in Runs : run[m].status \in {"APPROVED", "DISBURSED"} =>
                          run'[m].status \in {"APPROVED", "DISBURSED"}
    BY <1>3 DEF Settle, Rows, RunRows
  <2>2. \A i \in Installments : installment'[i].run = installment[i].run
    BY <1>3 DEF Settle, Rows
  <2> QED BY <1>3, <2>1, <2>2 DEF Settle, MoneyStands
<1>4. ASSUME NEW k \in Keys, CheckArrears(k) \/ RegisterArrears(k) \/ CancelArrears(k)
      PROVE  MoneyStands
  <2>1. \E s : arrears' = [arrears EXCEPT ![k] = [@ EXCEPT !.status = s]]
    BY <1>4 DEF CheckArrears, RegisterArrears, CancelArrears
  <2>2. \A j \in Keys : arrears'[j].run = arrears[j].run
    BY <2>1 DEF Rows
  <2> QED BY <1>4, <2>2 DEF CheckArrears, RegisterArrears, CancelArrears, MoneyStands
<1>5. ASSUME NEW a \in Advances, NEW from, NEW to, Advance(a, from, to) PROVE MoneyStands
  <2>1. \A b \in Advances : advance'[b].run = advance[b].run
    BY <1>5 DEF Advance, Rows
  <2> QED BY <1>5, <2>1 DEF Advance, MoneyStands
<1> QED BY <1>1, <1>2, <1>3, <1>4, <1>5 DEF Next, RequestAdvance, ApproveAdvance, RejectAdvance,
                                           CancelAdvance, MarkAdvancePaid

\* Approved money is never voided, replaced or robbed of a claim, by any step.
THEOREM ApprovedStands == Spec => ApprovedMoneyStands
<1>1. Inductive /\ [Next]_vars => [MoneyStands]_vars
  BY StepsOfRunsStand, OtherStepsStand
<1> QED BY <1>1, Invariantly, PTL DEF Spec, ApprovedMoneyStands

-----------------------------------------------------------------------------
(* PayrollPayment: with batches in between it is still the payroll of      *)
(* PayrollRun, it implements Payout, and its ledger can be trusted.        *)
(* Batches implement PayrollRun, so what is proved of runs holds here.     *)

LEMMA RequestTypes ==
    ASSUME NEW q \in Requests
    PROVE  /\ q.key \in IdempotencyKeys /\ q.run \in Runs /\ q.by \in Actors
           /\ q.slip \in Employees /\ q.outcome \in {"PAID", "FAILED"} /\ q.ref \in BankReferences
BY RequestsAssumption

LEMMA PaymentStepIsPayrollStep == [PaymentNext]_allVars => [Next]_vars
<1>1. CASE PayrollGoesOn
  BY <1>1 DEF PayrollGoesOn, Next
<1>2. ASSUME NEW q \in Requests, ReconcileBatch(q) PROVE Next
  <2>1. Settle(q.run, q.by)
    BY <1>2 DEF ReconcileBatch
  <2> QED BY <2>1, RequestTypes DEF Next
<1>3. ASSUME NEW q \in Requests, CreateBatch(q) \/ RecordTransaction(q) \/ CancelBatch(q)
      PROVE  UNCHANGED vars
  BY <1>3 DEF CreateBatch, RecordTransaction, CancelBatch
<1>4. ASSUME NEW n \in Runs, ExportBatch(n) PROVE UNCHANGED vars
  BY <1>4 DEF ExportBatch
<1> QED BY <1>1, <1>2, <1>3, <1>4 DEF PaymentNext, allVars

\* Paying a run out is payroll as PayrollRun has it: reconciliation is a settlement and
\* no other payment request touches runs, claims or loans.
THEOREM PaymentImplementsPayrollRun == PaymentSpec => ImplementsPayrollRun
<1>1. PaymentInit => Init
  BY DEF PaymentInit
<1> QED BY <1>1, PaymentStepIsPayrollStep, PTL DEF PaymentSpec, Spec, ImplementsPayrollRun

LEMMA PayrollInvariantly == PaymentSpec => []Inductive
BY PaymentImplementsPayrollRun, Invariantly, PTL DEF ImplementsPayrollRun

-----------------------------------------------------------------------------
(* The inductive invariant of the ledger.                                  *)

PaymentRows ==
    /\ batch \in [Runs -> BatchStatus]
    /\ payment \in [Runs -> [Employees -> Payments]]
    /\ operation \in [IdempotencyKeys -> SUBSET Requests]

\* A run exists to pay somebody; without this an empty batch would be DRAFT and PAID.
RunsPaySomebody == \A n \in Runs : run[n].status # "NONE" => run[n].slips # {}

Ledger == PaymentRows /\ RunsPaySomebody /\ BatchTellsItsPayments
            /\ DisbursedWhenReconciled /\ RecordedUnderItsKey

LEMMA LedgerInitially == PaymentInit => Ledger
<1> SUFFICES ASSUME PaymentInit PROVE Ledger
  OBVIOUS
<1> USE DEF PaymentInit, Init, NoRun, NoPayment
<1>1. PaymentRows
  BY DEF PaymentRows, BatchStatus, Payments
<1>2. RunsPaySomebody /\ DisbursedWhenReconciled /\ RecordedUnderItsKey
  BY DEF RunsPaySomebody, DisbursedWhenReconciled, RecordedUnderItsKey
<1>3. BatchTellsItsPayments
  BY DEF BatchTellsItsPayments, In
<1> QED BY <1>1, <1>2, <1>3 DEF Ledger

\* Payroll leaves a run with a batch alone, and disburses none.
LEMMA PayrollSparesBatches ==
    ASSUME Rows, PayrollGoesOn
    PROVE  \A n \in Runs :
             /\ run[n].status \in {"APPROVED", "DISBURSED"} => run'[n] = run[n]
             /\ run'[n].status = "DISBURSED" => run[n].status = "DISBURSED"
             /\ run'[n].status # "NONE" =>
                  \/ run'[n].slips \in Payrolls
                  \/ run[n].status # "NONE" /\ run'[n].slips = run[n].slips
<1> USE DEF Rows, RunRows
<1>1. ASSUME NEW p \in Periods, ConfirmAttendance(p) PROVE run' = run
  BY <1>1 DEF ConfirmAttendance
<1>2. ASSUME NEW n \in Runs, NEW t \in {"REGULAR", "THR"}, NEW p \in Periods, NEW u \in Actors,
             NEW staff \in Payrolls, CanCreate(n, t, p), NewRun(n, t, p, u, staff)
      PROVE  /\ run[n].status = "NONE" /\ run'[n].status = "COMPLETED" /\ run'[n].slips = staff
             /\ \A m \in Runs \ {n} : run'[m] = run[m]
  BY <1>2 DEF CanCreate, NewRun
<1>3. ASSUME NEW n \in Runs, VoidRun(n)
      PROVE  /\ run[n].status = "COMPLETED" /\ run'[n].status = "VOIDED"
             /\ run'[n].slips = run[n].slips /\ \A m \in Runs \ {n} : run'[m] = run[m]
  BY <1>3 DEF VoidRun, Voidable
<1>4. ASSUME NEW n \in Runs, NEW u \in Actors, ApproveRun(n, u)
      PROVE  /\ run[n].status = "COMPLETED" /\ run'[n].status = "APPROVED"
             /\ run'[n].slips = run[n].slips /\ \A m \in Runs \ {n} : run'[m] = run[m]
  BY <1>4 DEF ApproveRun
<1>5. ASSUME NEW n \in Runs, NEW p \in Periods, NEW u \in Actors, NEW staff \in Payrolls,
             CreateRegularRun(n, p, u, staff) \/ CreateThrRun(n, p, u, staff)
      PROVE  /\ run[n].status = "NONE" /\ run'[n].status = "COMPLETED" /\ run'[n].slips = staff
             /\ \A m \in Runs \ {n} : run'[m] = run[m]
  BY <1>2, <1>5 DEF CreateRegularRun, CreateThrRun
<1>6. CASE \E p \in Periods : ConfirmAttendance(p)
  BY <1>1, <1>6
<1>7. CASE \E n \in Runs, p \in Periods, u \in Actors, staff \in Payrolls :
             CreateRegularRun(n, p, u, staff) \/ CreateThrRun(n, p, u, staff)
  BY <1>5, <1>7
<1>8. CASE \E n \in Runs : VoidRun(n)
  BY <1>3, <1>8
<1>9. CASE \E n \in Runs, u \in Actors : ApproveRun(n, u)
  BY <1>4, <1>9
<1> QED BY <1>6, <1>7, <1>8, <1>9 DEF PayrollGoesOn

\* Payments recorded before stay vouched for while keys keep their requests.
LEMMA OldRecordsStand ==
    ASSUME RecordedUnderItsKey,
           \A n \in Runs, e \in Employees :
             payment'[n][e].status = "PAID" => payment'[n][e] = payment[n][e],
           \A k \in IdempotencyKeys, r \in Requests : operation[k] = {r} => operation'[k] = {r}
    PROVE  RecordedUnderItsKey'
<1> SUFFICES ASSUME NEW n \in Runs, NEW e \in Employees, payment'[n][e].status = "PAID"
             PROVE  \E k \in IdempotencyKeys, q \in Requests :
                      /\ operation'[k] = {q} /\ q.op = "RECORD" /\ q.run = n /\ q.slip = e
                      /\ payment'[n][e].ref = {q.ref}
  BY DEF RecordedUnderItsKey
<1>1. payment'[n][e] = payment[n][e]
  OBVIOUS
<1>2. PICK k \in IdempotencyKeys, q \in Requests :
        /\ operation[k] = {q} /\ q.op = "RECORD" /\ q.run = n /\ q.slip = e
        /\ payment[n][e].ref = {q.ref}
  BY <1>1 DEF RecordedUnderItsKey
<1> QED BY <1>1, <1>2

LEMMA PayrollKeepsLedger ==
    ASSUME Rows, Ledger, PayrollGoesOn
    PROVE  Ledger'
<1> USE DEF Ledger
<1>1. UNCHANGED paymentVars
  BY DEF PayrollGoesOn
<1>2. PaymentRows'
  BY <1>1 DEF PaymentRows, paymentVars
<1>3. RunsPaySomebody'
  BY PayrollSparesBatches, PayrollAssumption DEF RunsPaySomebody
<1>4. \A n \in Runs : batch[n] # "NONE" => run'[n] = run[n]
  BY PayrollSparesBatches DEF DisbursedWhenReconciled
<1>5. BatchTellsItsPayments'
  BY <1>1, <1>4 DEF BatchTellsItsPayments, In, paymentVars
<1>6. DisbursedWhenReconciled'
  <2> SUFFICES ASSUME NEW n \in Runs
               PROVE  /\ run'[n].status = "DISBURSED" <=> batch'[n] = "RECONCILED"
                      /\ batch'[n] # "NONE" => run'[n].status \in {"APPROVED", "DISBURSED"}
    BY DEF DisbursedWhenReconciled
  <2>1. batch'[n] = batch[n]
    BY <1>1 DEF paymentVars
  <2>2. run'[n].status = "DISBURSED" => run[n].status = "DISBURSED"
    BY PayrollSparesBatches
  <2> QED BY <1>4, <2>1, <2>2 DEF DisbursedWhenReconciled
<1>7. RecordedUnderItsKey'
  BY <1>1, OldRecordsStand DEF paymentVars
<1> QED BY <1>2, <1>3, <1>5, <1>6, <1>7

LEMMA ExportKeepsLedger ==
    ASSUME Rows, Ledger, NEW n \in Runs, ExportBatch(n)
    PROVE  Ledger'
<1> USE DEF Ledger, ExportBatch, Exportable
<1>1. run' = run /\ payment' = payment /\ operation' = operation
  BY DEF vars
<1>2. PaymentRows'
  BY <1>1 DEF PaymentRows, BatchStatus
<1>3. RunsPaySomebody' /\ RecordedUnderItsKey'
  BY <1>1, OldRecordsStand DEF RunsPaySomebody
<1>4. \A m \in Runs : batch'[m] # batch[m] => batch[m] = "DRAFT" /\ batch'[m] = "EXPORTED"
  BY DEF PaymentRows
<1>5. BatchTellsItsPayments'
  BY <1>1, <1>4 DEF BatchTellsItsPayments, In
<1>6. DisbursedWhenReconciled'
  BY <1>1, <1>4 DEF DisbursedWhenReconciled
<1> QED BY <1>2, <1>3, <1>5, <1>6

\* A reserved key keeps what was recorded under other keys.
LEMMA ReserveKeepsKeys ==
    ASSUME PaymentRows, NEW q \in Requests, Reserve(q)
    PROVE  /\ operation' \in [IdempotencyKeys -> SUBSET Requests]
           /\ operation'[q.key] = {q}
           /\ \A k \in IdempotencyKeys, r \in Requests : operation[k] = {r} => operation'[k] = {r}
BY RequestTypes DEF Reserve, Runs1st, PaymentRows

LEMMA CreateKeepsLedger ==
    ASSUME Rows, Ledger, NEW q \in Requests, CreateBatch(q)
    PROVE  Ledger'
<1> USE DEF Ledger
<1>1. /\ q.run \in Runs /\ batch[q.run] = "NONE" /\ run[q.run].status = "APPROVED"
      /\ run' = run /\ run[q.run].slips \in (SUBSET Employees) \ {{}}
  BY RequestTypes DEF CreateBatch, vars, Rows, RunRows, RunsPaySomebody
<1>2. /\ \A m \in Runs \ {q.run} : batch'[m] = batch[m] /\ payment'[m] = payment[m]
      /\ batch'[q.run] = "DRAFT"
      /\ \A e \in Employees : payment'[q.run][e] = IF e \in run[q.run].slips
                                                   THEN [status |-> "PENDING", ref |-> {}]
                                                   ELSE NoPayment
  BY <1>1 DEF CreateBatch, PaymentRows
<1>3. PaymentRows'
  BY <1>1, ReserveKeepsKeys DEF CreateBatch, PaymentRows, BatchStatus, Payments, NoPayment
<1>4. RunsPaySomebody' /\ DisbursedWhenReconciled'
  BY <1>1, <1>2 DEF RunsPaySomebody, DisbursedWhenReconciled
<1>5. BatchTellsItsPayments'
  <2>1. \A m \in Runs \ {q.run} : \A statuses : In(m, statuses)' = In(m, statuses)
    BY <1>2 DEF In
  <2>2. /\ In(q.run, {"PENDING", "PAID", "FAILED"})' = run[q.run].slips
        /\ In(q.run, {"PAID"})' = {} /\ In(q.run, {"FAILED"})' = {}
    BY <1>1, <1>2 DEF In, NoPayment
  <2> QED BY <1>1, <1>2, <2>1, <2>2 DEF BatchTellsItsPayments
<1>6. RecordedUnderItsKey'
  <2>1. \A n \in Runs, e \in Employees :
          payment'[n][e].status = "PAID" => payment'[n][e] = payment[n][e]
    BY <1>1, <1>2 DEF NoPayment
  <2> QED BY <2>1, ReserveKeepsKeys, OldRecordsStand DEF CreateBatch
<1> QED BY <1>3, <1>4, <1>5, <1>6

LEMMA CancelKeepsLedger ==
    ASSUME Rows, Ledger, NEW q \in Requests, CancelBatch(q)
    PROVE  Ledger'
<1> USE DEF Ledger
<1>1. /\ q.run \in Runs /\ run' = run /\ payment' = payment /\ Cancellable(q.run)
      /\ batch' = [batch EXCEPT ![q.run] = "CANCELLED"] /\ Reserve(q)
  BY RequestTypes DEF CancelBatch, vars
<1>2. PaymentRows'
  BY <1>1, ReserveKeepsKeys DEF PaymentRows, BatchStatus
<1>3. \A m \in Runs : batch'[m] = IF m = q.run THEN "CANCELLED" ELSE batch[m]
  BY <1>1 DEF PaymentRows
<1>4. RunsPaySomebody' /\ DisbursedWhenReconciled'
  BY <1>1, <1>3 DEF RunsPaySomebody, DisbursedWhenReconciled, Cancellable
<1>5. BatchTellsItsPayments'
  BY <1>1, <1>3 DEF BatchTellsItsPayments, Cancellable, In
<1>6. RecordedUnderItsKey'
  BY <1>1, ReserveKeepsKeys, OldRecordsStand
<1> QED BY <1>2, <1>4, <1>5, <1>6

LEMMA ReconcileKeepsLedger ==
    ASSUME Rows, Ledger, NEW q \in Requests, ReconcileBatch(q)
    PROVE  Ledger'
<1> USE DEF Ledger
<1>1. /\ q.run \in Runs /\ payment' = payment /\ batch[q.run] = "PAID"
      /\ batch' = [batch EXCEPT ![q.run] = "RECONCILED"] /\ Reserve(q)
      /\ run' = [run EXCEPT ![q.run].status = "DISBURSED"]
  BY RequestTypes DEF ReconcileBatch, Settle
<1>2. PaymentRows'
  BY <1>1, ReserveKeepsKeys DEF PaymentRows, BatchStatus
<1>3. \A m \in Runs : /\ batch'[m] = IF m = q.run THEN "RECONCILED" ELSE batch[m]
                      /\ run'[m].status = IF m = q.run THEN "DISBURSED" ELSE run[m].status
                      /\ run'[m].slips = run[m].slips
  BY <1>1 DEF PaymentRows, Rows, RunRows
<1>4. RunsPaySomebody' /\ DisbursedWhenReconciled'
  BY <1>1, <1>3 DEF RunsPaySomebody, DisbursedWhenReconciled
<1>5. BatchTellsItsPayments'
  BY <1>1, <1>3 DEF BatchTellsItsPayments, In
<1>6. RecordedUnderItsKey'
  BY <1>1, ReserveKeepsKeys, OldRecordsStand
<1> QED BY <1>2, <1>4, <1>5, <1>6

\* The one that matters: an outcome entered for one slip of an exported batch.
LEMMA RecordKeepsLedger ==
    ASSUME Rows, Ledger, NEW q \in Requests, RecordTransaction(q)
    PROVE  Ledger'
<1> USE DEF Ledger
<1> DEFINE n == q.run
           all == {"PENDING", "PAID", "FAILED"}
           slips == In(n, all)
           paidOnes == {e \in Employees : payment'[n][e].status = "PAID"}
           failedOnes == {e \in Employees : payment'[n][e].status = "FAILED"}
<1>1. /\ n \in Runs /\ q.slip \in Employees /\ run' = run /\ Reserve(q) /\ Recordable(q)
      /\ batch[n] \notin {"NONE", "DRAFT", "CANCELLED", "RECONCILED", "PAID"}
      /\ payment' = [payment EXCEPT ![n][q.slip] = Outcome(q)]
      /\ batch' = [batch EXCEPT ![n] = StatusAfter(slips, paidOnes, failedOnes)]
  BY RequestTypes DEF RecordTransaction, vars
<1>2. Outcome(q) \in Payments /\ Outcome(q).status \in {"PAID", "FAILED"}
  <2>1. payment[n][q.slip] \in Payments /\ q.ref \in BankReferences
    BY <1>1, RequestTypes DEF PaymentRows
  <2>2. CASE q.outcome = "PAID"
    BY <2>1, <2>2 DEF Outcome, Payments
  <2>3. CASE q.outcome # "PAID"
    BY <2>1, <2>3 DEF Outcome, Payments
  <2> QED BY <2>2, <2>3
<1>3. /\ \A m \in Runs \ {n} : payment'[m] = payment[m]
      /\ \A e \in Employees : payment'[n][e] = IF e = q.slip THEN Outcome(q) ELSE payment[n][e]
  BY <1>1 DEF PaymentRows
<1>4. In(n, all)' = slips /\ q.slip \in slips
  BY <1>1, <1>2, <1>3 DEF In, Recordable
<1>5. /\ paidOnes = In(n, {"PAID"})' /\ failedOnes = In(n, {"FAILED"})'
      /\ paidOnes \subseteq slips /\ failedOnes \subseteq slips
      /\ paidOnes \cap failedOnes = {} /\ q.slip \in paidOnes \cup failedOnes
  BY <1>2, <1>3, <1>4 DEF In
<1>6. /\ batch'[n] \in {"PAID", "FAILED", "PARTIALLY_FAILED", "PROCESSING"}
      /\ batch'[n] = "PAID" <=> paidOnes = slips
      /\ batch'[n] = "FAILED" => paidOnes = {}
      /\ \A m \in Runs \ {n} : batch'[m] = batch[m]
  <2>1. batch'[n] = StatusAfter(slips, paidOnes, failedOnes)
        /\ \A m \in Runs \ {n} : batch'[m] = batch[m]
    BY <1>1 DEF PaymentRows
  <2>2. /\ slips # {} /\ (failedOnes = slips => paidOnes = {})
        /\ paidOnes = slips => failedOnes = {}
    BY <1>4, <1>5
  <2> HIDE DEF slips, paidOnes, failedOnes
  <2>3. CASE paidOnes = slips
    <3>1. StatusAfter(slips, paidOnes, failedOnes) = "PAID"
      BY <2>2, <2>3 DEF StatusAfter
    <3> QED BY <2>1, <2>3, <3>1
  <2>4. CASE paidOnes # slips /\ failedOnes = slips
    <3>1. StatusAfter(slips, paidOnes, failedOnes) = "FAILED"
      BY <2>4, <2>2 DEF StatusAfter
    <3> QED BY <2>1, <2>2, <2>4, <3>1
  <2>5. CASE paidOnes # slips /\ failedOnes # slips
    <3>1. StatusAfter(slips, paidOnes, failedOnes) \in {"PARTIALLY_FAILED", "PROCESSING"}
      BY <2>5 DEF StatusAfter
    <3> QED BY <2>1, <2>5, <3>1
  <2> QED BY <2>3, <2>4, <2>5
<1>7. PaymentRows'
  BY <1>1, <1>2, <1>6, ReserveKeepsKeys DEF PaymentRows, BatchStatus
<1>8. RunsPaySomebody' /\ DisbursedWhenReconciled'
  BY <1>1, <1>6 DEF RunsPaySomebody, DisbursedWhenReconciled
<1>9. BatchTellsItsPayments'
  <2>1. \A m \in Runs \ {n} : \A statuses : In(m, statuses)' = In(m, statuses)
    BY <1>3 DEF In
  <2>2. slips = run[n].slips
    BY <1>1 DEF BatchTellsItsPayments
  <2> SUFFICES ASSUME NEW m \in Runs
               PROVE  LET due == In(m, all)' IN
                      /\ batch'[m] = "NONE" <=> due = {}
                      /\ batch'[m] # "NONE" => due = run'[m].slips
                      /\ batch'[m] \in {"PAID", "RECONCILED"} <=> due # {} /\ In(m, {"PAID"})' = due
                      /\ batch'[m] \in {"CANCELLED", "FAILED", "DRAFT", "EXPORTED"} =>
                           In(m, {"PAID"})' = {}
                      /\ batch'[m] \in {"DRAFT", "EXPORTED"} => In(m, {"FAILED"})' = {}
    BY DEF BatchTellsItsPayments
  <2>3. CASE m = n
    <3>1. /\ In(m, all)' = slips /\ In(m, {"PAID"})' = paidOnes /\ In(m, {"FAILED"})' = failedOnes
          /\ run'[m].slips = slips /\ slips # {}
      BY <1>1, <1>4, <1>5, <2>2, <2>3 DEF In
    <3>2. /\ batch'[m] \in {"PAID", "FAILED", "PARTIALLY_FAILED", "PROCESSING"}
          /\ batch'[m] = "PAID" <=> paidOnes = slips
          /\ batch'[m] = "FAILED" => paidOnes = {}
      BY <1>6, <2>3
    <3> HIDE DEF slips, paidOnes, failedOnes
    <3> QED BY <3>1, <3>2
  <2>4. CASE m # n
    <3>1. /\ batch'[m] = batch[m] /\ run'[m] = run[m]
          /\ In(m, all)' = In(m, all) /\ In(m, {"PAID"})' = In(m, {"PAID"})
          /\ In(m, {"FAILED"})' = In(m, {"FAILED"})
      BY <1>1, <1>6, <2>1, <2>4
    <3> QED BY <3>1 DEF BatchTellsItsPayments
  <2> QED BY <2>3, <2>4
<1>10. RecordedUnderItsKey'
  <2> SUFFICES ASSUME NEW m \in Runs, NEW e \in Employees, payment'[m][e].status = "PAID"
               PROVE  \E k \in IdempotencyKeys, r \in Requests :
                        /\ operation'[k] = {r} /\ r.op = "RECORD" /\ r.run = m /\ r.slip = e
                        /\ payment'[m][e].ref = {r.ref}
    BY DEF RecordedUnderItsKey
  <2>1. CASE m = n /\ e = q.slip
    <3>1. payment'[m][e] = Outcome(q) /\ payment'[m][e].ref = {q.ref}
      BY <1>1, <1>3, <2>1, RequestTypes DEF Outcome, PaymentRows, Payments
    <3>2. operation'[q.key] = {q} /\ q.op = "RECORD" /\ q.key \in IdempotencyKeys
      BY <1>1, RequestTypes, ReserveKeepsKeys DEF RecordTransaction
    <3> QED BY <2>1, <3>1, <3>2
  <2>2. CASE ~(m = n /\ e = q.slip)
    <3>1. payment'[m][e] = payment[m][e]
      BY <1>3, <2>2
    <3>2. PICK k \in IdempotencyKeys, r \in Requests :
            /\ operation[k] = {r} /\ r.op = "RECORD" /\ r.run = m /\ r.slip = e
            /\ payment[m][e].ref = {r.ref}
      BY <3>1 DEF RecordedUnderItsKey
    <3> QED BY <1>1, <3>1, <3>2, ReserveKeepsKeys
  <2> QED BY <2>1, <2>2
<1> QED BY <1>7, <1>8, <1>9, <1>10

LEMMA StepKeepsLedger == Inductive /\ Ledger /\ [PaymentNext]_allVars => Ledger'
<1> SUFFICES ASSUME Rows, Ledger, [PaymentNext]_allVars PROVE Ledger'
  BY DEF Inductive
<1>1. CASE UNCHANGED allVars
  <2>1. run' = run /\ batch' = batch /\ payment' = payment /\ operation' = operation
    BY <1>1 DEF allVars, vars, paymentVars
  <2>2. PaymentRows' /\ RunsPaySomebody'
    BY <2>1 DEF Ledger, PaymentRows, RunsPaySomebody
  <2>3. BatchTellsItsPayments'
    BY <2>1 DEF Ledger, BatchTellsItsPayments, In
  <2>4. DisbursedWhenReconciled'
    BY <2>1 DEF Ledger, DisbursedWhenReconciled
  <2>5. RecordedUnderItsKey'
    BY <2>1, OldRecordsStand DEF Ledger
  <2> QED BY <2>2, <2>3, <2>4, <2>5 DEF Ledger
<1>2. CASE PaymentNext
  BY <1>2, PayrollKeepsLedger, ExportKeepsLedger, CreateKeepsLedger, RecordKeepsLedger,
     ReconcileKeepsLedger, CancelKeepsLedger DEF PaymentNext
<1> QED BY <1>1, <1>2

LEMMA LedgerInvariantly == PaymentSpec => []Ledger
BY LedgerInitially, StepKeepsLedger, PayrollInvariantly, PTL DEF PaymentSpec

\* The ledger keeps its types as well: no row of a batch, a payment or a key goes astray.
THEOREM PaymentTypeCorrect == PaymentSpec => []PaymentTypeOK
<1>1. TypeOK /\ Ledger => PaymentTypeOK  BY DEF Ledger, PaymentRows, PaymentTypeOK
<1>2. PaymentSpec => []TypeOK
  BY PaymentImplementsPayrollRun, PayrollTypeCorrect, PTL DEF ImplementsPayrollRun
<1> QED BY <1>1, <1>2, LedgerInvariantly, PTL

\* What payroll promises without batches it promises with them: one standing run of a
\* type in a period, each claim held by a standing run, one payment of an employee's
\* period, and loans that agree with the runs that paid them.
THEOREM PayrollStandsUnderBatches ==
    PaymentSpec => [](OneLiveRun /\ ClaimsHeldByLiveRuns /\ PaidOncePerPeriod /\ LoansSettle)
BY PaymentImplementsPayrollRun, OneRunPerPeriod, ClaimsStand, PaidOnce, LoansReconcile, PTL
   DEF ImplementsPayrollRun

\* The batch's status can be trusted: reconciliation and cancellation look only at it.
THEOREM BatchTruthful == PaymentSpec => []BatchTellsItsPayments
<1>1. Ledger => BatchTellsItsPayments
  BY DEF Ledger
<1> QED BY <1>1, LedgerInvariantly, PTL

\* A run is disbursed by reconciling its batch and in no other way.
THEOREM DisbursedByBatch == PaymentSpec => []DisbursedWhenReconciled
<1>1. Ledger => DisbursedWhenReconciled
  BY DEF Ledger
<1> QED BY <1>1, LedgerInvariantly, PTL

\* Whatever is sent again, and under whichever key, each recorded payment is the work of
\* one request.
THEOREM EveryPaymentRecorded == PaymentSpec => []RecordedUnderItsKey
<1>1. Ledger => RecordedUnderItsKey
  BY DEF Ledger
<1> QED BY <1>1, LedgerInvariantly, PTL

-----------------------------------------------------------------------------
(* The ledger implements Payout.                                           *)

StageOf(n) == CASE batch[n] = "RECONCILED" -> "DONE"
                [] batch[n] = "CANCELLED" -> "OFF"
                [] OTHER -> "WAITING"

LEMMA OrderInitially == PaymentInit => Order!Init
BY DEF PaymentInit, NoPayment, Ordered, In, Order!Init

LEMMA OrderStutters ==
    ASSUME payment' = payment, \A n \in Runs : StageOf(n)' = StageOf(n)
    PROVE  UNCHANGED Order!vars
BY DEF Order!vars, Ordered, In, StageOf

LEMMA CreateOrders ==
    ASSUME Rows, Ledger, NEW q \in Requests, CreateBatch(q)
    PROVE  Order!Order(q.run)
<1> USE DEF Ledger
<1>1. /\ q.run \in Runs /\ batch[q.run] = "NONE" /\ run[q.run].status = "APPROVED"
      /\ run[q.run].slips \in (SUBSET Employees) \ {{}}
      /\ batch' = [batch EXCEPT ![q.run] = "DRAFT"]
  BY RequestTypes DEF CreateBatch, Rows, RunRows, RunsPaySomebody
<1>2. /\ \A m \in Runs \ {q.run} : payment'[m] = payment[m]
      /\ \A e \in Employees : payment'[q.run][e] = IF e \in run[q.run].slips
                                                   THEN [status |-> "PENDING", ref |-> {}]
                                                   ELSE NoPayment
  BY <1>1 DEF CreateBatch, PaymentRows
<1>3. Ordered(q.run) = {} /\ In(q.run, {"PAID"}) = {}
  BY <1>1 DEF BatchTellsItsPayments, Ordered, In
<1>4. Ordered(q.run)' = run[q.run].slips /\ In(q.run, {"PAID"})' = {}
  BY <1>1, <1>2 DEF Ordered, In, NoPayment
<1>5. \A m \in Runs \ {q.run} : Ordered(m)' = Ordered(m) /\ In(m, {"PAID"})' = In(m, {"PAID"})
  BY <1>2 DEF Ordered, In
<1>6. \A m \in Runs : StageOf(m)' = StageOf(m) /\ StageOf(q.run) = "WAITING"
  BY <1>1 DEF StageOf, PaymentRows
<1>7. [n \in Runs |-> Ordered(n)]' =
        [[n \in Runs |-> Ordered(n)] EXCEPT ![q.run] = run[q.run].slips]
  BY <1>1, <1>4, <1>5
<1>8. [n \in Runs |-> In(n, {"PAID"})]' = [n \in Runs |-> In(n, {"PAID"})]
  BY <1>3, <1>4, <1>5
<1> QED BY <1>1, <1>3, <1>6, <1>7, <1>8 DEF Order!Order, StageOf

LEMMA RecordPays ==
    ASSUME Rows, Ledger, NEW q \in Requests, RecordTransaction(q)
    PROVE  Order!Pay(q.run) \/ UNCHANGED Order!vars
<1> USE DEF Ledger
<1> DEFINE n == q.run
           after == StatusAfter(In(n, {"PENDING", "PAID", "FAILED"}),
                                {e \in Employees : payment'[n][e].status = "PAID"},
                                {e \in Employees : payment'[n][e].status = "FAILED"})
<1>1. /\ n \in Runs /\ q.slip \in Employees /\ Recordable(q)
      /\ q.outcome \in {"PAID", "FAILED"}
      /\ batch[n] \notin {"NONE", "DRAFT", "CANCELLED", "RECONCILED", "PAID"}
      /\ payment' = [payment EXCEPT ![n][q.slip] = Outcome(q)]
      /\ batch' = [batch EXCEPT ![n] = after]
  BY RequestTypes DEF RecordTransaction
<1>2. /\ \A m \in Runs \ {n} : payment'[m] = payment[m]
      /\ \A e \in Employees : payment'[n][e] = IF e = q.slip THEN Outcome(q) ELSE payment[n][e]
  BY <1>1 DEF PaymentRows
<1>3. after \notin {"RECONCILED", "CANCELLED"}
  BY DEF StatusAfter
<1>4. \A m \in Runs : StageOf(m)' = StageOf(m)
  BY <1>1, <1>3 DEF StageOf, PaymentRows
<1>5. Outcome(q).status = q.outcome
  BY <1>1 DEF Outcome, PaymentRows, Payments
<1>6. \A m \in Runs : Ordered(m)' = Ordered(m)
  BY <1>1, <1>2, <1>5 DEF Ordered, In, Recordable
<1>7. CASE q.outcome = "PAID"
  <2>1. q.slip \in Ordered(n) \ In(n, {"PAID"})
    BY <1>1 DEF Ordered, In, Recordable
  <2>2. \A m \in Runs : In(m, {"PAID"})' = IF m = n THEN In(m, {"PAID"}) \cup {q.slip}
                                                  ELSE In(m, {"PAID"})
    BY <1>1, <1>2, <1>5, <1>7 DEF In
  <2>3. [m \in Runs |-> In(m, {"PAID"})]' =
          [[m \in Runs |-> In(m, {"PAID"})] EXCEPT ![n] = @ \cup {q.slip}]
    BY <1>1, <2>2
  <2>4. StageOf(n) = "WAITING"
    BY <1>1 DEF StageOf
  <2> QED BY <1>1, <1>4, <1>6, <2>1, <2>3, <2>4 DEF Order!Pay, StageOf
<1>8. CASE q.outcome = "FAILED"
  <2>1. \A m \in Runs : In(m, {"PAID"})' = In(m, {"PAID"})
    BY <1>1, <1>2, <1>5, <1>8 DEF In, Recordable
  <2> QED BY <1>4, <1>6, <2>1 DEF Order!vars, StageOf
<1> QED BY <1>1, <1>7, <1>8

LEMMA ReconcileFinishes ==
    ASSUME Ledger, NEW q \in Requests, ReconcileBatch(q)
    PROVE  Order!Finish(q.run)
<1> USE DEF Ledger
<1>1. /\ q.run \in Runs /\ batch[q.run] = "PAID" /\ payment' = payment
      /\ batch' = [batch EXCEPT ![q.run] = "RECONCILED"]
  BY RequestTypes DEF ReconcileBatch
<1>2. Ordered(q.run) # {} /\ In(q.run, {"PAID"}) = Ordered(q.run)
  BY <1>1 DEF BatchTellsItsPayments, Ordered
<1>3. \A m \in Runs : Ordered(m)' = Ordered(m) /\ In(m, {"PAID"})' = In(m, {"PAID"})
  BY <1>1 DEF Ordered, In
<1>4. /\ StageOf(q.run) = "WAITING"
      /\ \A m \in Runs : StageOf(m)' = IF m = q.run THEN "DONE" ELSE StageOf(m)
  BY <1>1 DEF StageOf, PaymentRows
<1> QED BY <1>1, <1>2, <1>3, <1>4 DEF Order!Finish, StageOf

LEMMA CancelCallsOff ==
    ASSUME Ledger, NEW q \in Requests, CancelBatch(q)
    PROVE  Order!CallOff(q.run)
<1> USE DEF Ledger
<1>1. /\ q.run \in Runs /\ batch[q.run] \notin {"RECONCILED", "CANCELLED"} /\ payment' = payment
      /\ batch' = [batch EXCEPT ![q.run] = "CANCELLED"] /\ In(q.run, {"PAID"}) = {}
  BY RequestTypes DEF CancelBatch, Cancellable
<1>2. \A m \in Runs : Ordered(m)' = Ordered(m) /\ In(m, {"PAID"})' = In(m, {"PAID"})
  BY <1>1 DEF Ordered, In
<1>3. /\ StageOf(q.run) = "WAITING"
      /\ \A m \in Runs : StageOf(m)' = IF m = q.run THEN "OFF" ELSE StageOf(m)
  BY <1>1 DEF StageOf, PaymentRows
<1> QED BY <1>1, <1>2, <1>3 DEF Order!CallOff, StageOf

LEMMA OrderStep == Inductive /\ Ledger /\ [PaymentNext]_allVars => [Order!Next]_Order!vars
<1> SUFFICES ASSUME Rows, Ledger, [PaymentNext]_allVars PROVE [Order!Next]_Order!vars
  BY DEF Inductive
<1>1. CASE PayrollGoesOn \/ UNCHANGED allVars
  <2>1. payment' = payment /\ batch' = batch
    BY <1>1 DEF PayrollGoesOn, allVars, paymentVars
  <2> QED BY <2>1, OrderStutters DEF StageOf
<1>2. ASSUME NEW n \in Runs, ExportBatch(n) PROVE UNCHANGED Order!vars
  <2>1. payment' = payment /\ \A m \in Runs : StageOf(m)' = StageOf(m)
    BY <1>2 DEF ExportBatch, StageOf, Ledger, PaymentRows
  <2> QED BY <2>1, OrderStutters
<1>3. ASSUME NEW q \in Requests,
             CreateBatch(q) \/ RecordTransaction(q) \/ ReconcileBatch(q) \/ CancelBatch(q)
      PROVE  [Order!Next]_Order!vars
  BY <1>3, RequestTypes, CreateOrders, RecordPays, ReconcileFinishes, CancelCallsOff DEF Order!Next
<1> QED BY <1>1, <1>2, <1>3 DEF PaymentNext

\* Batches, exports, retries and cancellations promise no less than Payout: each slip of
\* an approved run is paid once, and a payout that has paid somebody is never called off.
THEOREM PaymentImplementsPayout == PaymentSpec => ImplementsPayout
BY OrderInitially, OrderStep, LedgerInvariantly, PayrollInvariantly, PTL
   DEF PaymentSpec, ImplementsPayout, Order!Spec
=============================================================================
