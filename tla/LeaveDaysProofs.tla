-------------------------- MODULE LeaveDaysProofs --------------------------
(***************************************************************************)
(* The days of a leave balance, through the year and through what spends   *)
(* them.  First the jobs of the leave year, for any employees,             *)
(* entitlements, caps and bounds, and any number of accrual runs beside    *)
(* each other: a run works from what it has read, and the invariants say   *)
(* how much of that still holds when it acts.  Then the collective day off *)
(* and the exchange of days for money, for any staff, appliers, rows and   *)
(* runs.                                                                   *)
(***************************************************************************)
EXTENDS LeaveYear, LeaveSpending, Sums

-----------------------------------------------------------------------------
(* The writes of a row.                                                      *)

\* What is left is a natural number, and what was there if it was one.
LEMMA LeftIsANumber == \A i \in Int : AtLeast0(i) \in Nat /\ (i >= 0 => AtLeast0(i) = i)
BY DEF AtLeast0

\* An accrual, an allocation, a deduction, a restoration and an expiry leave a row, and
\* touch the figures of it that are theirs.
LEMMA AccruedWrites ==
    ASSUME NEW b \in Balances, NEW n \in Nat, NEW c \in Nat
    PROVE  /\ Accrued(b, n, c) \in Balances /\ Accrued(b, n, c).used = b.used
           /\ Accrued(b, n, c).carry = c /\ Accrued(b, n, c).exists
           /\ Accrued(b, n, c).expired = b.expired
<1>1. b.used \in Nat  BY DEF Balances
<1>2. AtLeast0(n + c - b.used) \in Int /\ n + c \in Nat  BY <1>1, LeftIsANumber
<1> QED  BY <1>2 DEF Balances, Accrued

LEMMA RowWrites ==
    ASSUME NEW b \in Balances, NEW n \in Nat
    PROVE  /\ SetTotal(b, n) \in Balances /\ SetTotal(b, n).used = b.used
           /\ SetTotal(b, n).carry = b.carry /\ SetTotal(b, n).exists
           /\ Deduct(b, n) \in Balances /\ Deduct(b, n).used = b.used + n
           /\ Deduct(b, n).carry = b.carry /\ Deduct(b, n).exists = b.exists
           /\ Deduct(b, n).expired = b.expired
           /\ Restore(b, n) \in Balances
           /\ b.used >= n => Restore(b, n).used = b.used - n
           /\ Restore(b, n).carry = b.carry /\ Restore(b, n).exists = b.exists
           /\ Restore(b, n).expired = b.expired
           /\ Expire(b) \in Balances
<1>1. \A i \in Int : AtLeast0(i) \in Nat /\ (i >= 0 => AtLeast0(i) = i)
  BY LeftIsANumber
<1>2. b.used \in Nat /\ b.total \in Nat /\ b.remaining \in Int  BY DEF Balances
<1>3. /\ SetTotal(b, n) \in Balances /\ SetTotal(b, n).used = b.used
      /\ SetTotal(b, n).carry = b.carry /\ SetTotal(b, n).exists
  <2>1. AtLeast0(n - b.used) \in Int  BY <1>1, <1>2
  <2> QED  BY <2>1 DEF Balances, SetTotal
<1>4. /\ Deduct(b, n) \in Balances /\ Deduct(b, n).used = b.used + n
      /\ Deduct(b, n).carry = b.carry /\ Deduct(b, n).exists = b.exists
      /\ Deduct(b, n).expired = b.expired
  <2>1. b.used + n \in Nat /\ b.remaining - n \in Int  BY <1>2
  <2> QED  BY <2>1 DEF Balances, Deduct
<1>5. /\ Restore(b, n) \in Balances /\ (b.used >= n => Restore(b, n).used = b.used - n)
      /\ Restore(b, n).carry = b.carry /\ Restore(b, n).exists = b.exists
      /\ Restore(b, n).expired = b.expired
  <2> DEFINE u == AtLeast0(b.used - n)
             m == AtLeast0(b.total - u)
  <2>1. u \in Nat /\ m \in Int /\ (b.used >= n => u = b.used - n)  BY <1>1, <1>2
  <2>2. Restore(b, n) = [b EXCEPT !.used = u, !.remaining = m]  BY DEF Restore
  <2> HIDE DEF u, m
  <2> QED  BY <2>1, <2>2 DEF Balances
<1>6. Expire(b) \in Balances
  <2> DEFINE none == 0
  <2>1. none \in Int /\ Expire(b) = [b EXCEPT !.expired = TRUE, !.remaining = none]
    BY DEF Expire
  <2> HIDE DEF none
  <2> QED  BY <2>1 DEF Balances
<1> QED  BY <1>3, <1>4, <1>5, <1>6

\* A forfeiture touches neither what was used nor what was carried.
LEMMA SweptWrites ==
    ASSUME NEW now \in Balances, NEW read \in Balances
    PROVE  /\ SweptRow(now, read) \in Balances /\ SweptRow(now, read).used = now.used
           /\ SweptRow(now, read).carry = now.carry
           /\ SweptRow(now, read).exists = now.exists
<1>1. \A i \in Int : AtLeast0(i) \in Nat  BY LeftIsANumber
<1>2. Forfeit(read).total \in Nat /\ Forfeit(read).remaining \in Int
  <2> DEFINE t == AtLeast0(read.total - Forfeited(read))
             m == AtLeast0(t - read.used)
  <2>1. Forfeited(read) \in Nat  BY <1>1 DEF Forfeited, Balances
  <2>2. t \in Nat  BY <1>1, <2>1 DEF Balances
  <2>3. m \in Int  BY <1>1, <2>2 DEF Balances
  <2>4. Forfeit(read) = [read EXCEPT !.carryExpired = TRUE, !.total = t, !.remaining = m]
    BY DEF Forfeit
  <2> HIDE DEF t, m
  <2> QED  BY <2>2, <2>3, <2>4 DEF Balances
<1> QED  BY <1>2 DEF SweptRow, Balances

\* What the writers of a row make of what is left.
LEMMA LeftWrites ==
    ASSUME NEW b \in Balances, NEW n \in Nat, NEW c \in Nat
    PROVE  /\ Accrued(b, n, c).remaining = AtLeast0(Accrued(b, n, c).total - b.used)
           /\ SetTotal(b, n).remaining = AtLeast0(SetTotal(b, n).total - b.used)
           /\ Restore(b, n).remaining = AtLeast0(Restore(b, n).total - Restore(b, n).used)
           /\ Deduct(b, n).remaining = b.remaining - n /\ Deduct(b, n).total = b.total
BY DEF Balances, Accrued, SetTotal, Restore, Deduct

\* A sweep that read the days used as they are keeps what is left in step with them.
LEMMA SweptLeft ==
    ASSUME NEW now \in Balances, NEW read \in Balances, read.used = now.used,
           now.remaining = AtLeast0(now.total - now.used)
    PROVE  SweptRow(now, read).remaining = AtLeast0(SweptRow(now, read).total - now.used)
BY DEF Balances, SweptRow, Forfeit

\* An accrual keeps what was used and writes the figure it is given.
LEMMA AccruedRow ==
    ASSUME NEW e \in Employees, NEW c \in Nat, cur[e] \in Balances
    PROVE  /\ UpsertAccrued(e, c) \in Balances
           /\ UpsertAccrued(e, c).used = cur[e].used
           /\ UpsertAccrued(e, c).carry = c
           /\ UpsertAccrued(e, c).exists
<1>1. Entitlement[e] \in Nat  BY LeaveYearAssumption
<1>2. /\ Accrued(cur[e], Entitlement[e], c) \in Balances
      /\ Accrued(cur[e], Entitlement[e], c).used = cur[e].used
      /\ Accrued(cur[e], Entitlement[e], c).carry = c
      /\ Accrued(cur[e], Entitlement[e], c).exists
  BY <1>1, AccruedWrites
<1> QED  BY <1>2 DEF UpsertAccrued

\* What is carried is within the cap.
LEMMA CarryOverBound ==
    ASSUME NEW n \in Int, NEW c \in Nat
    PROVE  CarryOver(n, c) \in Nat /\ CarryOver(n, c) <= c
BY DEF CarryOver, Lesser, AtLeast0

-----------------------------------------------------------------------------
(* Types.                                                                    *)

Picking == [at : {"PICK"}, todo : SUBSET Employees, failed : SUBSET Employees]
Working == [at : {"READ", "WRITE"}, emp : Employees, row : BOOLEAN, carry : Nat,
            todo : SUBSET Employees, failed : SUBSET Employees]

\* A run by where it is.
LEMMA JobKinds ==
    ASSUME NEW k \in JobStates
    PROVE  /\ k.at = "PICK" => k \in Picking
           /\ k.at \in {"READ", "WRITE"} => k \in Working
           /\ k = Idle \/ k \in Picking \/ k \in Working
BY DEF JobStates, Idle, Picking, Working

\* Every step leaves the types.
LEMMA TypeStep == TypeOK /\ [Next]_vars => TypeOK'
<1> SUFFICES ASSUME TypeOK, [Next]_vars PROVE TypeOK'
  OBVIOUS
<1>0. /\ cur \in [Employees -> Balances] /\ prev \in [Employees -> Balances]
      /\ taken \in [Employees -> Nat] /\ job \in [Jobs -> JobStates]
      /\ due \in [Employees -> SUBSET Balances] /\ lapped \in SUBSET Jobs
  BY DEF TypeOK
<1>1. ASSUME NEW j \in Jobs, NEW k \in JobStates, job' = [job EXCEPT ![j] = k],
             UNCHANGED <<taken, due>>, lapped' \in SUBSET Jobs,
             cur' \in [Employees -> Balances], prev' \in [Employees -> Balances]
      PROVE  TypeOK'
  BY <1>0, <1>1 DEF TypeOK
<1>2. ASSUME NEW j \in Jobs, StartAccrual(j) PROVE TypeOK'
  <2>1. [at |-> "PICK", todo |-> Active, failed |-> {}] \in JobStates
    BY LeaveYearAssumption DEF JobStates
  <2> QED  BY <1>0, <1>1, <1>2, <2>1 DEF StartAccrual
<1>3. ASSUME NEW j \in Jobs, ReadCurrent(j) PROVE TypeOK'
  <2>1. job[j] \in Picking  BY <1>0, <1>3, JobKinds DEF ReadCurrent
  <2>2. PICK e \in job[j].todo :
          job' = [job EXCEPT ![j] =
                    [at |-> "READ", emp |-> e, row |-> cur[e].exists, carry |-> cur[e].carry,
                     todo |-> job[j].todo \ {e}, failed |-> job[j].failed]]
    BY <1>3 DEF ReadCurrent
  <2>3. e \in Employees  BY <2>1 DEF Picking
  <2>4. cur[e].exists \in BOOLEAN /\ cur[e].carry \in Nat  BY <1>0, <2>3 DEF Balances
  <2>5. [at |-> "READ", emp |-> e, row |-> cur[e].exists, carry |-> cur[e].carry,
         todo |-> job[j].todo \ {e}, failed |-> job[j].failed] \in JobStates
    BY <2>1, <2>3, <2>4 DEF JobStates, Picking
  <2> QED  BY <1>0, <1>1, <1>3, <2>2, <2>5 DEF ReadCurrent
<1>4. ASSUME NEW j \in Jobs, ReadPrevious(j) PROVE TypeOK'
  <2>1. job[j] \in Working  BY <1>0, <1>4, JobKinds DEF ReadPrevious
  <2>2. Carried(j) \in Nat
    <3>1. prev[job[j].emp].remaining \in Int /\ Cap \in Nat /\ job[j].carry \in Nat
      BY <1>0, <2>1, LeaveYearAssumption DEF Working, Balances
    <3> QED  BY <3>1, CarryOverBound DEF Carried
  <2>3. [job[j] EXCEPT !.at = "WRITE", !.carry = Carried(j)] \in JobStates
    BY <2>1, <2>2 DEF JobStates, Working
  <2> QED  BY <1>0, <1>1, <1>4, <2>3 DEF ReadPrevious
<1>5. ASSUME NEW j \in Jobs, WriteAccrued(j) PROVE TypeOK'
  <2>1. job[j] \in Working  BY <1>0, <1>5, JobKinds DEF WriteAccrued
  <2>2. [at |-> "PICK", todo |-> job[j].todo, failed |-> job[j].failed] \in JobStates
    BY <2>1 DEF JobStates, Working
  <2>3. cur' \in [Employees -> Balances]
    <3>1. job[j].emp \in Employees /\ job[j].carry \in Nat  BY <2>1 DEF Working
    <3>2. cur[job[j].emp] \in Balances  BY <1>0, <3>1
    <3>3. UpsertAccrued(job[j].emp, job[j].carry) \in Balances
      BY <3>1, <3>2, AccruedRow
    <3> QED  BY <1>0, <1>5, <3>1, <3>3 DEF WriteAccrued
  <2>4. lapped' \in SUBSET Jobs  BY <1>0, <1>5 DEF WriteAccrued, Overtaken
  <2> QED  BY <1>0, <1>1, <1>5, <2>2, <2>3, <2>4 DEF WriteAccrued
<1>6. ASSUME NEW j \in Jobs, FailAccrual(j) PROVE TypeOK'
  <2>1. job[j] \in Working  BY <1>0, <1>6, JobKinds DEF FailAccrual
  <2>2. [at |-> "PICK", todo |-> job[j].todo, failed |-> Failure(j)] \in JobStates
    BY <2>1 DEF JobStates, Working, Failure
  <2> QED  BY <1>0, <1>1, <1>6, <2>2 DEF FailAccrual
<1>7. ASSUME NEW j \in Jobs, ExpirePrevious(j) PROVE TypeOK'
  <2>1. \A e \in Employees : Expire(prev[e]) \in Balances  BY <1>0, RowWrites
  <2>2. prev' \in [Employees -> Balances]  BY <1>0, <1>7, <2>1 DEF ExpirePrevious
  <2>3. Idle \in JobStates  BY DEF JobStates
  <2> QED  BY <1>0, <1>1, <1>7, <2>2, <2>3 DEF ExpirePrevious
<1>8. ASSUME NEW j \in Jobs, CrashAccrual(j) PROVE TypeOK'
  <2>1. Idle \in JobStates  BY DEF JobStates
  <2> QED  BY <1>0, <1>1, <1>8, <2>1 DEF CrashAccrual
<1>9. CASE ReadDueRows \/ CrashSweep
  BY <1>0, <1>9 DEF ReadDueRows, CrashSweep, TypeOK
<1>10. ASSUME NEW e \in Employees, WriteForfeit(e) PROVE TypeOK'
  <2>1. PICK read \in due[e] : cur' = [cur EXCEPT ![e] = SweptRow(@, read)]
    BY <1>10 DEF WriteForfeit
  <2>2. SweptRow(cur[e], read) \in Balances  BY <1>0, <2>1, SweptWrites
  <2> QED  BY <1>0, <1>10, <2>1, <2>2 DEF WriteForfeit, TypeOK
<1>11. ASSUME NEW e \in Employees, ApproveLeave(e) \/ CancelLeave(e) PROVE TypeOK'
  <2>1. Deduct(cur[e], 1) \in Balances /\ Restore(cur[e], 1) \in Balances
    BY <1>0, RowWrites
  <2> QED  BY <1>0, <1>11, <2>1 DEF ApproveLeave, CancelLeave, TypeOK
<1>12. ASSUME NEW e \in Employees, ApproveLate(e) \/ CancelLate(e) PROVE TypeOK'
  <2>1. Deduct(prev[e], 1) \in Balances /\ Restore(prev[e], 1) \in Balances
    BY <1>0, RowWrites
  <2> QED  BY <1>0, <1>12, <2>1 DEF ApproveLate, CancelLate, TypeOK
<1>13. ASSUME NEW e \in Employees, NEW n \in HRTotals[e], UpsertLeaveBalance(e, n) PROVE TypeOK'
  <2>1. SetTotal(cur[e], n) \in Balances  BY <1>0, RowWrites, LeaveYearAssumption
  <2> QED  BY <1>0, <1>13, <2>1 DEF UpsertLeaveBalance, TypeOK
<1>14. CASE UNCHANGED vars  BY <1>14 DEF vars, TypeOK
<1> QED
  BY <1>2, <1>3, <1>4, <1>5, <1>6, <1>7, <1>8, <1>9, <1>10, <1>11, <1>12, <1>13, <1>14
     DEF Next

\* Rows, runs and the sweep's reads keep their form.
THEOREM TypeCorrect == Spec => []TypeOK
<1>1. Init => TypeOK
  <2>1. NoBalance \in Balances  BY DEF NoBalance, Balances
  <2>2. \A e \in Employees : Accrued(NoBalance, LastYear[e], 0) \in Balances
    BY <2>1, AccruedWrites, LeaveYearAssumption
  <2> QED  BY <2>1, <2>2 DEF Init, TypeOK, JobStates
<1> QED  BY <1>1, TypeStep, PTL DEF Spec

-----------------------------------------------------------------------------
(* Deductions.                                                               *)

\* Whatever the jobs write, the days that were taken stay counted as used.
UsedIsTaken == \A e \in Employees : cur[e].used = taken[e]

LEMMA UsedDaysStay == Spec => []UsedIsTaken
<1>1. Init => UsedIsTaken  BY DEF Init, UsedIsTaken, NoBalance
<1>2. TypeOK /\ UsedIsTaken /\ [Next]_vars => UsedIsTaken'
  <2> SUFFICES ASSUME TypeOK, UsedIsTaken, [Next]_vars PROVE UsedIsTaken'
    OBVIOUS
  <2>0. /\ cur \in [Employees -> Balances] /\ taken \in [Employees -> Nat]
        /\ job \in [Jobs -> JobStates] /\ due \in [Employees -> SUBSET Balances]
        /\ \A e \in Employees : cur[e].used = taken[e]
    BY DEF TypeOK, UsedIsTaken
  <2>1. ASSUME NEW e \in Employees, NEW b, cur' = [cur EXCEPT ![e] = b], b.used = cur[e].used,
               taken' = taken
        PROVE  UsedIsTaken'
    BY <2>0, <2>1 DEF UsedIsTaken
  <2>2. ASSUME UNCHANGED <<cur, taken>> PROVE UsedIsTaken'
    BY <2>2 DEF UsedIsTaken
  <2>3. ASSUME NEW j \in Jobs, WriteAccrued(j) PROVE UsedIsTaken'
    <3>1. job[j] \in Working  BY <2>0, <2>3, JobKinds DEF WriteAccrued
    <3>2. job[j].emp \in Employees /\ job[j].carry \in Nat  BY <3>1 DEF Working
    <3>3. cur[job[j].emp] \in Balances  BY <2>0, <3>2
    <3>4. UpsertAccrued(job[j].emp, job[j].carry).used = cur[job[j].emp].used
      BY <3>2, <3>3, AccruedRow
    <3> QED  BY <2>1, <2>3, <3>2, <3>4 DEF WriteAccrued
  <2>4. ASSUME NEW e \in Employees, WriteForfeit(e) PROVE UsedIsTaken'
    <3>1. PICK read \in due[e] : cur' = [cur EXCEPT ![e] = SweptRow(@, read)]
      BY <2>4 DEF WriteForfeit
    <3>2. SweptRow(cur[e], read).used = cur[e].used  BY <2>0, <3>1, SweptWrites
    <3> QED  BY <2>0, <2>1, <2>4, <3>1, <3>2 DEF WriteForfeit
  <2>5. ASSUME NEW e \in Employees, ApproveLeave(e) PROVE UsedIsTaken'
    <3>1. Deduct(cur[e], 1).used = cur[e].used + 1  BY <2>0, RowWrites
    <3> QED  BY <2>0, <2>5, <3>1 DEF ApproveLeave, UsedIsTaken
  <2>6. ASSUME NEW e \in Employees, CancelLeave(e) PROVE UsedIsTaken'
    <3>1. cur[e] \in Balances /\ cur[e].used >= 1  BY <2>0, <2>6 DEF CancelLeave
    <3>2. Restore(cur[e], 1).used = cur[e].used - 1
      <4>1. 1 \in Nat  OBVIOUS
      <4> QED  BY <3>1, <4>1, RowWrites
    <3> QED  BY <2>0, <2>6, <3>2 DEF CancelLeave, UsedIsTaken
  <2>7. ASSUME NEW e \in Employees, NEW n \in HRTotals[e], UpsertLeaveBalance(e, n)
        PROVE  UsedIsTaken'
    <3>1. SetTotal(cur[e], n).used = cur[e].used
      BY <2>0, RowWrites, LeaveYearAssumption
    <3> QED  BY <2>0, <2>1, <2>7, <3>1 DEF UpsertLeaveBalance
  <2>8. ASSUME NEW j \in Jobs,
               StartAccrual(j) \/ ReadCurrent(j) \/ ReadPrevious(j) \/ FailAccrual(j)
                 \/ ExpirePrevious(j) \/ CrashAccrual(j)
        PROVE  UsedIsTaken'
    BY <2>2, <2>8 DEF StartAccrual, ReadCurrent, ReadPrevious, FailAccrual, ExpirePrevious,
       CrashAccrual
  <2>9. CASE ReadDueRows \/ CrashSweep  BY <2>2, <2>9 DEF ReadDueRows, CrashSweep
  <2>10. ASSUME NEW e \in Employees, ApproveLate(e) \/ CancelLate(e) PROVE UsedIsTaken'
    BY <2>2, <2>10 DEF ApproveLate, CancelLate
  <2>11. CASE UNCHANGED vars  BY <2>2, <2>11 DEF vars
  <2> QED  BY <2>3, <2>4, <2>5, <2>6, <2>7, <2>8, <2>9, <2>10, <2>11 DEF Next
<1> QED  BY <1>1, <1>2, TypeCorrect, PTL DEF Spec

\* What an action does to what is left of a row.
LEMMA AgreeingKept ==
    ASSUME TypeOK, UsedIsTaken, UsedIsTaken', [Next]_vars, NEW e \in Employees
    PROVE  /\ Agrees(e) => Agrees(e)' \/ Overrun(e)
           /\ taken'[e] < taken[e] => Agrees(e)'
<1>0. /\ cur \in [Employees -> Balances] /\ taken \in [Employees -> Nat]
      /\ job \in [Jobs -> JobStates] /\ due \in [Employees -> SUBSET Balances]
      /\ cur[e].used = taken[e] /\ cur'[e].used = taken'[e] /\ cur[e] \in Balances
  BY DEF TypeOK, UsedIsTaken
<1> DEFINE Goal == /\ Agrees(e) => Agrees(e)' \/ Overrun(e)
                   /\ taken'[e] < taken[e] => Agrees(e)'
           Whole(b) == b.remaining = AtLeast0(b.total - b.used)
<1>1. Agrees(e) <=> Whole(cur[e])  BY <1>0 DEF Agrees
<1>2. Agrees(e)' <=> Whole(cur'[e])  BY <1>0 DEF Agrees
<1>3. ASSUME cur'[e] = cur[e], taken'[e] = taken[e] PROVE Goal  BY <1>0, <1>3 DEF Agrees
<1>4. ASSUME Whole(cur'[e]) PROVE Goal  BY <1>2, <1>4
<1>5. ASSUME NEW j \in Jobs, WriteAccrued(j) PROVE Goal
  <2>1. job[j] \in Working  BY <1>0, <1>5, JobKinds DEF WriteAccrued
  <2>2. job[j].emp \in Employees /\ job[j].carry \in Nat  BY <2>1 DEF Working
  <2>3. CASE job[j].emp = e
    <3>1. cur'[e] = Accrued(cur[e], Entitlement[e], job[j].carry)
      BY <1>0, <1>5, <2>3 DEF WriteAccrued, UpsertAccrued
    <3>2. Entitlement[e] \in Nat  BY LeaveYearAssumption
    <3>3. cur'[e].used = cur[e].used
      <4>1. Accrued(cur[e], Entitlement[e], job[j].carry).used = cur[e].used
        BY <1>0, <2>2, <3>2, AccruedWrites
      <4> QED  BY <3>1, <4>1
    <3>4. Whole(cur'[e])  BY <1>0, <2>2, <3>1, <3>2, <3>3, LeftWrites
    <3> QED  BY <1>4, <3>4
  <2>4. CASE job[j].emp # e  BY <1>0, <1>3, <1>5, <2>2, <2>4 DEF WriteAccrued
  <2> QED  BY <2>3, <2>4
<1>6. ASSUME NEW f \in Employees, WriteForfeit(f) PROVE Goal
  <2>1. PICK read \in due[f] : cur' = [cur EXCEPT ![f] = SweptRow(@, read)]
    BY <1>6 DEF WriteForfeit
  <2>2. CASE f # e  BY <1>0, <1>3, <1>6, <2>1, <2>2 DEF WriteForfeit
  <2>3. CASE f = e
    <3>1. taken' = taken /\ read \in Balances /\ cur'[e] = SweptRow(cur[e], read)
      BY <1>0, <1>6, <2>1, <2>3 DEF WriteForfeit
    <3>2. CASE read.used # taken[e]  BY <1>0, <1>6, <2>1, <2>3, <3>1, <3>2 DEF Overrun
    <3>3. CASE read.used = taken[e]
      <4>1. ASSUME Agrees(e) PROVE Agrees(e)'
        <5>1. SweptRow(cur[e], read).used = cur[e].used  BY <1>0, <3>1, SweptWrites
        <5>2. Whole(cur'[e])  BY <1>0, <1>1, <3>1, <3>3, <4>1, <5>1, SweptLeft
        <5> QED  BY <1>2, <5>2
      <4> QED  BY <1>0, <3>1, <4>1
    <3> QED  BY <3>2, <3>3
  <2> QED  BY <2>2, <2>3
<1>7. ASSUME NEW f \in Employees, ApproveLeave(f) PROVE Goal
  <2>1. CASE f # e  BY <1>0, <1>3, <1>7, <2>1 DEF ApproveLeave
  <2>2. CASE f = e
    <3>1. /\ cur'[e] = Deduct(cur[e], 1) /\ taken'[e] = taken[e] + 1
          /\ cur[e].remaining >= 1
      BY <1>0, <1>7, <2>2 DEF ApproveLeave, Sufficient
    <3>2. 1 \in Nat  OBVIOUS
    <3>3. /\ cur'[e].remaining = cur[e].remaining - 1 /\ cur'[e].total = cur[e].total
          /\ cur'[e].used = cur[e].used + 1
      <4>1. /\ Deduct(cur[e], 1).remaining = cur[e].remaining - 1
            /\ Deduct(cur[e], 1).total = cur[e].total
        BY <1>0, <3>2, LeftWrites
      <4>2. Deduct(cur[e], 1).used = cur[e].used + 1  BY <1>0, <3>2, RowWrites
      <4> QED  BY <3>1, <4>1, <4>2
    <3>4. ASSUME Whole(cur[e]) PROVE Whole(cur'[e])
      BY <1>0, <3>1, <3>3, <3>4 DEF AtLeast0, Balances
    <3> QED  BY <1>0, <1>1, <1>2, <3>1, <3>4
  <2> QED  BY <2>1, <2>2
<1>8. ASSUME NEW f \in Employees, CancelLeave(f) PROVE Goal
  <2>1. CASE f # e  BY <1>0, <1>3, <1>8, <2>1 DEF CancelLeave
  <2>2. CASE f = e
    <3>1. cur'[e] = Restore(cur[e], 1) /\ 1 \in Nat  BY <1>0, <1>8, <2>2 DEF CancelLeave
    <3>2. Whole(cur'[e])  BY <1>0, <3>1, LeftWrites
    <3> QED  BY <1>4, <3>2
  <2> QED  BY <2>1, <2>2
<1>9. ASSUME NEW f \in Employees, NEW n \in HRTotals[f], UpsertLeaveBalance(f, n) PROVE Goal
  <2>1. CASE f # e  BY <1>0, <1>3, <1>9, <2>1 DEF UpsertLeaveBalance
  <2>2. CASE f = e
    <3>1. cur'[e] = SetTotal(cur[e], n) /\ n \in Nat
      BY <1>0, <1>9, <2>2, LeaveYearAssumption DEF UpsertLeaveBalance
    <3>2. cur'[e].used = cur[e].used
      <4>1. SetTotal(cur[e], n).used = cur[e].used  BY <1>0, <3>1, RowWrites
      <4> QED  BY <3>1, <4>1
    <3>3. Whole(cur'[e])  BY <1>0, <3>1, <3>2, LeftWrites
    <3> QED  BY <1>4, <3>3
  <2> QED  BY <2>1, <2>2
<1>10. ASSUME UNCHANGED <<cur, taken>> PROVE Goal  BY <1>3, <1>10
<1> HIDE DEF Goal
<1>11. Goal
  BY <1>5, <1>6, <1>7, <1>8, <1>9, <1>10 DEF Next, vars, StartAccrual, ReadCurrent,
     ReadPrevious, FailAccrual, ExpirePrevious, CrashAccrual, ReadDueRows, CrashSweep,
     ApproveLate, CancelLate
<1> QED  BY <1>11 DEF Goal

\* What is left agrees with the leave taken, except after a sweep that had read the row
\* before leave was taken or given back, for any number of accrual runs beside it.
THEOREM DeductionsAreKept == Spec => DeductionsSurvive
<1>1. TypeOK /\ UsedIsTaken /\ UsedIsTaken' /\ [Next]_vars =>
        [\A e \in Employees :
           /\ Agrees(e) => Agrees(e)' \/ Overrun(e)
           /\ taken'[e] < taken[e] => Agrees(e)']_vars
  BY AgreeingKept
<1> QED  BY <1>1, TypeCorrect, UsedDaysStay, PTL DEF Spec, DeductionsSurvive

-----------------------------------------------------------------------------
(* Expiry after accrual.                                                     *)

\* A run that is past an employee has written this year's row or recorded the failure.
PastIt(k, e) ==
    /\ k.at \in {"PICK", "READ", "WRITE"}
    /\ e \notin k.todo /\ e \notin k.failed
    /\ k.at # "PICK" => k.emp # e
Accounted == \A j \in Jobs, e \in Active : PastIt(job[j], e) => cur[e].exists

\* A row of this year that exists stays.
LEMMA RowsStay ==
    ASSUME TypeOK, [Next]_vars, NEW e \in Employees, cur[e].exists
    PROVE  cur'[e].exists
<1>0. cur \in [Employees -> Balances] /\ job \in [Jobs -> JobStates]
      /\ due \in [Employees -> SUBSET Balances]
  BY DEF TypeOK
<1>1. ASSUME NEW f \in Employees, NEW b, cur' = [cur EXCEPT ![f] = b],
             b.exists \/ b.exists = cur[f].exists
      PROVE  cur'[e].exists
  BY <1>0, <1>1
<1>2. ASSUME NEW j \in Jobs, WriteAccrued(j) PROVE cur'[e].exists
  <2>1. job[j] \in Working  BY <1>0, <1>2, JobKinds DEF WriteAccrued
  <2>2. job[j].emp \in Employees /\ job[j].carry \in Nat  BY <2>1 DEF Working
  <2>3. cur[job[j].emp] \in Balances  BY <1>0, <2>2
  <2>4. UpsertAccrued(job[j].emp, job[j].carry).exists
    BY <2>2, <2>3, AccruedRow
  <2> QED  BY <1>1, <1>2, <2>2, <2>4 DEF WriteAccrued
<1>3. ASSUME NEW f \in Employees, WriteForfeit(f) PROVE cur'[e].exists
  <2>1. PICK read \in due[f] : cur' = [cur EXCEPT ![f] = SweptRow(@, read)]
    BY <1>3 DEF WriteForfeit
  <2>2. SweptRow(cur[f], read).exists = cur[f].exists  BY <1>0, <2>1, SweptWrites
  <2> QED  BY <1>0, <1>1, <2>1, <2>2
<1>4. ASSUME NEW f \in Employees, ApproveLeave(f) \/ CancelLeave(f) PROVE cur'[e].exists
  <2>1. Deduct(cur[f], 1).exists = cur[f].exists /\ Restore(cur[f], 1).exists = cur[f].exists
    BY <1>0, RowWrites
  <2> QED  BY <1>0, <1>1, <1>4, <2>1 DEF ApproveLeave, CancelLeave
<1>5. ASSUME NEW f \in Employees, NEW n \in HRTotals[f], UpsertLeaveBalance(f, n)
      PROVE  cur'[e].exists
  <2>1. SetTotal(cur[f], n).exists  BY <1>0, RowWrites, LeaveYearAssumption
  <2> QED  BY <1>0, <1>1, <1>5, <2>1 DEF UpsertLeaveBalance
<1>6. ASSUME cur' = cur PROVE cur'[e].exists  BY <1>6
<1> QED
  BY <1>2, <1>3, <1>4, <1>5, <1>6 DEF Next, vars, StartAccrual, ReadCurrent, ReadPrevious,
     FailAccrual, ExpirePrevious, CrashAccrual, ReadDueRows, CrashSweep, ApproveLate, CancelLate

\* Who is past an employee accounts for her, whatever other runs do.
LEMMA AccountedStep ==
    ASSUME TypeOK, Accounted, [Next]_vars
    PROVE  Accounted'
<1> SUFFICES ASSUME NEW j \in Jobs, NEW e \in Active, PastIt(job'[j], e)
             PROVE  cur'[e].exists
  BY DEF Accounted
<1>0. job \in [Jobs -> JobStates] /\ e \in Employees /\ cur \in [Employees -> Balances]
  BY LeaveYearAssumption DEF TypeOK
<1>1. ASSUME PastIt(job[j], e) PROVE cur'[e].exists
  BY <1>0, <1>1, RowsStay DEF Accounted
<1>2. ASSUME NEW i \in Jobs, NEW k, job' = [job EXCEPT ![i] = k],
             PastIt(k, e) => PastIt(job[i], e)
      PROVE  cur'[e].exists
  BY <1>0, <1>1, <1>2
<1>3. ASSUME NEW i \in Jobs, StartAccrual(i) \/ ExpirePrevious(i) \/ CrashAccrual(i)
      PROVE  cur'[e].exists
  <2>1. ~PastIt([at |-> "PICK", todo |-> Active, failed |-> {}], e) /\ ~PastIt(Idle, e)
    BY DEF PastIt, Idle
  <2> QED  BY <1>2, <1>3, <2>1 DEF StartAccrual, ExpirePrevious, CrashAccrual
<1>4. ASSUME NEW i \in Jobs, ReadCurrent(i) PROVE cur'[e].exists
  <2>1. PICK f \in job[i].todo :
          job' = [job EXCEPT ![i] =
                    [at |-> "READ", emp |-> f, row |-> cur[f].exists, carry |-> cur[f].carry,
                     todo |-> job[i].todo \ {f}, failed |-> job[i].failed]]
    BY <1>4 DEF ReadCurrent
  <2>2. PastIt([at |-> "READ", emp |-> f, row |-> cur[f].exists, carry |-> cur[f].carry,
                todo |-> job[i].todo \ {f}, failed |-> job[i].failed], e)
          => PastIt(job[i], e)
    BY <1>4 DEF PastIt, ReadCurrent
  <2> QED  BY <1>2, <2>1, <2>2
<1>5. ASSUME NEW i \in Jobs, ReadPrevious(i) PROVE cur'[e].exists
  <2>1. job[i] \in Working  BY <1>0, <1>5, JobKinds DEF ReadPrevious
  <2>2. PastIt([job[i] EXCEPT !.at = "WRITE", !.carry = Carried(i)], e) => PastIt(job[i], e)
    BY <1>5, <2>1 DEF PastIt, ReadPrevious, Working
  <2> QED  BY <1>0, <1>2, <1>5, <2>2 DEF ReadPrevious
<1>6. ASSUME NEW i \in Jobs, WriteAccrued(i) PROVE cur'[e].exists
  <2>1. job[i] \in Working  BY <1>0, <1>6, JobKinds DEF WriteAccrued
  <2>2. job[i].emp \in Employees /\ job[i].carry \in Nat  BY <2>1 DEF Working
  <2>3. CASE job[i].emp = e
    <3>1. cur[e] \in Balances  BY <1>0
    <3>2. UpsertAccrued(e, job[i].carry).exists  BY <1>0, <2>2, <3>1, AccruedRow
    <3> QED  BY <1>0, <1>6, <2>3, <3>2 DEF WriteAccrued
  <2>4. CASE job[i].emp # e
    <3>1. PastIt([at |-> "PICK", todo |-> job[i].todo, failed |-> job[i].failed], e)
            => PastIt(job[i], e)
      BY <1>6, <2>4 DEF PastIt, WriteAccrued
    <3> QED  BY <1>2, <1>6, <3>1 DEF WriteAccrued
  <2> QED  BY <2>3, <2>4
<1>7. ASSUME NEW i \in Jobs, FailAccrual(i) PROVE cur'[e].exists
  <2>1. PastIt([at |-> "PICK", todo |-> job[i].todo, failed |-> Failure(i)], e)
          => PastIt(job[i], e)
    BY <1>7 DEF PastIt, FailAccrual, Failure
  <2> QED  BY <1>2, <1>7, <2>1 DEF FailAccrual
<1>8. ASSUME job' = job PROVE cur'[e].exists  BY <1>1, <1>8
<1> QED
  BY <1>3, <1>4, <1>5, <1>6, <1>7, <1>8 DEF Next, vars, ReadDueRows, CrashSweep, WriteForfeit,
     ApproveLeave, CancelLeave, ApproveLate, CancelLate, UpsertLeaveBalance

\* Last year's days of an active employee expire only once this year's row is written,
\* however many runs there are, and wherever they fail or die.
THEOREM ExpiryFollowsAccrual == Spec => []ExpiredAfterAccrual
<1>1. Init => Accounted /\ ExpiredAfterAccrual
  <2> SUFFICES ASSUME Init PROVE Accounted /\ ExpiredAfterAccrual
    OBVIOUS
  <2>1. Accounted  BY DEF Init, Accounted, PastIt, Idle
  <2>2. \A e \in Employees : prev[e].expired = FALSE
    BY DEF Init, Accrued, NoBalance
  <2> QED  BY <2>1, <2>2, LeaveYearAssumption DEF ExpiredAfterAccrual
<1>2. TypeOK /\ Accounted /\ ExpiredAfterAccrual /\ [Next]_vars
        => Accounted' /\ ExpiredAfterAccrual'
  <2> SUFFICES ASSUME TypeOK, Accounted, ExpiredAfterAccrual, [Next]_vars,
                      NEW e \in Active, prev'[e].expired
               PROVE  cur'[e].exists
    BY AccountedStep DEF ExpiredAfterAccrual
  <2>0. e \in Employees /\ prev \in [Employees -> Balances]
    BY LeaveYearAssumption DEF TypeOK
  <2>1. ASSUME prev[e].expired PROVE cur'[e].exists
    BY <2>0, <2>1, RowsStay DEF ExpiredAfterAccrual
  <2>2. ASSUME NEW j \in Jobs, ExpirePrevious(j) PROVE cur'[e].exists
    <3>1. CASE e \in job[j].failed
      BY <2>0, <2>1, <2>2, <3>1 DEF ExpirePrevious
    <3>2. CASE e \notin job[j].failed
      <4>1. PastIt(job[j], e)  BY <2>2, <3>2 DEF ExpirePrevious, PastIt
      <4> QED  BY <4>1, <2>0, RowsStay DEF Accounted
    <3> QED  BY <3>1, <3>2
  <2>3. ASSUME NEW f \in Employees, ApproveLate(f) \/ CancelLate(f) PROVE cur'[e].exists
    <3>1. Deduct(prev[f], 1).expired = prev[f].expired
          /\ Restore(prev[f], 1).expired = prev[f].expired
      BY <2>0, RowWrites
    <3>2. prev[e].expired  BY <2>0, <2>3, <3>1 DEF ApproveLate, CancelLate
    <3> QED  BY <2>1, <3>2
  <2>4. ASSUME prev' = prev PROVE cur'[e].exists  BY <2>1, <2>4
  <2> QED
    BY <2>2, <2>3, <2>4 DEF Next, vars, StartAccrual, ReadCurrent, ReadPrevious, WriteAccrued,
       FailAccrual, CrashAccrual, ReadDueRows, CrashSweep, WriteForfeit, ApproveLeave,
       CancelLeave, UpsertLeaveBalance
<1> QED  BY <1>1, <1>2, TypeCorrect, PTL DEF Spec

-----------------------------------------------------------------------------
(* Carried days.                                                             *)

\* Only an accrual writes the figure of carried days.
LEMMA CarryUnmoved ==
    ASSUME TypeOK, [Next]_vars, \A j \in Jobs : ~WriteAccrued(j), NEW e \in Employees
    PROVE  cur'[e].carry = cur[e].carry
<1>0. cur \in [Employees -> Balances] /\ due \in [Employees -> SUBSET Balances]
  BY DEF TypeOK
<1>1. ASSUME NEW f \in Employees, NEW b, cur' = [cur EXCEPT ![f] = b], b.carry = cur[f].carry
      PROVE  cur'[e].carry = cur[e].carry
  BY <1>0, <1>1
<1>2. ASSUME NEW f \in Employees, WriteForfeit(f) PROVE cur'[e].carry = cur[e].carry
  <2>1. PICK read \in due[f] : cur' = [cur EXCEPT ![f] = SweptRow(@, read)]
    BY <1>2 DEF WriteForfeit
  <2>2. SweptRow(cur[f], read).carry = cur[f].carry  BY <1>0, <2>1, SweptWrites
  <2> QED  BY <1>0, <1>1, <2>1, <2>2
<1>3. ASSUME NEW f \in Employees, ApproveLeave(f) \/ CancelLeave(f)
      PROVE  cur'[e].carry = cur[e].carry
  <2>1. Deduct(cur[f], 1).carry = cur[f].carry /\ Restore(cur[f], 1).carry = cur[f].carry
    BY <1>0, RowWrites
  <2> QED  BY <1>0, <1>1, <1>3, <2>1 DEF ApproveLeave, CancelLeave
<1>4. ASSUME NEW f \in Employees, NEW n \in HRTotals[f], UpsertLeaveBalance(f, n)
      PROVE  cur'[e].carry = cur[e].carry
  <2>1. SetTotal(cur[f], n).carry = cur[f].carry  BY <1>0, RowWrites, LeaveYearAssumption
  <2> QED  BY <1>0, <1>1, <1>4, <2>1 DEF UpsertLeaveBalance
<1>5. ASSUME cur' = cur PROVE cur'[e].carry = cur[e].carry  BY <1>5
<1> QED
  BY <1>2, <1>3, <1>4, <1>5 DEF Next, vars, StartAccrual, ReadCurrent, ReadPrevious,
     FailAccrual, ExpirePrevious, CrashAccrual, ReadDueRows, CrashSweep, ApproveLate, CancelLate

\* The figure a run has read, or will write, against the one that stands, as long as no
\* other run has accrued the employee in between.
Figured(j) ==
    /\ job[j].at = "READ" /\ j \notin lapped =>
         IF job[j].row THEN job[j].carry = cur[job[j].emp].carry
                       ELSE cur[job[j].emp].carry = 0
    /\ job[j].at = "READ" /\ job[j].row => job[j].carry <= Cap
    /\ job[j].at = "WRITE" => job[j].carry <= Cap
    /\ job[j].at = "WRITE" /\ j \notin lapped /\ cur[job[j].emp].carry > 0 =>
         job[j].carry = cur[job[j].emp].carry
Figures ==
    /\ \A e \in Employees : cur[e].carry <= Cap /\ (~cur[e].exists => cur[e].carry = 0)
    /\ \A j \in Jobs : Figured(j)

LEMMA InitFigures == Init => Figures
BY LeaveYearAssumption DEF Init, Figures, Figured, Idle, NoBalance

\* A figure a run has read is still the one that stands, unless another run overtook it.
LEMMA FiguresStep ==
    ASSUME TypeOK, Figures, [Next]_vars
    PROVE  Figures'
<1>0. /\ cur \in [Employees -> Balances] /\ prev \in [Employees -> Balances]
      /\ job \in [Jobs -> JobStates] /\ Cap \in Nat
      /\ \A e \in Employees : cur[e].carry <= Cap /\ (~cur[e].exists => cur[e].carry = 0)
      /\ \A j \in Jobs : Figured(j)
  BY LeaveYearAssumption DEF TypeOK, Figures
<1>1. ASSUME NEW j \in Jobs, job[j].at \in {"READ", "WRITE"}
      PROVE  job[j] \in Working /\ job[j].emp \in Employees
  BY <1>0, <1>1, JobKinds DEF Working
<1>2. CASE \A j \in Jobs : ~WriteAccrued(j)
  <2>1. \A e \in Employees : cur'[e].carry = cur[e].carry  BY <1>2, CarryUnmoved
  <2>2. \A e \in Employees : cur'[e].carry <= Cap /\ (~cur'[e].exists => cur'[e].carry = 0)
    BY <1>0, <2>1, RowsStay
  <2>3. ASSUME NEW j \in Jobs, job'[j] = job[j], j \in lapped => j \in lapped'
        PROVE  Figured(j)'
    BY <1>0, <1>1, <2>1, <2>3 DEF Figured
  <2>4. ASSUME NEW j \in Jobs, job'[j].at \notin {"READ", "WRITE"} PROVE Figured(j)'
    BY <2>4 DEF Figured
  <2>5. ASSUME NEW j \in Jobs, ReadCurrent(j) PROVE Figured(j)'
    <3>1. job[j] \in Picking /\ cur' = cur  BY <1>0, <2>5, JobKinds DEF ReadCurrent
    <3>2. PICK e \in job[j].todo :
            job' = [job EXCEPT ![j] =
                      [at |-> "READ", emp |-> e, row |-> cur[e].exists, carry |-> cur[e].carry,
                       todo |-> job[j].todo \ {e}, failed |-> job[j].failed]]
      BY <2>5 DEF ReadCurrent
    <3>3. e \in Employees  BY <3>1 DEF Picking
    <3>4. /\ job'[j].at = "READ" /\ job'[j].emp = e /\ job'[j].row = cur[e].exists
          /\ job'[j].carry = cur[e].carry
      BY <1>0, <3>2
    <3> QED  BY <1>0, <3>1, <3>3, <3>4 DEF Figured
  <2>6. ASSUME NEW j \in Jobs, ReadPrevious(j) PROVE Figured(j)'
    <3>1. job[j] \in Working /\ job[j].at = "READ" /\ Figured(j) /\ job[j].emp \in Employees
      BY <1>0, <1>1, <2>6 DEF ReadPrevious
    <3>2. /\ job'[j].at = "WRITE" /\ job'[j].emp = job[j].emp /\ job'[j].carry = Carried(j)
          /\ cur' = cur /\ lapped' = lapped
      BY <1>0, <2>6, <3>1 DEF ReadPrevious, Working
    <3>3. prev[job[j].emp].remaining \in Int /\ cur[job[j].emp].carry \in Nat
      BY <1>0, <3>1 DEF Balances
    <3>4. CASE job[j].row
      <4>1. Carried(j) = job[j].carry  BY <3>4 DEF Carried
      <4> QED  BY <3>1, <3>2, <3>4, <4>1 DEF Figured
    <3>5. CASE ~job[j].row
      <4>1. Carried(j) <= Cap  BY <1>0, <3>3, <3>5, CarryOverBound DEF Carried
      <4>2. j \notin lapped => cur[job[j].emp].carry = 0  BY <3>1, <3>5 DEF Figured
      <4> QED  BY <3>2, <4>1, <4>2 DEF Figured
    <3> QED  BY <3>4, <3>5
  <2>7. ASSUME NEW i \in Jobs, NEW j \in Jobs,
               StartAccrual(i) \/ FailAccrual(i) \/ ExpirePrevious(i) \/ CrashAccrual(i)
        PROVE  Figured(j)'
    <3>1. CASE i = j
      <4>1. job'[j].at \notin {"READ", "WRITE"}
        BY <1>0, <2>7, <3>1 DEF StartAccrual, FailAccrual, ExpirePrevious, CrashAccrual, Idle
      <4> QED  BY <2>4, <4>1
    <3>2. CASE i # j
      <4>1. job'[j] = job[j] /\ (j \in lapped => j \in lapped')
        BY <1>0, <2>7, <3>2 DEF StartAccrual, FailAccrual, ExpirePrevious, CrashAccrual
      <4> QED  BY <2>3, <4>1
    <3> QED  BY <3>1, <3>2
  <2>8. ASSUME NEW i \in Jobs, NEW j \in Jobs, ReadCurrent(i) \/ ReadPrevious(i)
        PROVE  Figured(j)'
    <3>1. CASE i # j
      <4>1. job'[j] = job[j] /\ lapped' = lapped
        BY <1>0, <2>8, <3>1 DEF ReadCurrent, ReadPrevious
      <4> QED  BY <2>3, <4>1
    <3> QED  BY <2>5, <2>6, <2>8, <3>1
  <2>9. ASSUME UNCHANGED <<job, lapped>>, NEW j \in Jobs PROVE Figured(j)'  BY <2>3, <2>9
  <2>10. \A j \in Jobs : Figured(j)'
    BY <1>2, <2>7, <2>8, <2>9 DEF Next, vars, ReadDueRows, CrashSweep, WriteForfeit,
       ApproveLeave, CancelLeave, ApproveLate, CancelLate, UpsertLeaveBalance
  <2> QED  BY <2>2, <2>10 DEF Figures
<1>3. ASSUME NEW j \in Jobs, WriteAccrued(j) PROVE Figures'
  <2>1. job[j] \in Working /\ job[j].at = "WRITE" /\ Figured(j) /\ job[j].emp \in Employees
    BY <1>0, <1>1, <1>3 DEF WriteAccrued
  <2>2. job[j].carry \in Nat /\ job[j].carry <= Cap  BY <2>1 DEF Working, Figured
  <2>3. cur[job[j].emp] \in Balances  BY <1>0, <2>1
  <2>4. /\ UpsertAccrued(job[j].emp, job[j].carry).carry = job[j].carry
        /\ UpsertAccrued(job[j].emp, job[j].carry).exists
    BY <2>1, <2>2, <2>3, AccruedRow
  <2>5. \A e \in Employees : cur'[e].carry <= Cap /\ (~cur'[e].exists => cur'[e].carry = 0)
    BY <1>0, <1>3, <2>1, <2>2, <2>4 DEF WriteAccrued
  <2>6. ASSUME NEW i \in Jobs PROVE Figured(i)'
    <3>1. CASE i = j
      <4>1. job'[i].at = "PICK"  BY <1>0, <1>3, <3>1 DEF WriteAccrued
      <4> QED  BY <4>1 DEF Figured
    <3>2. CASE i # j /\ job[i].at \in {"READ", "WRITE"}
      <4>1. job'[i] = job[i] /\ Figured(i) /\ job[i].emp \in Employees
        BY <1>0, <1>1, <1>3, <3>2 DEF WriteAccrued
      <4>2. job[i].emp = job[j].emp => i \in lapped'
        BY <1>3, <3>2 DEF WriteAccrued, Overtaken
      <4>3. /\ job[i].emp # job[j].emp => cur'[job[i].emp] = cur[job[i].emp]
            /\ i \in lapped => i \in lapped'
        BY <1>0, <1>3, <3>2, <4>1 DEF WriteAccrued
      <4> QED  BY <4>1, <4>2, <4>3 DEF Figured
    <3>3. CASE i # j /\ job[i].at \notin {"READ", "WRITE"}
      <4>1. job'[i] = job[i]  BY <1>0, <1>3, <3>3 DEF WriteAccrued
      <4> QED  BY <3>3, <4>1 DEF Figured
    <3> QED  BY <3>1, <3>2, <3>3
  <2> QED  BY <2>5, <2>6 DEF Figures
<1> QED  BY <1>2, <1>3

\* For any number of accrual runs, the carried days are within the cap, and the first
\* figure stays unless a run writes that had read the employee before another accrued her.
THEOREM CarriedDaysStay == Spec => CarriedOnce
<1>1. Spec => [](TypeOK /\ Figures)
  <2>1. TypeOK /\ Figures /\ [Next]_vars => Figures'  BY FiguresStep
  <2> QED  BY <2>1, InitFigures, TypeCorrect, PTL DEF Spec
<1>2. TypeOK /\ Figures /\ Figures' /\ [Next]_vars =>
        [\A e \in Employees :
           /\ cur'[e].carry <= Cap
           /\ cur[e].carry > 0 /\ cur'[e].carry # cur[e].carry =>
                \E j \in lapped : job[j].emp = e /\ WriteAccrued(j)]_vars
  <2> SUFFICES ASSUME TypeOK, Figures, Figures', [Next]_vars, NEW e \in Employees
               PROVE  /\ cur'[e].carry <= Cap
                      /\ cur[e].carry > 0 /\ cur'[e].carry # cur[e].carry =>
                           \E j \in lapped : job[j].emp = e /\ WriteAccrued(j)
    OBVIOUS
  <2>1. cur'[e].carry <= Cap  BY DEF Figures
  <2>2. CASE \A j \in Jobs : ~WriteAccrued(j)  BY <2>1, <2>2, CarryUnmoved
  <2>3. ASSUME NEW j \in Jobs, WriteAccrued(j), cur[e].carry > 0, cur'[e].carry # cur[e].carry
        PROVE  j \in lapped /\ job[j].emp = e
    <3>1. job[j] \in JobStates /\ job[j].at = "WRITE" /\ Figured(j)
          /\ cur \in [Employees -> Balances]
      BY <2>3 DEF WriteAccrued, Figures, TypeOK
    <3>2. job[j].emp \in Employees /\ job[j].carry \in Nat
      BY <3>1, JobKinds DEF Working
    <3>3. cur[job[j].emp] \in Balances  BY <3>1, <3>2
    <3>4. UpsertAccrued(job[j].emp, job[j].carry).carry = job[j].carry
      BY <3>2, <3>3, AccruedRow
    <3>5. cur' = [cur EXCEPT ![job[j].emp] = UpsertAccrued(job[j].emp, job[j].carry)]
      BY <2>3 DEF WriteAccrued
    <3> QED  BY <2>3, <3>1, <3>2, <3>4, <3>5 DEF Figured
  <2> QED  BY <2>1, <2>2, <2>3
<1> QED  BY <1>1, <1>2, PTL DEF Spec, CarriedOnce

-----------------------------------------------------------------------------
(* Collective days and encashments, for any staff, appliers, rows and runs.  *)
(* A plan is stale when it is applied: whom it skipped it passes over, and   *)
(* the history says who had by then taken back what she was skipped for.     *)

LEMMA OutcomeType == \A e \in Staff : Outcome(e) \in PlanOutcomes
BY DEF Outcome, PlanOutcomes

LEMMA DeductOne ==
    ASSUME NEW b \in Balances, NEW n \in Nat, Sufficient(b, n)
    PROVE  /\ Deduct(b, n) \in Balances
           /\ Deduct(b, n).used = b.used + n
           /\ Deduct(b, n).remaining >= 0
<1>1. b.remaining - n >= 0 /\ b.remaining \in Int /\ b.used \in Nat
  BY DEF Sufficient, Balances
<1> QED BY <1>1, RowWrites DEF Deduct, Balances

LEMMA PlansAreOneAtMost ==
    ASSUME SpendingTypeOK, NEW a \in Appliers, NEW p \in plan[a]
    PROVE  p \in [Staff -> PlanOutcomes]
BY DEF SpendingTypeOK

LEMMA BookedType ==
    ASSUME SpendingTypeOK, NEW p
    PROVE  Booked(p) \in [Staff -> [Bookings -> Nat]]
<1>1. ASSUME NEW e \in Staff, NEW k \in Bookings
      PROVE  booked[e][k] + (IF \/ k = "PAID" /\ e \in PaidFrom(p)
                                \/ k = "UNPAID" /\ e \in UnpaidBy(p) THEN 1 ELSE 0) \in Nat
  BY DEF SpendingTypeOK
<1> QED BY <1>1 DEF Booked

LEMMA ApplyType ==
    ASSUME SpendingTypeOK, NEW a \in Appliers, Apply(a)
    PROVE  SpendingTypeOK'
<1>1. PICK p \in plan[a] :
        /\ balance' = [e \in Staff |-> IF e \in PaidFrom(p) THEN Deduct(balance[e], 1)
                                                            ELSE balance[e]]
        /\ booked' = Booked(p) /\ declaration' = "APPLIED"
  BY DEF Apply
<1>2. balance' \in [Staff -> Balances]
  <2>1. \A e \in Staff : balance[e] \in Balances  BY DEF SpendingTypeOK
  <2>2. \A e \in Staff : Deduct(balance[e], 1) \in Balances  BY <2>1, RowWrites
  <2> QED BY <1>1, <2>1, <2>2
<1>3. booked' \in [Staff -> [Bookings -> Nat]]
  BY <1>1, BookedType
<1> QED BY <1>1, <1>2, <1>3 DEF Apply, encashment, SpendingTypeOK, Declarations

LEMMA EncashmentType ==
    ASSUME SpendingTypeOK, NEW r \in Rows, NEW u \in Actors,
           CheckRequest(r, u) \/ Approve(r, u)
    PROVE  SpendingTypeOK'
<1>1. row[r] \in Encashments  BY DEF SpendingTypeOK
<1>2. \A s \in {"PENDING", "APPROVED"} : [row[r] EXCEPT !.status = s] \in Encashments
  BY <1>1 DEF Encashments
<1>3. [[row[r] EXCEPT !.status = "CHECKED"] EXCEPT !.requestedBy = {u}] \in Encashments
  BY <1>1 DEF Encashments
<1>4. CASE CheckRequest(r, u)
  <2>1. row' \in [Rows -> Encashments]
    BY <1>3, <1>4 DEF CheckRequest, SpendingTypeOK
  <2> QED BY <1>4, <2>1 DEF CheckRequest, collective, SpendingTypeOK
<1>5. CASE Approve(r, u)
  <2>1. row' \in [Rows -> Encashments]
    BY <1>2, <1>5 DEF Approve, SpendingTypeOK
  <2>2. balance' \in [Staff -> Balances]
    <3>1. OwnerOf[r] \in Staff /\ Days[r] \in Nat  BY SpendingAssumption
    <3>2. balance[OwnerOf[r]] \in Balances  BY <3>1 DEF SpendingTypeOK
    <3>3. Deduct(balance[OwnerOf[r]], Days[r]) \in Balances  BY <3>1, <3>2, RowWrites
    <3> QED BY <1>5, <3>3 DEF Approve, SpendingTypeOK
  <2> QED BY <1>5, <2>1, <2>2 DEF Approve, collective, SpendingTypeOK
<1> QED BY <1>4, <1>5

LEMMA RunType ==
    ASSUME SpendingTypeOK, NEW n \in Runs, MarkPaid(n) \/ ReleasePaid(n)
    PROVE  SpendingTypeOK'
<1>1. \A r \in Rows :
        /\ row[r] \in Encashments
        /\ [[row[r] EXCEPT !.status = "PAID"] EXCEPT !.run = {n}] \in Encashments
        /\ [[row[r] EXCEPT !.status = "APPROVED"] EXCEPT !.run = {}] \in Encashments
  BY DEF SpendingTypeOK, Encashments
<1>2. row' \in [Rows -> Encashments] /\ run' \in [Runs -> {"NONE", "PAID", "VOIDED"}]
  BY <1>1 DEF MarkPaid, ReleasePaid, SpendingTypeOK
<1> QED BY <1>2 DEF MarkPaid, ReleasePaid, collective, SpendingTypeOK

LEMMA SpendingTypeStep == SpendingTypeOK /\ [SpendingNext]_spendingVars => SpendingTypeOK'
<1> SUFFICES ASSUME SpendingTypeOK, [SpendingNext]_spendingVars PROVE SpendingTypeOK'
  OBVIOUS
<1>1. CASE Declare \/ Cancel \/ LockPayrollPeriod
  BY <1>1 DEF Declare, Cancel, LockPayrollPeriod, encashment, SpendingTypeOK, Declarations
<1>2. ASSUME NEW a \in Appliers, BuildPlan(a) \/ RollBack(a) PROVE SpendingTypeOK'
  <2>1. [e \in Staff |-> Outcome(e)] \in [Staff -> PlanOutcomes]
    BY OutcomeType
  <2>2. {[e \in Staff |-> Outcome(e)]} \in SUBSET [Staff -> PlanOutcomes]
    BY <2>1
  <2>3. plan' \in [Appliers -> SUBSET [Staff -> PlanOutcomes]]
    BY <1>2, <2>2 DEF BuildPlan, RollBack, SpendingTypeOK
  <2> QED BY <1>2, <2>3 DEF BuildPlan, RollBack, encashment, SpendingTypeOK
<1>3. ASSUME NEW e \in Staff,
             \/ FileOwnLeave(e) \/ RejectOwnLeave(e) \/ CancelPending(e)
             \/ ClockIn(e) \/ DeleteAttendance(e)
      PROVE  SpendingTypeOK'
  BY <1>3 DEF FileOwnLeave, RejectOwnLeave, CancelPending, DropPending, ClockIn,
     DeleteAttendance, TakenBack, encashment, SpendingTypeOK
<1>4. ASSUME NEW e \in Staff, ApproveOwnLeave(e) PROVE SpendingTypeOK'
  <2>1. Deduct(balance[e], 1) \in Balances
    BY RowWrites DEF SpendingTypeOK
  <2> QED BY <1>4, <2>1 DEF ApproveOwnLeave, encashment, SpendingTypeOK
<1>5. ASSUME NEW e \in Staff, CancelApproved(e) PROVE SpendingTypeOK'
  <2>1. Restore(balance[e], 1) \in Balances
    BY RowWrites DEF SpendingTypeOK
  <2> QED BY <1>5, <2>1 DEF CancelApproved, TakenBack, encashment, SpendingTypeOK
<1>6. ASSUME NEW e \in Staff, NEW k \in Bookings, CancelBooked(e, k) PROVE SpendingTypeOK'
  <2>1. Restore(balance[e], 1) \in Balances
    BY RowWrites DEF SpendingTypeOK
  <2>2. booked[e] \in [Bookings -> Nat] /\ booked[e][k] - 1 \in Nat
    BY <1>6 DEF CancelBooked, SpendingTypeOK
  <2>3. balance' \in [Staff -> Balances] /\ booked' \in [Staff -> [Bookings -> Nat]]
    BY <1>6, <2>1, <2>2 DEF CancelBooked, SpendingTypeOK
  <2> QED BY <1>6, <2>3 DEF CancelBooked, TakenBack, encashment, SpendingTypeOK
<1>7. CASE UNCHANGED spendingVars
  BY <1>7 DEF spendingVars, collective, encashment, SpendingTypeOK
<1>8. ASSUME NEW r \in Rows, CreateRequest(r) \/ Reject(r) PROVE SpendingTypeOK'
  <2>1. row[r] \in Encashments  BY DEF SpendingTypeOK
  <2>2. \A s \in {"PENDING", "REJECTED"} : [row[r] EXCEPT !.status = s] \in Encashments
    BY <2>1 DEF Encashments
  <2>3. row' \in [Rows -> Encashments]
    BY <1>8, <2>2 DEF CreateRequest, Reject, SpendingTypeOK
  <2> QED BY <1>8, <2>3 DEF CreateRequest, Reject, collective, SpendingTypeOK
<1> QED
  BY <1>1, <1>2, <1>3, <1>4, <1>7, <1>8, <1>5, <1>6, ApplyType, EncashmentType, RunType
     DEF SpendingNext

\* Every field of every row stays in its range.
THEOREM SpendingTypeCorrect == SpendingSpec => []SpendingTypeOK
<1>1. SpendingInit => SpendingTypeOK
  <2>1. NoBalance \in Balances  BY DEF NoBalance, Balances
  <2>2. \A e \in Staff : SetTotal(NoBalance, Allocation[e]) \in Balances
    BY <2>1, RowWrites, SpendingAssumption
  <2>3. [status |-> "NONE", requestedBy |-> {}, run |-> {}] \in Encashments
    BY DEF Encashments
  <2>4. \A e \in Staff : [k \in Bookings |-> 0] \in [Bookings -> Nat]
    OBVIOUS
  <2> SUFFICES ASSUME SpendingInit PROVE SpendingTypeOK
    OBVIOUS
  <2>5. balance \in [Staff -> Balances]
    BY <2>2 DEF SpendingInit
  <2>6. booked \in [Staff -> [Bookings -> Nat]]
    BY <2>4 DEF SpendingInit
  <2>7. row \in [Rows -> Encashments]
    BY <2>3 DEF SpendingInit
  <2> QED BY <2>5, <2>6, <2>7 DEF SpendingInit, SpendingTypeOK, Declarations
<1> QED BY <1>1, SpendingTypeStep, PTL DEF SpendingSpec

-----------------------------------------------------------------------------
(* The collective day.                                                     *)

\* Until the declaration is applied nobody is booked, and nobody ever twice; whom a plan
\* in flight skips has leave or is present, or took it back since; so whom the day passed
\* over.
Unbooked(e) == booked[e]["PAID"] = 0 /\ booked[e]["UNPAID"] = 0
Covered(e) == ownLeave[e] # "NONE" \/ attendance[e] = "PRESENT"
DayInv ==
    /\ SpendingTypeOK
    /\ declaration # "APPLIED" => \A e \in Staff : Unbooked(e)
    /\ \A e \in Staff : Times(e) <= 1
    /\ \A a \in Appliers : \A p \in plan[a] : \A e \in Skipped(p) \ withdrawn : Covered(e)
    /\ WholeCompany

\* Bookings, leave and presence that stay, or are taken back with the history saying so
\* when it is too late for the plan.
DayKept ==
    /\ declaration' = declaration \/ (declaration # "APPLIED" /\ declaration' # "APPLIED")
    /\ withdrawn \subseteq withdrawn'
    /\ \A e \in Staff : /\ Unbooked(e) => Unbooked(e)'
                        /\ Times(e)' <= 1
                        /\ Times(e)' = 0 => Times(e) = 0 \/ e \in withdrawn'
    /\ \A e \in Staff : Covered(e) => \/ Covered(e)' \/ e \in withdrawn'
                                      \/ declaration # "APPLIED" /\ ~SkippedInFlight(e)
    /\ \A a \in Appliers : plan'[a] \subseteq plan[a]

LEMMA KeptDay == DayInv /\ DayKept /\ SpendingTypeOK' => DayInv'
<1> SUFFICES ASSUME DayInv, DayKept, SpendingTypeOK' PROVE DayInv'
  OBVIOUS
<1>1. ASSUME NEW a \in Appliers, NEW p \in plan'[a], NEW e \in Skipped(p) \ withdrawn'
      PROVE  Covered(e)'
  <2>1. p \in plan[a] /\ e \in Staff /\ e \notin withdrawn
    BY <1>1 DEF DayKept, Skipped
  <2>2. Covered(e) /\ SkippedInFlight(e)
    BY <1>1, <2>1 DEF DayInv, SkippedInFlight
  <2> QED BY <1>1, <2>1, <2>2 DEF DayKept
<1>2. \A p : Skipped(p)' = Skipped(p)
  BY DEF Skipped
<1>3. WholeCompany'
  BY DEF DayInv, DayKept, WholeCompany, Covered
<1>4. declaration' # "APPLIED" => \A e \in Staff : Unbooked(e)'
  BY DEF DayInv, DayKept
<1>5. \A e \in Staff : Times(e)' <= 1
  BY DEF DayKept
<1> QED BY <1>1, <1>2, <1>3, <1>4, <1>5 DEF DayInv

LEMMA BuildPlanDay ==
    ASSUME DayInv, SpendingTypeOK', NEW a \in Appliers, BuildPlan(a)
    PROVE  DayInv'
<1> DEFINE p == [e \in Staff |-> Outcome(e)]
<1>1. \A e \in Staff : Covered(e)' <=> Covered(e)
  BY DEF BuildPlan, Covered
<1>2. \A e \in Skipped(p) : Covered(e)
  BY DEF Skipped, Outcome, Covered
<1>3. \A b \in Appliers : plan'[b] \subseteq plan[b] \cup {p}
  BY DEF BuildPlan, DayInv, SpendingTypeOK
<1>4. \A q : Skipped(q)' = Skipped(q) /\ Skipped(q) \subseteq Staff
  BY DEF Skipped
<1> HIDE DEF p
<1>5. ASSUME NEW b \in Appliers, NEW q \in plan'[b], NEW e \in Skipped(q) \ withdrawn'
      PROVE  Covered(e)'
  <2>1. CASE q = p
    BY <1>1, <1>2, <1>4, <1>5, <2>1
  <2>2. CASE q \in plan[b]
    <3>1. SkippedInFlight(e)
      BY <1>5, <2>2 DEF SkippedInFlight
    <3>2. e \notin withdrawn
      BY <1>5, <3>1 DEF BuildPlan
    <3> QED BY <1>1, <1>4, <1>5, <2>2, <3>2 DEF DayInv
  <2> QED BY <1>3, <1>5, <2>1, <2>2
<1>6. WholeCompany'
  BY DEF BuildPlan, WholeCompany
<1> QED BY <1>4, <1>5, <1>6 DEF BuildPlan, DayInv, Unbooked, Times, encashment

\* The day books whom the plan did not skip, each once: the two bookings of an employee
\* exclude each other and cover the rest of the staff.
LEMMA ApplyDay ==
    ASSUME DayInv, SpendingTypeOK', NEW a \in Appliers, Apply(a)
    PROVE  DayInv'
<1>1. PICK p \in plan[a] : declaration = "DECLARED" /\ booked' = Booked(p)
  BY DEF Apply, ClaimsDeclaration
<1>2. \A e \in Staff : Unbooked(e)
  BY <1>1 DEF DayInv
<1>3. Skipped(p) \cap PaidFrom(p) = {}
  BY DEF Skipped, PaidFrom
<1>4. \A e \in Staff :
        /\ booked'[e]["PAID"] = IF e \in PaidFrom(p) THEN 1 ELSE 0
        /\ booked'[e]["UNPAID"] = IF e \in Skipped(p) \cup PaidFrom(p) THEN 0 ELSE 1
  BY <1>1, <1>2 DEF Booked, Bookings, Unbooked, UnpaidBy
<1>5. \A e \in Staff : booked'[e]["PAID"] + booked'[e]["UNPAID"]
                       = IF e \in Skipped(p) THEN 0 ELSE 1
  BY <1>3, <1>4
<1>6. \A e \in Staff : Covered(e)' <=> Covered(e)
  BY DEF Apply, Covered
<1>7. \A e \in Skipped(p) \ withdrawn : Covered(e)
  BY DEF DayInv
<1>8. /\ declaration' = "APPLIED" /\ withdrawn' = withdrawn
      /\ \A b \in Appliers : plan'[b] \subseteq plan[b]
  BY DEF Apply, DayInv, SpendingTypeOK
<1>9. WholeCompany'
  BY <1>5, <1>6, <1>7, <1>8 DEF WholeCompany, Times, Covered
<1>10. \A b \in Appliers : \A q \in plan'[b] : \A e \in Skipped(q)' \ withdrawn' : Covered(e)'
  BY <1>6, <1>8 DEF DayInv, Skipped
<1>11. \A e \in Staff : Times(e)' <= 1
  BY <1>5 DEF Times
<1> QED BY <1>8, <1>9, <1>10, <1>11 DEF DayInv

LEMMA DayStep == DayInv /\ [SpendingNext]_spendingVars => DayInv'
<1> SUFFICES ASSUME DayInv, [SpendingNext]_spendingVars PROVE DayInv'
  OBVIOUS
<1>1. SpendingTypeOK'
  BY SpendingTypeStep DEF DayInv
<1>2. \A m \in Staff : Times(m) <= 1
  BY DEF DayInv
<1>3. CASE Declare \/ Cancel \/ LockPayrollPeriod
  BY <1>1, <1>3, <1>2, KeptDay
     DEF Declare, Cancel, LockPayrollPeriod, DayKept, Covered, Times, Unbooked
<1>4. ASSUME NEW a \in Appliers, RollBack(a) PROVE DayInv'
  <2>1. \A b \in Appliers : plan'[b] \subseteq plan[b]
    BY <1>4 DEF RollBack, DayInv, SpendingTypeOK
  <2> QED BY <1>1, <1>4, <1>2, <2>1, KeptDay DEF RollBack, DayKept, Covered, Times, Unbooked
<1>5. ASSUME NEW e \in Staff, FileOwnLeave(e) \/ ApproveOwnLeave(e) \/ ClockIn(e) PROVE DayInv'
  <2>1. \A m \in Staff : Covered(m) => Covered(m)'
    BY <1>5 DEF FileOwnLeave, ApproveOwnLeave, ClockIn, Covered, DayInv, SpendingTypeOK
  <2> QED
    BY <1>1, <1>5, <1>2, <2>1, KeptDay
       DEF FileOwnLeave, ApproveOwnLeave, ClockIn, DayKept, Times, Unbooked
<1>6. ASSUME NEW e \in Staff,
              \/ RejectOwnLeave(e) \/ CancelPending(e) \/ CancelApproved(e)
              \/ DeleteAttendance(e)
       PROVE  DayInv'
  <2>1. \A m \in Staff \ {e} : Covered(m) => Covered(m)'
    BY <1>6 DEF RejectOwnLeave, CancelPending, DropPending, CancelApproved, DeleteAttendance,
       Covered, DayInv, SpendingTypeOK
  <2>2. e \in withdrawn' \/ (declaration # "APPLIED" /\ ~SkippedInFlight(e))
    BY <1>6 DEF RejectOwnLeave, CancelPending, DropPending, CancelApproved, DeleteAttendance,
       TakenBack
  <2>3. /\ withdrawn \subseteq withdrawn' /\ UNCHANGED <<declaration, booked, plan>>
    BY <1>6 DEF RejectOwnLeave, CancelPending, DropPending, CancelApproved, DeleteAttendance
  <2> QED BY <1>1, <1>2, <2>1, <2>2, <2>3, KeptDay DEF DayKept, Times, Unbooked
<1>7. ASSUME NEW e \in Staff, NEW k \in Bookings, CancelBooked(e, k) PROVE DayInv'
  <2>1. booked \in [Staff -> [Bookings -> Nat]] /\ Bookings = {"PAID", "UNPAID"}
    BY DEF DayInv, SpendingTypeOK, Bookings
  <2>2. declaration = "APPLIED"
    BY <1>7, <2>1 DEF CancelBooked, DayInv, Unbooked
  <2>3. e \in withdrawn' /\ withdrawn \subseteq withdrawn'
    BY <1>7, <2>2 DEF CancelBooked, TakenBack
  <2>4. \A m \in Staff : m # e => booked'[m] = booked[m]
    BY <1>7, <2>1 DEF CancelBooked
  <2>5. /\ booked'[e]["PAID"] <= booked[e]["PAID"] /\ booked'[e]["UNPAID"] <= booked[e]["UNPAID"]
        /\ booked'[e]["PAID"] \in Nat /\ booked'[e]["UNPAID"] \in Nat
    BY <1>7, <2>1 DEF CancelBooked
  <2>6. \A m \in Staff : /\ Unbooked(m) => Unbooked(m)'
                         /\ Times(m)' <= 1
                         /\ Times(m)' = 0 => Times(m) = 0 \/ m \in withdrawn'
    BY <1>2, <2>1, <2>3, <2>4, <2>5 DEF Unbooked, Times
  <2>7. UNCHANGED <<declaration, plan, ownLeave, attendance>>
    BY <1>7 DEF CancelBooked
  <2> QED BY <1>1, <2>3, <2>6, <2>7, KeptDay DEF DayKept, Covered
<1>8. CASE UNCHANGED collective
  BY <1>1, <1>8, <1>2, KeptDay DEF collective, DayKept, Covered, Times, Unbooked
<1>9. \A r \in Rows : CreateRequest(r) \/ Reject(r) => UNCHANGED collective
  BY DEF CreateRequest, Reject
<1>10. \A r \in Rows, u \in Actors : CheckRequest(r, u) \/ Approve(r, u) => UNCHANGED collective
  BY DEF CheckRequest, Approve
<1>11. \A n \in Runs : MarkPaid(n) \/ ReleasePaid(n) => UNCHANGED collective
  BY DEF MarkPaid, ReleasePaid
<1>12. UNCHANGED spendingVars => UNCHANGED collective
  BY DEF spendingVars
<1> QED
  BY <1>1, <1>3, <1>4, <1>5, <1>8, <1>9, <1>10, <1>11, <1>12, <1>6, <1>7, BuildPlanDay, ApplyDay
     DEF SpendingNext

LEMMA DayHolds == SpendingSpec => []DayInv
<1>1. SpendingInit /\ SpendingTypeOK => DayInv
  BY DEF SpendingInit, DayInv, Unbooked, Times, WholeCompany, Bookings
<1> QED BY <1>1, SpendingTypeCorrect, DayStep, PTL DEF SpendingSpec

\* Two users who apply at once book nobody twice, whatever their plans say.
THEOREM CollectiveDayAppliedOnce == SpendingSpec => []AppliedOnce
<1>1. DayInv => AppliedOnce
  BY DEF DayInv, AppliedOnce, Unbooked, Times
<1> QED BY <1>1, DayHolds, PTL

\* The applied day passes over nobody who has neither leave nor attendance, unless it was
\* taken back when a plan had already skipped her for it, or the day was applied.
THEOREM CollectiveDayIsWhole == SpendingSpec => []WholeCompany
<1>1. DayInv => WholeCompany
  BY DEF DayInv
<1> QED BY <1>1, DayHolds, PTL

-----------------------------------------------------------------------------
(* Encashments and the runs that pay them.                                 *)

PayInv == SpendingTypeOK /\ PaidByAStandingRun

\* Only payment and release write who paid, and no other step makes a row paid or unpaid.
PaymentKept ==
    /\ \A r \in Rows : /\ row'[r].run = row[r].run
                       /\ row'[r].status = "PAID" <=> row[r].status = "PAID"
    /\ run' = run

LEMMA KeptPayment == PayInv /\ PaymentKept => PaidByAStandingRun'
BY DEF PayInv, PaidByAStandingRun, PaymentKept

LEMMA RequestsKeepPayment ==
    ASSUME PayInv, NEW r \in Rows, NEW status \in {"CHECKED", "PENDING", "APPROVED", "REJECTED"},
           row[r].status # "PAID", UNCHANGED run,
           \/ row' = [row EXCEPT ![r].status = status]
           \/ \E u \in Actors : row' = [row EXCEPT ![r].status = status, ![r].requestedBy = {u}]
    PROVE  PaymentKept
<1>1. row \in [Rows -> Encashments] /\ row[r] \in Encashments
  BY DEF PayInv, SpendingTypeOK
<1>2. \A q \in Rows : q # r => row'[q] = row[q]
  BY <1>1
<1>3. row'[r].run = row[r].run /\ row'[r].status = status
  BY <1>1 DEF Encashments
<1> QED BY <1>2, <1>3 DEF PaymentKept

LEMMA MarkPaidPays ==
    ASSUME PayInv, NEW n \in Runs, MarkPaid(n)
    PROVE  PaidByAStandingRun'
<1>1. \A r \in Rows :
        /\ Payable(r) => row'[r].status = "PAID" /\ row'[r].run = {n}
        /\ ~Payable(r) => row'[r] = row[r]
  BY DEF MarkPaid, PayInv, SpendingTypeOK, Encashments
<1>2. run'[n] = "PAID" /\ \A m \in Runs : run[m] = "PAID" => run'[m] = "PAID"
  BY DEF MarkPaid, PayInv, SpendingTypeOK
<1> QED BY <1>1, <1>2 DEF PayInv, PaidByAStandingRun

LEMMA ReleasePaidPays ==
    ASSUME PayInv, NEW n \in Runs, ReleasePaid(n)
    PROVE  PaidByAStandingRun'
<1>1. \A r \in Rows :
        /\ Releasable(r, n) => row'[r].status = "APPROVED" /\ row'[r].run = {}
        /\ ~Releasable(r, n) => row'[r] = row[r]
  BY DEF ReleasePaid, PayInv, SpendingTypeOK, Encashments
<1>2. \A m \in Runs : m # n => run'[m] = run[m]
  BY DEF ReleasePaid, PayInv, SpendingTypeOK
<1> QED BY <1>1, <1>2 DEF PayInv, PaidByAStandingRun, Releasable

\* What a step does to payments: nothing, unless it is a payment or a release.
LEMMA PaymentSteps ==
    ASSUME PayInv, [SpendingNext]_spendingVars
    PROVE  PaymentKept \/ \E n \in Runs : MarkPaid(n) \/ ReleasePaid(n)
<1>1. CASE UNCHANGED encashment
  BY <1>1 DEF encashment, PaymentKept
<1>2. ASSUME NEW r \in Rows, CreateRequest(r) \/ Reject(r) PROVE PaymentKept
  BY <1>2, RequestsKeepPayment DEF CreateRequest, Reject
<1>3. ASSUME NEW r \in Rows, NEW u \in Actors, CheckRequest(r, u) \/ Approve(r, u)
      PROVE  PaymentKept
  BY <1>3, RequestsKeepPayment DEF CheckRequest, Approve, Approvable
<1>4. \A a \in Appliers : BuildPlan(a) \/ Apply(a) \/ RollBack(a) => UNCHANGED encashment
  BY DEF BuildPlan, Apply, RollBack
<1>5. \A e \in Staff : \/ FileOwnLeave(e) \/ ApproveOwnLeave(e) \/ RejectOwnLeave(e)
                       \/ CancelPending(e) \/ CancelApproved(e) \/ ClockIn(e)
                       \/ DeleteAttendance(e) \/ (\E k \in Bookings : CancelBooked(e, k))
                       => UNCHANGED encashment
  BY DEF FileOwnLeave, ApproveOwnLeave, RejectOwnLeave, CancelPending, DropPending,
     CancelApproved, ClockIn, DeleteAttendance, CancelBooked
<1>6. Declare \/ Cancel \/ LockPayrollPeriod \/ UNCHANGED spendingVars => UNCHANGED encashment
  BY DEF Declare, Cancel, LockPayrollPeriod, spendingVars
<1> QED BY <1>1, <1>2, <1>3, <1>4, <1>5, <1>6 DEF SpendingNext

LEMMA PayHolds == SpendingSpec => []PayInv
<1>1. SpendingInit => PaidByAStandingRun
  BY DEF SpendingInit, PaidByAStandingRun
<1>2. PayInv /\ [SpendingNext]_spendingVars => PaidByAStandingRun'
  BY PaymentSteps, KeptPayment, MarkPaidPays, ReleasePaidPays
<1>3. SpendingTypeOK /\ PaidByAStandingRun <=> PayInv
  BY DEF PayInv
<1>4. SpendingTypeOK /\ PaidByAStandingRun /\ [SpendingNext]_spendingVars
      => PaidByAStandingRun'
  BY <1>2, <1>3
<1> QED BY <1>1, <1>3, <1>4, SpendingTypeCorrect, PTL DEF SpendingSpec

\* A paid encashment has exactly one run that paid it, and that run is not voided.
THEOREM EncashmentsPaidByStandingRuns == SpendingSpec => []PaidByAStandingRun
<1>1. PayInv => PaidByAStandingRun
  BY DEF PayInv
<1> QED BY <1>1, PayHolds, PTL

\* While the run that paid a row stands, no other run pays it and none gives it back.
THEOREM EncashmentPaymentStands == SpendingSpec => PaymentStands
<1> DEFINE Stands == \A r \in Rows, n \in Runs :
                        row[r].run = {n} /\ run'[n] = "PAID" => row'[r].run = {n}
<1>1. ASSUME PayInv, [SpendingNext]_spendingVars PROVE Stands
  <2>1. CASE PaymentKept
    BY <2>1 DEF PaymentKept
  <2>2. ASSUME NEW m \in Runs, MarkPaid(m) PROVE Stands
    <3>1. \A r \in Rows, n \in Runs : row[r].run = {n} => ~Payable(r)
      BY <1>1 DEF Payable, PayInv, PaidByAStandingRun
    <3> QED BY <2>2, <3>1 DEF MarkPaid
  <2>3. ASSUME NEW m \in Runs, ReleasePaid(m) PROVE Stands
    <3>1. run'[m] = "VOIDED"
      BY <1>1, <2>3 DEF ReleasePaid, PayInv, SpendingTypeOK
    <3> QED BY <2>3, <3>1 DEF ReleasePaid, Releasable
  <2> QED BY <1>1, <2>1, <2>2, <2>3, PaymentSteps
<1>2. PayInv /\ [SpendingNext]_spendingVars => [Stands]_spendingVars
  BY <1>1
<1> QED BY <1>2, PayHolds, PTL DEF SpendingSpec, PaymentStands

-----------------------------------------------------------------------------
(* Every day is spent once.                                                *)

\* The rows whose days are out of an employee's balance, and the days of his own leave.
Spent(e) == Having(e, {"APPROVED", "PAID"})
OwnDays(e) == IF ownLeave[e] = "APPROVED" THEN 1 ELSE 0
LedgerOf(e) ==
    /\ balance[e].used = booked[e]["PAID"] + OwnDays(e) + SumOf(Days, Spent(e))
    /\ balance[e].remaining >= 0
SpentAsBooked == \A e \in Staff : LedgerOf(e)

LEMMA SpentIsOnce == EveryDaySpentOnce <=> SpentAsBooked
BY DEF EveryDaySpentOnce, SpentAsBooked, LedgerOf, OwnDays, Spent, DaysOf, SumOf

LEMMA SpentIsFinite ==
    ASSUME NEW e
    PROVE  /\ Spent(e) \in SUBSET Rows /\ IsFiniteSet(Spent(e))
           /\ \A r \in Spent(e) : Days[r] \in Nat
           /\ SumOf(Days, Spent(e)) \in Nat
<1>1. Spent(e) \in SUBSET Rows
  BY DEF Spent, Having
<1>2. IsFiniteSet(Spent(e)) /\ \A r \in Spent(e) : Days[r] \in Nat
  BY <1>1, SpendingAssumption, FS_Subset
<1> QED BY <1>1, <1>2, SumType

\* A step that leaves an employee's balance, bookings, leave and rows alone.
SpendsNothing(e) ==
    /\ balance'[e] = balance[e] /\ booked'[e]["PAID"] = booked[e]["PAID"]
    /\ ownLeave'[e] = "APPROVED" <=> ownLeave[e] = "APPROVED"
    /\ Spent(e)' = Spent(e)

LEMMA NothingSpent ==
    ASSUME NEW e \in Staff, LedgerOf(e), SpendsNothing(e)
    PROVE  LedgerOf(e)'
BY DEF LedgerOf, SpendsNothing, OwnDays

LEMMA ApproveSpends ==
    ASSUME SpendingTypeOK, SpentAsBooked, NEW r \in Rows, NEW u \in Actors, Approve(r, u)
    PROVE  SpentAsBooked'
<1> DEFINE o == OwnerOf[r]
<1>1. o \in Staff /\ Days[r] \in Nat
  BY SpendingAssumption
<1>2. ASSUME NEW e \in Staff, e # o PROVE LedgerOf(e)'
  <2>1. Spent(e)' = Spent(e)
    BY <1>2 DEF Approve, Spent, Having, SpendingTypeOK
  <2> QED
    BY <1>1, <1>2, <2>1, NothingSpent
       DEF Approve, collective, SpentAsBooked, LedgerOf, SpendsNothing, SpendingTypeOK
<1>3. LedgerOf(o)'
  <2>1. r \notin Spent(o)
    BY DEF Approve, Approvable, Spent, Having
  <2>2. Spent(o)' = Spent(o) \cup {r}
    BY DEF Approve, Spent, Having, SpendingTypeOK, Encashments
  <2>3. SumOf(Days, Spent(o) \cup {r}) = SumOf(Days, Spent(o)) + Days[r]
    BY <1>1, <2>1, SpentIsFinite, SumWith
  <2>4. balance'[o] = Deduct(balance[o], Days[r]) /\ balance[o] \in Balances
    BY <1>1 DEF Approve, SpendingTypeOK
  <2>5. balance'[o].used = balance[o].used + Days[r] /\ balance'[o].remaining >= 0
    BY <1>1, <2>4, DeductOne DEF Approve
  <2>6. SumOf(Days, Spent(o)') = SumOf(Days, Spent(o)) + Days[r]
    BY <2>2, <2>3
  <2>7. /\ SumOf(Days, Spent(o)) \in Nat /\ booked[o]["PAID"] \in Nat
        /\ OwnDays(o) \in Nat /\ OwnDays(o)' = OwnDays(o)
    BY <1>1, SpentIsFinite DEF OwnDays, Approve, collective, SpendingTypeOK, Bookings
  <2>8. balance'[o].used = booked[o]["PAID"] + OwnDays(o) + SumOf(Days, Spent(o)')
    BY <1>1, <2>5, <2>6, <2>7 DEF SpentAsBooked, LedgerOf
  <2> QED BY <2>5, <2>7, <2>8 DEF LedgerOf, Approve, collective
<1> QED BY <1>2, <1>3 DEF SpentAsBooked, LedgerOf

LEMMA OwnLeaveSpends ==
    ASSUME SpendingTypeOK, SpentAsBooked, NEW m \in Staff, ApproveOwnLeave(m)
    PROVE  SpentAsBooked'
<1>1. \A e \in Staff : Spent(e)' = Spent(e)
  BY DEF ApproveOwnLeave, encashment, Spent, Having
<1>2. ASSUME NEW e \in Staff, e # m PROVE LedgerOf(e)'
  BY <1>1, <1>2, NothingSpent
     DEF ApproveOwnLeave, SpentAsBooked, LedgerOf, SpendsNothing, SpendingTypeOK
<1>3. LedgerOf(m)'
  <2>1. balance'[m] = Deduct(balance[m], 1) /\ balance[m] \in Balances
    BY DEF ApproveOwnLeave, SpendingTypeOK
  <2>2. balance'[m].used = balance[m].used + 1 /\ balance'[m].remaining >= 0
    BY <2>1, DeductOne DEF ApproveOwnLeave
  <2>3. OwnDays(m) = 0 /\ OwnDays(m)' = 1
    BY DEF ApproveOwnLeave, OwnDays, SpendingTypeOK
  <2>4. SumOf(Days, Spent(m)) \in Nat /\ booked[m]["PAID"] \in Nat
    BY SpentIsFinite DEF SpendingTypeOK, Bookings
  <2>5. balance[m].used = booked[m]["PAID"] + 0 + SumOf(Days, Spent(m))
    BY <2>3 DEF SpentAsBooked, LedgerOf
  <2>6. balance'[m].used = booked[m]["PAID"] + 1 + SumOf(Days, Spent(m))
    BY <2>2, <2>4, <2>5
  <2> QED BY <1>1, <2>2, <2>3, <2>6 DEF LedgerOf, ApproveOwnLeave
<1> QED BY <1>2, <1>3 DEF SpentAsBooked, LedgerOf

LEMMA RestoreOne ==
    ASSUME NEW b \in Balances, b.used >= 1
    PROVE  Restore(b, 1).used = b.used - 1 /\ Restore(b, 1).remaining >= 0
<1>1. 1 \in Nat  OBVIOUS
<1>2. Restore(b, 1).used = b.used - 1  BY <1>1, RowWrites
<1>3. /\ Restore(b, 1).remaining = AtLeast0(Restore(b, 1).total - Restore(b, 1).used)
      /\ Restore(b, 1) \in Balances
  BY <1>1, LeftWrites, RowWrites
<1>4. AtLeast0(Restore(b, 1).total - Restore(b, 1).used) \in Nat
  BY <1>3, LeftIsANumber DEF Balances
<1> QED  BY <1>2, <1>3, <1>4

\* A cancelled leave gives back the day it took, and no other.
LEMMA OwnLeaveReturns ==
    ASSUME SpendingTypeOK, SpentAsBooked, NEW m \in Staff, CancelApproved(m)
    PROVE  SpentAsBooked'
<1>1. \A e \in Staff : Spent(e)' = Spent(e)
  BY DEF CancelApproved, encashment, Spent, Having
<1>2. ASSUME NEW e \in Staff, e # m PROVE LedgerOf(e)'
  BY <1>1, <1>2, NothingSpent
     DEF CancelApproved, SpentAsBooked, LedgerOf, SpendsNothing, SpendingTypeOK
<1>3. LedgerOf(m)'
  <2>1. balance'[m] = Restore(balance[m], 1) /\ balance[m] \in Balances
    BY DEF CancelApproved, SpendingTypeOK
  <2>2. OwnDays(m) = 1 /\ OwnDays(m)' = 0
    BY DEF CancelApproved, OwnDays, SpendingTypeOK
  <2>3. SumOf(Days, Spent(m)) \in Nat /\ booked[m]["PAID"] \in Nat
    BY SpentIsFinite DEF SpendingTypeOK, Bookings
  <2>4. balance[m].used = booked[m]["PAID"] + 1 + SumOf(Days, Spent(m))
    BY <2>2 DEF SpentAsBooked, LedgerOf
  <2>5. balance'[m].used = balance[m].used - 1 /\ balance'[m].remaining >= 0
    BY <2>1, <2>3, <2>4, RestoreOne
  <2>6. balance'[m].used = booked[m]["PAID"] + 0 + SumOf(Days, Spent(m))
    BY <2>3, <2>4, <2>5
  <2> QED BY <1>1, <2>2, <2>5, <2>6 DEF LedgerOf, CancelApproved
<1> QED BY <1>2, <1>3 DEF SpentAsBooked, LedgerOf

\* A cancelled booking gives back a day where it had taken one.
LEMMA BookingReturns ==
    ASSUME SpendingTypeOK, SpentAsBooked, NEW m \in Staff, NEW k \in Bookings,
           CancelBooked(m, k)
    PROVE  SpentAsBooked'
<1>1. \A e \in Staff : Spent(e)' = Spent(e) /\ OwnDays(e)' = OwnDays(e)
  BY DEF CancelBooked, encashment, Spent, Having, OwnDays
<1>2. booked \in [Staff -> [Bookings -> Nat]] /\ balance \in [Staff -> Balances]
  BY DEF SpendingTypeOK
<1>3. ASSUME NEW e \in Staff, e # m PROVE LedgerOf(e)'
  BY <1>1, <1>2, <1>3 DEF CancelBooked, SpentAsBooked, LedgerOf
<1>4. LedgerOf(m)'
  <2>1. /\ SumOf(Days, Spent(m)) \in Nat /\ booked[m]["PAID"] \in Nat /\ OwnDays(m) \in Nat
    BY SpentIsFinite DEF SpendingTypeOK, Bookings, OwnDays
  <2>2. balance[m].used = booked[m]["PAID"] + OwnDays(m) + SumOf(Days, Spent(m))
        /\ balance[m].remaining >= 0
    BY DEF SpentAsBooked, LedgerOf
  <2>3. CASE k = "PAID"
    <3>1. balance'[m] = Restore(balance[m], 1) /\ booked'[m]["PAID"] = booked[m]["PAID"] - 1
          /\ booked[m]["PAID"] > 0
      BY <1>2, <2>3 DEF CancelBooked
    <3>2. balance'[m].used = balance[m].used - 1 /\ balance'[m].remaining >= 0
      BY <1>2, <2>1, <2>2, <3>1, RestoreOne
    <3>3. balance'[m].used = booked'[m]["PAID"] + OwnDays(m) + SumOf(Days, Spent(m))
      BY <2>1, <2>2, <3>1, <3>2
    <3> QED BY <1>1, <3>2, <3>3 DEF LedgerOf
  <2>4. CASE k # "PAID"
    <3>1. balance'[m] = balance[m] /\ booked'[m]["PAID"] = booked[m]["PAID"]
      BY <1>2, <2>4 DEF CancelBooked
    <3> QED BY <1>1, <2>2, <3>1 DEF LedgerOf
  <2> QED BY <2>3, <2>4
<1> QED BY <1>3, <1>4 DEF SpentAsBooked, LedgerOf

LEMMA ApplySpends ==
    ASSUME SpendingTypeOK, SpentAsBooked, NEW a \in Appliers, Apply(a)
    PROVE  SpentAsBooked'
<1>1. PICK p \in plan[a] :
        /\ balance' = [e \in Staff |-> IF e \in PaidFrom(p) THEN Deduct(balance[e], 1)
                                                            ELSE balance[e]]
        /\ booked' = Booked(p)
  BY DEF Apply
<1>2. \A e \in Staff : Spent(e)' = Spent(e) /\ OwnDays(e)' = OwnDays(e)
  BY DEF Apply, encashment, Spent, Having, OwnDays
<1>3. \A e \in Staff : booked'[e]["PAID"] = booked[e]["PAID"]
                                             + (IF e \in PaidFrom(p) THEN 1 ELSE 0)
  BY <1>1 DEF Booked, Bookings
<1>4. ASSUME NEW e \in Staff PROVE LedgerOf(e)'
  <2>1. /\ SumOf(Days, Spent(e)) \in Nat /\ booked[e]["PAID"] \in Nat /\ OwnDays(e) \in Nat
        /\ balance[e] \in Balances
    BY SpentIsFinite DEF SpendingTypeOK, Bookings, OwnDays
  <2>2. balance[e].used = booked[e]["PAID"] + OwnDays(e) + SumOf(Days, Spent(e))
    BY DEF SpentAsBooked, LedgerOf
  <2>3. CASE e \in PaidFrom(p)
    <3>1. balance'[e].used = balance[e].used + 1 /\ balance'[e].remaining >= 0
      BY <1>1, <2>1, <2>3, DeductOne DEF PaidFrom
    <3>2. booked'[e]["PAID"] = booked[e]["PAID"] + 1
      BY <1>3, <2>3
    <3>3. balance'[e].used = booked'[e]["PAID"] + OwnDays(e) + SumOf(Days, Spent(e))
      BY <2>1, <2>2, <3>1, <3>2
    <3> QED BY <1>2, <3>1, <3>3 DEF LedgerOf
  <2>4. CASE e \notin PaidFrom(p)
    <3>1. balance'[e] = balance[e] /\ booked'[e]["PAID"] = booked[e]["PAID"]
      BY <1>1, <1>3, <2>1, <2>4
    <3> QED BY <1>2, <2>2, <3>1 DEF LedgerOf, SpentAsBooked
  <2> QED BY <2>3, <2>4
<1> QED BY <1>4 DEF SpentAsBooked, LedgerOf

\* Payment and release move rows between APPROVED and PAID, and their days stay spent.
LEMMA RunsSpendNothing ==
    ASSUME SpendingTypeOK, NEW n \in Runs, MarkPaid(n) \/ ReleasePaid(n), NEW e \in Staff
    PROVE  SpendsNothing(e)
<1>1. ASSUME NEW r \in Rows
      PROVE  row'[r].status \in {"APPROVED", "PAID"} <=> row[r].status \in {"APPROVED", "PAID"}
  <2>1. row[r] \in Encashments
    BY DEF SpendingTypeOK
  <2>2. CASE MarkPaid(n)
    <3>1. CASE Payable(r)
      <4>1. row'[r] = [[row[r] EXCEPT !.status = "PAID"] EXCEPT !.run = {n}]
        BY <2>2, <3>1 DEF MarkPaid
      <4> QED BY <2>1, <3>1, <4>1 DEF Payable, Encashments
    <3>2. CASE ~Payable(r)
      BY <2>2, <3>2 DEF MarkPaid
    <3> QED BY <3>1, <3>2
  <2>3. CASE ReleasePaid(n)
    <3>1. CASE Releasable(r, n)
      <4>1. row'[r] = [[row[r] EXCEPT !.status = "APPROVED"] EXCEPT !.run = {}]
        BY <2>3, <3>1 DEF ReleasePaid
      <4> QED BY <2>1, <3>1, <4>1 DEF Releasable, Encashments
    <3>2. CASE ~Releasable(r, n)
      BY <2>3, <3>2 DEF ReleasePaid
    <3> QED BY <3>1, <3>2
  <2> QED BY <2>2, <2>3
<1>2. Spent(e)' = Spent(e)
  BY <1>1 DEF Spent, Having
<1> QED BY <1>2 DEF MarkPaid, ReleasePaid, collective, SpendsNothing

LEMMA RequestsSpendNothing ==
    ASSUME SpendingTypeOK, NEW r \in Rows,
           CreateRequest(r) \/ Reject(r) \/ \E u \in Actors : CheckRequest(r, u), NEW e \in Staff
    PROVE  SpendsNothing(e)
<1>1. ASSUME NEW q \in Rows
      PROVE  row'[q].status \in {"APPROVED", "PAID"} <=> row[q].status \in {"APPROVED", "PAID"}
  <2>1. row[q] \in Encashments
    BY DEF SpendingTypeOK
  <2>2. CASE q # r
    BY <2>2 DEF CreateRequest, Reject, CheckRequest, SpendingTypeOK
  <2>3. CASE q = r
    <3>1. row[q].status \in {"NONE", "CHECKED", "PENDING"}
      BY <2>3 DEF CreateRequest, Reject, CheckRequest
    <3>2. row'[q].status \in {"CHECKED", "PENDING", "REJECTED"}
      BY <2>1, <2>3 DEF CreateRequest, Reject, CheckRequest, SpendingTypeOK, Encashments
    <3> QED BY <3>1, <3>2
  <2> QED BY <2>2, <2>3
<1>2. Spent(e)' = Spent(e)
  BY <1>1 DEF Spent, Having
<1> QED BY <1>2 DEF CreateRequest, Reject, CheckRequest, collective, SpendsNothing

LEMMA SpentStep ==
    SpendingTypeOK /\ SpentAsBooked /\ [SpendingNext]_spendingVars => SpentAsBooked'
<1> SUFFICES ASSUME SpendingTypeOK, SpentAsBooked, [SpendingNext]_spendingVars
             PROVE  SpentAsBooked'
  OBVIOUS
<1>1. ASSUME \A e \in Staff : SpendsNothing(e) PROVE SpentAsBooked'
  <2>1. \A e \in Staff : LedgerOf(e)
    BY DEF SpentAsBooked, LedgerOf
  <2>2. \A e \in Staff : LedgerOf(e)'
    BY <1>1, <2>1, NothingSpent
  <2> QED BY <2>2 DEF SpentAsBooked, LedgerOf
<1>2. ASSUME UNCHANGED <<balance, ownLeave, booked, row>> PROVE SpentAsBooked'
  BY <1>1, <1>2 DEF SpendsNothing, Spent, Having
<1>3. CASE Declare \/ Cancel \/ LockPayrollPeriod \/ UNCHANGED spendingVars
  BY <1>2, <1>3
     DEF Declare, Cancel, LockPayrollPeriod, spendingVars, collective, encashment
<1>4. ASSUME NEW a \in Appliers, BuildPlan(a) \/ RollBack(a) PROVE SpentAsBooked'
  BY <1>2, <1>4 DEF BuildPlan, RollBack, encashment
<1>5. ASSUME NEW m \in Staff,
             \/ FileOwnLeave(m) \/ RejectOwnLeave(m) \/ CancelPending(m)
             \/ ClockIn(m) \/ DeleteAttendance(m)
      PROVE  SpentAsBooked'
  <2>1. \A e \in Staff : ownLeave'[e] = "APPROVED" <=> ownLeave[e] = "APPROVED"
    BY <1>5 DEF FileOwnLeave, RejectOwnLeave, CancelPending, DropPending, ClockIn,
       DeleteAttendance, SpendingTypeOK
  <2> QED
    BY <1>1, <1>5, <2>1 DEF FileOwnLeave, RejectOwnLeave, CancelPending, DropPending, ClockIn,
       DeleteAttendance, encashment, SpendsNothing, Spent, Having
<1>6. ASSUME NEW r \in Rows, CreateRequest(r) \/ Reject(r) \/ \E u \in Actors : CheckRequest(r, u)
      PROVE  SpentAsBooked'
  BY <1>1, <1>6, RequestsSpendNothing
<1>7. ASSUME NEW n \in Runs, MarkPaid(n) \/ ReleasePaid(n) PROVE SpentAsBooked'
  BY <1>1, <1>7, RunsSpendNothing
<1> QED
  BY <1>3, <1>4, <1>5, <1>6, <1>7, ApplySpends, OwnLeaveSpends, OwnLeaveReturns, BookingReturns,
     ApproveSpends DEF SpendingNext

\* The used days of a balance are the days booked, taken and exchanged, each once, and
\* what is left is never negative: lost races and voided runs leave no day behind.
THEOREM DaysSpentOnce == SpendingSpec => []EveryDaySpentOnce
<1>1. SpendingInit => SpentAsBooked
  <2> SUFFICES ASSUME SpendingInit, NEW e \in Staff PROVE LedgerOf(e)
    BY DEF SpentAsBooked, LedgerOf
  <2>1. Spent(e) = {}
    BY DEF SpendingInit, Spent, Having
  <2>2. SumOf(Days, Spent(e)) = 0
    BY <2>1, SumEmpty
  <2>3. balance[e] = SetTotal(NoBalance, Allocation[e]) /\ Allocation[e] \in Nat
    BY SpendingAssumption DEF SpendingInit
  <2>4. balance[e].used = 0
    BY <2>3 DEF SetTotal, NoBalance
  <2>5. balance[e].remaining >= 0
    BY <2>3 DEF SetTotal, NoBalance, AtLeast0
  <2>6. booked[e]["PAID"] = 0 /\ OwnDays(e) = 0
    BY DEF SpendingInit, Bookings, OwnDays
  <2> QED BY <2>2, <2>4, <2>5, <2>6 DEF LedgerOf
<1> QED BY <1>1, SpentStep, SpendingTypeCorrect, SpentIsOnce, PTL DEF SpendingSpec
=============================================================================
