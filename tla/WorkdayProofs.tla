---------------------------- MODULE WorkdayProofs -----------------------------
(***************************************************************************)
(* The days payroll reads: what was worked, and what was planned.          *)
(*                                                                         *)
(* For any days, corrections and calls: what is past the guard is known    *)
(* when the period is locked, so everything else stands still; presence    *)
(* and check-outs are lost only to those who may take them; and a refused  *)
(* correction left no trace unless two approvers decided at once.          *)
(*                                                                         *)
(* For any employees, dates, swaps and calls: payroll can justify every    *)
(* swap it reads, a swap that no overlap or revival touched is whole, and  *)
(* a locked date is rewritten by nobody but a swap.                        *)
(***************************************************************************)
EXTENDS Attendance, ShiftRoster, TLAPS

-----------------------------------------------------------------------------
(* Attendance.                                                             *)

\* A call on a correction is one of its two decisions, any other is on a day.
OpsFit ==
    \A r \in Requests :
        /\ op[r].do \in {"APPROVE", "REJECT"} =>
             op[r].on \in Corrections /\ correction[op[r].on].day \in Days
        /\ op[r].do \in {"CREATE", "CHECK_OUT", "STATUS", "DELETE"} =>
             op[r].on \in Days
        /\ op[r].do = "IDLE" => op[r] = Idle
FiledHasDay == \A c \in Corrections : correction[c].status # "NONE" => correction[c].day \in Days

\* Whatever may still write while the period is locked was under way by then.
StragglersKnown ==
    locked => /\ sweep.days \subseteq underway
              /\ \A r \in Requests :
                   op[r].do \in {"CREATE", "CHECK_OUT", "STATUS", "DELETE", "APPROVE"} =>
                     DayOf(op[r]) \in underway

\* Outside contested corrections there is one decision at a time, on a pending request.
OneDecision ==
    /\ \A r \in Requests : op[r].on \in Corrections \ contested =>
         /\ correction[op[r].on].status = "PENDING"
         /\ \A s \in Requests : op[s].on = op[r].on => s = r
    /\ \A c \in applied \ contested : correction[c].status = "APPROVED"

IInv == TypeOK /\ OpsFit /\ FiledHasDay /\ StragglersKnown /\ OneDecision

-----------------------------------------------------------------------------
USE AttendanceAssumption

\* What is written keeps its form.
LEMMA RowForms ==
    /\ NoRow \in Rows /\ AbsentRow \in Rows
    /\ [NoRow EXCEPT !.status = "PRESENT", !.in = "OWN"] \in Rows
    /\ [NoRow EXCEPT !.status = "PRESENT", !.in = "OWN", !.out = "OWN"] \in Rows
    /\ [NoRow EXCEPT !.status = "OTHER"] \in Rows
BY DEF NoRow, AbsentRow, Rows, Statuses, Times

LEMMA RowUpdates ==
    ASSUME NEW w \in Rows
    PROVE  /\ [w EXCEPT !.out = "OWN"] \in Rows /\ [w EXCEPT !.out = "AUTO"] \in Rows
           /\ [w EXCEPT !.deleted = TRUE] \in Rows
           /\ \A s \in Statuses : [w EXCEPT !.status = s] \in Rows
           /\ \A in, out \in BOOLEAN : Corrected(w, in, out) \in Rows
BY DEF Rows, Statuses, Times, Corrected

LEMMA OpForms ==
    /\ Idle \in Ops
    /\ \A what \in Kinds, on \in Days \cup Corrections, saw \in BOOLEAN :
         [do |-> what, on |-> on, sawOut |-> saw] \in Ops
BY DEF Idle, Ops

LEMMA FilingForms ==
    /\ [status |-> "NONE", day |-> Nothing, linked |-> FALSE] \in Filings
    /\ \A d \in Days, b \in BOOLEAN : [status |-> "PENDING", day |-> d, linked |-> b] \in Filings
    /\ \A f \in Filings : /\ [f EXCEPT !.status = "APPROVED"] \in Filings
                          /\ [f EXCEPT !.status = "REJECTED"] \in Filings
BY DEF Filings

\* Beginning a call, or ending it, keeps the calls' types.
LEMMA BeginType ==
    ASSUME TypeOK, NEW r \in Requests, NEW what \in Kinds, NEW on \in Days \cup Corrections,
           NEW d, Begin(r, what, on, d)
    PROVE  op' \in [Requests -> Ops]
<1>1. (row[d].out # "NONE") \in BOOLEAN  OBVIOUS
<1>2. [do |-> what, on |-> on, sawOut |-> row[d].out # "NONE"] \in Ops
  BY <1>1, OpForms
<1> HIDE DEF Ops
<1> QED  BY <1>2 DEF Begin, TypeOK

LEMMA EndsType ==
    ASSUME TypeOK, NEW r \in Requests, NEW what, Ends(r, what)
    PROVE  op' \in [Requests -> Ops] /\ op[r].do = what
<1> HIDE DEF Ops
<1> QED  BY OpForms DEF Ends, TypeOK

LEMMA WriteType ==
    ASSUME TypeOK, NEW d \in Days, NEW w \in Rows, Write(d, w)
    PROVE  row' \in [Days -> Rows]
BY DEF Write, TypeOK

LEMMA InitIInv == Init => IInv
<1> SUFFICES ASSUME Init PROVE IInv  OBVIOUS
<1>1. TypeOK
  BY RowForms, OpForms, FilingForms DEF Init, TypeOK, NoSweep
<1>2. FiledHasDay /\ StragglersKnown  BY DEF Init, FiledHasDay, StragglersKnown
<1>3. OpsFit /\ OneDecision  BY DEF Init, OpsFit, OneDecision, Idle
<1> QED  BY <1>1, <1>2, <1>3 DEF IInv

\* The types.
LEMMA TypeStep == TypeOK /\ OpsFit /\ [Next]_vars => TypeOK'
<1> SUFFICES ASSUME TypeOK, OpsFit, [Next]_vars PROVE TypeOK'  OBVIOUS
<1> USE DEF asides
<1>0. row \in [Days -> Rows] /\ op \in [Requests -> Ops] /\ correction \in [Corrections -> Filings]
  BY DEF TypeOK
<1>1. ASSUME NEW r \in Requests, NEW d \in Days,
             BeginCreate(r, d) \/ BeginCheckOut(r, d) \/ BeginHR(r, d, "STATUS")
               \/ BeginHR(r, d, "DELETE")
      PROVE  TypeOK'
  <2>1. \E what \in Kinds : Begin(r, what, d, d)
    BY <1>1 DEF BeginCreate, BeginCheckOut, BeginHR, Kinds
  <2>2. op' \in [Requests -> Ops]  BY <2>1, BeginType
  <2> QED  BY <1>1, <2>2 DEF BeginCreate, BeginCheckOut, BeginHR, TypeOK
<1>2. ASSUME NEW r \in Requests, Create(r) PROVE TypeOK'
  <2>1. op' \in [Requests -> Ops] /\ op[r].do = "CREATE"  BY <1>2, EndsType DEF Create
  <2>2. op[r].on \in Days  BY <2>1 DEF OpsFit
  <2>3. PICK w \in {[NoRow EXCEPT !.status = "PRESENT", !.in = "OWN"],
                    [NoRow EXCEPT !.status = "PRESENT", !.in = "OWN", !.out = "OWN"],
                    [NoRow EXCEPT !.status = "OTHER"]} : Inserted(op[r].on, w)
    BY <1>2 DEF Create
  <2>4. w \in Rows  BY <2>3, RowForms
  <2>5. row' \in [Days -> Rows]
    BY <2>2, <2>3, <2>4, <1>0, WriteType DEF Inserted
  <2> QED  BY <1>2, <2>1, <2>5 DEF Create, TypeOK
<1>3. ASSUME NEW r \in Requests, CheckOut(r) \/ Delete(r)
             \/ \E status \in {"PRESENT", "ABSENT", "OTHER"} : SetStatus(r, status)
      PROVE  TypeOK'
  <2>1. op' \in [Requests -> Ops] /\ op[r].do \in {"CHECK_OUT", "DELETE", "STATUS"}
    BY <1>3, EndsType DEF CheckOut, Delete, SetStatus
  <2>2. op[r].on \in Days  BY <2>1 DEF OpsFit
  <2>3. row[op[r].on] \in Rows  BY <2>2, <1>0
  <2>4. \E w \in Rows : Write(op[r].on, w)
    BY <1>3, <2>3, RowUpdates DEF CheckOut, Delete, SetStatus, Statuses
  <2>5. row' \in [Days -> Rows]  BY <2>2, <2>4, WriteType
  <2> QED  BY <1>3, <2>1, <2>5 DEF CheckOut, Delete, SetStatus, TypeOK
<1>4. ASSUME NEW c \in Corrections, NEW d \in Days, NEW linked \in BOOLEAN,
             FileCorrection(c, d, linked)
      PROVE  TypeOK'
  <2>1. correction' \in [Corrections -> Filings]
    <3> HIDE DEF Filings
    <3> QED  BY <1>4, <1>0, FilingForms DEF FileCorrection
  <2> QED  BY <1>4, <2>1 DEF FileCorrection, TypeOK
<1>5. ASSUME NEW r \in Requests, NEW c \in Corrections, BeginApprove(r, c) \/ BeginReject(r, c)
      PROVE  TypeOK'
  <2>1. \E what \in Kinds : \E d : Begin(r, what, c, d)
    BY <1>5 DEF BeginApprove, BeginReject, BeginDecision, Kinds
  <2>2. op' \in [Requests -> Ops]  BY <2>1, BeginType
  <2> QED  BY <1>5, <2>2 DEF BeginApprove, BeginReject, BeginDecision, TypeOK
<1>6. ASSUME NEW r \in Requests, NEW in \in BOOLEAN, NEW out \in BOOLEAN, Approve(r, in, out)
      PROVE  TypeOK'
  <2>1. op' \in [Requests -> Ops] /\ op[r].do = "APPROVE"  BY <1>6, EndsType DEF Approve
  <2>2. op[r].on \in Corrections /\ correction[op[r].on].day \in Days  BY <2>1 DEF OpsFit
  <2>3. CASE UNCHANGED <<row, correction, applied>>
    BY <1>6, <2>1, <2>3 DEF Approve, TypeOK
  <2>4. CASE ~UNCHANGED <<row, correction, applied>>
    <3> DEFINE c == op[r].on
               w == Corrected(row[correction[c].day], in, out)
    <3>1. Write(correction[c].day, w) /\ w \in Rows
      BY <1>6, <2>2, <2>4, <1>0, RowUpdates DEF Approve
    <3>2. row' \in [Days -> Rows]  BY <2>2, <3>1, WriteType
    <3>3. correction' = [correction EXCEPT ![c].status = "APPROVED"]
          /\ applied' = applied \cup {c}
      BY <1>6, <2>4 DEF Approve
    <3>4. correction' \in [Corrections -> Filings]
      <4>1. [correction[c] EXCEPT !.status = "APPROVED"] \in Filings
        BY <2>2, <1>0, FilingForms
      <4> HIDE DEF Filings, c
      <4> QED  BY <3>3, <4>1, <1>0
    <3> QED  BY <1>6, <2>1, <2>2, <3>2, <3>3, <3>4 DEF Approve, TypeOK
  <2> QED  BY <2>3, <2>4
<1>7. ASSUME NEW r \in Requests, Reject(r) PROVE TypeOK'
  <2>1. op' \in [Requests -> Ops] /\ op[r].do = "REJECT"  BY <1>7, EndsType DEF Reject
  <2>2. op[r].on \in Corrections  BY <2>1 DEF OpsFit
  <2>3. correction' \in [Corrections -> Filings]
    <3>1. [correction[op[r].on] EXCEPT !.status = "REJECTED"] \in Filings
      BY <2>2, <1>0, FilingForms
    <3> HIDE DEF Filings
    <3> QED  BY <1>7, <3>1, <1>0 DEF Reject
  <2> QED  BY <1>7, <2>1, <2>3 DEF Reject, TypeOK
<1>8. CASE BeginAbsent \/ BeginAutoCheckout
  <2>1. PICK job \in {"ABSENT", "CHECK_OUT"}, days \in SUBSET Days : BeginSweep(job, days)
    BY <1>8 DEF BeginAbsent, BeginAutoCheckout, Absentees, OpenRows
  <2> QED  BY <2>1 DEF BeginSweep, TypeOK
<1>9. CASE MarkAbsent
  <2>1. row' \in [Days -> Rows]  BY <1>9, <1>0, RowForms DEF MarkAbsent
  <2>2. NoSweep \in [job : {"IDLE", "ABSENT", "CHECK_OUT"}, days : SUBSET Days]  BY DEF NoSweep
  <2> QED  BY <1>9, <2>1, <2>2 DEF MarkAbsent, TypeOK
<1>10. ASSUME NEW d \in Days, AutoCheckout(d) PROVE TypeOK'
  <2>1. row' \in [Days -> Rows]  BY <1>10, <1>0, RowUpdates, WriteType DEF AutoCheckout
  <2>2. sweep' \in [job : {"IDLE", "ABSENT", "CHECK_OUT"}, days : SUBSET Days]
    BY <1>10 DEF AutoCheckout, NoSweep, TypeOK
  <2> QED  BY <1>10, <2>1, <2>2 DEF AutoCheckout, TypeOK
<1>11. CASE SweepDies  BY <1>11 DEF SweepDies, NoSweep, TypeOK
<1>12. CASE LockPeriod
  <2>1. \A r \in Requests : op[r] # Idle => DayOf(op[r]) \in Days
    BY <1>0 DEF OpsFit, DayOf, Ops, Kinds
  <2>2. underway' \subseteq Days  BY <1>12, <2>1 DEF LockPeriod, TypeOK
  <2> QED  BY <1>12, <2>2 DEF LockPeriod, TypeOK
<1>13. CASE UNCHANGED vars  BY <1>13 DEF vars, TypeOK
<1> QED
  BY <1>1, <1>2, <1>3, <1>4, <1>5, <1>6, <1>7, <1>8, <1>9, <1>10, <1>11, <1>12, <1>13 DEF Next

-----------------------------------------------------------------------------
\* What a step does to the calls: one of them begins on a day, begins on a pending
\* correction, or ends; or none of them changes.
BeginsOnDay(r, d) ==
    \E what \in {"CREATE", "CHECK_OUT", "STATUS", "DELETE"} :
      /\ Begin(r, what, d, d) /\ DateOpen(d)
      /\ UNCHANGED <<correction, sweep, asides>>
Decides(r, c) ==
    \E what \in {"APPROVE", "REJECT"} :
      /\ BeginDecision(r, c, what) /\ Undecided(c) /\ (what = "APPROVE" => DateOpen(Nothing))
EndsOnDay(r) ==
    /\ op[r].do \in {"CREATE", "CHECK_OUT", "STATUS", "DELETE"}
    /\ op' = [op EXCEPT ![r] = Idle]
    /\ UNCHANGED <<correction, sweep, asides>>
    /\ \A d \in Days : row'[d] # row[d] => d = op[r].on
EndsDecision(r) ==
    /\ op[r].do \in {"APPROVE", "REJECT"}
    /\ op' = [op EXCEPT ![r] = Idle]
    /\ UNCHANGED <<sweep, locked, underway, contested>>
    /\ \/ UNCHANGED <<row, correction, applied>>
       \/ /\ op[r].do = "APPROVE" /\ applied' = applied \cup {op[r].on}
          /\ correction' = [correction EXCEPT ![op[r].on].status = "APPROVED"]
          /\ \A d \in Days : row'[d] # row[d] => d = correction[op[r].on].day
       \/ /\ op[r].do = "REJECT" /\ UNCHANGED <<row, applied>>
          /\ correction' = [correction EXCEPT ![op[r].on].status = "REJECTED"]
Aside ==
    /\ UNCHANGED <<op, applied, contested>>
    /\ \/ /\ UNCHANGED <<sweep, locked, underway, row>>
          /\ \/ UNCHANGED correction
             \/ \E c \in Corrections, d \in Days, b \in BOOLEAN : FileCorrection(c, d, b)
       \/ /\ UNCHANGED <<correction, locked, underway>>
          /\ \/ ~locked /\ UNCHANGED row
             \/ /\ sweep'.days \subseteq sweep.days
                /\ \A d \in Days : row'[d] # row[d] => d \in sweep.days
       \/ LockPeriod

LEMMA Shapes ==
    ASSUME TypeOK, OpsFit, [Next]_vars
    PROVE  \/ \E r \in Requests, d \in Days : BeginsOnDay(r, d)
           \/ \E r \in Requests, c \in Corrections : Decides(r, c)
           \/ \E r \in Requests : EndsOnDay(r) \/ EndsDecision(r)
           \/ Aside
<1> USE DEF asides
<1>0. row \in [Days -> Rows]  BY DEF TypeOK
<1>1. ASSUME NEW r \in Requests, NEW d \in Days,
             BeginCreate(r, d) \/ BeginCheckOut(r, d) \/ BeginHR(r, d, "STATUS")
               \/ BeginHR(r, d, "DELETE")
      PROVE  BeginsOnDay(r, d)
  BY <1>1 DEF BeginCreate, BeginCheckOut, BeginHR, BeginsOnDay
<1>2. ASSUME NEW r \in Requests,
             \/ Create(r) \/ CheckOut(r) \/ Delete(r)
             \/ \E status \in {"PRESENT", "ABSENT", "OTHER"} : SetStatus(r, status)
      PROVE  EndsOnDay(r)
  <2>1. op[r].do \in {"CREATE", "CHECK_OUT", "STATUS", "DELETE"}
    BY <1>2 DEF Create, CheckOut, Delete, SetStatus, Ends
  <2>2. \A d \in Days : row'[d] # row[d] => d = op[r].on
    BY <1>2, <1>0 DEF Create, CheckOut, Delete, SetStatus, Inserted, Write
  <2> QED  BY <1>2, <2>1, <2>2 DEF Create, CheckOut, Delete, SetStatus, Ends, EndsOnDay
<1>3. ASSUME NEW r \in Requests, NEW c \in Corrections, BeginApprove(r, c) \/ BeginReject(r, c)
      PROVE  Decides(r, c)
  BY <1>3 DEF BeginApprove, BeginReject, Decides, StillOpen, DateOpen
<1>4. ASSUME NEW r \in Requests, NEW in \in BOOLEAN, NEW out \in BOOLEAN, Approve(r, in, out)
      PROVE  EndsDecision(r)
  <2>1. \A d \in Days : row'[d] # row[d] => d = correction[op[r].on].day
    BY <1>4, <1>0 DEF Approve, Write
  <2> QED  BY <1>4, <2>1 DEF Approve, Ends, EndsDecision
<1>5. ASSUME NEW r \in Requests, Reject(r) PROVE EndsDecision(r)
  BY <1>5 DEF Reject, Ends, EndsDecision
<1>6. ASSUME NEW c \in Corrections, NEW d \in Days, NEW b \in BOOLEAN, FileCorrection(c, d, b)
      PROVE  Aside
  BY <1>6 DEF FileCorrection, Aside
<1>7. CASE BeginAbsent \/ BeginAutoCheckout
  <2>1. PICK job \in {"ABSENT", "CHECK_OUT"}, days \in SUBSET Days : BeginSweep(job, days)
    BY <1>7 DEF BeginAbsent, BeginAutoCheckout, Absentees, OpenRows
  <2> QED  BY <2>1 DEF BeginSweep, DateOpen, Aside
<1>8. CASE MarkAbsent
  BY <1>8, <1>0 DEF MarkAbsent, NoSweep, Aside
<1>9. ASSUME NEW d \in Days, AutoCheckout(d) PROVE Aside
  <2>1. sweep'.days \subseteq sweep.days  BY <1>9 DEF AutoCheckout, NoSweep, TypeOK
  <2>2. \A e \in Days : row'[e] # row[e] => e \in sweep.days
    BY <1>9, <1>0 DEF AutoCheckout, Write
  <2> QED  BY <1>9, <2>1, <2>2 DEF AutoCheckout, Aside
<1>10. CASE SweepDies  BY <1>10, <1>0 DEF SweepDies, NoSweep, Aside
<1>11. CASE LockPeriod  BY <1>11 DEF LockPeriod, Aside
<1>12. CASE UNCHANGED vars  BY <1>12 DEF vars, Aside
<1> QED
  BY <1>1, <1>2, <1>3, <1>4, <1>5, <1>6, <1>7, <1>8, <1>9, <1>10, <1>11, <1>12 DEF Next

\* The rest of the invariant, by the shapes of a step.
LEMMA RestStep == IInv /\ [Next]_vars => OpsFit' /\ FiledHasDay' /\ StragglersKnown' /\ OneDecision'
<1> SUFFICES ASSUME IInv, [Next]_vars
             PROVE OpsFit' /\ FiledHasDay' /\ StragglersKnown' /\ OneDecision'
  OBVIOUS
<1> DEFINE Goal == OpsFit' /\ FiledHasDay' /\ StragglersKnown' /\ OneDecision'
<1>0. TypeOK /\ OpsFit /\ FiledHasDay /\ StragglersKnown /\ OneDecision  BY DEF IInv
<1>a. op \in [Requests -> Ops] /\ correction \in [Corrections -> Filings]
  BY <1>0 DEF TypeOK
<1>1. ASSUME NEW r \in Requests, NEW d \in Days, BeginsOnDay(r, d) PROVE Goal
  <2>1. PICK what \in {"CREATE", "CHECK_OUT", "STATUS", "DELETE"} :
          Begin(r, what, d, d) /\ DateOpen(d) /\ UNCHANGED <<correction, sweep, asides>>
    BY <1>1 DEF BeginsOnDay
  <2>2. d \notin Corrections /\ op'[r].do = what /\ op'[r].on = d
        /\ \A s \in Requests \ {r} : op'[s] = op[s]
    BY <2>1, <1>a DEF Begin
  <2>3. ~locked' /\ correction' = correction /\ applied' = applied /\ contested' = contested
    BY <2>1 DEF DateOpen, asides
  <2>4. OpsFit'  BY <2>1, <2>2, <2>3, <1>0 DEF OpsFit
  <2>5. FiledHasDay' /\ StragglersKnown'
    BY <2>3, <1>0 DEF FiledHasDay, StragglersKnown
  <2>6. OneDecision'  BY <2>2, <2>3, <1>0 DEF OneDecision
  <2> QED  BY <2>4, <2>5, <2>6
<1>2. ASSUME NEW r \in Requests, NEW c \in Corrections, Decides(r, c) PROVE Goal
  <2>1. PICK what \in {"APPROVE", "REJECT"} :
          BeginDecision(r, c, what) /\ Undecided(c) /\ (what = "APPROVE" => DateOpen(Nothing))
    BY <1>2 DEF Decides
  <2>2. op'[r].do = what /\ op'[r].on = c /\ \A s \in Requests \ {r} : op'[s] = op[s]
    BY <2>1, <1>a DEF BeginDecision, Begin
  <2>3. /\ correction' = correction /\ applied' = applied /\ underway' = underway
        /\ locked' = locked /\ sweep' = sweep
    BY <2>1 DEF BeginDecision
  <2>4. correction[c].status = "PENDING" /\ (what = "APPROVE" => ~locked)
    BY <2>1 DEF Undecided, DateOpen
  <2>5. OpsFit'  BY <2>1, <2>2, <2>3, <2>4, <1>0 DEF OpsFit, FiledHasDay
  <2>6. FiledHasDay' /\ StragglersKnown'
    BY <2>1, <2>2, <2>3, <2>4, <1>0 DEF FiledHasDay, StragglersKnown, DayOf
  <2>7. contested \subseteq contested'
        /\ (c \notin contested' => \A s \in Requests : op[s].on # c)
    BY <2>1 DEF BeginDecision
  <2>8. OneDecision'
    <3>1. ASSUME NEW s \in Requests, op'[s].on \in Corrections \ contested'
          PROVE  /\ correction'[op'[s].on].status = "PENDING"
                 /\ \A t \in Requests : op'[t].on = op'[s].on => t = s
      <4>1. CASE op'[s].on = c  BY <3>1, <4>1, <2>2, <2>3, <2>4, <2>7
      <4>2. CASE op'[s].on # c
        BY <3>1, <4>2, <2>2, <2>3, <2>7, <1>0 DEF OneDecision
      <4> QED  BY <4>1, <4>2
    <3>2. \A e \in applied' \ contested' : correction'[e].status = "APPROVED"
      BY <2>3, <2>7, <1>0 DEF OneDecision
    <3> QED  BY <3>1, <3>2 DEF OneDecision
  <2> QED  BY <2>5, <2>6, <2>8
<1>3. ASSUME NEW r \in Requests, EndsOnDay(r) PROVE Goal
  <2>1. /\ op'[r] = Idle /\ \A s \in Requests \ {r} : op'[s] = op[s]
        /\ UNCHANGED <<correction, sweep, asides>>
    BY <1>3, <1>a DEF EndsOnDay
  <2>2. OpsFit'
    <3>1. op'[r].do = "IDLE" /\ correction' = correction  BY <2>1 DEF Idle
    <3> QED  BY <2>1, <3>1, <1>0 DEF OpsFit
  <2>3. FiledHasDay' /\ StragglersKnown'
    BY <2>1, <1>0 DEF FiledHasDay, StragglersKnown, Idle, DayOf, asides
  <2>4. OneDecision'  BY <2>1, <1>0 DEF OneDecision, Idle, asides
  <2> QED  BY <2>2, <2>3, <2>4
<1>4. ASSUME NEW r \in Requests, EndsDecision(r) PROVE Goal
  <2>1. /\ op'[r] = Idle /\ \A s \in Requests \ {r} : op'[s] = op[s]
        /\ UNCHANGED <<sweep, locked, underway, contested>>
    BY <1>4, <1>a DEF EndsDecision
  <2> DEFINE c == op[r].on
  <2>2. c \in Corrections /\ correction[c].day \in Days
    BY <1>4, <1>0 DEF EndsDecision, OpsFit
  <2>3. \A e \in Corrections : correction'[e].day = correction[e].day
        /\ (e # c => correction'[e] = correction[e])
    <3> HIDE DEF c
    <3> QED  BY <1>4, <1>a DEF EndsDecision, Filings, c
  <2>4. OpsFit'
    <3>1. op'[r].do = "IDLE"  BY <2>1 DEF Idle
    <3> QED  BY <2>1, <2>3, <3>1, <1>0 DEF OpsFit
  <2>5. FiledHasDay'  BY <2>2, <2>3, <1>0 DEF FiledHasDay
  <2>6. StragglersKnown'
    BY <2>1, <2>3, <1>0 DEF StragglersKnown, Idle, DayOf, OpsFit
  <2>7. OneDecision'
    <3>1. ASSUME NEW s \in Requests, op'[s].on \in Corrections \ contested'
          PROVE  /\ correction'[op'[s].on].status = "PENDING"
                 /\ \A t \in Requests : op'[t].on = op'[s].on => t = s
      <4>1. s # r /\ op'[s] = op[s]  BY <3>1, <2>1 DEF Idle
      <4>2. op[s].on \in Corrections \ contested  BY <3>1, <4>1, <2>1
      <4>3. op[s].on # c  BY <4>1, <4>2, <2>2, <1>0 DEF OneDecision
      <4> QED  BY <4>1, <4>2, <4>3, <2>1, <2>3, <1>0 DEF OneDecision, Idle
    <3>2. ASSUME NEW e \in applied', e \notin contested'
          PROVE  correction'[e].status = "APPROVED"
      <4>1. contested' = contested /\ applied \subseteq Corrections  BY <2>1, <1>0 DEF TypeOK
      <4>2. CASE UNCHANGED <<row, correction, applied>>
        BY <3>2, <4>1, <4>2, <1>0 DEF OneDecision
      <4>3. CASE op[r].do = "APPROVE" /\ applied' = applied \cup {c}
                 /\ correction' = [correction EXCEPT ![c].status = "APPROVED"]
        <5>1. CASE e = c  BY <4>3, <5>1, <2>2, <1>a DEF Filings
        <5>2. CASE e # c  BY <3>2, <4>1, <4>3, <5>2, <2>3, <1>0 DEF OneDecision
        <5> QED  BY <5>1, <5>2
      <4>4. CASE op[r].do = "REJECT" /\ applied' = applied
        <5>1. e # c
          BY <3>2, <4>1, <4>4, <2>2, <1>0 DEF OneDecision
        <5> QED  BY <3>2, <4>1, <4>4, <5>1, <2>3, <1>0 DEF OneDecision
      <4> QED  BY <1>4, <4>2, <4>3, <4>4 DEF EndsDecision
    <3> QED  BY <3>1, <3>2 DEF OneDecision
  <2> QED  BY <2>4, <2>5, <2>6, <2>7
<1>5. CASE Aside
  <2>1. CASE \E c \in Corrections, d \in Days, b \in BOOLEAN : FileCorrection(c, d, b)
    <3>1. PICK c \in Corrections, d \in Days, b \in BOOLEAN : FileCorrection(c, d, b)
      BY <2>1
    <3>2. /\ UNCHANGED <<row, op, sweep, asides>> /\ correction[c].status = "NONE"
          /\ \A e \in Corrections \ {c} : correction'[e] = correction[e]
          /\ correction'[c].day = d /\ correction'[c].status = "PENDING" /\ ~locked
      BY <3>1, <1>a DEF FileCorrection, DateOpen
    <3>3. OpsFit'  BY <3>2, <1>0 DEF OpsFit
    <3>4. FiledHasDay' /\ StragglersKnown'
      BY <3>2, <1>0 DEF FiledHasDay, StragglersKnown, asides
    <3>5. OneDecision'  BY <3>2, <1>0 DEF OneDecision, asides, TypeOK
    <3> QED  BY <3>3, <3>4, <3>5
  <2>2. CASE UNCHANGED <<op, correction, applied, contested>>
    <3>1. OpsFit' /\ FiledHasDay' /\ OneDecision'
      BY <2>2, <1>0 DEF OpsFit, FiledHasDay, OneDecision
    <3>2. StragglersKnown'
      <4>1. CASE LockPeriod
        BY <2>2, <4>1, <1>0, <1>a DEF LockPeriod, StragglersKnown, DayOf, Idle
      <4>2. CASE locked' = locked /\ underway' = underway
                 /\ (~locked \/ sweep'.days \subseteq sweep.days)
        BY <2>2, <4>2, <1>0 DEF StragglersKnown, DayOf
      <4> QED  BY <1>5, <2>1, <2>2, <4>1, <4>2 DEF Aside, FileCorrection
    <3> QED  BY <3>1, <3>2
  <2> QED  BY <1>5, <2>1, <2>2 DEF Aside, LockPeriod
<1> QED  BY <1>0, <1>1, <1>2, <1>3, <1>4, <1>5, Shapes

LEMMA IInvariant == Spec => []IInv
<1>1. IInv /\ [Next]_vars => IInv'  BY TypeStep, RestStep DEF IInv
<1> QED  BY InitIInv, <1>1, PTL DEF Spec

-----------------------------------------------------------------------------
\* Rows, calls, corrections and sweeps keep their form.
THEOREM TypeCorrect == Spec => []TypeOK
<1>1. IInv => TypeOK  BY DEF IInv
<1> QED  BY IInvariant, <1>1, PTL

\* A refused correction left no trace in the day unless two approvers decided at once.
THEOREM RefusalsLeaveNoTrace == Spec => []RejectedLeavesNoTrace
<1>1. IInv => RejectedLeavesNoTrace  BY DEF IInv, OneDecision, RejectedLeavesNoTrace
<1> QED  BY IInvariant, <1>1, PTL

\* Once a period is reviewed or closed, only what was past the guard by then still lands.
THEOREM LockedDaysAreLeftAlone == Spec => LockedDaysStand
<1>1. IInv /\ [Next]_vars =>
        [locked => \A d \in Days \ underway : row'[d] = row[d]]_vars
  <2> SUFFICES ASSUME IInv, [Next]_vars, locked, NEW d \in Days \ underway
               PROVE row'[d] = row[d]
    OBVIOUS
  <2>0. TypeOK /\ OpsFit /\ StragglersKnown  BY DEF IInv
  <2>1. ASSUME NEW r \in Requests, EndsOnDay(r) PROVE row'[d] = row[d]
    BY <2>1, <2>0 DEF EndsOnDay, StragglersKnown, DayOf, OpsFit
  <2>2. ASSUME NEW r \in Requests, EndsDecision(r) PROVE row'[d] = row[d]
    BY <2>2, <2>0 DEF EndsDecision, StragglersKnown, DayOf, OpsFit
  <2>3. ASSUME NEW r \in Requests, NEW e \in Days, BeginsOnDay(r, e) PROVE row'[d] = row[d]
    BY <2>3 DEF BeginsOnDay, DateOpen
  <2>4. ASSUME NEW r \in Requests, NEW c \in Corrections, Decides(r, c) PROVE row'[d] = row[d]
    BY <2>4 DEF Decides, BeginDecision
  <2>5. CASE Aside
    BY <2>5, <2>0 DEF Aside, StragglersKnown, LockPeriod, FileCorrection
  <2> QED  BY <2>0, <2>1, <2>2, <2>3, <2>4, <2>5, Shapes
<1> QED  BY IInvariant, <1>1, PTL DEF Spec, LockedDaysStand
-----------------------------------------------------------------------------
\* What a step may do to a day: fill an empty row, or write what its kind of call writes.
Leaves(r, what, d) == op[r].on = d /\ Ending(r, what)
Written(d) ==
    \/ row[d] = NoRow
    \/ /\ row'[d] = [row[d] EXCEPT !.out = "OWN"]
       /\ \E r \in Requests : Leaves(r, "CHECK_OUT", d)
    \/ /\ row'[d].out = row[d].out
       /\ \E r \in Requests : Leaves(r, "STATUS", d) \/ Leaves(r, "DELETE", d)
    \/ \E in, out \in BOOLEAN : row'[d] = Corrected(row[d], in, out)
    \/ row'[d] = [row[d] EXCEPT !.out = "AUTO"] /\ d \in sweep.days

LEMMA DayWritten ==
    ASSUME TypeOK, OpsFit, [Next]_vars, NEW d \in Days, row'[d] # row[d]
    PROVE  Written(d)
<1>0. row \in [Days -> Rows] /\ op \in [Requests -> Ops] /\ row[d] \in Rows
  BY DEF TypeOK
<1> USE DEF asides
<1>1. ASSUME NEW r \in Requests, Create(r) PROVE Written(d)
  BY <1>1, <1>0 DEF Create, Inserted, Write, Written
<1>2. ASSUME NEW r \in Requests, NEW what, NEW w, Ends(r, what), Write(op[r].on, w)
      PROVE  /\ op[r].on = d /\ row'[d] = w /\ op[r].do = what /\ op'[r] = Idle
  BY <1>2, <1>0 DEF Ends, Write
<1>3. ASSUME NEW r \in Requests, CheckOut(r) PROVE Written(d)
  <2>1. Ends(r, "CHECK_OUT") /\ Write(op[r].on, [row[op[r].on] EXCEPT !.out = "OWN"])
    BY <1>3 DEF CheckOut
  <2>2. op[r].on = d /\ row'[d] = [row[op[r].on] EXCEPT !.out = "OWN"]
        /\ op[r].do = "CHECK_OUT" /\ op'[r] = Idle
    BY <2>1, <1>2
  <2> QED  BY <2>2 DEF Written, Leaves, Ending
<1>4. ASSUME NEW r \in Requests, Delete(r) PROVE Written(d)
  <2>1. Ends(r, "DELETE") /\ Write(op[r].on, [row[op[r].on] EXCEPT !.deleted = TRUE])
    BY <1>4 DEF Delete
  <2>2. op[r].on = d /\ row'[d] = [row[op[r].on] EXCEPT !.deleted = TRUE]
        /\ op[r].do = "DELETE" /\ op'[r] = Idle
    BY <2>1, <1>2
  <2>3. row'[d].out = row[d].out  BY <2>2, <1>0 DEF Rows
  <2> QED  BY <2>2, <2>3 DEF Written, Leaves, Ending
<1>5. ASSUME NEW r \in Requests, NEW status, SetStatus(r, status) PROVE Written(d)
  <2>1. Ends(r, "STATUS") /\ Write(op[r].on, [row[op[r].on] EXCEPT !.status = status])
    BY <1>5 DEF SetStatus
  <2>2. op[r].on = d /\ row'[d] = [row[op[r].on] EXCEPT !.status = status]
        /\ op[r].do = "STATUS" /\ op'[r] = Idle
    BY <2>1, <1>2
  <2>3. row'[d].out = row[d].out  BY <2>2, <1>0 DEF Rows
  <2> QED  BY <2>2, <2>3 DEF Written, Leaves, Ending
<1>6. ASSUME NEW r \in Requests, NEW in \in BOOLEAN, NEW out \in BOOLEAN, Approve(r, in, out)
      PROVE  Written(d)
  <2> DEFINE e == correction[op[r].on].day
  <2>1. Write(e, Corrected(row[e], in, out))  BY <1>6 DEF Approve
  <2>2. e = d /\ row'[d] = Corrected(row[d], in, out)
    <3> HIDE DEF e
    <3>1. row' = [row EXCEPT ![e] = Corrected(row[e], in, out)]  BY <2>1 DEF Write
    <3> QED  BY <3>1, <1>0
  <2> QED  BY <2>2 DEF Written
<1>7. CASE MarkAbsent  BY <1>7, <1>0 DEF MarkAbsent, Missing, Written
<1>8. ASSUME NEW e \in Days, AutoCheckout(e) PROVE Written(d)
  <2>1. Write(e, [row[e] EXCEPT !.out = "AUTO"]) /\ e \in sweep.days
    BY <1>8 DEF AutoCheckout
  <2>2. e = d /\ row'[d] = [row[d] EXCEPT !.out = "AUTO"]  BY <2>1, <1>0 DEF Write
  <2> QED  BY <2>1, <2>2 DEF Written
<1>9. ~(row' = row)  OBVIOUS
<1>10. \A r \in Requests, e \in Days :
         ~BeginCreate(r, e) /\ ~BeginCheckOut(r, e) /\ ~BeginHR(r, e, "STATUS")
           /\ ~BeginHR(r, e, "DELETE")
  BY <1>9 DEF BeginCreate, BeginCheckOut, BeginHR
<1>11. \A r \in Requests, c \in Corrections : ~BeginApprove(r, c) /\ ~BeginReject(r, c)
  BY <1>9 DEF BeginApprove, BeginReject, BeginDecision
<1>12. \A r \in Requests : ~Reject(r)  BY <1>9 DEF Reject
<1>13. \A c \in Corrections, e \in Days, b \in BOOLEAN : ~FileCorrection(c, e, b)
  BY <1>9 DEF FileCorrection
<1>14. ~BeginAbsent /\ ~BeginAutoCheckout /\ ~SweepDies /\ ~LockPeriod /\ ~UNCHANGED vars
  BY <1>9 DEF BeginAbsent, BeginAutoCheckout, BeginSweep, SweepDies, LockPeriod, vars
<1> QED
  BY <1>1, <1>3, <1>4, <1>5, <1>6, <1>7, <1>8, <1>10, <1>11, <1>12, <1>13, <1>14 DEF Next

\* Who clocked in, or had a correction approved, stops being present only by HR's hand.
THEOREM PresenceIsLeftAlone == Spec => PresenceIsKept
<1>1. IInv /\ [Next]_vars =>
        [\A d \in Days : CountsPresent(row[d]) /\ ~CountsPresent(row'[d]) =>
           \E r \in Requests : op[r].on = d /\ (Ending(r, "STATUS") \/ Ending(r, "DELETE"))]_vars
  <2> SUFFICES ASSUME IInv, [Next]_vars, NEW d \in Days,
                      CountsPresent(row[d]), ~CountsPresent(row'[d])
               PROVE  \E r \in Requests :
                        op[r].on = d /\ (Ending(r, "STATUS") \/ Ending(r, "DELETE"))
    OBVIOUS
  <2>1. TypeOK /\ OpsFit /\ row[d] \in Rows  BY DEF IInv, TypeOK
  <2>2. Written(d)  BY <2>1, DayWritten
  <2>3. row[d] # NoRow  BY DEF CountsPresent, NoRow
  <2>4. row'[d] # [row[d] EXCEPT !.out = "OWN"] /\ row'[d] # [row[d] EXCEPT !.out = "AUTO"]
    BY <2>1 DEF CountsPresent, Rows
  <2>5. \A in, out \in BOOLEAN : row'[d] # Corrected(row[d], in, out)
    BY <2>1 DEF CountsPresent, Corrected, Rows
  <2> QED  BY <2>2, <2>3, <2>4, <2>5 DEF Written, Leaves
<1> QED  BY IInvariant, <1>1, PTL DEF Spec, PresenceIsKept

\* Who is about to check out found no check-out.
Unseen == \A r \in Requests : op[r].do = "CHECK_OUT" => op[r].sawOut = FALSE
LEMMA UnseenInvariant == Spec => []Unseen
<1>1. Init => Unseen  BY DEF Init, Unseen, Idle
<1>2. IInv /\ Unseen /\ [Next]_vars => Unseen'
  <2> SUFFICES ASSUME IInv, Unseen, [Next]_vars, NEW s \in Requests,
                      op'[s].do = "CHECK_OUT", op'[s] # op[s]
               PROVE  op'[s].sawOut = FALSE
    BY DEF Unseen
  <2>0. TypeOK /\ op \in [Requests -> Ops]  BY DEF IInv, TypeOK
  <2>1. ASSUME NEW r \in Requests, NEW d \in Days, BeginCheckOut(r, d)
        PROVE  op'[s].sawOut = FALSE
    <3>1. op' = [op EXCEPT ![r] = [do |-> "CHECK_OUT", on |-> d, sawOut |-> FALSE]]
      BY <2>1 DEF BeginCheckOut, Begin, StillIn
    <3> QED  BY <3>1, <2>0
  <2>2. ASSUME NEW r \in Requests, NEW what, NEW on, NEW d, Begin(r, what, on, d)
        PROVE  what = "CHECK_OUT"
    BY <2>2, <2>0 DEF Begin
  <2>3. \A r \in Requests : \A what : ~Ends(r, what)  BY <2>0 DEF Ends, Idle
  <2>4. \A r \in Requests, d \in Days :
          ~BeginCreate(r, d) /\ ~BeginHR(r, d, "STATUS") /\ ~BeginHR(r, d, "DELETE")
    BY <2>2 DEF BeginCreate, BeginHR
  <2>5. \A r \in Requests, c \in Corrections : ~BeginApprove(r, c) /\ ~BeginReject(r, c)
    BY <2>2 DEF BeginApprove, BeginReject, BeginDecision
  <2>6. \A r \in Requests :
          /\ ~Create(r) /\ ~CheckOut(r) /\ ~Delete(r) /\ ~Reject(r)
          /\ \A status : ~SetStatus(r, status)
          /\ \A in, out \in BOOLEAN : ~Approve(r, in, out)
    BY <2>3 DEF Create, CheckOut, Delete, Reject, SetStatus, Approve
  <2>7. op' # op  OBVIOUS
  <2>8. \A c \in Corrections, d \in Days, b \in BOOLEAN : ~FileCorrection(c, d, b)
    BY <2>7 DEF FileCorrection
  <2>9. \A d \in Days : ~AutoCheckout(d)  BY <2>7 DEF AutoCheckout
  <2>10. ~BeginAbsent /\ ~BeginAutoCheckout /\ ~MarkAbsent /\ ~SweepDies /\ ~LockPeriod
         /\ ~UNCHANGED vars
    BY <2>7 DEF BeginAbsent, BeginAutoCheckout, BeginSweep, MarkAbsent, SweepDies, LockPeriod, vars
  <2> QED  BY <2>1, <2>4, <2>5, <2>6, <2>8, <2>9, <2>10 DEF Next
<1> QED  BY IInvariant, <1>1, <1>2, PTL DEF Spec

\* A check-out is replaced by an approved correction, by the sweep that was on its way,
\* or by someone who read the day before it was there.
THEOREM CheckOutsAreLeftAlone == Spec => CheckOutStands
<1>1. IInv /\ Unseen /\ [Next]_vars =>
        [\A d \in Days : row[d].out # "NONE" /\ row'[d].out # row[d].out =>
           \/ row'[d].out = "CORRECTED"
           \/ d \in sweep.days /\ row'[d].out = "AUTO"
           \/ \E r \in Requests : op[r].on = d /\ ~op[r].sawOut /\ Ending(r, "CHECK_OUT")]_vars
  <2> SUFFICES ASSUME IInv, Unseen, [Next]_vars, NEW d \in Days,
                      row[d].out # "NONE", row'[d].out # row[d].out
               PROVE  \/ row'[d].out = "CORRECTED"
                      \/ d \in sweep.days /\ row'[d].out = "AUTO"
                      \/ \E r \in Requests :
                           op[r].on = d /\ ~op[r].sawOut /\ Ending(r, "CHECK_OUT")
    OBVIOUS
  <2>1. TypeOK /\ OpsFit /\ row[d] \in Rows  BY DEF IInv, TypeOK
  <2>2. Written(d)  BY <2>1, DayWritten
  <2>3. row[d] # NoRow  BY DEF NoRow
  <2>4. CASE row'[d] = [row[d] EXCEPT !.out = "AUTO"] /\ d \in sweep.days
    BY <2>4, <2>1 DEF Rows
  <2>5. ASSUME NEW in \in BOOLEAN, NEW out \in BOOLEAN, row'[d] = Corrected(row[d], in, out)
        PROVE  row'[d].out = "CORRECTED"
    BY <2>5, <2>1 DEF Corrected, Rows
  <2>6. ASSUME NEW r \in Requests, Leaves(r, "CHECK_OUT", d)
        PROVE  op[r].on = d /\ ~op[r].sawOut /\ Ending(r, "CHECK_OUT")
    BY <2>6 DEF Leaves, Ending, Unseen
  <2> QED  BY <2>2, <2>3, <2>4, <2>5, <2>6 DEF Written
<1> QED  BY IInvariant, UnseenInvariant, <1>1, PTL DEF Spec, CheckOutStands

-----------------------------------------------------------------------------
(* The roster.                                                             *)

\* A swap that holds its date.
Standing == {"PENDING", "APPROVED"}

\* A swap and its instance agree on what was decided.
Agreed ==
    /\ \A q \in Swaps :
          /\ swap[q].status = "NONE" => instance[q] = "NONE"
          /\ swap[q].status # "NONE" => swap[q].date \in Dates
          /\ swap[q].status = "APPROVED" => instance[q] = "APPROVED"
          /\ swap[q].status = "REJECTED" => instance[q] = "REJECTED"
    /\ \A q \in revived : swap[q].status # "NONE"

\* A call on a swap carries out what was decided of it, and starts it once.
CallsFit ==
    /\ \A c \in Calls :
          call[c].at \in {"start", "approval", "approve", "rejection", "reject"} =>
             LET q == call[c].swap
             IN  /\ q \in Swaps
                 /\ swap[q].status # "NONE"
                 /\ call[c].at = "start" => instance[q] = "NONE"
                 /\ call[c].at \in {"approval", "approve"} => instance[q] = "APPROVED"
                 /\ call[c].at \in {"rejection", "reject"} => instance[q] = "REJECTED"
    /\ \A c, x \in Calls :
          (call[c].at = "start" /\ call[x].at = "start" /\ call[c].swap = call[x].swap)
             => c = x

\* What a call has checked holds until it is overtaken.
AssignmentsFree ==
    \A c \in Calls, e \in Employees, d \in Dates :
        (call[c].at = "assign" /\ e \in call[c].who /\ d \in call[c].dates \ call[c].overtaken)
        => override[e][d].source # "SHIFT_SWAP"

RangesOpen ==
    \A c \in Calls : call[c].at \in {"assign", "clear"} =>
        call[c].dates \cap lockedDates \subseteq call[c].overtaken

FilingsFree ==
    \A c \in Calls, q \in Swaps :
        (/\ call[c].at = "file"
         /\ swap[q].status \in Standing
         /\ swap[q].date \in (call[c].dates \ call[c].overtaken) \ Muddled)
        => swap[q].pair \cap call[c].who = {}

\* A swap's row names its swap.
RowsNamed ==
    \A e \in Employees, d \in Dates :
        override[e][d].source = "SHIFT_SWAP" => override[e][d].swap \in Swaps

\* Two standing swaps do not share a person and a date.
SwapsApart ==
    \A q, r \in Swaps :
        (/\ q # r
         /\ swap[q].status \in Standing /\ swap[r].status \in Standing
         /\ swap[q].date = swap[r].date
         /\ swap[q].date \notin Muddled)
        => swap[q].pair \cap swap[r].pair = {}

RosterInv ==
    /\ RosterTypeOK /\ Agreed /\ CallsFit
    /\ AssignmentsFree /\ RangesOpen /\ FilingsFree /\ SwapsApart /\ RowsNamed
    /\ PayrollCanResolve /\ SwapsAreWhole

-----------------------------------------------------------------------------
(* The shapes of a step. *)

USE RosterAssumption

LEMMA CallForms ==
    /\ NoCall \in CallStates
    /\ \A place \in Places, q \in Swaps : To(place, q) \in CallStates
    /\ \A place \in Places, who \in SUBSET Employees, dates \in SUBSET Dates :
          Checked(place, who, dates) \in CallStates
BY DEF NoCall, To, Checked, CallStates, Places

LEMMA CallFields ==
    ASSUME NEW k \in CallStates
    PROVE  /\ k.at \in Places /\ k.swap \in Swaps \cup {Nobody}
           /\ k.who \in SUBSET Employees /\ k.dates \in SUBSET Dates
           /\ k.overtaken \in SUBSET Dates
BY DEF CallStates

LEMMA ToFields ==
    \A place, q : LET k == To(place, q) IN
        /\ k.at = place /\ k.swap = q /\ k.who = {} /\ k.dates = {} /\ k.overtaken = {}
BY DEF To

LEMMA CheckedFields ==
    \A place, who, dates : LET k == Checked(place, who, dates) IN
        /\ k.at = place /\ k.swap = Nobody /\ k.who = who /\ k.dates = dates
        /\ k.overtaken = {}
BY DEF Checked

\* Call c becomes to, every other call is overtaken on the dates written.
Moves(c, dates, to) ==
    /\ call' \in [Calls -> CallStates]
    /\ call'[c] = to
    /\ \A x \in Calls \ {c} :
          /\ call'[x].at = call[x].at /\ call'[x].swap = call[x].swap
          /\ call'[x].who = call[x].who /\ call'[x].dates = call[x].dates
          /\ call'[x].overtaken = call[x].overtaken \cup (dates \cap call[x].dates)

LEMMA Overtaking ==
    ASSUME NEW k \in CallStates, NEW dates
    PROVE  LET l == [k EXCEPT !.overtaken = @ \cup (dates \cap k.dates)] IN
           /\ l \in CallStates
           /\ l.at = k.at /\ l.swap = k.swap /\ l.who = k.who /\ l.dates = k.dates
           /\ l.overtaken = k.overtaken \cup (dates \cap k.dates)
BY DEF CallStates

LEMMA GoesMoves ==
    ASSUME RosterTypeOK, NEW c \in Calls, NEW to \in CallStates, Goes(c, to)
    PROVE  Moves(c, {}, to)
BY DEF RosterTypeOK, Goes, Moves

LEMMA WritesMoves ==
    ASSUME RosterTypeOK, NEW c \in Calls, NEW dates, NEW to \in CallStates, Writes(c, dates, to)
    PROVE  Moves(c, dates, to)
<1>1. \A x \in Calls : call[x] \in CallStates  BY DEF RosterTypeOK
<1>2. \A x \in Calls : call'[x] = IF x = c THEN to
        ELSE [call[x] EXCEPT !.overtaken = @ \cup (dates \cap call[x].dates)]
  BY DEF Writes
<1>3. ASSUME NEW x \in Calls \ {c}
      PROVE  /\ call'[x] \in CallStates
             /\ call'[x].at = call[x].at /\ call'[x].swap = call[x].swap
             /\ call'[x].who = call[x].who /\ call'[x].dates = call[x].dates
             /\ call'[x].overtaken = call[x].overtaken \cup (dates \cap call[x].dates)
  <2>1. call[x] \in CallStates /\ x # c  BY <1>1
  <2>2. call'[x] = [call[x] EXCEPT !.overtaken = @ \cup (dates \cap call[x].dates)]
    BY <1>2, <2>1
  <2> QED  BY <2>1, <2>2, Overtaking
<1>4. call' = [x \in Calls |-> call'[x]]  BY DEF Writes
<1>5. call'[c] = to  BY <1>2
<1> QED  BY <1>3, <1>4, <1>5 DEF Moves

\* Swap q takes a status, its pair and date stay.
LEMMA StatusMoves ==
    ASSUME RosterTypeOK, NEW q \in Swaps, NEW v \in SwapStatuses,
           swap' = [swap EXCEPT ![q].status = v]
    PROVE  /\ swap' \in [Swaps -> SwapRows]
           /\ swap'[q].status = v
           /\ \A r \in Swaps : /\ swap'[r].pair = swap[r].pair
                               /\ swap'[r].date = swap[r].date
                               /\ r # q => swap'[r].status = swap[r].status
BY DEF RosterTypeOK, SwapRows

LEMMA SwapFields ==
    ASSUME RosterTypeOK, NEW q \in Swaps
    PROVE  /\ swap[q].status \in SwapStatuses /\ swap[q].pair \in SUBSET Employees
           /\ swap[q].date \in Dates \cup {Nobody}
           /\ instance[q] \in SwapStatuses
BY DEF RosterTypeOK, SwapRows

LEMMA OverrideForms ==
    /\ NoOverride \in Overrides /\ AssignedByHR \in Overrides
    /\ \A q \in Swaps : BySwap(q) \in Overrides
    /\ NoOverride.source = "NONE" /\ AssignedByHR.source = "HR_ASSIGNMENT"
    /\ \A q : BySwap(q).source = "SHIFT_SWAP" /\ BySwap(q).swap = q
BY DEF NoOverride, AssignedByHR, BySwap, Overrides

-----------------------------------------------------------------------------
(* Type correctness. *)

LEMMA TypeInit == RosterInit => RosterTypeOK
BY CallForms, OverrideForms
   DEF RosterInit, RosterTypeOK, NoSwap, SwapRows, SwapStatuses

\* The swap a call carries out exists.
LEMMA CarriesOut ==
    ASSUME CallsFit, NEW c \in Calls,
           call[c].at \in {"start", "approval", "approve", "rejection", "reject"}
    PROVE  call[c].swap \in Swaps
BY DEF CallsFit

LEMMA RosterTypeStep == RosterTypeOK /\ CallsFit /\ [RosterNext]_rosterVars => RosterTypeOK'
<1> SUFFICES ASSUME RosterTypeOK, CallsFit, [RosterNext]_rosterVars PROVE RosterTypeOK'  OBVIOUS
<1> USE CallForms, OverrideForms
<1> HIDE DEF CallStates, SwapRows, Overrides
<1>1. ASSUME NEW c \in Calls, Step(c) PROVE RosterTypeOK'
  <2>1. ASSUME NEW pair \in Pairs, NEW d \in Dates, BeginFile(c, pair, d) PROVE RosterTypeOK'
    <3>1. Checked("file", pair, {d}) \in CallStates  BY DEF Places, Pairs
    <3> QED  BY <2>1, <3>1, GoesMoves DEF BeginFile, Begins, Moves, RosterTypeOK
  <2>2. ASSUME NEW q \in Swaps, File(c, q) PROVE RosterTypeOK'
    <3>1. To("start", q) \in CallStates  BY DEF Places
    <3>2. call[c] \in CallStates  BY DEF RosterTypeOK
    <3>3. crossed' \subseteq Dates
      BY <2>2, <3>2, CallFields DEF File, Crosses, RosterTypeOK
    <3>4. PICK d \in call[c].dates : swap' = [swap EXCEPT ![q] =
             [status |-> "PENDING", pair |-> call[c].who, date |-> d]]
      BY <2>2 DEF File
    <3>5. [status |-> "PENDING", pair |-> call[c].who, date |-> d] \in SwapRows
      BY <3>2, CallFields DEF SwapRows, SwapStatuses
    <3>6. swap' \in [Swaps -> SwapRows]  BY <3>4, <3>5 DEF RosterTypeOK
    <3>7. call' \in [Calls -> CallStates]
      BY <2>2, <3>1, WritesMoves DEF File, Moves
    <3> QED  BY <2>2, <3>3, <3>6, <3>7 DEF File, RosterTypeOK
  <2>3. ASSUME NEW q \in Swaps, NEW verdict \in {"APPROVED", "REJECTED", "CANCELLED"},
               Decide(c, q, verdict) PROVE RosterTypeOK'
    <3>1. To("approval", q) \in CallStates /\ To("rejection", q) \in CallStates
      BY DEF Places
    <3>2. call' \in [Calls -> CallStates]
      BY <2>3, <3>1, GoesMoves DEF Decide, Begins, Moves
    <3>3. instance' \in [Swaps -> SwapStatuses]
      BY <2>3 DEF Decide, RosterTypeOK, SwapStatuses
    <3> QED  BY <2>3, <3>2, <3>3 DEF Decide, RosterTypeOK
  <2>4. CASE StartWorkflow(c)
    <3>1. instance' \in [Swaps -> SwapStatuses]
      BY <2>4 DEF StartWorkflow, RosterTypeOK, SwapStatuses
    <3>2. call' \in [Calls -> CallStates]  BY <2>4, GoesMoves DEF StartWorkflow, Moves
    <3> QED  BY <2>4, <3>1, <3>2 DEF StartWorkflow, RosterTypeOK
  <2>5. CASE ReadForApproval(c) \/ ReadForRejection(c)
    <3>1. [Calls -> CallStates] = [Calls -> CallStates] /\ call[c] \in CallStates  BY DEF RosterTypeOK
    <3>2. ASSUME NEW k \in {"approve", "reject"}, Goes(c, To(k, call[c].swap))
          PROVE  call' \in [Calls -> CallStates]
      <4>1. To(k, call[c].swap) \in CallStates
        BY <3>1, CallFields DEF To, CallStates, Places
      <4> QED  BY <3>2, <4>1, GoesMoves DEF Moves
    <3>3. Goes(c, NoCall) => call' \in [Calls -> CallStates]  BY GoesMoves DEF Moves
    <3>4. call' \in [Calls -> CallStates]
      BY <2>5, <3>2, <3>3 DEF ReadForApproval, ReadForRejection
    <3> QED  BY <2>5, <3>4 DEF ReadForApproval, ReadForRejection, RosterTypeOK
  <2>6. CASE FinalizeApproval(c)
    <3> DEFINE q == call[c].swap
    <3>q. q \in Swaps  BY <2>6, CarriesOut DEF FinalizeApproval
    <3>1. swap' \in [Swaps -> SwapRows]
      BY <2>6, <3>q, StatusMoves DEF FinalizeApproval, SwapStatuses
    <3>2. override' \in [Employees -> [Dates -> Overrides]]
      BY <2>6, <3>q DEF FinalizeApproval, SwapBoth, RosterTypeOK
    <3>3. call' \in [Calls -> CallStates]
      BY <2>6, WritesMoves DEF FinalizeApproval, Moves
    <3>4. revived' \subseteq Swaps  BY <2>6, <3>q DEF FinalizeApproval, RosterTypeOK
    <3> QED  BY <2>6, <3>1, <3>2, <3>3, <3>4 DEF FinalizeApproval, RosterTypeOK
  <2>7. CASE FinalizeRejection(c)
    <3>q. call[c].swap \in Swaps  BY <2>7, CarriesOut DEF FinalizeRejection
    <3>1. swap' \in [Swaps -> SwapRows]
      BY <2>7, <3>q, StatusMoves DEF FinalizeRejection, SwapStatuses
    <3>2. call' \in [Calls -> CallStates]
      BY <2>7, GoesMoves DEF FinalizeRejection, Moves
    <3> QED  BY <2>7, <3>1, <3>2 DEF FinalizeRejection, RosterTypeOK
  <2>8. ASSUME NEW e \in Employees, NEW dates \in Ranges,
               BeginAssign(c, e, dates) \/ BeginClear(c, e, dates) PROVE RosterTypeOK'
    <3>1. Checked("assign", {e}, dates) \in CallStates /\ Checked("clear", {e}, dates) \in CallStates
      BY DEF Places, Ranges
    <3>2. call' \in [Calls -> CallStates]
      BY <2>8, <3>1, GoesMoves DEF BeginAssign, BeginClear, Begins, Moves
    <3> QED  BY <2>8, <3>2 DEF BeginAssign, BeginClear, RosterTypeOK
  <2>9. CASE Assign(c) \/ Clear(c)
    <3>1. call[c] \in CallStates  BY DEF RosterTypeOK
    <3>2. crossed' \subseteq Dates
      BY <2>9, <3>1, CallFields DEF Assign, Clear, Crosses, RosterTypeOK
    <3>3. override' \in [Employees -> [Dates -> Overrides]]
      <4>1. \A e \in Employees, d \in Dates : override[e][d] \in Overrides  BY DEF RosterTypeOK
      <4>2. CASE Assign(c)  BY <4>1, <4>2 DEF Assign
      <4>3. CASE Clear(c)   BY <4>1, <4>3 DEF Clear
      <4> QED  BY <2>9, <4>2, <4>3
    <3>4. call' \in [Calls -> CallStates]
      BY <2>9, WritesMoves DEF Assign, Clear, Moves
    <3> QED  BY <2>9, <3>2, <3>3, <3>4 DEF Assign, Clear, RosterTypeOK
  <2>10. CASE Die(c)
    BY <2>10, GoesMoves DEF Die, Moves, RosterTypeOK
  <2> QED  BY <1>1, <2>1, <2>2, <2>3, <2>4, <2>5, <2>6, <2>7, <2>8, <2>9, <2>10 DEF Step
<1>2. ASSUME NEW q \in Swaps, CancelSwap(q) PROVE RosterTypeOK'
  <2>1. swap' \in [Swaps -> SwapRows]
    BY <1>2, StatusMoves DEF CancelSwap, SwapStatuses
  <2> QED  BY <1>2, <2>1 DEF CancelSwap, RosterTypeOK
<1>3. ASSUME NEW d \in Dates, LockDate(d) PROVE RosterTypeOK'
  <2>1. call' \in [Calls -> CallStates]
    <3>1. ASSUME NEW x \in Calls PROVE call'[x] \in CallStates
      <4>1. call[x] \in CallStates  BY DEF RosterTypeOK
      <4>2. call'[x] = [call[x] EXCEPT !.overtaken = @ \cup ({d} \cap call[x].dates)]
        BY <1>3 DEF LockDate
      <4> QED  BY <4>1, <4>2, Overtaking
    <3>2. call' = [x \in Calls |-> call'[x]]  BY <1>3 DEF LockDate
    <3> QED  BY <3>1, <3>2
  <2>2. lockedDates' \subseteq Dates  BY <1>3 DEF LockDate, RosterTypeOK
  <2> QED  BY <1>3, <2>1, <2>2 DEF LockDate, RosterTypeOK
<1>4. CASE UNCHANGED rosterVars  BY <1>4 DEF rosterVars, RosterTypeOK
<1> QED  BY <1>1, <1>2, <1>3, <1>4 DEF RosterNext

-----------------------------------------------------------------------------
(* The other conjuncts. *)

\* A call that only reads, checks, ends or dies.
LEMMA QuietKeeps ==
    ASSUME RosterInv, RosterTypeOK', NEW c \in Calls, NEW to \in CallStates, Goes(c, to),
           UNCHANGED <<swap, instance, override, lockedDates, revived, crossed>>,
           to.at \in {"start", "approval", "approve", "rejection", "reject"} =>
              /\ to.swap \in Swaps
              /\ swap[to.swap].status # "NONE"
              /\ to.at # "start"
              /\ to.at \in {"approval", "approve"} => instance[to.swap] = "APPROVED"
              /\ to.at \in {"rejection", "reject"} => instance[to.swap] = "REJECTED",
           to.at = "assign" => \A e \in to.who, d \in to.dates :
                                  override[e][d].source # "SHIFT_SWAP",
           to.at \in {"assign", "clear"} => to.dates \cap lockedDates = {},
           to.at = "file" => \A q \in Swaps :
              (swap[q].status \in Standing /\ swap[q].date \in to.dates \ Muddled)
              => swap[q].pair \cap to.who = {}
    PROVE  RosterInv'
<1>1. Moves(c, {}, to)  BY GoesMoves DEF RosterInv
<1>2. \A x \in Calls : x # c => call'[x] = call[x]
  BY DEF Goes, RosterInv, RosterTypeOK
<1>3. call'[c] = to  BY <1>1 DEF Moves
<1>4. CallsFit'  BY <1>2, <1>3 DEF CallsFit, RosterInv
<1>5. AssignmentsFree'  BY <1>2, <1>3 DEF AssignmentsFree, RosterInv
<1>6. RangesOpen'  BY <1>2, <1>3 DEF RangesOpen, RosterInv
<1>7. FilingsFree'
  <2>1. Muddled' = Muddled  BY DEF Muddled
  <2> QED  BY <1>2, <1>3, <2>1 DEF FilingsFree, RosterInv
<1>8. Agreed' /\ SwapsApart' /\ RowsNamed' /\ PayrollCanResolve' /\ SwapsAreWhole'
  BY DEF RosterInv, Agreed, SwapsApart, RowsNamed, PayrollCanResolve, SwapsAreWhole, Muddled
<1> QED  BY <1>4, <1>5, <1>6, <1>7, <1>8 DEF RosterInv

\* The pair is free when a swap is filed: a standing swap that touches it is
\* pending, or approved and then live in both rows.
LEMMA BeginFileKeeps ==
    ASSUME RosterInv, RosterTypeOK', NEW c \in Calls, NEW pair \in Pairs, NEW d \in Dates,
           BeginFile(c, pair, d)
    PROVE  RosterInv'
<1> DEFINE to == Checked("file", pair, {d})
<1>1. to \in CallStates  BY CallForms DEF Places, Pairs
<1>2. ASSUME NEW q \in Swaps, swap[q].status \in Standing, swap[q].date \in {d} \ Muddled
      PROVE  swap[q].pair \cap pair = {}
  <2>1. CASE swap[q].status = "PENDING"
    BY <1>2, <2>1 DEF BeginFile, Pending
  <2>2. CASE swap[q].status = "APPROVED"
    <3>1. \A e \in swap[q].pair : override[e][d] = BySwap(q)
      BY <1>2, <2>2 DEF RosterInv, SwapsAreWhole
    <3>2. \A e \in pair : override[e][d].source = "NONE"
      BY DEF BeginFile, Overridden
    <3> QED  BY <3>1, <3>2, OverrideForms
  <2> QED  BY <1>2, <2>1, <2>2 DEF Standing
<1>3. to.at = "file" /\ to.who = pair /\ to.dates = {d}  BY CheckedFields
<1>4. Goes(c, to) /\ UNCHANGED <<swap, instance, override, lockedDates, revived, crossed>>
  BY DEF BeginFile, Begins
<1> HIDE DEF to
<1> QED  BY <1>1, <1>2, <1>3, <1>4, QuietKeeps

LEMMA BeginHRKeeps ==
    ASSUME RosterInv, RosterTypeOK', NEW c \in Calls, NEW e \in Employees, NEW dates \in Ranges,
           BeginAssign(c, e, dates) \/ BeginClear(c, e, dates)
    PROVE  RosterInv'
<1>1. CASE BeginAssign(c, e, dates)
  <2> DEFINE to == Checked("assign", {e}, dates)
  <2>1. to \in CallStates  BY CallForms DEF Places, Ranges
  <2>2. to.at = "assign" /\ to.who = {e} /\ to.dates = dates  BY CheckedFields
  <2>3. Goes(c, to) /\ UNCHANGED <<swap, instance, override, lockedDates, revived, crossed>>
    BY <1>1 DEF BeginAssign, Begins
  <2>4. dates \cap lockedDates = {} /\ \A d \in dates : override[e][d].source # "SHIFT_SWAP"
    BY <1>1 DEF BeginAssign, RangeOpen
  <2> HIDE DEF to
  <2> QED  BY <2>1, <2>2, <2>3, <2>4, QuietKeeps
<1>2. CASE BeginClear(c, e, dates)
  <2> DEFINE to == Checked("clear", {e}, dates)
  <2>1. to \in CallStates  BY CallForms DEF Places, Ranges
  <2>2. to.at = "clear" /\ to.who = {e} /\ to.dates = dates  BY CheckedFields
  <2>3. Goes(c, to) /\ UNCHANGED <<swap, instance, override, lockedDates, revived, crossed>>
    BY <1>2 DEF BeginClear, Begins
  <2>4. dates \cap lockedDates = {}  BY <1>2 DEF BeginClear, RangeOpen
  <2> HIDE DEF to
  <2> QED  BY <2>1, <2>2, <2>3, <2>4, QuietKeeps
<1> QED  BY <1>1, <1>2

LEMMA EndKeeps ==
    ASSUME RosterInv, RosterTypeOK', NEW c \in Calls, Goes(c, NoCall),
           UNCHANGED <<swap, instance, override, lockedDates, revived, crossed>>
    PROVE  RosterInv'
<1>1. NoCall \in CallStates  BY CallForms
<1>2. NoCall.at = "idle"  BY ToFields DEF NoCall
<1> QED  BY <1>1, <1>2, QuietKeeps

LEMMA ReadKeeps ==
    ASSUME RosterInv, RosterTypeOK', NEW c \in Calls, ReadForApproval(c) \/ ReadForRejection(c)
    PROVE  RosterInv'
<1> DEFINE q == call[c].swap
<1>1. /\ q \in Swaps /\ swap[q].status # "NONE"
      /\ call[c].at = "approval" => instance[q] = "APPROVED"
      /\ call[c].at = "rejection" => instance[q] = "REJECTED"
  BY DEF ReadForApproval, ReadForRejection, RosterInv, CallsFit
<1>2. ASSUME NEW k \in {"approve", "reject"}, Goes(c, To(k, q)),
             k = "approve" => instance[q] = "APPROVED",
             k = "reject" => instance[q] = "REJECTED",
             UNCHANGED <<swap, instance, override, lockedDates, revived, crossed>>
      PROVE  RosterInv'
  <2> DEFINE to == To(k, q)
  <2>1. to \in CallStates  BY <1>1, CallForms DEF Places
  <2>2. to.at = k /\ to.swap = q  BY ToFields
  <2>3. Goes(c, to)  BY <1>2
  <2> HIDE DEF to, q
  <2> QED  BY <1>1, <1>2, <2>1, <2>2, <2>3, QuietKeeps
<1>3. CASE ReadForApproval(c)
  BY <1>1, <1>2, <1>3, EndKeeps DEF ReadForApproval
<1>4. CASE ReadForRejection(c)
  BY <1>1, <1>2, <1>4, EndKeeps DEF ReadForRejection
<1> QED  BY <1>3, <1>4

LEMMA FileKeeps ==
    ASSUME RosterInv, RosterTypeOK', NEW c \in Calls, NEW q \in Swaps, File(c, q)
    PROVE  RosterInv'
<1> DEFINE to == To("start", q)
<1>1. to \in CallStates  BY CallForms DEF Places
<1>2. to.at = "start" /\ to.swap = q  BY ToFields
<1>3. Moves(c, call[c].dates, to)  BY <1>1, WritesMoves DEF File, RosterInv
<1> HIDE DEF to
<1>4. PICK d \in call[c].dates :
         swap' = [swap EXCEPT ![q] = [status |-> "PENDING", pair |-> call[c].who, date |-> d]]
  BY DEF File
<1>5. call[c] \in CallStates  BY DEF RosterInv, RosterTypeOK
<1>6. d \in Dates /\ call[c].who \in SUBSET Employees  BY <1>4, <1>5, CallFields
<1>7. /\ swap[q].status = "NONE" /\ instance[q] = "NONE" /\ q \notin revived
      /\ swap'[q].status = "PENDING" /\ swap'[q].pair = call[c].who /\ swap'[q].date = d
      /\ \A r \in Swaps \ {q} : swap'[r] = swap[r]
  BY <1>4 DEF File, RosterInv, RosterTypeOK, Agreed
<1>8. UNCHANGED <<instance, override, lockedDates, revived>>
      /\ crossed' = crossed \cup call[c].overtaken
  BY DEF File, Crosses
<1>9. revived \subseteq Swaps \ {q}  BY <1>7 DEF RosterInv, RosterTypeOK
<1>10. Muddled' = Muddled \cup call[c].overtaken
  BY <1>7, <1>8, <1>9 DEF Muddled
<1>11. Agreed'  BY <1>6, <1>7, <1>8, <1>9 DEF Agreed, RosterInv
<1>12. CallsFit'
  <2>1. \A x \in Calls \ {c} : call[x].at \in {"start", "approval", "approve", "rejection", "reject"}
                                 => call[x].swap # q
    BY <1>7 DEF RosterInv, CallsFit
  <2>2. \A x \in Calls \ {c} : call'[x].at = call[x].at /\ call'[x].swap = call[x].swap
    BY <1>3 DEF Moves
  <2>3. call'[c].at = "start" /\ call'[c].swap = q  BY <1>2, <1>3 DEF Moves
  <2> QED  BY <1>7, <1>8, <2>1, <2>2, <2>3 DEF CallsFit, RosterInv
<1>13. AssignmentsFree' /\ RangesOpen'
  BY <1>2, <1>3, <1>8 DEF AssignmentsFree, RangesOpen, Moves, RosterInv
<1>14. FilingsFree'
  <2> SUFFICES ASSUME NEW x \in Calls, NEW r \in Swaps, call'[x].at = "file",
                      swap'[r].status \in Standing,
                      swap'[r].date \in (call'[x].dates \ call'[x].overtaken) \ Muddled'
               PROVE  swap'[r].pair \cap call'[x].who = {}
    BY DEF FilingsFree
  <2>1. x # c  BY <1>2, <1>3 DEF Moves
  <2>2. /\ call[x].at = "file" /\ call'[x].who = call[x].who
        /\ call'[x].dates = call[x].dates
        /\ call'[x].overtaken = call[x].overtaken \cup (call[c].dates \cap call[x].dates)
    BY <1>3, <2>1 DEF Moves
  <2>3. r # q  BY <1>4, <1>7, <2>2
  <2> QED  BY <1>7, <1>10, <2>2, <2>3 DEF FilingsFree, RosterInv
<1>15. SwapsApart'
  <2>1. ASSUME NEW r \in Swaps \ {q}, swap[r].status \in Standing, swap[r].date = d, d \notin Muddled'
        PROVE  swap[r].pair \cap call[c].who = {}
    <3>1. call[c].at = "file" /\ d \in call[c].dates \ call[c].overtaken
      BY <1>4, <1>10, <2>1 DEF File
    <3> QED  BY <1>10, <2>1, <3>1 DEF FilingsFree, RosterInv
  <2>2. ASSUME NEW r \in Swaps, NEW t \in Swaps, r # t,
               swap'[r].status \in Standing, swap'[t].status \in Standing,
               swap'[r].date = swap'[t].date, swap'[r].date \notin Muddled'
        PROVE  swap'[r].pair \cap swap'[t].pair = {}
    <3>1. CASE r = q  BY <1>7, <2>1, <2>2, <3>1
    <3>2. CASE t = q  BY <1>7, <2>1, <2>2, <3>2
    <3>3. CASE r # q /\ t # q  BY <1>7, <1>10, <2>2, <3>3 DEF SwapsApart, RosterInv
    <3> QED  BY <3>1, <3>2, <3>3
  <2> QED  BY <2>2 DEF SwapsApart
<1>16. PayrollCanResolve'
  <2>1. \A e \in Employees, x \in Dates : override[e][x].source = "SHIFT_SWAP" =>
            override[e][x].swap # q
    BY <1>7 DEF PayrollCanResolve, RosterInv
  <2>2. \A e \in Employees, x \in Dates : override[e][x].source = "SHIFT_SWAP" =>
            override[e][x].swap \in Swaps
    BY DEF RowsNamed, RosterInv
  <2> QED  BY <1>7, <1>8, <2>1, <2>2 DEF PayrollCanResolve, RosterInv
<1>17. SwapsAreWhole' /\ RowsNamed'
  BY <1>7, <1>8, <1>10 DEF SwapsAreWhole, RowsNamed, RosterInv
<1> QED  BY <1>11, <1>12, <1>13, <1>14, <1>15, <1>16, <1>17 DEF RosterInv

\* What stands when only calls and instances move, the call by itself.
LEMMA RowsKeep ==
    ASSUME RosterInv, NEW c \in Calls, NEW to, Moves(c, {}, to),
           to.at \notin {"file", "assign", "clear"},
           UNCHANGED <<swap, override, lockedDates, revived, crossed>>
    PROVE  /\ AssignmentsFree' /\ RangesOpen' /\ FilingsFree' /\ SwapsApart'
           /\ RowsNamed' /\ PayrollCanResolve' /\ SwapsAreWhole'
<1>1. Muddled' = Muddled  BY DEF Muddled
<1>2. AssignmentsFree'  BY DEF AssignmentsFree, Moves, RosterInv
<1>3. RangesOpen'  BY DEF RangesOpen, Moves, RosterInv
<1>4. FilingsFree'  BY <1>1 DEF FilingsFree, Moves, RosterInv
<1>5. SwapsApart' /\ RowsNamed' /\ PayrollCanResolve' /\ SwapsAreWhole'
  BY <1>1 DEF SwapsApart, RowsNamed, PayrollCanResolve, SwapsAreWhole, RosterInv
<1> QED  BY <1>2, <1>3, <1>4, <1>5

LEMMA StartKeeps ==
    ASSUME RosterInv, RosterTypeOK', NEW c \in Calls, StartWorkflow(c)
    PROVE  RosterInv'
<1> DEFINE q == call[c].swap
<1>1. q \in Swaps /\ swap[q].status # "NONE" /\ instance[q] = "NONE"
  BY DEF StartWorkflow, RosterInv, CallsFit
<1>2. Moves(c, {}, NoCall)  BY CallForms, GoesMoves DEF StartWorkflow, RosterInv
<1>3. NoCall.at = "idle"  BY ToFields DEF NoCall
<1>4. instance'[q] = "PENDING" /\ \A r \in Swaps \ {q} : instance'[r] = instance[r]
  BY <1>1 DEF StartWorkflow, RosterInv, RosterTypeOK
<1>5. UNCHANGED <<swap, override, lockedDates, revived, crossed>>  BY DEF StartWorkflow
<1>6. Agreed'
  <2>1. swap[q].status \notin {"APPROVED", "REJECTED"}  BY <1>1 DEF RosterInv, Agreed
  <2> HIDE DEF q
  <2> QED  BY <1>1, <1>4, <1>5, <2>1 DEF Agreed, RosterInv
<1>7. CallsFit'
  <2>1. \A x \in Calls \ {c} :
           call[x].at \in {"start", "approval", "approve", "rejection", "reject"} =>
           call[x].swap # q
    BY <1>1 DEF RosterInv, CallsFit, StartWorkflow
  <2> HIDE DEF q
  <2> QED  BY <1>2, <1>3, <1>4, <1>5, <2>1 DEF CallsFit, RosterInv, Moves
<1> QED  BY <1>2, <1>3, <1>5, <1>6, <1>7, RowsKeep DEF RosterInv

LEMMA DecideKeeps ==
    ASSUME RosterInv, RosterTypeOK', NEW c \in Calls, NEW q \in Swaps,
           NEW verdict \in {"APPROVED", "REJECTED", "CANCELLED"}, Decide(c, q, verdict)
    PROVE  RosterInv'
<1>1. /\ instance[q] = "PENDING"
      /\ instance'[q] = verdict /\ \A r \in Swaps \ {q} : instance'[r] = instance[r]
      /\ UNCHANGED <<swap, override, lockedDates, revived, crossed>>
  BY DEF Decide, Decidable, RosterInv, RosterTypeOK
<1>2. swap[q].status \notin {"NONE", "APPROVED", "REJECTED"}  BY <1>1 DEF RosterInv, Agreed
<1>3. PICK to \in CallStates :
         /\ Goes(c, to)
         /\ \/ to.at = "approval" /\ to.swap = q /\ verdict = "APPROVED"
            \/ to.at = "rejection" /\ to.swap = q /\ verdict = "REJECTED"
            \/ to.at = "idle"
  <2>1. /\ To("approval", q) \in CallStates /\ To("rejection", q) \in CallStates
        /\ NoCall \in CallStates
    BY CallForms DEF Places
  <2>2. NoCall.at = "idle"  BY ToFields DEF NoCall
  <2>3. To("approval", q).at = "approval" /\ To("approval", q).swap = q  BY ToFields
  <2>4. To("rejection", q).at = "rejection" /\ To("rejection", q).swap = q  BY ToFields
  <2>5. \/ verdict = "APPROVED" /\ Goes(c, To("approval", q))
        \/ verdict = "REJECTED" /\ Goes(c, To("rejection", q))
        \/ verdict = "CANCELLED" /\ Goes(c, NoCall)
    BY DEF Decide, Begins
  <2>6. CASE verdict = "APPROVED" /\ Goes(c, To("approval", q))  BY <2>1, <2>3, <2>6
  <2>7. CASE verdict = "REJECTED" /\ Goes(c, To("rejection", q))  BY <2>1, <2>4, <2>7
  <2>8. CASE verdict = "CANCELLED" /\ Goes(c, NoCall)  BY <2>1, <2>2, <2>8
  <2> QED  BY <2>5, <2>6, <2>7, <2>8
<1>4. Moves(c, {}, to)  BY <1>3, GoesMoves DEF RosterInv
<1>5. Agreed'  BY <1>1, <1>2 DEF Agreed, RosterInv
<1>6. CallsFit'
  <2>1. \A x \in Calls :
           call[x].at \in {"start", "approval", "approve", "rejection", "reject"} =>
           call[x].swap # q
    BY <1>1 DEF RosterInv, CallsFit
  <2>2. call'[c] = to  BY <1>4 DEF Moves
  <2>3. \A x \in Calls \ {c} : call'[x].at = call[x].at /\ call'[x].swap = call[x].swap
    BY <1>4 DEF Moves
  <2> QED  BY <1>1, <1>2, <1>3, <2>1, <2>2, <2>3 DEF CallsFit, RosterInv
<1> QED  BY <1>1, <1>3, <1>4, <1>5, <1>6, RowsKeep DEF RosterInv

LEMMA RejectionKeeps ==
    ASSUME RosterInv, RosterTypeOK', NEW c \in Calls, FinalizeRejection(c)
    PROVE  RosterInv'
<1> DEFINE q == call[c].swap
<1>1. q \in Swaps /\ swap[q].status # "NONE" /\ instance[q] = "REJECTED"
  BY DEF FinalizeRejection, RosterInv, CallsFit
<1>2. swap[q].status # "APPROVED"  BY <1>1 DEF RosterInv, Agreed
<1>3. /\ swap'[q].status = "REJECTED"
      /\ \A r \in Swaps : /\ swap'[r].pair = swap[r].pair /\ swap'[r].date = swap[r].date
                          /\ r # q => swap'[r].status = swap[r].status
  BY <1>1, StatusMoves DEF FinalizeRejection, RosterInv, SwapStatuses
<1>4. Moves(c, {}, NoCall)  BY CallForms, GoesMoves DEF FinalizeRejection, RosterInv
<1>5. NoCall.at = "idle"  BY ToFields DEF NoCall
<1>6. UNCHANGED <<instance, override, lockedDates, revived, crossed>>  BY DEF FinalizeRejection
<1> HIDE DEF q
<1>7. revived \subseteq Swaps  BY DEF RosterInv, RosterTypeOK
<1>8. Muddled' = Muddled  BY <1>3, <1>6, <1>7 DEF Muddled
<1>9. Agreed'  BY <1>1, <1>3, <1>6, <1>7 DEF Agreed, RosterInv
<1>10. CallsFit'  BY <1>1, <1>3, <1>4, <1>5, <1>6 DEF CallsFit, RosterInv, Moves
<1>11. AssignmentsFree' /\ RangesOpen'
  BY <1>4, <1>5, <1>6 DEF AssignmentsFree, RangesOpen, RosterInv, Moves
<1>12. FilingsFree'  BY <1>3, <1>4, <1>5, <1>6, <1>8 DEF FilingsFree, Standing, RosterInv, Moves
<1>13. SwapsApart'  BY <1>3, <1>8 DEF SwapsApart, Standing, RosterInv
<1>14. RowsNamed' /\ PayrollCanResolve' /\ SwapsAreWhole'
  BY <1>2, <1>3, <1>6, <1>8 DEF RowsNamed, PayrollCanResolve, SwapsAreWhole, RosterInv
<1> QED  BY <1>9, <1>10, <1>11, <1>12, <1>13, <1>14 DEF RosterInv

LEMMA CancelKeeps ==
    ASSUME RosterInv, RosterTypeOK', NEW q \in Swaps, CancelSwap(q)
    PROVE  RosterInv'
<1>1. swap[q].status = "PENDING"  BY DEF CancelSwap
<1>2. /\ swap'[q].status = "CANCELLED"
      /\ \A r \in Swaps : /\ swap'[r].pair = swap[r].pair /\ swap'[r].date = swap[r].date
                          /\ r # q => swap'[r].status = swap[r].status
  BY StatusMoves DEF CancelSwap, RosterInv, SwapStatuses
<1>3. UNCHANGED <<instance, override, lockedDates, call, revived, crossed>>  BY DEF CancelSwap
<1>4. revived \subseteq Swaps  BY DEF RosterInv, RosterTypeOK
<1>5. Muddled' = Muddled  BY <1>2, <1>3, <1>4 DEF Muddled
<1>6. Agreed'  BY <1>1, <1>2, <1>3, <1>4 DEF Agreed, RosterInv
<1>7. CallsFit'  BY <1>1, <1>2, <1>3 DEF CallsFit, RosterInv
<1>8. AssignmentsFree' /\ RangesOpen'  BY <1>3 DEF AssignmentsFree, RangesOpen, RosterInv
<1>9. FilingsFree'  BY <1>2, <1>3, <1>5 DEF FilingsFree, Standing, RosterInv
<1>10. SwapsApart'  BY <1>2, <1>5 DEF SwapsApart, Standing, RosterInv
<1>11. RowsNamed' /\ PayrollCanResolve' /\ SwapsAreWhole'
  BY <1>1, <1>2, <1>3, <1>5 DEF RowsNamed, PayrollCanResolve, SwapsAreWhole, RosterInv
<1> QED  BY <1>6, <1>7, <1>8, <1>9, <1>10, <1>11 DEF RosterInv

\* Both rows are written at once, on a date that every call is overtaken on.
LEMMA ApprovalKeeps ==
    ASSUME RosterInv, RosterTypeOK', NEW c \in Calls, FinalizeApproval(c)
    PROVE  RosterInv'
<1> DEFINE q == call[c].swap
           d == swap[q].date
<1>1. q \in Swaps /\ swap[q].status # "NONE" /\ instance[q] = "APPROVED"
  BY DEF FinalizeApproval, RosterInv, CallsFit
<1>2. swap[q].status \in Standing \cup {"CANCELLED"} /\ d \in Dates
  BY <1>1, SwapFields DEF RosterInv, Agreed, SwapStatuses, Standing
<1>3. /\ swap'[q].status = "APPROVED"
      /\ \A r \in Swaps : /\ swap'[r].pair = swap[r].pair /\ swap'[r].date = swap[r].date
                          /\ r # q => swap'[r].status = swap[r].status
  BY <1>1, StatusMoves DEF FinalizeApproval, RosterInv, SwapStatuses
<1>4. Moves(c, {d}, NoCall)  BY CallForms, WritesMoves DEF FinalizeApproval, RosterInv
<1>5. NoCall.at = "idle"  BY ToFields DEF NoCall
<1>6. /\ UNCHANGED <<instance, lockedDates, crossed>>
      /\ revived' = IF swap[q].status = "CANCELLED" THEN revived \cup {q} ELSE revived
  BY DEF FinalizeApproval
<1>7. \A e \in Employees, x \in Dates :
         override'[e][x] = IF e \in swap[q].pair /\ x = d THEN BySwap(q) ELSE override[e][x]
  BY DEF FinalizeApproval, SwapBoth
<1> HIDE DEF q, d
<1>8. revived \subseteq Swaps /\ d = swap[q].date  BY DEF RosterInv, RosterTypeOK, d
<1>9. /\ Muddled \subseteq Muddled'
      /\ swap[q].status \in Standing \/ d \in Muddled'
  BY <1>1, <1>2, <1>3, <1>6, <1>8 DEF Muddled
<1>10. Agreed'  BY <1>1, <1>3, <1>6, <1>8 DEF Agreed, RosterInv
<1>11. CallsFit'  BY <1>1, <1>3, <1>4, <1>5, <1>6 DEF CallsFit, RosterInv, Moves
<1>12. AssignmentsFree'
  <2> SUFFICES ASSUME NEW x \in Calls, NEW e \in Employees, NEW y \in Dates,
                      call'[x].at = "assign", e \in call'[x].who,
                      y \in call'[x].dates \ call'[x].overtaken
               PROVE  override'[e][y].source # "SHIFT_SWAP"
    BY DEF AssignmentsFree
  <2>1. x # c  BY <1>4, <1>5 DEF Moves
  <2>2. /\ call[x].at = "assign" /\ e \in call[x].who
        /\ y \in call[x].dates \ call[x].overtaken /\ y # d
    BY <1>4, <2>1 DEF Moves
  <2>3. override'[e][y] = override[e][y]  BY <1>7, <2>2
  <2> QED  BY <2>2, <2>3 DEF AssignmentsFree, RosterInv
<1>13. RangesOpen'  BY <1>4, <1>5, <1>6 DEF RangesOpen, Moves, RosterInv
<1>14. FilingsFree'
  <2> SUFFICES ASSUME NEW x \in Calls, NEW r \in Swaps, call'[x].at = "file",
                      swap'[r].status \in Standing,
                      swap'[r].date \in (call'[x].dates \ call'[x].overtaken) \ Muddled'
               PROVE  swap'[r].pair \cap call'[x].who = {}
    BY DEF FilingsFree
  <2>1. x # c  BY <1>4, <1>5 DEF Moves
  <2>2. /\ call[x].at = "file" /\ call'[x].who = call[x].who
        /\ swap[r].date \in (call[x].dates \ call[x].overtaken) \ Muddled
    BY <1>3, <1>4, <1>9, <2>1 DEF Moves
  <2>3. swap[r].status \in Standing  BY <1>3, <1>8, <1>9
  <2> QED  BY <1>3, <2>2, <2>3 DEF FilingsFree, RosterInv
<1>15. ASSUME NEW r \in Swaps, NEW t \in Swaps, r # t,
              swap'[r].status \in Standing, swap'[t].status \in Standing,
              swap[r].date = swap[t].date, swap[r].date \notin Muddled'
       PROVE  swap[r].pair \cap swap[t].pair = {}
  <2>1. swap[r].status \in Standing /\ swap[t].status \in Standing
    BY <1>3, <1>8, <1>9, <1>15
  <2> QED  BY <1>9, <1>15, <2>1 DEF SwapsApart, RosterInv
<1>16. SwapsApart'  BY <1>3, <1>15 DEF SwapsApart
<1>17. RowsNamed'
  <2>1. BySwap(q).swap = q  BY OverrideForms
  <2> QED  BY <1>1, <1>7, <2>1 DEF RowsNamed, RosterInv
<1>18. PayrollCanResolve'
  <2> SUFFICES ASSUME NEW e \in Employees, NEW y \in Dates,
                      override'[e][y].source = "SHIFT_SWAP"
               PROVE  LET r == override'[e][y].swap
                      IN  /\ swap'[r].status = "APPROVED"
                          /\ e \in swap'[r].pair /\ swap'[r].date = y
    BY DEF PayrollCanResolve
  <2>1. CASE e \in swap[q].pair /\ y = d
    <3>1. override'[e][y].swap = q  BY <1>7, <2>1, OverrideForms
    <3> QED  BY <1>1, <1>3, <1>8, <2>1, <3>1
  <2>2. CASE ~(e \in swap[q].pair /\ y = d)
    <3>1. override'[e][y] = override[e][y]  BY <1>7, <2>2
    <3>2. override[e][y].swap \in Swaps  BY <3>1 DEF RowsNamed, RosterInv
    <3>3. LET r == override[e][y].swap
          IN  /\ swap[r].status = "APPROVED" /\ e \in swap[r].pair /\ swap[r].date = y
      BY <3>1 DEF PayrollCanResolve, RosterInv
    <3> QED  BY <1>3, <3>1, <3>2, <3>3
  <2> QED  BY <2>1, <2>2
<1>19. SwapsAreWhole'
  <2> SUFFICES ASSUME NEW r \in Swaps, swap'[r].status = "APPROVED",
                      swap'[r].date \notin Muddled', NEW e \in swap'[r].pair
               PROVE  override'[e][swap'[r].date] = BySwap(r)
    BY DEF SwapsAreWhole
  <2>0. /\ e \in swap[r].pair /\ swap'[r].date = swap[r].date
        /\ swap[r].pair \in SUBSET Employees
    BY <1>3, SwapFields DEF RosterInv
  <2>1. CASE r = q  BY <1>2, <1>7, <1>8, <2>0, <2>1
  <2>2. CASE r # q
    <3>1. swap[r].status = "APPROVED" /\ swap[r].date \notin Muddled
      BY <1>3, <1>9, <2>0, <2>2
    <3>2. override[e][swap[r].date] = BySwap(r)
      BY <2>0, <3>1 DEF SwapsAreWhole, RosterInv
    <3>3. swap[r].date \in Dates  BY <3>1 DEF Agreed, RosterInv
    <3>4. ~(e \in swap[q].pair /\ swap[r].date = d)
      <4>1. swap'[r].status \in Standing /\ swap'[q].status \in Standing
        BY <1>3 DEF Standing
      <4> QED  BY <1>1, <1>8, <1>15, <2>0, <2>2, <4>1
    <3> QED  BY <1>7, <2>0, <3>2, <3>3, <3>4
  <2> QED  BY <2>1, <2>2
<1> QED  BY <1>10, <1>11, <1>12, <1>13, <1>14, <1>16, <1>17, <1>18, <1>19 DEF RosterInv

\* HR writes no row that a swap holds, unless the call was overtaken there.
LEMMA HRWriteKeeps ==
    ASSUME RosterInv, RosterTypeOK', NEW c \in Calls, Assign(c) \/ Clear(c)
    PROVE  RosterInv'
<1>1. Moves(c, call[c].dates, NoCall)  BY CallForms, WritesMoves DEF Assign, Clear, RosterInv
<1>2. NoCall.at = "idle"  BY ToFields DEF NoCall
<1>3. UNCHANGED <<swap, instance, lockedDates, revived>>
      /\ crossed' = crossed \cup call[c].overtaken
  BY DEF Assign, Clear, Crosses
<1>4. ASSUME NEW e \in Employees, NEW d \in Dates
      PROVE  \/ override'[e][d] = override[e][d]
             \/ /\ override'[e][d].source # "SHIFT_SWAP"
                /\ \/ override[e][d].source # "SHIFT_SWAP"
                   \/ d \in crossed'
  <2>1. CASE Assign(c)
    <3>1. override'[e][d] = IF e \in call[c].who /\ d \in call[c].dates THEN AssignedByHR
                            ELSE override[e][d]
      BY <2>1 DEF Assign
    <3>2. (e \in call[c].who /\ d \in call[c].dates \ call[c].overtaken)
             => override[e][d].source # "SHIFT_SWAP"
      BY <2>1 DEF Assign, AssignmentsFree, RosterInv
    <3> QED  BY <1>3, <3>1, <3>2, OverrideForms
  <2>2. CASE Clear(c)  BY <2>2, OverrideForms DEF Clear
  <2> QED  BY <2>1, <2>2
<1>5. Muddled \subseteq Muddled' /\ crossed' \subseteq Muddled'  BY <1>3 DEF Muddled
<1>6. Agreed'  BY <1>3 DEF Agreed, RosterInv
<1>7. CallsFit'  BY <1>1, <1>2, <1>3 DEF CallsFit, RosterInv, Moves
<1>8. AssignmentsFree'  BY <1>1, <1>2, <1>4 DEF AssignmentsFree, RosterInv, Moves
<1>9. RangesOpen'  BY <1>1, <1>2, <1>3 DEF RangesOpen, RosterInv, Moves
<1>10. FilingsFree'  BY <1>1, <1>2, <1>3, <1>5 DEF FilingsFree, RosterInv, Moves
<1>11. SwapsApart'  BY <1>3, <1>5 DEF SwapsApart, RosterInv
<1>12. RowsNamed'  BY <1>4 DEF RowsNamed, RosterInv
<1>13. PayrollCanResolve'  BY <1>3, <1>4 DEF PayrollCanResolve, RosterInv
<1>14. SwapsAreWhole'
  <2> SUFFICES ASSUME NEW q \in Swaps, swap[q].status = "APPROVED",
                      swap[q].date \notin Muddled', NEW e \in swap[q].pair
               PROVE  override'[e][swap[q].date] = BySwap(q)
    BY <1>3 DEF SwapsAreWhole
  <2>1. e \in Employees /\ swap[q].date \in Dates
    BY SwapFields DEF RosterInv, Agreed
  <2>2. override[e][swap[q].date] = BySwap(q)
    BY <1>5 DEF SwapsAreWhole, RosterInv
  <2> QED  BY <1>4, <1>5, <2>1, <2>2, OverrideForms
<1> QED  BY <1>6, <1>7, <1>8, <1>9, <1>10, <1>11, <1>12, <1>13, <1>14 DEF RosterInv

LEMMA LockKeeps ==
    ASSUME RosterInv, RosterTypeOK', NEW d \in Dates, LockDate(d)
    PROVE  RosterInv'
<1>1. ASSUME NEW x \in Calls
      PROVE  /\ call'[x].at = call[x].at /\ call'[x].swap = call[x].swap
             /\ call'[x].who = call[x].who /\ call'[x].dates = call[x].dates
             /\ call'[x].overtaken = call[x].overtaken \cup ({d} \cap call[x].dates)
  <2>1. call[x] \in CallStates  BY DEF RosterInv, RosterTypeOK
  <2>2. call'[x] = [call[x] EXCEPT !.overtaken = @ \cup ({d} \cap call[x].dates)]
    BY DEF LockDate
  <2> QED  BY <2>1, <2>2, Overtaking
<1>2. /\ UNCHANGED <<swap, instance, override, revived, crossed>>
      /\ lockedDates' = lockedDates \cup {d}
  BY DEF LockDate
<1>3. Muddled' = Muddled  BY <1>2 DEF Muddled
<1>4. CallsFit'  BY <1>1, <1>2 DEF CallsFit, RosterInv
<1>5. AssignmentsFree'  BY <1>1, <1>2 DEF AssignmentsFree, RosterInv
<1>6. RangesOpen'  BY <1>1, <1>2 DEF RangesOpen, RosterInv
<1>7. FilingsFree'  BY <1>1, <1>2, <1>3 DEF FilingsFree, RosterInv
<1>8. Agreed' /\ SwapsApart' /\ RowsNamed' /\ PayrollCanResolve' /\ SwapsAreWhole'
  BY <1>2, <1>3 DEF Agreed, SwapsApart, RowsNamed, PayrollCanResolve, SwapsAreWhole, RosterInv
<1> QED  BY <1>4, <1>5, <1>6, <1>7, <1>8 DEF RosterInv

-----------------------------------------------------------------------------
(* The invariant, and what follows. *)

LEMMA InvInit == RosterInit => RosterInv
<1> SUFFICES ASSUME RosterInit PROVE RosterInv  OBVIOUS
<1>1. /\ \A q \in Swaps : swap[q].status = "NONE" /\ instance[q] = "NONE"
      /\ \A e \in Employees, d \in Dates : override[e][d].source = "NONE"
      /\ \A c \in Calls : call[c].at = "idle"
      /\ revived = {}
  BY ToFields, OverrideForms DEF RosterInit, NoSwap, NoCall
<1>2. RosterTypeOK  BY TypeInit
<1>3. Agreed /\ CallsFit  BY <1>1 DEF Agreed, CallsFit
<1>4. AssignmentsFree /\ RangesOpen /\ FilingsFree /\ SwapsApart /\ RowsNamed
  BY <1>1 DEF AssignmentsFree, RangesOpen, FilingsFree, SwapsApart, RowsNamed, Standing
<1>5. PayrollCanResolve /\ SwapsAreWhole
  BY <1>1 DEF PayrollCanResolve, SwapsAreWhole
<1> QED  BY <1>2, <1>3, <1>4, <1>5 DEF RosterInv

LEMMA InvStep == RosterInv /\ [RosterNext]_rosterVars => RosterInv'
<1> SUFFICES ASSUME RosterInv, [RosterNext]_rosterVars PROVE RosterInv'  OBVIOUS
<1>0. RosterTypeOK'  BY RosterTypeStep DEF RosterInv
<1>1. ASSUME NEW c \in Calls, Step(c) PROVE RosterInv'
  <2>1. ASSUME Die(c) PROVE RosterInv'  BY <1>0, <2>1, EndKeeps DEF Die
  <2> QED
    BY <1>0, <1>1, <2>1, BeginFileKeeps, FileKeeps, DecideKeeps, StartKeeps, ReadKeeps,
       ApprovalKeeps, RejectionKeeps, BeginHRKeeps, HRWriteKeeps
    DEF Step
<1>2. ASSUME NEW q \in Swaps, CancelSwap(q) PROVE RosterInv'  BY <1>0, <1>2, CancelKeeps
<1>3. ASSUME NEW d \in Dates, LockDate(d) PROVE RosterInv'  BY <1>0, <1>3, LockKeeps
<1>4. CASE UNCHANGED rosterVars
  BY <1>0, <1>4 DEF rosterVars, RosterInv, Agreed, CallsFit, AssignmentsFree, RangesOpen, FilingsFree,
     SwapsApart, RowsNamed, PayrollCanResolve, SwapsAreWhole, Muddled
<1> QED  BY <1>1, <1>2, <1>3, <1>4 DEF RosterNext

LEMMA Invariant == RosterSpec => []RosterInv
<1>1. RosterInit => RosterInv  BY InvInit
<1>2. RosterInv /\ [RosterNext]_rosterVars => RosterInv'  BY InvStep
<1> QED  BY <1>1, <1>2, PTL DEF RosterSpec

\* Every swap, instance, override and call keeps its type, whatever calls
\* overlap or die.
THEOREM RosterTypeCorrect == RosterSpec => []RosterTypeOK
<1>1. RosterInv => RosterTypeOK  BY DEF RosterInv
<1> QED  BY <1>1, Invariant, PTL

\* Payroll can justify every swap override it reads: no order of filings,
\* cancellations, decisions, HR writes and deaths leaves a live one behind
\* whose request is not approved (attendance-calendar.ts:66-75).
THEOREM PayrollResolves == RosterSpec => []PayrollCanResolve
<1>1. RosterInv => PayrollCanResolve  BY DEF RosterInv
<1> QED  BY <1>1, Invariant, PTL

\* Both halves of an approved swap stand on every date that no overlap and
\* no revived swap touched.
THEOREM SwapsStayWhole == RosterSpec => []SwapsAreWhole
<1>1. RosterInv => SwapsAreWhole  BY DEF RosterInv
<1> QED  BY <1>1, Invariant, PTL

LEMMA OnlySwapsRewrite ==
    ASSUME RosterInv, [RosterNext]_rosterVars, NEW e \in Employees, NEW d \in Dates,
           d \in lockedDates, override'[e][d] # override[e][d], d \notin crossed'
    PROVE  override'[e][d].source = "SHIFT_SWAP"
<1>1. ASSUME NEW c \in Calls, Step(c) PROVE override'[e][d].source = "SHIFT_SWAP"
  <2>1. CASE FinalizeApproval(c)
    <3>1. override'[e][d] = BySwap(call[c].swap)
      BY <2>1 DEF FinalizeApproval, SwapBoth
    <3> QED  BY <3>1, OverrideForms
  <2>2. CASE Assign(c) \/ Clear(c)
    <3>1. d \in call[c].dates  BY <2>2 DEF Assign, Clear
    <3>2. d \in call[c].overtaken
      BY <2>2, <3>1 DEF Assign, Clear, RangesOpen, RosterInv
    <3> QED  BY <2>2, <3>2 DEF Assign, Clear, Crosses
  <2> QED
    BY <1>1, <2>1, <2>2
    DEF Step, BeginFile, File, Decide, StartWorkflow, ReadForApproval, ReadForRejection,
        FinalizeRejection, BeginAssign, BeginClear, Die
<1> QED  BY <1>1 DEF RosterNext, CancelSwap, LockDate, rosterVars

\* After the lock a day is rewritten by nobody but an approved swap, unless
\* the write was past its guard already (work-calendar.service.ts:237-238).
THEOREM LockedRosterIsLeftAlone == RosterSpec => LockedRosterStands
<1>1. RosterInv /\ [RosterNext]_rosterVars =>
        [\A e \in Employees, d \in Dates :
          (d \in lockedDates /\ override'[e][d] # override[e][d] /\ d \notin crossed')
          => override'[e][d].source = "SHIFT_SWAP"]_rosterVars
  BY OnlySwapsRewrite
<1> QED  BY <1>1, Invariant, PTL DEF RosterSpec, LockedRosterStands
=============================================================================
