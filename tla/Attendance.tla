---------------------------- MODULE Attendance -----------------------------
(***************************************************************************)
(* The attendance days one payroll period is calculated from: clocking in  *)
(* and out, HR's own entries, corrections and their approval, and the two  *)
(* nightly sweeps of modules/attendance, against the payroll period guard. *)
(*                                                                         *)
(* Every operation reads its rows and the guard first and writes last, by  *)
(* id, on what it read: what it finds then may be older than the row.  The *)
(* sweeps share the queue of one worker, one job at a time.                *)
(***************************************************************************)
EXTENDS Naturals, FiniteSets

CONSTANTS
    Days,           \* the days of one employee each (unique by employee and date)
    Corrections,
    Requests,       \* calls being served
    Nothing

ASSUME AttendanceAssumption ==
    Nothing \notin Days \cup Corrections /\ Days \cap Corrections = {}

Statuses == {"NONE", "PRESENT", "ABSENT", "OTHER"}  \* PRESENT stands for LATE too
Times == {"NONE", "OWN", "AUTO", "CORRECTED"}
Rows == [status : Statuses, in : Times, out : Times, deleted : BOOLEAN]
NoRow == [status |-> "NONE", in |-> "NONE", out |-> "NONE", deleted |-> FALSE]

Filings == [status : {"NONE", "PENDING", "APPROVED", "REJECTED"}, day : Days \cup {Nothing},
            linked : BOOLEAN]
Kinds == {"CREATE", "CHECK_OUT", "STATUS", "DELETE", "APPROVE", "REJECT"}
Ops == [do : Kinds \cup {"IDLE"}, on : Days \cup Corrections \cup {Nothing}, sawOut : BOOLEAN]
Idle == [do |-> "IDLE", on |-> Nothing, sawOut |-> FALSE]

VARIABLES
    row,
    correction,     \* [status, day, linked] of each attendance_correction
    op,             \* what each call does, on which day or correction, and whether it saw a check-out
    sweep,          \* the job at work and the days it has yet to write
    locked,         \* the attendance of the period is reviewed, or the period closed
    underway,       \* the days with a write past the guard when it was locked
    applied,        \* the corrections that were written into a day
    contested       \* the corrections with two decisions in the air at once

vars == <<row, correction, op, sweep, locked, underway, applied, contested>>
asides == <<locked, underway, applied, contested>>

TypeOK ==
    /\ row \in [Days -> Rows]
    /\ correction \in [Corrections -> Filings]
    /\ op \in [Requests -> Ops]
    /\ sweep \in [job : {"IDLE", "ABSENT", "CHECK_OUT"}, days : SUBSET Days]
    /\ locked \in BOOLEAN /\ underway \subseteq Days
    /\ applied \subseteq Corrections /\ contested \subseteq Corrections

NoSweep == [job |-> "IDLE", days |-> {}]

Init ==
    /\ row = [d \in Days |-> NoRow]
    /\ correction = [c \in Corrections |-> [status |-> "NONE", day |-> Nothing, linked |-> FALSE]]
    /\ op = [r \in Requests |-> Idle]
    /\ sweep = NoSweep
    /\ locked = FALSE /\ underway = {} /\ applied = {} /\ contested = {}

-----------------------------------------------------------------------------
Live(d) == row[d].status # "NONE" /\ ~row[d].deleted
CountsPresent(w) == w.status = "PRESENT" /\ ~w.deleted

\* assertPayrollDateOpen, read outside the write.
DateOpen(d) == ~locked

Begin(r, what, on, d) ==
    /\ op[r] = Idle
    /\ op' = [op EXCEPT ![r] = [do |-> what, on |-> on, sawOut |-> row[d].out # "NONE"]]
Ends(r, what) == op[r].do = what /\ op' = [op EXCEPT ![r] = Idle]
Write(d, w) == row' = [row EXCEPT ![d] = w]

-----------------------------------------------------------------------------
(* Clocking in and out, and what HR writes on a day.                       *)

BeginCreate(r, d) ==
    /\ ~Live(d) /\ DateOpen(d)
    /\ Begin(r, "CREATE", d, d)
    /\ UNCHANGED <<row, correction, sweep, asides>>

\* The insert is refused by the unique key, also of a row that is only marked deleted.
Inserted(d, w) == IF row[d] = NoRow THEN Write(d, w) ELSE UNCHANGED row
Create(r) ==
    /\ Ends(r, "CREATE")
    /\ \E w \in {[NoRow EXCEPT !.status = "PRESENT", !.in = "OWN"],
                 [NoRow EXCEPT !.status = "PRESENT", !.in = "OWN", !.out = "OWN"],
                 [NoRow EXCEPT !.status = "OTHER"]} : Inserted(op[r].on, w)
    /\ UNCHANGED <<correction, sweep, asides>>

StillInAlways(d) == row[d].in # "NONE"  \* bug: who has checked out may check out again
StillIn(d) == row[d].in # "NONE" /\ row[d].out = "NONE"
BeginCheckOut(r, d) ==
    /\ Live(d) /\ StillIn(d) /\ DateOpen(d)
    /\ Begin(r, "CHECK_OUT", d, d)
    /\ UNCHANGED <<row, correction, sweep, asides>>
CheckOut(r) ==
    /\ Ends(r, "CHECK_OUT")
    /\ Write(op[r].on, [row[op[r].on] EXCEPT !.out = "OWN"])
    /\ UNCHANGED <<correction, sweep, asides>>

BeginHR(r, d, what) ==
    /\ Live(d) /\ DateOpen(d)
    /\ Begin(r, what, d, d)
    /\ UNCHANGED <<row, correction, sweep, asides>>
SetStatus(r, status) ==
    /\ Ends(r, "STATUS")
    /\ Write(op[r].on, [row[op[r].on] EXCEPT !.status = status])
    /\ UNCHANGED <<correction, sweep, asides>>
Delete(r) ==
    /\ Ends(r, "DELETE")
    /\ Write(op[r].on, [row[op[r].on] EXCEPT !.deleted = TRUE])
    /\ UNCHANGED <<correction, sweep, asides>>

-----------------------------------------------------------------------------
(* Corrections.  A request that names a row keeps to it; one that names    *)
(* none upserts the day.                                                   *)

FileCorrection(c, d, linked) ==
    /\ correction[c].status = "NONE" /\ DateOpen(d) /\ (linked => Live(d))
    /\ correction' = [correction EXCEPT ![c] =
                        [status |-> "PENDING", day |-> d, linked |-> linked]]
    /\ UNCHANGED <<row, op, sweep, asides>>

BeginDecision(r, c, what) ==
    /\ Begin(r, what, c, correction[c].day)
    /\ contested' = IF \E s \in Requests : op[s].on = c THEN contested \cup {c} ELSE contested
    /\ UNCHANGED <<row, correction, sweep, locked, underway, applied>>

\* "Koreksi absensi sudah diproses"
FiledAtAll(c) == correction[c].status # "NONE"  \* bug: decided ones are taken up again
Undecided(c) == correction[c].status = "PENDING"
ReopenedSinceFiling(c) == TRUE  \* bug: the guard of the filing is trusted
StillOpen(c) == DateOpen(correction[c].day)

BeginApprove(r, c) == Undecided(c) /\ StillOpen(c) /\ BeginDecision(r, c, "APPROVE")
BeginReject(r, c) == Undecided(c) /\ BeginDecision(r, c, "REJECT")

Corrected(w, in, out) ==
    [w EXCEPT !.status = "PRESENT", !.in = IF in THEN "CORRECTED" ELSE @,
              !.out = IF out THEN "CORRECTED" ELSE @]

\* One transaction for the day and the request; times out of order roll it back.
Approve(r, in, out) ==
    LET c == op[r].on IN
    /\ Ends(r, "APPROVE") /\ (in \/ out)
    /\ \/ /\ Write(correction[c].day, Corrected(row[correction[c].day], in, out))
          /\ correction' = [correction EXCEPT ![c].status = "APPROVED"]
          /\ applied' = applied \cup {c}
       \/ UNCHANGED <<row, correction, applied>>
    /\ UNCHANGED <<sweep, locked, underway, contested>>
Reject(r) ==
    /\ Ends(r, "REJECT")
    /\ correction' = [correction EXCEPT ![op[r].on].status = "REJECTED"]
    /\ UNCHANGED <<row, sweep, asides>>

-----------------------------------------------------------------------------
(* The sweeps over yesterday.                                              *)

\* Absent on a working day without leave, trip or permission, which is a choice here.
Absentees == {d \in Days : ~CountsPresent(row[d])}
OpenRows == {d \in Days : Live(d) /\ StillIn(d)}

BeginSweep(job, days) ==
    /\ sweep = NoSweep /\ days # {} /\ \A d \in days : DateOpen(d)
    /\ sweep' = [job |-> job, days |-> days]
    /\ UNCHANGED <<row, correction, op, asides>>
BeginAbsent == \E days \in SUBSET Absentees : BeginSweep("ABSENT", days)
BeginAutoCheckout == \E days \in SUBSET OpenRows : BeginSweep("CHECK_OUT", days)

\* createMany with skipDuplicates.
AbsentRow == [NoRow EXCEPT !.status = "ABSENT"]
OverwritesDuplicates(d) == TRUE  \* bug: what came in meanwhile is written over
Missing(d) == row[d] = NoRow
MarkAbsent ==
    /\ sweep.job = "ABSENT" /\ sweep' = NoSweep
    /\ row' = [d \in Days |-> IF d \in sweep.days /\ Missing(d) THEN AbsentRow ELSE row[d]]
    /\ UNCHANGED <<correction, op, asides>>

\* The scheduled end, into the row as it is now.
AutoCheckout(d) ==
    /\ sweep.job = "CHECK_OUT" /\ d \in sweep.days
    /\ sweep' = IF sweep.days = {d} THEN NoSweep ELSE [sweep EXCEPT !.days = @ \ {d}]
    /\ Write(d, [row[d] EXCEPT !.out = "AUTO"])
    /\ UNCHANGED <<correction, op, asides>>

SweepDies == sweep # NoSweep /\ sweep' = NoSweep
             /\ UNCHANGED <<row, correction, op, asides>>

-----------------------------------------------------------------------------
\* confirmAttendanceReview, or closing the period: the guard refuses from now on.
DayOf(o) == IF o.on \in Corrections THEN correction[o.on].day ELSE o.on
LockPeriod ==
    /\ ~locked /\ locked' = TRUE
    /\ underway' = sweep.days \cup {DayOf(op[r]) : r \in {s \in Requests : op[s] # Idle}}
    /\ UNCHANGED <<row, correction, op, sweep, applied, contested>>

Next ==
    \/ \E r \in Requests :
         \/ \E d \in Days : \/ BeginCreate(r, d) \/ BeginCheckOut(r, d)
                            \/ BeginHR(r, d, "STATUS") \/ BeginHR(r, d, "DELETE")
         \/ Create(r) \/ CheckOut(r) \/ Delete(r)
         \/ \E status \in {"PRESENT", "ABSENT", "OTHER"} : SetStatus(r, status)
         \/ \E c \in Corrections : BeginApprove(r, c) \/ BeginReject(r, c)
         \/ \E in, out \in BOOLEAN : Approve(r, in, out)
         \/ Reject(r)
    \/ \E c \in Corrections, d \in Days, linked \in BOOLEAN : FileCorrection(c, d, linked)
    \/ BeginAbsent \/ BeginAutoCheckout \/ MarkAbsent \/ SweepDies
    \/ \E d \in Days : AutoCheckout(d)
    \/ LockPeriod

Spec == Init /\ [][Next]_vars

-----------------------------------------------------------------------------
(* What is promised.                                                       *)

\* "once a period's attendance has been reviewed or the period is CLOSED, the source
\* data that fed the payroll run must stop moving": only a write that was past the
\* guard by then still lands.
LockedDaysStand ==
    [][locked => \A d \in Days \ underway : row'[d] = row[d]]_vars

\* Who clocked in, or had a correction approved, stops being present only by HR's hand,
\* whatever the sweeps worked from.
Ending(r, what) == op[r].do = what /\ op'[r] = Idle
PresenceIsKept ==
    [][\A d \in Days : CountsPresent(row[d]) /\ ~CountsPresent(row'[d]) =>
         \E r \in Requests : op[r].on = d /\ (Ending(r, "STATUS") \/ Ending(r, "DELETE"))]_vars

\* A check-out stands: it is replaced by an approved correction, or by someone who read
\* the day before it was there.
CheckOutStands ==
    [][\A d \in Days : row[d].out # "NONE" /\ row'[d].out # row[d].out =>
         \/ row'[d].out = "CORRECTED"
         \/ d \in sweep.days /\ row'[d].out = "AUTO"
         \/ \E r \in Requests : op[r].on = d /\ ~op[r].sawOut /\ Ending(r, "CHECK_OUT")]_vars

\* A refused correction left no trace in the day, unless two approvers decided at once.
RejectedLeavesNoTrace ==
    \A c \in applied : correction[c].status = "REJECTED" => c \in contested

\* "No existing record - create one with full provenance for the date"
\* (attendance-correction.service.ts:164): an approved correction makes the day count.
ApprovedCounts ==
    [][\A c \in applied' \ applied : CountsPresent(row'[correction[c].day])]_vars

\* "someone who simply forgot to check out is credited with their shift and no more"
\* (auto-checkout.service.ts:18-19): who did check out keeps the time.
OnlyForgottenAreClosed ==
    [][\A d \in Days : row[d].out # "NONE" => row'[d].out # "AUTO" \/ row[d].out = "AUTO"]_vars
=============================================================================
