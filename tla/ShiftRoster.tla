---------------------------- MODULE ShiftRoster ----------------------------
(***************************************************************************)
(* The overrides of the roster, EmployeeShiftOverride, and their two       *)
(* writers: the swap two factory employees agree on and their approver     *)
(* signs, and the shift HR assigns or clears (work-calendar.service.ts     *)
(* 112-322, work-calendar.repository.ts 1128-1529).  Payroll reads the     *)
(* overrides and refuses to run on one it cannot justify                   *)
(* (attendance-calendar.ts 59-84).                                         *)
(*                                                                         *)
(* A call reads what it checks, awaits, and writes later; it may also die  *)
(* between any two of its steps.  Of the approval engine only its promise  *)
(* is here, that an instance is decided once (ApprovalDecision).           *)
(***************************************************************************)
EXTENDS FiniteSets, TLC

CONSTANTS
    Employees,
    Dates,
    Swaps,      \* the shift_swap_requests that may be filed
    Calls,      \* the requests being served
    Nobody      \* not an employee and not a swap

ASSUME RosterAssumption == Nobody \notin Swaps \cup Dates

VARIABLES
    swap,       \* ShiftSwapRequest
    instance,   \* the status of its workflow instance
    override,   \* EmployeeShiftOverride, unique by employee and date
    lockedDates,     \* the dates inside a reviewed or closed payroll period
    call,       \* what each call is doing, and what it found
    revived,    \* the swaps that were approved after they were cancelled
    crossed     \* the dates on which a call wrote on a check overtaken since

rosterVars == <<swap, instance, override, lockedDates, call, revived, crossed>>

SwapStatuses == {"NONE", "PENDING", "APPROVED", "REJECTED", "CANCELLED"}
SwapRows == [status : SwapStatuses, pair : SUBSET Employees, date : Dates \cup {Nobody}]
Overrides == [source : {"NONE", "SHIFT_SWAP", "HR_ASSIGNMENT"}, swap : Swaps \cup {Nobody}]

NoSwap == [status |-> "NONE", pair |-> {}, date |-> Nobody]

\* A deleted row is no row: every upsert clears deletedAt.
NoOverride == [source |-> "NONE", swap |-> Nobody]
AssignedByHR == [source |-> "HR_ASSIGNMENT", swap |-> Nobody]
BySwap(q) == [source |-> "SHIFT_SWAP", swap |-> q]

\* What a call is about to do: on whose rows and dates, as it has checked
\* them, or to which swap; overtaken are the dates another call wrote since.
Places == {"idle", "file", "start", "approval", "approve", "rejection", "reject",
           "assign", "clear"}
CallStates == [at : Places, swap : Swaps \cup {Nobody}, who : SUBSET Employees,
               dates : SUBSET Dates, overtaken : SUBSET Dates]
To(place, q) ==
    [at |-> place, swap |-> q, who |-> {}, dates |-> {}, overtaken |-> {}]
Checked(place, who, dates) ==
    [at |-> place, swap |-> Nobody, who |-> who, dates |-> dates, overtaken |-> {}]
NoCall == To("idle", Nobody)

RosterTypeOK ==
    /\ swap \in [Swaps -> SwapRows]
    /\ instance \in [Swaps -> SwapStatuses]
    /\ override \in [Employees -> [Dates -> Overrides]]
    /\ lockedDates \subseteq Dates
    /\ call \in [Calls -> CallStates]
    /\ revived \subseteq Swaps
    /\ crossed \subseteq Dates

RosterInit ==
    /\ swap = [q \in Swaps |-> NoSwap]
    /\ instance = [q \in Swaps |-> "NONE"]
    /\ override = [e \in Employees |-> [d \in Dates |-> NoOverride]]
    /\ lockedDates = {}
    /\ call = [c \in Calls |-> NoCall]
    /\ revived = {}
    /\ crossed = {}

-----------------------------------------------------------------------------
(* Calls *)

Goes(c, to) == call' = [call EXCEPT ![c] = to]

Begins(c, to) == call[c] = NoCall /\ Goes(c, to)

\* Call c moves on after a write on these dates.  A call that has checked one
\* of them, and has yet to write, is overtaken there.
Writes(c, dates, to) ==
    call' = [x \in Calls |->
        IF x = c THEN to
        ELSE [call[x] EXCEPT !.overtaken = @ \cup (dates \cap call[x].dates)]]

Crosses(c) == crossed' = crossed \cup call[c].overtaken

\* The process dies, or the request fails, after some of its steps.
Die(c) ==
    /\ call[c] # NoCall
    /\ Goes(c, NoCall)
    /\ UNCHANGED <<swap, instance, override, lockedDates, revived, crossed>>

-----------------------------------------------------------------------------
(* Filing a swap *)

Overridden(e, d) == override[e][d].source # "NONE"
PendingSamePair(pair, d) == \E q \in Swaps :  \* bug: only between the same two
    swap[q].status = "PENDING" /\ swap[q].date = d /\ swap[q].pair = pair
Pending(pair, d) == \E q \in Swaps :
    swap[q].status = "PENDING" /\ swap[q].date = d /\ swap[q].pair \cap pair # {}

BeginFile(c, pair, d) ==
    /\ ~Pending(pair, d)
    /\ \A e \in pair : ~Overridden(e, d)
    /\ Begins(c, Checked("file", pair, {d}))
    /\ UNCHANGED <<swap, instance, override, lockedDates, revived, crossed>>

\* The transaction the service opens is not the one the repository writes in.
File(c, q) ==
    /\ call[c].at = "file"
    /\ swap[q].status = "NONE"
    /\ \E d \in call[c].dates :
          swap' = [swap EXCEPT ![q] =
                      [status |-> "PENDING", pair |-> call[c].who, date |-> d]]
    /\ Writes(c, call[c].dates, To("start", q))
    /\ Crosses(c)
    /\ UNCHANGED <<instance, override, lockedDates, revived>>

\* A failure to start the workflow is logged and no more: the call may end
\* here without it (Die).
StartWorkflow(c) ==
    /\ call[c].at = "start"
    /\ instance' = [instance EXCEPT ![call[c].swap] = "PENDING"]
    /\ Goes(c, NoCall)
    /\ UNCHANGED <<swap, override, lockedDates, revived, crossed>>

\* One conditional updateMany by the requester.
CancelSwap(q) ==
    /\ swap[q].status = "PENDING"
    /\ swap' = [swap EXCEPT ![q].status = "CANCELLED"]
    /\ UNCHANGED <<instance, override, lockedDates, call, revived, crossed>>

-----------------------------------------------------------------------------
(* Deciding a swap *)

\* applyAction of the engine: an instance is decided once, or withdrawn.
DecideAgain(q) == instance[q] # "NONE"  \* bug: whatever was decided before
Decidable(q) == instance[q] = "PENDING"

Decide(c, q, verdict) ==
    /\ Decidable(q)
    /\ instance' = [instance EXCEPT ![q] = verdict]
    /\ \/ verdict = "APPROVED" /\ Begins(c, To("approval", q))
       \/ verdict = "REJECTED" /\ Begins(c, To("rejection", q))
       \/ verdict = "CANCELLED" /\ Begins(c, NoCall)
    /\ UNCHANGED <<swap, override, lockedDates, revived, crossed>>

\* finalizeShiftSwapApprovalEffects returns early only on APPROVED.
ReadForApproval(c) ==
    /\ call[c].at = "approval"
    /\ IF swap[call[c].swap].status = "APPROVED" THEN Goes(c, NoCall)
       ELSE Goes(c, To("approve", call[c].swap))
    /\ UNCHANGED <<swap, instance, override, lockedDates, revived, crossed>>

\* One transaction: both rows and the request.
SwapBoth(q) ==
    [e \in Employees |-> [d \in Dates |->
        IF e \in swap[q].pair /\ d = swap[q].date THEN BySwap(q)
        ELSE override[e][d]]]

FinalizeApproval(c) ==
    /\ call[c].at = "approve"
    /\ LET q == call[c].swap IN
          /\ override' = SwapBoth(q)
          /\ swap' = [swap EXCEPT ![q].status = "APPROVED"]
          /\ revived' = IF swap[q].status = "CANCELLED" THEN revived \cup {q}
                        ELSE revived
          /\ Writes(c, {swap[q].date}, NoCall)
    /\ UNCHANGED <<instance, lockedDates, crossed>>

\* finalizeShiftSwapRejectEffects refuses what was approved or cancelled.
ReadForRejection(c) ==
    /\ call[c].at = "rejection"
    /\ IF swap[call[c].swap].status \in {"APPROVED", "CANCELLED"} THEN Goes(c, NoCall)
       ELSE Goes(c, To("reject", call[c].swap))
    /\ UNCHANGED <<swap, instance, override, lockedDates, revived, crossed>>

FinalizeRejection(c) ==
    /\ call[c].at = "reject"
    /\ swap' = [swap EXCEPT ![call[c].swap].status = "REJECTED"]
    /\ Goes(c, NoCall)
    /\ UNCHANGED <<instance, override, lockedDates, revived, crossed>>

-----------------------------------------------------------------------------
(* HR's own assignments *)

\* assertPayrollRangeOpen, then the rows of the range.
RangeAlwaysOpen(dates) == TRUE  \* bug: the guard is not asked
RangeOpen(dates) == dates \cap lockedDates = {}

BeginAssign(c, e, dates) ==
    /\ RangeOpen(dates)
    /\ \A d \in dates : override[e][d].source # "SHIFT_SWAP"
    /\ Begins(c, Checked("assign", {e}, dates))
    /\ UNCHANGED <<swap, instance, override, lockedDates, revived, crossed>>

BeginClear(c, e, dates) ==
    /\ RangeOpen(dates)
    /\ Begins(c, Checked("clear", {e}, dates))
    /\ UNCHANGED <<swap, instance, override, lockedDates, revived, crossed>>

\* One transaction over the range, on what was read outside it.
Assign(c) ==
    /\ call[c].at = "assign"
    /\ override' = [e \in Employees |-> [d \in Dates |->
          IF e \in call[c].who /\ d \in call[c].dates THEN AssignedByHR
          ELSE override[e][d]]]
    /\ Writes(c, call[c].dates, NoCall)
    /\ Crosses(c)
    /\ UNCHANGED <<swap, instance, lockedDates, revived>>

\* One updateMany, which looks at the source itself.
Clear(c) ==
    /\ call[c].at = "clear"
    /\ override' = [e \in Employees |-> [d \in Dates |->
          IF /\ e \in call[c].who /\ d \in call[c].dates
             /\ override[e][d].source = "HR_ASSIGNMENT"
          THEN NoOverride ELSE override[e][d]]]
    /\ Writes(c, call[c].dates, NoCall)
    /\ Crosses(c)
    /\ UNCHANGED <<swap, instance, lockedDates, revived>>

\* confirmAttendanceReview, or the period closes.
LockDate(d) ==
    /\ d \notin lockedDates
    /\ lockedDates' = lockedDates \cup {d}
    /\ call' = [c \in Calls |->
          [call[c] EXCEPT !.overtaken = @ \cup ({d} \cap call[c].dates)]]
    /\ UNCHANGED <<swap, instance, override, revived, crossed>>

-----------------------------------------------------------------------------
Ranges == SUBSET Dates \ {{}}
Pairs == {pair \in SUBSET Employees : Cardinality(pair) = 2}

Step(c) ==
    \/ \E pair \in Pairs, d \in Dates : BeginFile(c, pair, d)
    \/ \E q \in Swaps :
          \/ File(c, q)
          \/ \E verdict \in {"APPROVED", "REJECTED", "CANCELLED"} :
                Decide(c, q, verdict)
    \/ StartWorkflow(c)
    \/ ReadForApproval(c)
    \/ FinalizeApproval(c)
    \/ ReadForRejection(c)
    \/ FinalizeRejection(c)
    \/ \E e \in Employees, dates \in Ranges :
          BeginAssign(c, e, dates) \/ BeginClear(c, e, dates)
    \/ Assign(c)
    \/ Clear(c)
    \/ Die(c)

RosterNext ==
    \/ \E c \in Calls : Step(c)
    \/ \E q \in Swaps : CancelSwap(q)
    \/ \E d \in Dates : LockDate(d)

RosterSpec == RosterInit /\ [][RosterNext]_rosterVars

-----------------------------------------------------------------------------
(* Properties *)

\* Payroll can resolve every working day: a live swap override belongs to an
\* APPROVED request of that employee and date, whatever the cancellations,
\* rejections, crashes and HR's own writes around it did; otherwise
\* resolvePayrollWorkingDates throws and the run of the period stops there
\* (attendance-calendar.ts:66-75).
PayrollCanResolve ==
    \A e \in Employees, d \in Dates :
        override[e][d].source = "SHIFT_SWAP" =>
            LET q == override[e][d].swap
            IN  /\ swap[q].status = "APPROVED"
                /\ e \in swap[q].pair
                /\ swap[q].date = d

Muddled == crossed \cup {swap[q].date : q \in revived}

\* A swap is whole: both halves of an approved swap stand, so each shift has
\* one of the two.  Only three things break one: two filings or an HR write
\* and an approval that overlap on the date, and the approval of a cancelled
\* swap.
SwapsAreWhole ==
    \A q \in Swaps :
        (swap[q].status = "APPROVED" /\ swap[q].date \notin Muddled)
        => \A e \in swap[q].pair : override[e][swap[q].date] = BySwap(q)

\* "a date inside a closed payroll period is refused because it would rewrite
\* pay that is already settled" (work-calendar.service.ts:237-238): after the
\* lock a day is rewritten by nobody but an approved swap, unless the write
\* was past its guard already.
LockedRosterStands ==
    [][\A e \in Employees, d \in Dates :
          (d \in lockedDates /\ override'[e][d] # override[e][d] /\ d \notin crossed')
          => override'[e][d].source = "SHIFT_SWAP"]_rosterVars

-----------------------------------------------------------------------------
(* What the code does not keep *)

\* A cancelled swap stays cancelled, as the rejection takes care of
\* (work-calendar.repository.ts:1506).  Not so: cancelling leaves the workflow
\* instance open and the approval does not look for it.
CancelledStaysCancelled ==
    [][\A q \in Swaps : swap[q].status = "CANCELLED" =>
          swap'[q].status = "CANCELLED"]_rosterVars

\* The schedule of a settled date is not rewritten.  Not so for swaps, whose
\* approval never asks the payroll guard.
SettledDatesStand ==
    [][\A e \in Employees, d \in Dates :
          (d \in lockedDates /\ d \notin crossed') => override'[e][d] = override[e][d]]_rosterVars
=============================================================================
