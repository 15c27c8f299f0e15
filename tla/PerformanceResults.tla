------------------------- MODULE PerformanceResults -------------------------
(***************************************************************************)
(* The results of one performance period: the calculation that scores the  *)
(* approved assignments, the calibration sessions that adjust and finalize *)
(* the scores, final approval, publication, and the reopening of a result  *)
(* (performance.service.ts 3173-3889, performance.repository.ts            *)
(* 1719-2112 and 2629-2967).                                               *)
(*                                                                         *)
(* Every handler reads what it checks, awaits, and then writes without     *)
(* looking again, so a request is two steps here, and between them other   *)
(* requests run.  What the handler read that its write depends on is kept  *)
(* in its slot.  A calculation writes one result per step.                 *)
(*                                                                         *)
(* The work a result is calculated from is kept to what calculation reads  *)
(* of it: whether the plan of the period is published, whether the         *)
(* assignment is APPROVED or COMPLETED, and the score its targets give.    *)
(***************************************************************************)
EXTENDS Integers, FiniteSets, FiniteSetsExt, TLC

CONSTANTS
    Employees,      \* whose assignments the period holds
    Sessions,       \* the calibration sessions HR may create
    Requests,       \* how many requests may be in flight at once
    MaxAdjustments, \* MAX_CALIBRATION_ADJUSTMENTS
    MaxScore,       \* scores are 1 .. MaxScore; 0 stands for "none"
    MaxChanges      \* how many plan changes, calculations, calibration
                    \* decisions and reopenings there are in all

ASSUME BoundsAssumption ==
    /\ MaxScore \in Nat \ {0}
    /\ MaxChanges \in Nat
    /\ MaxAdjustments \in Nat

Scores == 1 .. MaxScore
None == 0

VARIABLES
    planned,    \* the period's planningPublishedAt is set
    ready,      \* the assignment is APPROVED or COMPLETED
    worth,      \* the score its targets give when calculated
    results,    \* PerformanceResult, one row at most per assignment
    sessions,   \* PerformanceCalibrationSession
    requests,   \* the handlers in flight, with what they have read
    overtaken,  \* the employees on whose result two requests overlapped
    changes     \* how many of MaxChanges have been made

vars == <<planned, ready, worth, results, sessions, requests, overtaken, changes>>

ResultStatuses ==
    {"ABSENT", "CALCULATED", "CALIBRATION_IN_PROGRESS", "FINALIZED", "PUBLISHED"}
SessionStatuses == {"ABSENT", "DRAFT", "OPEN", "CLOSED", "FINALIZED"}

\* calculated, calibrated and final are the three snapshots, by the score
\* they hold; approved is finalApprovedAt.
NoResult ==
    [status |-> "ABSENT", score |-> None, approved |-> FALSE,
     calculated |-> None, calibrated |-> None, final |-> None]

\* decisions is how many rows PerformanceCalibrationDecision has of a
\* participant.
NoneDecided == [e \in Employees |-> 0]
NoSession == [status |-> "ABSENT", participants |-> {}, decisions |-> NoneDecided]

Idle == [kind |-> "idle"]

TypeOK ==
    /\ planned \in BOOLEAN
    /\ ready \in [Employees -> BOOLEAN]
    /\ worth \in [Employees -> Scores]
    /\ results \in [Employees ->
          [status : ResultStatuses, score : 0 .. MaxScore, approved : BOOLEAN,
           calculated : 0 .. MaxScore, calibrated : 0 .. MaxScore,
           final : 0 .. MaxScore]]
    /\ sessions \in [Sessions -> [status : SessionStatuses,
                                  participants : SUBSET Employees,
                                  decisions : [Employees -> Nat]]]
    /\ overtaken \subseteq Employees

Init ==
    /\ planned = TRUE
    /\ ready = [e \in Employees |-> FALSE]
    /\ worth = [e \in Employees |-> 1]
    /\ results = [e \in Employees |-> NoResult]
    /\ sessions = [s \in Sessions |-> NoSession]
    /\ requests = [r \in Requests |-> Idle]
    /\ overtaken = {}
    /\ changes = 0

-----------------------------------------------------------------------------
(* Helpers *)

Scored == {e \in Employees : results[e].status # "ABSENT"}
InStatus(statuses) == {e \in Employees : results[e].status \in statuses}
Existing == {s \in Sessions : sessions[s].status # "ABSENT"}

CountChange == changes < MaxChanges /\ changes' = changes + 1

\* A request starts: it has read the rows of these employees.
Begin(r, request) ==
    /\ requests[r] = Idle
    /\ requests' = [requests EXCEPT ![r] = request]

\* Request r writes the rows of these employees.  Every other request that
\* has read one of them is overtaken on it, which its slot remembers.
Overtake(r, written, request) ==
    requests' = [q \in Requests |->
        IF q = r THEN request
        ELSE IF requests[q] = Idle THEN Idle
        ELSE [requests[q] EXCEPT !.late = @ \cup (written \cap requests[q].on)]]

\* ... and what a late request writes is marked for good.
Mark(r, written) == overtaken' = overtaken \cup (written \cap requests[r].late)

-----------------------------------------------------------------------------
(* The work under the results *)

\* updatePlanningAssignment, reassign, delete and the target edits all end
\* in touchPlanningWorkspace.
EditPlan ==
    /\ planned
    /\ planned' = FALSE
    /\ CountChange
    /\ UNCHANGED <<ready, worth, results, sessions, requests, overtaken>>

\* publishPlanning sets every assignment to PUBLISHED, the approved ones too.
PublishPlan ==
    /\ ~planned \/ \E e \in Employees : ready[e]
    /\ planned' = TRUE
    /\ ready' = [e \in Employees |-> FALSE]
    /\ CountChange
    /\ UNCHANGED <<worth, results, sessions, requests, overtaken>>

\* The employee works on the targets and submits; the approver approves.
ApproveWork(e) ==
    /\ planned
    /\ ~ready[e]
    /\ ready' = [ready EXCEPT ![e] = TRUE]
    /\ \E score \in Scores : worth' = [worth EXCEPT ![e] = score]
    /\ UNCHANGED <<planned, results, sessions, requests, overtaken, changes>>

-----------------------------------------------------------------------------
(* Calculation *)

Locked == InStatus({"FINALIZED", "PUBLISHED"})
EligibleSettled == {e \in Employees : ready[e]}  \* bug: settled results too
Eligible == {e \in Employees : ready[e]} \ Locked

BeginCalculate(r) ==
    /\ planned
    /\ Eligible # {}
    /\ Begin(r, [kind |-> "calculate", on |-> Eligible, late |-> {},
                 scores |-> [e \in Eligible |-> worth[e]]])
    /\ CountChange
    /\ UNCHANGED <<planned, ready, worth, results, sessions, overtaken>>

\* The update of upsertPerformanceResult leaves the fields the calculation
\* does not pass: the approval and the other two snapshots stay.
Calculated(result, score) ==
    [result EXCEPT !.status = "CALCULATED", !.score = score, !.calculated = score]

CalculateOne(r, e) ==
    /\ requests[r].kind = "calculate"
    /\ e \in DOMAIN requests[r].scores
    /\ results' = [results EXCEPT ![e] = Calculated(@, requests[r].scores[e])]
    /\ LET left == DOMAIN requests[r].scores \ {e}
           after == IF left = {} THEN Idle
                    ELSE [requests[r] EXCEPT
                            !.scores = [f \in left |-> requests[r].scores[f]]]
       IN  Overtake(r, {e}, after)
    /\ Mark(r, {e})
    /\ UNCHANGED <<planned, ready, worth, sessions, changes>>

-----------------------------------------------------------------------------
(* Calibration *)

BeginCreate(r) ==
    /\ planned
    /\ Scored # {}
    /\ Begin(r, [kind |-> "create", on |-> Scored, late |-> {}])
    /\ UNCHANGED <<planned, ready, worth, results, sessions, overtaken, changes>>

Create(r, s) ==
    /\ requests[r].kind = "create"
    /\ sessions[s].status = "ABSENT"
    /\ sessions' = [sessions EXCEPT ![s] =
                       [status |-> "DRAFT", participants |-> requests[r].on,
                        decisions |-> NoneDecided]]
    /\ requests' = [requests EXCEPT ![r] = Idle]
    /\ UNCHANGED <<planned, ready, worth, results, overtaken, changes>>

\* Opening, closing, finalizing and deciding check the status of the session.
BeginOnSession(r, s, kind, statuses) ==
    /\ sessions[s].status \in statuses
    /\ Begin(r, [kind |-> kind, on |-> sessions[s].participants, late |-> {},
                 session |-> s])

BeginOpen(r, s) ==
    /\ BeginOnSession(r, s, "open", {"DRAFT", "CLOSED"})
    /\ UNCHANGED <<planned, ready, worth, results, sessions, overtaken, changes>>

BeginClose(r, s) ==
    /\ BeginOnSession(r, s, "close", {"OPEN"})
    /\ UNCHANGED <<planned, ready, worth, results, sessions, overtaken, changes>>

BeginFinalize(r, s) ==
    /\ BeginOnSession(r, s, "finalize", {"OPEN", "CLOSED"})
    /\ UNCHANGED <<planned, ready, worth, results, sessions, overtaken, changes>>

BeginDecide(r, s, e) ==
    /\ sessions[s].status = "OPEN"
    /\ e \in sessions[s].participants
    /\ sessions[s].decisions[e] < MaxAdjustments
    /\ Begin(r, [kind |-> "decide", on |-> {e}, late |-> {}, session |-> s])
    /\ CountChange
    /\ UNCHANGED <<planned, ready, worth, results, sessions, overtaken>>

\* openCalibrationSession moves every participant's result, whatever its
\* status is.
Open(r) ==
    /\ requests[r].kind = "open"
    /\ LET s == requests[r].session
           participants == sessions[s].participants
       IN  /\ sessions' = [sessions EXCEPT ![s].status = "OPEN"]
           /\ results' = [e \in Employees |->
                 IF e \in participants
                 THEN [results[e] EXCEPT !.status = "CALIBRATION_IN_PROGRESS"]
                 ELSE results[e]]
           /\ Overtake(r, participants, Idle)
           /\ Mark(r, participants)
    /\ UNCHANGED <<planned, ready, worth, changes>>

Close(r) ==
    /\ requests[r].kind = "close"
    /\ sessions' = [sessions EXCEPT ![requests[r].session].status = "CLOSED"]
    /\ requests' = [requests EXCEPT ![r] = Idle]
    /\ UNCHANGED <<planned, ready, worth, results, overtaken, changes>>

\* The snapshot a session freezes: the calibration's, if there is one.
Frozen(result) ==
    IF result.calibrated # None THEN result.calibrated ELSE result.calculated

Finalize(r) ==
    /\ requests[r].kind = "finalize"
    /\ LET s == requests[r].session
           participants == sessions[s].participants
       IN  /\ sessions' = [sessions EXCEPT ![s].status = "FINALIZED"]
           /\ results' = [e \in Employees |->
                 IF e \in participants
                 THEN [results[e] EXCEPT !.status = "FINALIZED",
                                         !.final = Frozen(results[e])]
                 ELSE results[e]]
           /\ Overtake(r, participants, Idle)
           /\ Mark(r, participants)
    /\ UNCHANGED <<planned, ready, worth, changes>>

Decided(result, score) ==
    [result EXCEPT !.status = "CALIBRATION_IN_PROGRESS", !.score = score,
                   !.calibrated = score]

Decide(r) ==
    /\ requests[r].kind = "decide"
    /\ \E e \in requests[r].on, score \in Scores :
          /\ results' = [results EXCEPT ![e] = Decided(@, score)]
          /\ sessions' = [sessions EXCEPT
                             ![requests[r].session].decisions[e] = @ + 1]
          /\ Overtake(r, {e}, Idle)
          /\ Mark(r, {e})
    /\ UNCHANGED <<planned, ready, worth, changes>>

-----------------------------------------------------------------------------
(* Final approval, publication, reopening *)

Approvable == Scored # {} /\ Scored \subseteq Locked

BeginApprove(r) ==
    /\ Approvable
    /\ Begin(r, [kind |-> "approve", on |-> Employees, late |-> {}])
    /\ UNCHANGED <<planned, ready, worth, results, sessions, overtaken, changes>>

\* One updateMany over the period.
Approve(r) ==
    /\ requests[r].kind = "approve"
    /\ results' = [e \in Employees |->
          IF e \in Scored THEN [results[e] EXCEPT !.approved = TRUE]
          ELSE results[e]]
    /\ Overtake(r, Scored, Idle)
    /\ Mark(r, Scored)
    /\ UNCHANGED <<planned, ready, worth, sessions, changes>>

Publishable ==
    /\ Scored # {}
    /\ \A s \in Existing : sessions[s].status = "FINALIZED"
    /\ \A e \in Scored : results[e].approved

BeginPublish(r) ==
    /\ planned
    /\ Publishable
    /\ Begin(r, [kind |-> "publish", on |-> Employees, late |-> {}])
    /\ UNCHANGED <<planned, ready, worth, results, sessions, overtaken, changes>>

\* finalSnapshot is kept once it is set.
Published(result) ==
    [result EXCEPT !.status = "PUBLISHED",
                   !.final = IF @ # None THEN @ ELSE Frozen(result)]

Publish(r) ==
    /\ requests[r].kind = "publish"
    /\ results' = [e \in Employees |->
          IF e \in Scored THEN Published(results[e]) ELSE results[e]]
    /\ Overtake(r, Scored, Idle)
    /\ Mark(r, Scored)
    /\ UNCHANGED <<planned, ready, worth, sessions, changes>>

BeginReopen(r, e) ==
    /\ e \in Locked
    /\ Begin(r, [kind |-> "reopen", on |-> {e}, late |-> {}])
    /\ CountChange
    /\ UNCHANGED <<planned, ready, worth, results, sessions, overtaken>>

\* The approval goes, the score and the snapshots stay.
ReopenedApproved(result) ==
    [result EXCEPT !.status = "CALCULATED"]  \* bug: the approval stays too
Reopened(result) == [result EXCEPT !.status = "CALCULATED", !.approved = FALSE]

Reopen(r) ==
    /\ requests[r].kind = "reopen"
    /\ \E e \in requests[r].on :
          /\ results' = [results EXCEPT ![e] = Reopened(@)]
          /\ Overtake(r, {e}, Idle)
          /\ Mark(r, {e})
    /\ UNCHANGED <<planned, ready, worth, sessions, changes>>

-----------------------------------------------------------------------------
BeginRequest(r) ==
    \/ BeginCalculate(r)
    \/ BeginCreate(r)
    \/ \E s \in Sessions :
          \/ BeginOpen(r, s)
          \/ BeginClose(r, s)
          \/ BeginFinalize(r, s)
          \/ \E e \in Employees : BeginDecide(r, s, e)
    \/ BeginApprove(r)
    \/ BeginPublish(r)
    \/ \E e \in Employees : BeginReopen(r, e)

EndRequest(r) ==
    \/ \E e \in Employees : CalculateOne(r, e)
    \/ \E s \in Sessions : Create(r, s)
    \/ Open(r)
    \/ Close(r)
    \/ Finalize(r)
    \/ Decide(r)
    \/ Approve(r)
    \/ Publish(r)
    \/ Reopen(r)

Next ==
    \/ EditPlan
    \/ PublishPlan
    \/ \E e \in Employees : ApproveWork(e)
    \/ \E r \in Requests : BeginRequest(r) \/ EndRequest(r)

Spec == Init /\ [][Next]_vars

-----------------------------------------------------------------------------
(* Properties *)

Undisturbed(e) == e \notin overtaken'

\* "Recalculation must never overwrite scores that already passed
\* calibration/publication" (performance.service.ts:3182-3183): a FINALIZED
\* or PUBLISHED result becomes CALCULATED again by a reopening alone, which
\* keeps its score and takes the final approval, unless two requests
\* overlapped on it.
RecalculationSparesSettled ==
    [][\A e \in Employees :
          (e \in Locked /\ results'[e].status = "CALCULATED" /\ Undisturbed(e))
          => results'[e] = Reopened(results[e])]_vars

\* A result reaches its employee only finalized by a calibration session and
\* with final approval, however many sessions, reopenings and recalculations
\* went before, unless two requests overlapped on it.
OnlyFinalizedIsPublished ==
    [][\A e \in Employees :
          (results[e].status # "PUBLISHED" /\ results'[e].status = "PUBLISHED"
             /\ Undisturbed(e))
          => results[e].status = "FINALIZED" /\ results[e].approved]_vars

\* Within one session a score is adjusted at most MaxAdjustments times
\* (performance.service.ts:3804-3812), though the count is read before the
\* decision is written, unless two requests overlapped on it.
AdjustedWithinSession ==
    \A s \in Sessions, e \in Employees \ overtaken :
        sessions[s].decisions[e] <= MaxAdjustments

-----------------------------------------------------------------------------
(* What the code's comments say and the code does not keep *)

\* "reopen is the only way back" (performance.service.ts:3183): a PUBLISHED
\* result leaves that status by a reopening alone.  Not so: opening another
\* calibration session takes back every published result of the period.
OnlyReopenUnlocks ==
    [][\A e \in Employees :
          (results[e].status = "PUBLISHED" /\ results'[e].status # "PUBLISHED"
             /\ Undisturbed(e))
          => results'[e] = Reopened(results[e])]_vars

\* "maksimum 3 kali penyesuaian kalibrasi per karyawan"
\* (performance.service.ts:3804): an employee's score is adjusted at most
\* MaxAdjustments times.  Not so: the decisions are counted per session.
AdjustedWithinLimit ==
    \A e \in Employees \ overtaken :
        FoldSet(LAMBDA s, n : sessions[s].decisions[e] + n, 0, Sessions)
            <= MaxAdjustments

\* The snapshot a published result carries holds the score it shows.  Not so
\* after a calculation during calibration: the frozen snapshot is the
\* calibration's, the score is the calculation's.
SnapshotTellsTheScore ==
    \A e \in Employees \ overtaken :
        results[e].status = "PUBLISHED" => results[e].final = results[e].score
=============================================================================
