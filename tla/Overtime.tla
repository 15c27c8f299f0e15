------------------------------ MODULE Overtime ------------------------------
(***************************************************************************)
(* Overtime requests of one employee for one date: filed under a MySQL     *)
(* advisory lock (shared/database/advisory-lock.ts), decided through the   *)
(* workflow engine, paid when approved.  A request is a submission.        *)
(*                                                                         *)
(* The lock's name is made of the date as it was written, and the lock is  *)
(* released inside the transaction it guards; what a transaction inserts   *)
(* is seen by the others when it commits.                                  *)
(***************************************************************************)
EXTENDS Naturals, FiniteSets

CONSTANTS
    Requests,
    Stamps,         \* the instants of the day a client may write for the date
    Nobody          \* not a request

VARIABLES
    at,         \* where the filing of each request is
    stamp,
    lock,       \* who holds the lock of each name
    overtime,   \* the status of each committed overtime_request
    decision    \* its workflow instance

vars == <<at, stamp, lock, overtime, decision>>

TypeOK ==
    /\ at \in [Requests -> {"NEW", "WAIT", "LOCKED", "CHECKED", "INSERTED", "RELEASED",
                            "START", "REFUSED", "FILED"}]
    /\ stamp \in [Requests -> Stamps]
    /\ lock \in [Stamps -> Requests \cup {Nobody}]
    /\ overtime \in [Requests -> {"NONE", "PENDING", "APPROVED", "REJECTED"}]
    /\ decision \in [Requests -> {"NONE", "RUNNING", "APPROVED", "REJECTED"}]

Init ==
    /\ at = [r \in Requests |-> "NEW"]
    /\ stamp \in [Requests -> Stamps]
    /\ lock = [s \in Stamps |-> Nobody]
    /\ overtime = [r \in Requests |-> "NONE"]
    /\ decision = [r \in Requests |-> "NONE"]

Goes(r, from, to) == at[r] = from /\ at' = [at EXCEPT ![r] = to] /\ UNCHANGED stamp

File(r) == Goes(r, "NEW", "WAIT") /\ UNCHANGED <<lock, overtime, decision>>

GetLock(r) ==
    /\ \/ /\ lock[stamp[r]] = Nobody /\ lock' = [lock EXCEPT ![stamp[r]] = r]
          /\ Goes(r, "WAIT", "LOCKED")
       \/ lock[stamp[r]] # Nobody /\ Goes(r, "WAIT", "REFUSED") /\ UNCHANGED lock  \* ten seconds
    /\ UNCHANGED <<overtime, decision>>

Standing == {r \in Requests : overtime[r] \in {"PENDING", "APPROVED"}}
FindDuplicate(r) ==
    /\ IF Standing = {} THEN Goes(r, "LOCKED", "CHECKED") /\ UNCHANGED lock
       ELSE Goes(r, "LOCKED", "REFUSED") /\ lock' = [lock EXCEPT ![stamp[r]] = Nobody]
    /\ UNCHANGED <<overtime, decision>>

Insert(r) == Goes(r, "CHECKED", "INSERTED") /\ UNCHANGED <<lock, overtime, decision>>
ReleaseLock(r) ==
    /\ Goes(r, "INSERTED", "RELEASED")
    /\ lock' = [lock EXCEPT ![stamp[r]] = Nobody]
    /\ UNCHANGED <<overtime, decision>>
Commit(r) ==
    /\ Goes(r, "RELEASED", "START")
    /\ overtime' = [overtime EXCEPT ![r] = "PENDING"]
    /\ UNCHANGED <<lock, decision>>

\* The workflow starts, there is no template for it, or the request is deleted again.
StartWorkflow(r) ==
    /\ \/ /\ Goes(r, "START", "FILED")
          /\ decision' = [decision EXCEPT ![r] = "RUNNING"] /\ UNCHANGED overtime
       \/ Goes(r, "START", "FILED") /\ UNCHANGED <<overtime, decision>>
       \/ /\ Goes(r, "START", "REFUSED")
          /\ overtime' = [overtime EXCEPT ![r] = "NONE"] /\ UNCHANGED decision
    /\ UNCHANGED lock

\* applyOvertimeWorkflowAction: the engine decides and commits, the effects follow.
Decide(r, to) ==
    /\ decision[r] = "RUNNING" /\ decision' = [decision EXCEPT ![r] = to]
    /\ UNCHANGED <<at, stamp, lock, overtime>>
FinalizeEffects(r) ==
    /\ decision[r] \in {"APPROVED", "REJECTED"} /\ overtime[r] # decision[r]
    /\ overtime' = [overtime EXCEPT ![r] = decision[r]]
    /\ UNCHANGED <<at, stamp, lock, decision>>

Next ==
    \E r \in Requests :
      \/ File(r) \/ GetLock(r) \/ FindDuplicate(r) \/ Insert(r) \/ ReleaseLock(r) \/ Commit(r)
      \/ StartWorkflow(r) \/ FinalizeEffects(r)
      \/ \E to \in {"APPROVED", "REJECTED"} : Decide(r, to)

Spec == Init /\ [][Next]_vars

-----------------------------------------------------------------------------
\* "payroll sums every APPROVED row, so a double submit doubled the pay. The advisory
\* lock serializes same employee+date creates across instances"
\* (attendance.service.ts:1027-1029): one date is never approved twice.
OvertimePaidOnce == Cardinality({r \in Requests : overtime[r] = "APPROVED"}) <= 1
=============================================================================
