--------------------------- MODULE LeaveRequests ---------------------------
(***************************************************************************)
(* Leave requests of one employee against one balance row:                 *)
(* src/backend/src/modules/leave/leave.service.ts and leave.repository.ts. *)
(*                                                                         *)
(* A request is a row of its own, its approval is a workflow instance, and *)
(* the days are in the balance: three commits that no transaction spans.   *)
(* A handler is a chain of steps, one per database transaction, with other *)
(* requests and the payroll lock in between; it may die after any of them. *)
(***************************************************************************)
EXTENDS LeaveBalance, FiniteSetsExt

CONSTANTS
    Requests,       \* leave_requests rows that may be filed
    Days,           \* [Requests -> Nat], the working days of each
    Overlapping(_, _), \* whether two requests cover a common date
    Slots,          \* HTTP requests in flight at one time
    Totals          \* bound: the allocations HR may set

ASSUME LeaveAssumption ==
    /\ IsFiniteSet(Requests)
    /\ Days \in [Requests -> Nat \ {0}]
    /\ Totals \subseteq Nat
    /\ \A q, p \in Requests : Overlapping(q, p) \in BOOLEAN

RequestStatus == {"NONE", "PENDING", "APPROVED", "REJECTED", "CANCELLED"}
Outcomes == {"none", "open", "APPROVED", "REJECTED", "CANCELLED"}

\* Where a handler stands: what it does next.
HandlerSteps == {"CREATE", "START", "ACT", "GUARD", "FINALIZE", "REFUSE",
                 "WITHDRAW", "RESTORE"}
Handlers == [req : Requests, act : {"FILE", "APPROVE", "REJECT", "CANCEL"},
             at : HandlerSteps]

VARIABLES
    req,        \* status of each leave_requests row
    instance,   \* outcome of its workflow instance
    balance,    \* the leave_balances row
    locked,     \* the payroll period of these dates is reviewed or closed
    handler     \* handlers in flight: a set of Handlers per slot

vars == <<req, instance, balance, locked, handler>>

TypeOK ==
    /\ req \in [Requests -> RequestStatus]
    /\ instance \in [Requests -> Outcomes]
    /\ balance \in Balances
    /\ locked \in BOOLEAN
    /\ handler \in [Slots -> SUBSET Handlers]

Init ==
    /\ req = [q \in Requests |-> "NONE"]
    /\ instance = [q \in Requests |-> "none"]
    /\ balance = NoBalance
    /\ locked = FALSE
    /\ handler = [s \in Slots |-> {}]

-----------------------------------------------------------------------------
Begin(s, q, act, at) ==
    /\ handler[s] = {}
    /\ handler' = [handler EXCEPT ![s] = {[req |-> q, act |-> act, at |-> at]}]

\* The handler of slot s is about to do step "at" for request q.
Doing(s, q, act, at) == [req |-> q, act |-> act, at |-> at] \in handler[s]
GoOn(s, q, act, at) ==
    handler' = [handler EXCEPT ![s] = {[req |-> q, act |-> act, at |-> at]}]
Done(s) == handler' = [handler EXCEPT ![s] = {}]

-----------------------------------------------------------------------------
(* Filing: check, create, start the workflow or take the request back.     *)

Live(q) == req[q] \in {"PENDING", "APPROVED"}
Overlapped(q) == \E p \in Requests \ {q} : Overlapping(q, p) /\ Live(p)

File(s, q) ==
    /\ req[q] = "NONE"
    /\ \A t \in Slots : \A h \in handler[t] : h.req # q
    /\ ~Overlapped(q)
    /\ Sufficient(balance, Days[q])
    /\ Begin(s, q, "FILE", "CREATE")
    /\ UNCHANGED <<req, instance, balance, locked>>

Create(s, q) ==
    /\ Doing(s, q, "FILE", "CREATE")
    /\ req' = [req EXCEPT ![q] = "PENDING"]
    /\ GoOn(s, q, "FILE", "START")
    /\ UNCHANGED <<instance, balance, locked>>

StartWorkflow(s, q) ==
    /\ Doing(s, q, "FILE", "START")
    /\ instance' = [instance EXCEPT ![q] = "open"]
    /\ Done(s)
    /\ UNCHANGED <<req, balance, locked>>

\* No workflow can be started: the fresh request is deleted.
TakeBack(s, q) ==
    /\ Doing(s, q, "FILE", "START")
    /\ req' = [req EXCEPT ![q] = "NONE"]
    /\ Done(s)
    /\ UNCHANGED <<instance, balance, locked>>

-----------------------------------------------------------------------------
(* Approving and rejecting: the engine decides, then the effects follow.   *)

\* assertLeaveBalanceSufficient comes before the engine; it looks at the balance
\* and not at the payroll lock.
CheckApprove(s, q) ==
    /\ req[q] # "NONE" /\ instance[q] # "none"
    /\ req[q] = "APPROVED" \/ Sufficient(balance, Days[q])
    /\ Begin(s, q, "APPROVE", "ACT")
    /\ UNCHANGED <<req, instance, balance, locked>>

CheckReject(s, q) ==
    /\ req[q] # "NONE" /\ instance[q] # "none"
    /\ Begin(s, q, "REJECT", "ACT")
    /\ UNCHANGED <<req, instance, balance, locked>>

EngineDecidesAgain(q, outcome) ==  \* bug: a decided instance is decided again
    /\ instance[q] # "none"
    /\ instance' = [instance EXCEPT ![q] = outcome]
EngineDecides(q, outcome) ==
    /\ instance[q] = "open"
    /\ instance' = [instance EXCEPT ![q] = outcome]

\* A lower level signed (or the engine refused the actor): nothing follows.
SignLevel(s, q) ==
    /\ Doing(s, q, "APPROVE", "ACT") \/ Doing(s, q, "REJECT", "ACT")
    /\ Done(s)
    /\ UNCHANGED <<req, instance, balance, locked>>

ApproveLast(s, q) ==
    /\ Doing(s, q, "APPROVE", "ACT")
    /\ EngineDecides(q, "APPROVED")
    /\ GoOn(s, q, "APPROVE", "GUARD")
    /\ UNCHANGED <<req, balance, locked>>

RejectInEngine(s, q) ==
    /\ Doing(s, q, "REJECT", "ACT")
    /\ EngineDecides(q, "REJECTED")
    /\ GoOn(s, q, "REJECT", "REFUSE")
    /\ UNCHANGED <<req, balance, locked>>

\* assertPayrollRangeOpen, outside the transaction it protects.
PayrollGuard(s, q, act, next) ==
    /\ Doing(s, q, act, "GUARD")
    /\ IF locked THEN Done(s) ELSE GoOn(s, q, act, next)
    /\ UNCHANGED <<req, instance, balance, locked>>
GuardApprove(s, q) == PayrollGuard(s, q, "APPROVE", "FINALIZE")

\* finalizeApprovalEffects locks request and balance.  It stops at a request that
\* is APPROVED already; any other status is deducted and approved.
Finalizable(q) == req[q] # "APPROVED"
FinalizeApprovalEffects(s, q) ==
    /\ Doing(s, q, "APPROVE", "FINALIZE")
    /\ IF Finalizable(q) /\ Sufficient(balance, Days[q])
       THEN /\ balance' = Deduct(balance, Days[q])
            /\ req' = [req EXCEPT ![q] = "APPROVED"]
       ELSE UNCHANGED <<balance, req>>
    /\ Done(s)
    /\ UNCHANGED <<instance, locked>>

\* updateLeaveStatus moves only a PENDING request.
Refusable(q) == req[q] = "PENDING"
Refuse(s, q) ==
    /\ Doing(s, q, "REJECT", "REFUSE")
    /\ req' = IF Refusable(q) THEN [req EXCEPT ![q] = "REJECTED"] ELSE req
    /\ Done(s)
    /\ UNCHANGED <<instance, balance, locked>>

-----------------------------------------------------------------------------
(* Cancelling a pending request, or an approved one with its days.         *)

CancelPending(s, q) ==
    /\ req[q] = "PENDING"
    /\ req' = [req EXCEPT ![q] = "CANCELLED"]
    /\ Begin(s, q, "CANCEL", "WITHDRAW")
    /\ UNCHANGED <<instance, balance, locked>>

\* cancelInstanceByReference cancels an open instance and ignores any other.
Withdraw(s, q) ==
    /\ Doing(s, q, "CANCEL", "WITHDRAW")
    /\ instance' = IF instance[q] = "open"
                   THEN [instance EXCEPT ![q] = "CANCELLED"] ELSE instance
    /\ Done(s)
    /\ UNCHANGED <<req, balance, locked>>

CancelApproved(s, q) ==
    /\ req[q] = "APPROVED"
    /\ Begin(s, q, "CANCEL", "GUARD")
    /\ UNCHANGED <<req, instance, balance, locked>>

GuardCancel(s, q) == PayrollGuard(s, q, "CANCEL", "RESTORE")

RestorableAlways(q) == req[q] # "NONE"  \* bug: the status is not read again
Restorable(q) == req[q] = "APPROVED"
RestoreBalance(s, q) ==
    /\ Doing(s, q, "CANCEL", "RESTORE")
    /\ IF Restorable(q)
       THEN /\ balance' = Restore(balance, Days[q])
            /\ req' = [req EXCEPT ![q] = "CANCELLED"]
       ELSE UNCHANGED <<balance, req>>
    /\ Done(s)
    /\ UNCHANGED <<instance, locked>>

-----------------------------------------------------------------------------
(* HR sets the allocation; payroll locks the dates; a process dies.        *)

UpsertLeaveBalance(total) ==
    /\ balance' = SetTotal(balance, total)
    /\ UNCHANGED <<req, instance, locked, handler>>

LockPayrollPeriod ==
    /\ locked' = TRUE
    /\ UNCHANGED <<req, instance, balance, handler>>

Crash(s) ==
    /\ handler[s] # {}
    /\ Done(s)
    /\ UNCHANGED <<req, instance, balance, locked>>

Handling(s, q) ==
    \/ File(s, q) \/ Create(s, q) \/ StartWorkflow(s, q) \/ TakeBack(s, q)
    \/ CheckApprove(s, q) \/ CheckReject(s, q) \/ SignLevel(s, q)
    \/ ApproveLast(s, q) \/ RejectInEngine(s, q)
    \/ GuardApprove(s, q) \/ FinalizeApprovalEffects(s, q) \/ Refuse(s, q)
    \/ CancelPending(s, q) \/ Withdraw(s, q)
    \/ CancelApproved(s, q) \/ GuardCancel(s, q) \/ RestoreBalance(s, q)

\* The system while no process dies.
Working ==
    \/ \E s \in Slots, q \in Requests : Handling(s, q)
    \/ \E n \in Totals : UpsertLeaveBalance(n)
    \/ LockPayrollPeriod

Next == Working \/ \E s \in Slots : Crash(s)

Spec == Init /\ [][Next]_vars
SpecUncrashed == Init /\ [][Working]_vars

-----------------------------------------------------------------------------
(* What the module promises.                                               *)

\* The used days of the balance are the days of the approved requests, whatever
\* was filed, cancelled and approved at once and wherever a process died: no day
\* is deducted twice, restored twice or lost.
LedgerBalanced ==
    balance.used = MapThenSumSet(LAMBDA q : Days[q],
                                 {q \in Requests : req[q] = "APPROVED"})

\* Every writer leaves remaining as what total and used say.
RemainingIsWhatIsLeft == balance.remaining = AtLeast0(balance.total - balance.used)

\* A request is approved (rejected) only after its workflow decided so.
StatusFollowsDecision ==
    \A q \in Requests : req[q] \in {"APPROVED", "REJECTED"} => instance[q] = req[q]

\* Days are only ever taken from what is left: a step that uses more days stays
\* within the allocation of that moment.
NeverOverdrawn ==
    [][balance'.used > balance.used => balance'.used <= balance'.total]_vars

\* "an employee cannot hold two pending/approved requests covering the same dates"
\* (leave.service.ts:117-119).
NoOverlap ==
    \A q, p \in Requests : q # p /\ Overlapping(q, p) => ~(Live(q) /\ Live(p))

\* A cancelled request is never approved: its approval instance is cancelled so that
\* it "cannot be approved afterwards" (workflow-engine.repository.ts:620-624).
CancelledIsFinal ==
    [][\A q \in Requests : req[q] = "CANCELLED" => req'[q] # "APPROVED"]_vars

\* The check before the engine is there so that no instance ends APPROVED over a
\* request that stays PENDING (leave.service.ts:418-421): while no process dies, a
\* pending request with an approved instance has a handler still at work on it.
NoStuckRequest ==
    \A q \in Requests :
        req[q] = "PENDING" /\ instance[q] = "APPROVED" =>
            \E s \in Slots : \E h \in handler[s] : h.req = q /\ h.act = "APPROVE"

\* Once the period is locked, "Any attendance or leave mutation for a date inside
\* such a period is rejected with 409" (payroll-period-guard.ts:7-13): no leave of it
\* is approved or cancelled.
LockedDatesKeepTheirLeave ==
    [][locked => \A q \in Requests : req[q] = "APPROVED" <=> req'[q] = "APPROVED"]_vars
=============================================================================
