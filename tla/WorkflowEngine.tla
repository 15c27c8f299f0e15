--------------------------- MODULE WorkflowEngine ---------------------------
(***************************************************************************)
(* The approval engine every request of the HRIS passes through:           *)
(* src/backend/src/modules/workflow-engine/workflow-engine.repository.ts.  *)
(*                                                                         *)
(* A handler reads an instance and checks its guards OUTSIDE the database  *)
(* transaction, then claims the rows it read with conditional updates.     *)
(* So an HTTP request is two steps here, ReadForAction and one of the      *)
(* commit actions, and other requests run in between.  updatedAt is a      *)
(* timestamp of the database clock, not a revision number: two commits of  *)
(* the same millisecond carry the same value, which is why clock advances  *)
(* only when Tick says so.                                                 *)
(***************************************************************************)
EXTENDS Integers

CONSTANTS
    Instances,      \* workflow_instances rows that may be created
    Users,          \* user accounts; an employee is identified with its user
    Roles,          \* role codes
    SuperAdmin,     \* the role code SUPER_ADMIN
    None,           \* SQL NULL of an id or role column
    RolesOf,        \* [Users -> SUBSET Roles]
    ManagersOf,     \* [Users -> SUBSET Users], active holders of the position
                    \* a user's position reports to
    MaxStages,      \* bound: stages of a template
    Filings,        \* the calls of startInstance that are made
    DelegationPairs,\* the <<delegator, delegate>> pairs that may be created
    Requests,       \* HTTP requests in flight at one time
    MaxClock        \* bound: distinct timestamps

Idx == 1..MaxStages
Assignees == [id : Users \cup {None}, role : Roles \cup {None}]
Nobody == [id |-> None, role |-> None]

\* A stage of a template; "applies" is the truth of its condition rules on the
\* payload of the filing.
Stages == [level : Nat \ {0}, type : {"MANAGER", "OTHER"}, approver : Assignees,
           backup : Assignees, allowEscalation : BOOLEAN, applies : BOOLEAN]

\* Levels of a template need not be unique.  Rows are read ORDER BY level alone, so
\* "the first" of several rows of a level is any of them.
IsTemplate(t) == \E n \in Idx : t \in [1..n -> Stages]

ASSUME WorkflowAssumption ==
    /\ MaxStages \in Nat \ {0} /\ MaxClock \in Nat
    /\ None \notin Users \cup Roles
    /\ SuperAdmin \in Roles
    /\ RolesOf \in [Users -> SUBSET Roles]
    /\ ManagersOf \in [Users -> SUBSET Users]
    /\ DelegationPairs \subseteq Users \X Users
    /\ \A f \in Filings :
         /\ f.requester \in Users /\ f.subject \in Users
         /\ f.target \in Users \cup {None}
         /\ IsTemplate(f.template)

Open == {"PENDING", "ESCALATED"}
InstanceStatus == {"NONE", "PENDING", "ESCALATED", "APPROVED", "REJECTED", "CANCELLED"}
StepStatus == {"NONE", "PENDING", "APPROVED", "REJECTED", "ESCALATED", "SKIPPED"}
Actions == {"APPROVE", "REJECT", "ESCALATE"}

Steps == [status : StepStatus, level : Nat, assignee : Assignees,
          backup : Assignees, allowEscalation : BOOLEAN, isCurrent : BOOLEAN,
          actedBy : Users \cup {None}, updatedAt : Nat]
InstanceRows == [status : InstanceStatus, currentLevel : Nat,
                 requester : Users \cup {None}, subjects : SUBSET Users,
                 steps : [Idx -> Steps], updatedAt : Nat]

\* Rows that do not exist; level 0 stands for a NULL currentLevel.
NoStep == [status |-> "NONE", level |-> 0, assignee |-> Nobody, backup |-> Nobody,
           allowEscalation |-> FALSE, isCurrent |-> FALSE, actedBy |-> None,
           updatedAt |-> 0]
NoInstance == [status |-> "NONE", currentLevel |-> 0, requester |-> None,
               subjects |-> {}, steps |-> [k \in Idx |-> NoStep], updatedAt |-> 0]

\* What a handler remembers between its read and its transaction.
Handlers == [user : Users, instance : Instances, action : Actions,
             step : Idx, snap : InstanceRows]

VARIABLES
    inst,           \* workflow_instances with their workflow_instance_steps
    handler,        \* handlers in flight: a set of Handlers per request slot
    delegations,    \* approval_delegations that are active and in their window
    notified,       \* decision notifications written per instance
    clock           \* the database clock

vars == <<inst, handler, delegations, notified, clock>>

TypeOK ==
    /\ inst \in [Instances -> InstanceRows]
    /\ handler \in [Requests -> SUBSET Handlers]
    /\ delegations \subseteq Users \X Users
    /\ notified \in [Instances -> Nat]
    /\ clock \in Nat

Init ==
    /\ inst = [i \in Instances |-> NoInstance]
    /\ handler = [r \in Requests |-> {}]
    /\ delegations = {}
    /\ notified = [i \in Instances |-> 0]
    /\ clock = 0

-----------------------------------------------------------------------------
(* Starting an instance.                                                   *)

\* resolveManagerApprover: the first active user holding the superior position,
\* and the second as backup; the query has no ORDER BY.
ManagerChoices(subject) ==
    {[id |-> m, backup |-> b] : m \in ManagersOf[subject],
                                b \in ManagersOf[subject] \cup {None}}
ResolveManagerApprover(subject) ==
    {c \in ManagerChoices(subject) :
        /\ c.id # c.backup
        /\ (c.backup = None) => (ManagersOf[subject] = {c.id})}

Applicable(t) == {k \in DOMAIN t : t[k].applies}

ResolvedAssignee(stage, mgr) ==
    IF stage.type = "MANAGER" THEN [id |-> mgr.id, role |-> None]
                              ELSE stage.approver

ResolvedBackup(stage, mgr) ==
    IF stage.type = "MANAGER" /\ stage.backup.id = None
    THEN [stage.backup EXCEPT !.id = mgr.backup]
    ELSE stage.backup

NewStep(t, mgr, k, first) ==
    [status |-> "PENDING", level |-> t[k].level,
     assignee |-> ResolvedAssignee(t[k], mgr), backup |-> ResolvedBackup(t[k], mgr),
     allowEscalation |-> t[k].allowEscalation, isCurrent |-> (k = first),
     actedBy |-> None, updatedAt |-> clock]

StartInstance(i, f, mgr) ==
    /\ inst[i].status = "NONE"
    /\ \A k \in Applicable(f.template) :
         /\ f.template[k].type = "MANAGER" => mgr \in ResolveManagerApprover(f.subject)
         /\ f.template[k].type # "MANAGER" => f.template[k].approver # Nobody
    /\ \E first \in Applicable(f.template) :
         /\ \A k \in Applicable(f.template) :
              f.template[first].level <= f.template[k].level
         /\ inst' = [inst EXCEPT ![i] =
              [status |-> "PENDING", currentLevel |-> f.template[first].level,
               requester |-> f.requester,
               subjects |-> {f.subject, f.target} \ {None},
               steps |-> [k \in Idx |-> IF k \in Applicable(f.template)
                                        THEN NewStep(f.template, mgr, k, first)
                                        ELSE NoStep],
               updatedAt |-> clock]]
    /\ UNCHANGED <<handler, delegations, notified, clock>>

-----------------------------------------------------------------------------
(* Reading: every guard of applyAction is evaluated on this snapshot.      *)

IsCurrentStep(s, k) == s.steps[k].isCurrent /\ s.steps[k].status = "PENDING"

CanAct(u, assignee) ==
    \/ assignee.id = u
    \/ assignee.role \in RolesOf[u]
    \/ SuperAdmin \in RolesOf[u]
    \/ <<assignee.id, u>> \in delegations

\* The people the engine refuses whatever their role.
IsPartyRequesterOnly(s, u) == u = s.requester  \* bug: the subject is not checked
IsParty(s, u) == u = s.requester \/ u \in s.subjects

HasSignedApprovals(s, u) ==  \* bug: an escalation does not count as a signature
    \E k \in Idx : s.steps[k].actedBy = u /\ s.steps[k].status = "APPROVED"
HasSigned(s, u) ==
    \E k \in Idx : s.steps[k].actedBy = u /\ s.steps[k].status # "PENDING"

ReadForAction(r, u, i, a) ==
    /\ handler[r] = {}
    /\ inst[i].status \in Open
    /\ ~IsParty(inst[i], u)
    /\ ~HasSigned(inst[i], u)
    /\ \E k \in Idx :
         /\ IsCurrentStep(inst[i], k)
         /\ CanAct(u, inst[i].steps[k].assignee)
         /\ handler' = [handler EXCEPT ![r] =
              {[user |-> u, instance |-> i, action |-> a, step |-> k, snap |-> inst[i]]}]
    /\ UNCHANGED <<inst, delegations, notified, clock>>

-----------------------------------------------------------------------------
(* The transaction: claim the rows as they were read, then transition.     *)

ClaimsInstance(h, now) ==
    /\ now.status = h.snap.status
    /\ now.currentLevel = h.snap.steps[h.step].level
    /\ now.updatedAt = h.snap.updatedAt

ClaimsStep(h, now) ==
    /\ now.steps[h.step].status = "PENDING"
    /\ now.steps[h.step].isCurrent
    /\ now.steps[h.step].assignee = h.snap.steps[h.step].assignee
    /\ now.steps[h.step].updatedAt = h.snap.steps[h.step].updatedAt

Claims(h) == ClaimsInstance(h, inst[h.instance]) /\ ClaimsStep(h, inst[h.instance])

\* The step that comes next is the first of a HIGHER level.
HigherButOne(s, k) == {n \in Idx : s.steps[n].status # "NONE"  \* bug: skips a level
                                     /\ s.steps[n].level > s.steps[k].level + 1}
Higher(s, k) == {n \in Idx : s.steps[n].status # "NONE"
                             /\ s.steps[n].level > s.steps[k].level}
IsNextStep(s, k, n) ==
    /\ n \in Higher(s, k)
    /\ \A m \in Higher(s, k) : s.steps[n].level <= s.steps[m].level

SignedStaysCurrent(s, k, status, u) ==  \* bug: isCurrent is not cleared
    [s.steps EXCEPT ![k] = [@ EXCEPT !.status = status, !.actedBy = u,
                                     !.updatedAt = clock]]
Signed(s, k, status, u) ==
    [s.steps EXCEPT ![k] = [@ EXCEPT !.status = status, !.isCurrent = FALSE,
                                     !.actedBy = u, !.updatedAt = clock]]

\* Instance s after user u gave step k the given outcome and step n follows.
Advanced(s, k, n, stepStatus, status, u) ==
    [s EXCEPT !.status = status, !.currentLevel = s.steps[n].level, !.updatedAt = clock,
              !.steps = [Signed(s, k, stepStatus, u) EXCEPT
                            ![n] = [@ EXCEPT !.isCurrent = TRUE, !.updatedAt = clock]]]

\* Instance s after user u decided it at step k.
Decided(s, k, status, u) ==
    [s EXCEPT !.status = status, !.currentLevel = 0, !.updatedAt = clock,
              !.steps = Signed(s, k, status, u)]

Reassigned(s, k) ==
    [s EXCEPT !.status = "ESCALATED", !.currentLevel = s.steps[k].level,
              !.updatedAt = clock,
              !.steps[k] = [@ EXCEPT !.assignee = s.steps[k].backup,
                                     !.updatedAt = clock]]

Advance(h, stepStatus, status) ==
    /\ \E n \in Idx :
         /\ IsNextStep(h.snap, h.step, n)
         /\ inst' = [inst EXCEPT ![h.instance] =
                       Advanced(inst[h.instance], h.step, n, stepStatus, status, h.user)]
    /\ UNCHANGED notified

\* The final decision; the requester is told in the same transaction.
Decide(h, status) ==
    /\ inst' = [inst EXCEPT ![h.instance] =
                  Decided(inst[h.instance], h.step, status, h.user)]
    /\ notified' = [notified EXCEPT ![h.instance] =
                      @ + IF inst[h.instance].requester = h.user THEN 0 ELSE 1]

\* The backup of a step as it was read; a step has one or skips to the next.
HasBackup(h) == h.snap.steps[h.step].backup # Nobody
AtBackup(h) == h.snap.steps[h.step].assignee = h.snap.steps[h.step].backup

Finish(r) ==
    /\ handler' = [handler EXCEPT ![r] = {}]
    /\ UNCHANGED <<delegations, clock>>

Approve(r) == \E h \in handler[r] :
    /\ h.action = "APPROVE" /\ Claims(h)
    /\ IF Higher(h.snap, h.step) # {} THEN Advance(h, "APPROVED", "PENDING")
                                      ELSE Decide(h, "APPROVED")
    /\ Finish(r)

Reject(r) == \E h \in handler[r] :
    /\ h.action = "REJECT" /\ Claims(h)
    /\ Decide(h, "REJECTED")
    /\ Finish(r)

EscalateToNext(r) == \E h \in handler[r] :
    /\ h.action = "ESCALATE" /\ Claims(h) /\ ~HasBackup(h)
    /\ Advance(h, "ESCALATED", "ESCALATED")
    /\ Finish(r)

EscalateToBackup(r) == \E h \in handler[r] :
    /\ h.action = "ESCALATE" /\ Claims(h) /\ HasBackup(h) /\ ~AtBackup(h)
    /\ inst' = [inst EXCEPT ![h.instance] = Reassigned(inst[h.instance], h.step)]
    /\ UNCHANGED notified
    /\ Finish(r)

\* A lost claim, or an escalation with nowhere to go: the transaction rolls back.
Refused(r) == \E h \in handler[r] :
    /\ \/ ~Claims(h)
       \/ h.action = "ESCALATE" /\ HasBackup(h) /\ AtBackup(h)
       \/ h.action = "ESCALATE" /\ ~HasBackup(h) /\ Higher(h.snap, h.step) = {}
    /\ UNCHANGED <<inst, notified>>
    /\ Finish(r)

-----------------------------------------------------------------------------
(* Cancellation by the owner of the domain record, delegations, the clock. *)

CancelledSteps(s) ==
    [k \in Idx |-> IF s.steps[k].status = "PENDING"
                   THEN [s.steps[k] EXCEPT !.status = "SKIPPED", !.isCurrent = FALSE,
                                           !.updatedAt = clock]
                   ELSE s.steps[k]]

Cancellable(s) == s.status \in Open

\* The claim repeats the status test of the read, so the two are one step.
CancelInstanceByReference(i) ==
    /\ Cancellable(inst[i])
    /\ inst' = [inst EXCEPT ![i] =
         [@ EXCEPT !.status = "CANCELLED", !.currentLevel = 0, !.updatedAt = clock,
                   !.steps = CancelledSteps(inst[i])]]
    /\ UNCHANGED <<handler, delegations, notified, clock>>

\* A delegation is created or its window opens; revokeDelegation or its end date
\* takes it away.
CreateDelegation(d, e) ==
    /\ d # e
    /\ delegations' = delegations \cup {<<d, e>>}
    /\ UNCHANGED <<inst, handler, notified, clock>>

RevokeDelegation(d, e) ==
    /\ <<d, e>> \in delegations
    /\ delegations' = delegations \ {<<d, e>>}
    /\ UNCHANGED <<inst, handler, notified, clock>>

Tick ==
    /\ clock < MaxClock
    /\ clock' = clock + 1
    /\ UNCHANGED <<inst, handler, delegations, notified>>

Next ==
    \/ \E i \in Instances, f \in Filings,
          m \in [id : Users \cup {None}, backup : Users \cup {None}] : StartInstance(i, f, m)
    \/ \E r \in Requests, u \in Users, i \in Instances, a \in Actions :
          ReadForAction(r, u, i, a)
    \/ \E r \in Requests : Approve(r) \/ Reject(r) \/ EscalateToNext(r)
                           \/ EscalateToBackup(r) \/ Refused(r)
    \/ \E i \in Instances : CancelInstanceByReference(i)
    \/ \E p \in DelegationPairs : CreateDelegation(p[1], p[2])
                                  \/ RevokeDelegation(p[1], p[2])
    \/ Tick

Spec == Init /\ [][Next]_vars

-----------------------------------------------------------------------------
(* What the engine promises.                                               *)

Recorded(s) == {k \in Idx : s.steps[k].status # "NONE"}
CurrentSteps(s) == {k \in Idx : s.steps[k].isCurrent}

\* An open instance waits at exactly one step: the step is pending, its level is
\* the instance's currentLevel, and nothing above it has been acted on.  A closed
\* instance waits at none, so it can neither sit in an inbox nor be acted on.
OneWaitingStep ==
    \A i \in Instances :
        LET s == inst[i] IN
        /\ s.status \in Open =>
             \E k \in Idx : /\ CurrentSteps(s) = {k}
                            /\ s.steps[k].status = "PENDING"
                            /\ s.currentLevel = s.steps[k].level
                            /\ \A n \in Higher(s, k) : s.steps[n].status = "PENDING"
        /\ s.status \notin Open => CurrentSteps(s) = {} /\ s.currentLevel = 0

\* Separation of duties: whatever handlers raced, no user signed two steps of an
\* instance and neither the requester nor an employee it concerns signed any.
SeparationOfDuties ==
    \A i \in Instances : \A j, k \in Idx :
        inst[i].steps[j].actedBy # None =>
            /\ ~IsParty(inst[i], inst[i].steps[j].actedBy)
            /\ inst[i].steps[j].actedBy = inst[i].steps[k].actedBy => j = k

\* An instance is APPROVED only when every level of it was signed off by a person,
\* the highest with an approval: an escalation may discharge a lower level but
\* never the last one.
ApprovedByEveryLevel ==
    \A i \in Instances :
        LET s == inst[i] IN
        s.status = "APPROVED" =>
            \A k \in Recorded(s) :
                \E n \in Recorded(s) :
                    /\ s.steps[n].level = s.steps[k].level
                    /\ s.steps[n].actedBy # None
                    /\ \/ s.steps[n].status = "APPROVED"
                       \/ s.steps[n].status = "ESCALATED" /\ Higher(s, n) # {}

\* The requester hears of a decision exactly once, and never of a decision that
\* was not taken (cancellation and lost races tell nobody).
ToldOnce ==
    \A i \in Instances :
        notified[i] = IF inst[i].status \in {"APPROVED", "REJECTED"} THEN 1 ELSE 0

\* No step of any actor rewrites a signature, or reopens or re-decides an instance
\* that was decided or cancelled.
NothingUndone ==
    \A i \in Instances :
        /\ inst[i].status \in {"APPROVED", "REJECTED", "CANCELLED"} => inst'[i] = inst[i]
        /\ \A k \in Idx : inst[i].steps[k].actedBy # None =>
                            inst'[i].steps[k] = inst[i].steps[k]
DecisionsAreFinal == [][NothingUndone]_vars

\* The engine, with its levels, snapshots, claims and delegations, implements
\* ApprovalDecision: a request is open until one signature settles it.
SignersOf(s) == {s.steps[k].actedBy : k \in Idx} \ {None}
OutcomeOf(s) == CASE s.status = "NONE" -> "none"
                  [] s.status \in Open -> "open"
                  [] OTHER -> s.status
PartiesOf(s) == (s.subjects \cup {s.requester}) \ {None}
Decision == INSTANCE ApprovalDecision WITH
    outcome <- [i \in Instances |-> OutcomeOf(inst[i])],
    parties <- [i \in Instances |-> PartiesOf(inst[i])],
    signers <- [i \in Instances |-> SignersOf(inst[i])],
    told <- notified
ImplementsDecision == Decision!Spec

\* startInstance refuses a template with a stage nobody can act on, "a step nobody
\* can act on dead-locks the request forever" (workflow-engine.repository.ts:551-553):
\* so every open instance has some user the engine would let act on its waiting step.
SomeoneCanAct ==
    \A i \in Instances :
        inst[i].status \in Open =>
            \E u \in Users, k \in CurrentSteps(inst[i]) :
                /\ ~IsParty(inst[i], u) /\ ~HasSigned(inst[i], u)
                /\ CanAct(u, inst[i].steps[k].assignee)

\* A stage saved with the "allow escalation" switch off is never escalated.
EscalationOnlyWhereAllowed ==
    \A i \in Instances, k \in Idx :
        inst[i].steps[k].status = "ESCALATED" => inst[i].steps[k].allowEscalation
=============================================================================
