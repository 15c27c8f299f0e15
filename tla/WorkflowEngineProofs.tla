------------------------ MODULE WorkflowEngineProofs ------------------------
(***************************************************************************)
(* Safety of WorkflowEngine for any templates, users, delegations, clocks  *)
(* and racing requests.  The invariant speaks of one row at a time (Sound) *)
(* and of what a handler in flight may rely on although its snapshot may   *)
(* be stale (Trustworthy); Follows is what a commit may do to a row        *)
(* without breaking the trust of the other handlers.                       *)
(***************************************************************************)
EXTENDS WorkflowEngine, TLAPS

-----------------------------------------------------------------------------
(* Type correctness.                                                         *)

\* The rows startInstance creates are rows of the schema.
LEMMA NewStepType ==
    ASSUME NEW t, NEW k \in Idx, NEW first, t[k] \in Stages, clock \in Nat,
           NEW m \in [id : Users \cup {None}, backup : Users \cup {None}]
    PROVE  NewStep(t, m, k, first) \in Steps
BY WorkflowAssumption DEF NewStep, Steps, Stages, ResolvedAssignee, ResolvedBackup, Assignees, StepStatus

LEMMA NoStepType == NoStep \in Steps
BY DEF NoStep, Steps, Nobody, Assignees, StepStatus

\* Each transition of a row leaves a row of the schema.
LEMMA SignedType ==
    ASSUME NEW s \in InstanceRows, NEW k \in Idx, NEW st \in StepStatus,
           NEW u \in Users, clock \in Nat
    PROVE  Signed(s, k, st, u) \in [Idx -> Steps]
BY DEF Signed, InstanceRows, Steps

LEMMA AdvancedType ==
    ASSUME NEW s \in InstanceRows, NEW k \in Idx, NEW n \in Idx, NEW st \in StepStatus,
           NEW stat \in InstanceStatus, NEW u \in Users, clock \in Nat
    PROVE  Advanced(s, k, n, st, stat, u) \in InstanceRows
<1>1. Signed(s, k, st, u) \in [Idx -> Steps]
  BY SignedType
<1>2. [Signed(s, k, st, u) EXCEPT ![n] = [@ EXCEPT !.isCurrent = TRUE, !.updatedAt = clock]]
        \in [Idx -> Steps]
  BY <1>1 DEF Steps
<1>3. s.steps[n].level \in Nat
  BY DEF InstanceRows, Steps
<1> QED BY <1>2, <1>3 DEF Advanced, InstanceRows

LEMMA DecidedType ==
    ASSUME NEW s \in InstanceRows, NEW k \in Idx, NEW st \in {"APPROVED", "REJECTED"},
           NEW u \in Users, clock \in Nat
    PROVE  Decided(s, k, st, u) \in InstanceRows
<1>1. Signed(s, k, st, u) \in [Idx -> Steps]
  BY SignedType DEF StepStatus
<1> QED BY <1>1 DEF Decided, InstanceRows, InstanceStatus

LEMMA ReassignedType ==
    ASSUME NEW s \in InstanceRows, NEW k \in Idx, clock \in Nat
    PROVE  Reassigned(s, k) \in InstanceRows
<1>1. s.steps[k] \in Steps /\ s.steps \in [Idx -> Steps]
  BY DEF InstanceRows
<1> DEFINE step == [s.steps[k] EXCEPT !.assignee = s.steps[k].backup, !.updatedAt = clock]
<1>2. step \in Steps /\ s.steps[k].level \in Nat
  BY <1>1 DEF Steps
<1>3. [s.steps EXCEPT ![k] = step] \in [Idx -> Steps]
  BY <1>1, <1>2
<1>4. Reassigned(s, k) = [s EXCEPT !.status = "ESCALATED", !.currentLevel = s.steps[k].level,
                                   !.updatedAt = clock, !.steps = [s.steps EXCEPT ![k] = step]]
  BY DEF Reassigned, InstanceRows
<1> HIDE DEF step
<1> QED BY <1>2, <1>3, <1>4 DEF InstanceRows, InstanceStatus

LEMMA CancelledType ==
    ASSUME NEW s \in InstanceRows, clock \in Nat
    PROVE  [s EXCEPT !.status = "CANCELLED", !.currentLevel = 0, !.updatedAt = clock,
                     !.steps = CancelledSteps(s)] \in InstanceRows
<1>1. CancelledSteps(s) \in [Idx -> Steps]
  <2>1. ASSUME NEW r \in Steps
        PROVE  [r EXCEPT !.status = "SKIPPED", !.isCurrent = FALSE, !.updatedAt = clock] \in Steps
    BY DEF Steps, StepStatus
  <2>2. s.steps \in [Idx -> Steps]
    BY DEF InstanceRows
  <2> QED BY <2>1, <2>2 DEF CancelledSteps
<1> QED BY <1>1 DEF InstanceRows, InstanceStatus

\* Every reachable state is well typed: the rows stay rows of the schema and the
\* handlers remember rows, whatever the interleaving.
THEOREM TypeCorrect == Spec => []TypeOK
<1>1. Init => TypeOK
  BY NoStepType DEF Init, TypeOK, NoInstance, InstanceRows, InstanceStatus
<1>2. TypeOK /\ [Next]_vars => TypeOK'
  <2> SUFFICES ASSUME TypeOK, [Next]_vars PROVE TypeOK'
    OBVIOUS
  <2> USE DEF TypeOK
  <2>1. ASSUME NEW i \in Instances, NEW f \in Filings,
               NEW m \in [id : Users \cup {None}, backup : Users \cup {None}],
               StartInstance(i, f, m)
        PROVE  TypeOK'
    <3>1. PICK first \in Applicable(f.template) :
             inst' = [inst EXCEPT ![i] =
              [status |-> "PENDING", currentLevel |-> f.template[first].level,
               requester |-> f.requester,
               subjects |-> {f.subject, f.target} \ {None},
               steps |-> [k \in Idx |-> IF k \in Applicable(f.template)
                                        THEN NewStep(f.template, m, k, first)
                                        ELSE NoStep],
               updatedAt |-> clock]]
      BY <2>1 DEF StartInstance
    <3>2. \A k \in DOMAIN f.template : f.template[k] \in Stages
      BY WorkflowAssumption DEF IsTemplate
    <3>3. \A k \in Applicable(f.template) : NewStep(f.template, m, k, first) \in Steps
                                             \/ k \notin Idx
      BY <3>2, NewStepType DEF Applicable
    <3>4. [k \in Idx |-> IF k \in Applicable(f.template)
                         THEN NewStep(f.template, m, k, first) ELSE NoStep] \in [Idx -> Steps]
      BY <3>3, NoStepType
    <3>5. f.template[first].level \in Nat
      BY <3>2 DEF Applicable, Stages
    <3>6. f.requester \in Users /\ {f.subject, f.target} \ {None} \in SUBSET Users
      BY WorkflowAssumption
    <3>7. inst' \in [Instances -> InstanceRows]
      BY <3>1, <3>4, <3>5, <3>6 DEF InstanceRows, InstanceStatus
    <3> QED BY <2>1, <3>7 DEF StartInstance
  <2>2. ASSUME NEW r \in Requests, NEW u \in Users, NEW i \in Instances, NEW a \in Actions,
               ReadForAction(r, u, i, a)
        PROVE  TypeOK'
    BY <2>2 DEF ReadForAction, Handlers
  <2>3. ASSUME NEW r \in Requests, NEW h \in handler[r], Finish(r),
               NEW k \in Idx, NEW st \in {"APPROVED", "ESCALATED"},
               NEW stat \in {"PENDING", "ESCALATED"}, k = h.step, Advance(h, st, stat)
        PROVE  TypeOK'
    <3>1. h \in Handlers
      OBVIOUS
    <3>2. PICK n \in Idx : inst' = [inst EXCEPT ![h.instance] =
                       Advanced(inst[h.instance], h.step, n, st, stat, h.user)]
      BY <2>3 DEF Advance
    <3>3. Advanced(inst[h.instance], h.step, n, st, stat, h.user) \in InstanceRows
      BY <3>1, AdvancedType DEF Handlers, StepStatus, InstanceStatus
    <3> QED BY <2>3, <3>2, <3>3 DEF Advance, Finish
  <2>4. ASSUME NEW r \in Requests, NEW h \in handler[r], Finish(r),
               NEW st \in {"APPROVED", "REJECTED"}, Decide(h, st)
        PROVE  TypeOK'
    <3>1. h \in Handlers
      OBVIOUS
    <3>2. Decided(inst[h.instance], h.step, st, h.user) \in InstanceRows
      BY <3>1, DecidedType DEF Handlers
    <3>3. notified' \in [Instances -> Nat]
      BY <2>4, <3>1 DEF Decide, Handlers
    <3> QED BY <2>4, <3>2, <3>3 DEF Decide, Finish
  <2>5. ASSUME NEW r \in Requests, Approve(r)
        PROVE  TypeOK'
    <3>1. PICK h \in handler[r] : /\ Finish(r)
                                  /\ Advance(h, "APPROVED", "PENDING") \/ Decide(h, "APPROVED")
      BY <2>5 DEF Approve
    <3>2. h.step \in Idx
      BY DEF Handlers
    <3> QED BY <3>1, <3>2, <2>3, <2>4
  <2>6. ASSUME NEW r \in Requests, Reject(r)
        PROVE  TypeOK'
    BY <2>6, <2>4 DEF Reject
  <2>7. ASSUME NEW r \in Requests, EscalateToNext(r)
        PROVE  TypeOK'
    <3>1. PICK h \in handler[r] : Finish(r) /\ Advance(h, "ESCALATED", "ESCALATED")
      BY <2>7 DEF EscalateToNext
    <3>2. h.step \in Idx
      BY DEF Handlers
    <3> QED BY <3>1, <3>2, <2>3
  <2>8. ASSUME NEW r \in Requests, EscalateToBackup(r)
        PROVE  TypeOK'
    <3>1. PICK h \in handler[r] :
             /\ Finish(r) /\ notified' = notified
             /\ inst' = [inst EXCEPT ![h.instance] = Reassigned(inst[h.instance], h.step)]
      BY <2>8 DEF EscalateToBackup
    <3>2. Reassigned(inst[h.instance], h.step) \in InstanceRows
      BY ReassignedType DEF Handlers
    <3> QED BY <3>1, <3>2 DEF Finish
  <2>9. ASSUME NEW r \in Requests, Refused(r)
        PROVE  TypeOK'
    BY <2>9 DEF Refused, Finish
  <2>10. ASSUME NEW i \in Instances, CancelInstanceByReference(i)
         PROVE  TypeOK'
    BY <2>10, CancelledType DEF CancelInstanceByReference
  <2>11. ASSUME NEW p \in DelegationPairs, CreateDelegation(p[1], p[2]) \/ RevokeDelegation(p[1], p[2])
         PROVE  TypeOK'
    BY <2>11, WorkflowAssumption DEF CreateDelegation, RevokeDelegation
  <2>12. CASE Tick
    BY <2>12, WorkflowAssumption DEF Tick
  <2>13. CASE UNCHANGED vars
    BY <2>13 DEF vars
  <2> QED BY <2>1, <2>2, <2>5, <2>6, <2>7, <2>8, <2>9, <2>10, <2>11, <2>12, <2>13 DEF Next
<1> QED BY <1>1, <1>2, PTL DEF Spec

-----------------------------------------------------------------------------
(* The inductive invariant.                                                *)

\* The conjuncts of the engine's promises, for one row.
Waits(s) ==
    /\ s.status \in Open =>
         \E k \in Idx : /\ CurrentSteps(s) = {k}
                        /\ s.steps[k].status = "PENDING"
                        /\ s.currentLevel = s.steps[k].level
                        /\ \A n \in Higher(s, k) : s.steps[n].status = "PENDING"
    /\ s.status \notin Open => CurrentSteps(s) = {} /\ s.currentLevel = 0

Separated(s) ==
    \A j, k \in Idx :
        s.steps[j].actedBy # None =>
            /\ ~IsParty(s, s.steps[j].actedBy)
            /\ s.steps[j].actedBy = s.steps[k].actedBy => j = k

SignedOff(s, n) ==
    /\ s.steps[n].actedBy # None
    /\ \/ s.steps[n].status = "APPROVED"
       \/ s.steps[n].status = "ESCALATED" /\ Higher(s, n) # {}

LevelSignedOff(s, k) == \E n \in Recorded(s) : s.steps[n].level = s.steps[k].level /\ SignedOff(s, n)

Sound(s) ==
    /\ s.status = "NONE" => s = NoInstance
    /\ Waits(s)
    /\ Separated(s)
    /\ \A k \in Idx : s.steps[k].actedBy # None => s.steps[k].status # "PENDING"
    \* While it waits, every level below the waiting step is signed off.
    /\ \A k \in CurrentSteps(s), j \in Recorded(s) :
         s.steps[j].level < s.steps[k].level => LevelSignedOff(s, j)
    /\ s.status = "APPROVED" => \A k \in Recorded(s) : LevelSignedOff(s, k)

\* A handler's snapshot may be stale, but: the people and the levels never change, and
\* as long as its step still waits nobody has signed anything meanwhile.
Trustworthy(h, s) ==
    LET k == h.step IN
    /\ h.snap.status \in Open /\ s.status # "NONE"
    /\ ~IsParty(s, h.user)
    /\ s.steps[k].isCurrent \/ s.steps[k].status # "PENDING"
    /\ s.steps[k].isCurrent => \A j \in Idx : s.steps[j].actedBy # h.user
    /\ Recorded(h.snap) = Recorded(s)
    /\ \A j \in Idx : h.snap.steps[j].level = s.steps[j].level

EngineInvariant ==
    /\ \A i \in Instances : Sound(inst[i])
    /\ \A r \in Requests : \A h \in handler[r] : Trustworthy(h, inst[h.instance])
    /\ ToldOnce

Follows(s, t) ==
    /\ t.status # "NONE" /\ t.requester = s.requester /\ t.subjects = s.subjects
    /\ Recorded(t) = Recorded(s)
    /\ \A j \in Idx :
         /\ t.steps[j].level = s.steps[j].level
         /\ s.steps[j].isCurrent \/ s.steps[j].status # "PENDING" =>
              /\ t.steps[j].isCurrent \/ t.steps[j].status # "PENDING"
              /\ t.steps[j].isCurrent => /\ s.steps[j].isCurrent
                                         /\ \A k \in Idx : t.steps[k].actedBy = s.steps[k].actedBy

LEMMA TrustLasts ==
    ASSUME NEW s, NEW t, NEW h \in Handlers, Trustworthy(h, s), Follows(s, t)
    PROVE  Trustworthy(h, t)
BY DEF Trustworthy, Follows, IsParty, Handlers

\* What a handler whose claim succeeds may rely on.
MayCommit(s, k, u) ==
    /\ s \in InstanceRows /\ Sound(s) /\ s.status \in Open
    /\ k \in Idx /\ u \in Users /\ s.steps[k].isCurrent
    /\ ~IsParty(s, u) /\ \A j \in Idx : s.steps[j].actedBy # u

LEMMA ClaimedMayCommit ==
    ASSUME TypeOK, EngineInvariant, NEW r \in Requests, NEW h \in handler[r], Claims(h)
    PROVE  /\ h \in Handlers /\ MayCommit(inst[h.instance], h.step, h.user)
           /\ Higher(h.snap, h.step) = Higher(inst[h.instance], h.step)
           /\ \A n \in Idx : IsNextStep(h.snap, h.step, n) <=>
                               IsNextStep(inst[h.instance], h.step, n)
<1>1. h \in Handlers /\ Trustworthy(h, inst[h.instance])
  BY DEF TypeOK, EngineInvariant
<1>2. /\ h.instance \in Instances /\ h.step \in Idx /\ h.user \in Users
      /\ inst[h.instance] \in InstanceRows /\ Sound(inst[h.instance])
  BY <1>1 DEF Handlers, TypeOK, EngineInvariant
<1>3. MayCommit(inst[h.instance], h.step, h.user)
  BY <1>1, <1>2 DEF MayCommit, Claims, ClaimsInstance, ClaimsStep, Trustworthy
<1>4. Higher(h.snap, h.step) = Higher(inst[h.instance], h.step)
  BY <1>1, <1>2 DEF Trustworthy, Higher, Recorded
<1>5. \A n \in Idx : IsNextStep(h.snap, h.step, n) <=> IsNextStep(inst[h.instance], h.step, n)
  BY <1>1, <1>2, <1>4 DEF Trustworthy, IsNextStep, Higher
<1> QED BY <1>1, <1>3, <1>4, <1>5

\* The waiting step of a row is the one the handler read, and nobody signed it.
LEMMA TheWaitingStep ==
    ASSUME NEW s, NEW k, NEW u, MayCommit(s, k, u)
    PROVE  /\ CurrentSteps(s) = {k} /\ s.steps[k].status = "PENDING"
           /\ \A j \in Idx : s.steps[j].isCurrent <=> j = k
           /\ s.currentLevel = s.steps[k].level /\ s.steps[k].actedBy = None
           /\ \A n \in Higher(s, k) : s.steps[n].status = "PENDING" /\ s.steps[n].actedBy = None
           /\ \A j \in Idx : s.steps[j] \in Steps
<1>1. k \in CurrentSteps(s)
  BY DEF MayCommit, CurrentSteps
<1>2. \A j \in Idx : s.steps[j] \in Steps
  BY DEF MayCommit, InstanceRows
<1>3. /\ CurrentSteps(s) = {k} /\ s.steps[k].status = "PENDING" /\ s.currentLevel = s.steps[k].level
      /\ \A n \in Higher(s, k) : s.steps[n].status = "PENDING"
  BY <1>1 DEF MayCommit, Sound, Waits
<1>4. \A j \in Idx : s.steps[j].isCurrent <=> j = k
  BY <1>2, <1>3 DEF CurrentSteps, Steps
<1> QED BY <1>2, <1>3, <1>4 DEF MayCommit, Sound, Higher

-----------------------------------------------------------------------------
(* One lemma for each transition of a row.                                 *)

\* A signature of a user who may sign leaves the duties separated.
LEMMA SignedSeparated ==
    ASSUME NEW s, NEW t, NEW k, NEW u, MayCommit(s, k, u),
           t.requester = s.requester, t.subjects = s.subjects,
           \A j \in Idx : t.steps[j].actedBy = IF j = k THEN u ELSE s.steps[j].actedBy
    PROVE  Separated(t)
BY DEF MayCommit, Sound, Separated, IsParty

LEMMA AdvanceKeepsSound ==
    ASSUME NEW s, NEW k, NEW u, MayCommit(s, k, u), NEW n \in Idx, IsNextStep(s, k, n),
           NEW st \in {"APPROVED", "ESCALATED"}, NEW status \in Open
    PROVE  LET t == Advanced(s, k, n, st, status, u) IN Sound(t) /\ Follows(s, t)
<1> DEFINE t == Advanced(s, k, n, st, status, u)
<1>1. /\ s \in InstanceRows /\ k \in Idx /\ u \in Users /\ s.status \in Open /\ Sound(s)
      /\ \A j \in Idx : s.steps[j] \in Steps
      /\ n \in Higher(s, k) /\ s.steps[n].level > s.steps[k].level /\ n # k
  BY TheWaitingStep DEF MayCommit, IsNextStep, Higher, Steps
<1>2. /\ t.status = status /\ t.currentLevel = s.steps[n].level
      /\ t.requester = s.requester /\ t.subjects = s.subjects
      /\ t.steps[k] = [s.steps[k] EXCEPT !.status = st, !.isCurrent = FALSE, !.actedBy = u,
                                         !.updatedAt = clock]
      /\ t.steps[n] = [s.steps[n] EXCEPT !.isCurrent = TRUE, !.updatedAt = clock]
      /\ \A j \in Idx \ {k, n} : t.steps[j] = s.steps[j]
  <2> DEFINE signed == Signed(s, k, st, u)
  <2>1. /\ DOMAIN signed = Idx /\ signed[n] = s.steps[n] /\ \A j \in Idx \ {k} : signed[j] = s.steps[j]
        /\ signed[k] = [s.steps[k] EXCEPT !.status = st, !.isCurrent = FALSE, !.actedBy = u,
                                           !.updatedAt = clock]
    BY <1>1 DEF Signed, InstanceRows
  <2>2. /\ t.status = status /\ t.currentLevel = s.steps[n].level
        /\ t.requester = s.requester /\ t.subjects = s.subjects
        /\ t.steps = [signed EXCEPT ![n] = [@ EXCEPT !.isCurrent = TRUE, !.updatedAt = clock]]
    BY <1>1 DEF Advanced, InstanceRows
  <2> HIDE DEF signed, t
  <2> QED BY <1>1, <2>1, <2>2
<1> HIDE DEF t
<1>3. \A j \in Idx : /\ t.steps[j].level = s.steps[j].level
                     /\ t.steps[j].status = IF j = k THEN st ELSE s.steps[j].status
                     /\ t.steps[j].isCurrent <=> j = n
                     /\ t.steps[j].actedBy = IF j = k THEN u ELSE s.steps[j].actedBy
  <2>1. \A j \in Idx : s.steps[j].isCurrent <=> j = k
    BY TheWaitingStep
  <2> SUFFICES ASSUME NEW j \in Idx
               PROVE  /\ t.steps[j].level = s.steps[j].level
                      /\ t.steps[j].status = IF j = k THEN st ELSE s.steps[j].status
                      /\ t.steps[j].isCurrent <=> j = n
                      /\ t.steps[j].actedBy = IF j = k THEN u ELSE s.steps[j].actedBy
    OBVIOUS
  <2>2. CASE j = k
    BY <1>1, <1>2, <2>2 DEF Steps
  <2>3. CASE j = n
    BY <1>1, <1>2, <2>3 DEF Steps
  <2>4. CASE j \notin {k, n}
    BY <1>1, <1>2, <2>1, <2>4
  <2> QED BY <2>2, <2>3, <2>4
<1>4. s.steps[k].status = "PENDING" /\ s.steps[n].status = "PENDING" /\ s.steps[n].actedBy = None
  BY <1>1, TheWaitingStep
<1>5. Recorded(t) = Recorded(s) /\ \A j \in Idx : Higher(t, j) = Higher(s, j)
  BY <1>3, <1>4 DEF Recorded, Higher
<1>6. status # "NONE" /\ u # None /\ \A j \in Idx : s.steps[j].level \in Nat
  BY <1>1, WorkflowAssumption DEF Open, Steps
<1>7. CurrentSteps(t) = {n}
  BY <1>3 DEF CurrentSteps
<1>8. Waits(t)
  <2>1. \A j \in Higher(t, n) : t.steps[j].status = "PENDING"
    BY <1>1, <1>3, <1>5, <1>6, TheWaitingStep DEF Higher
  <2> QED BY <1>2, <1>3, <1>4, <1>7, <2>1, <1>1 DEF Waits
<1>9. Separated(t)
  BY <1>2, <1>3, SignedSeparated
<1>10. \A j \in Idx : t.steps[j].actedBy # None => t.steps[j].status # "PENDING"
  BY <1>1, <1>3 DEF Sound
<1>11. \A j \in Recorded(t) : t.steps[j].level < t.steps[n].level => LevelSignedOff(t, j)
  <2> SUFFICES ASSUME NEW j \in Recorded(t), t.steps[j].level < t.steps[n].level
               PROVE  LevelSignedOff(t, j)
    OBVIOUS
  <2>1. j \in Idx /\ j \in Recorded(s) /\ s.steps[j].level <= s.steps[k].level
    BY <1>1, <1>3, <1>5, <1>6 DEF Recorded, Higher, IsNextStep
  <2>2. CASE s.steps[j].level = s.steps[k].level
    <3>1. SignedOff(t, k) /\ k \in Recorded(t)
      BY <1>1, <1>3, <1>4, <1>5, <1>6 DEF SignedOff, Recorded
    <3> QED BY <1>1, <1>3, <2>1, <2>2, <3>1 DEF LevelSignedOff
  <2>3. CASE s.steps[j].level < s.steps[k].level
    <3>1. LevelSignedOff(s, j)
      BY <1>1, <2>1, <2>3, TheWaitingStep DEF Sound
    <3>2. PICK m \in Recorded(s) : s.steps[m].level = s.steps[j].level /\ SignedOff(s, m)
      BY <3>1 DEF LevelSignedOff
    <3>3. m \in Recorded(t) /\ m # k /\ SignedOff(t, m) /\ t.steps[m].level = t.steps[j].level
      BY <1>3, <1>5, <1>6, <2>1, <2>3, <3>2, <1>1 DEF SignedOff, Recorded
    <3> QED BY <3>3 DEF LevelSignedOff
  <2> QED BY <1>6, <2>1, <2>2, <2>3, <1>1
<1>12. Sound(t)
  BY <1>2, <1>6, <1>7, <1>8, <1>9, <1>10, <1>11 DEF Sound, Open
<1>13. Follows(s, t)
  BY <1>1, <1>2, <1>3, <1>4, <1>5, <1>6, TheWaitingStep DEF Follows
<1> QED BY <1>12, <1>13 DEF t

LEMMA DecideKeepsSound ==
    ASSUME NEW s, NEW k, NEW u, MayCommit(s, k, u), NEW st \in {"APPROVED", "REJECTED"},
           st = "APPROVED" => Higher(s, k) = {}
    PROVE  LET t == Decided(s, k, st, u) IN Sound(t) /\ Follows(s, t)
<1> DEFINE t == Decided(s, k, st, u)
<1>1. /\ s \in InstanceRows /\ k \in Idx /\ u \in Users /\ s.status \in Open /\ Sound(s)
      /\ \A j \in Idx : s.steps[j] \in Steps /\ s.steps[j].level \in Nat
      /\ u # None /\ st \notin Open \cup {"NONE"}
  BY TheWaitingStep, WorkflowAssumption DEF MayCommit, Steps, Open
<1>2. /\ t.status = st /\ t.currentLevel = 0
      /\ t.requester = s.requester /\ t.subjects = s.subjects
      /\ t.steps[k] = [s.steps[k] EXCEPT !.status = st, !.isCurrent = FALSE, !.actedBy = u,
                                         !.updatedAt = clock]
      /\ \A j \in Idx \ {k} : t.steps[j] = s.steps[j]
  <2>1. /\ t.status = st /\ t.currentLevel = 0 /\ t.steps = Signed(s, k, st, u)
        /\ t.requester = s.requester /\ t.subjects = s.subjects
    BY <1>1 DEF Decided, InstanceRows
  <2> HIDE DEF t
  <2> QED BY <1>1, <2>1 DEF Signed, InstanceRows
<1> HIDE DEF t
<1>3. \A j \in Idx : /\ t.steps[j].level = s.steps[j].level
                     /\ t.steps[j].status = IF j = k THEN st ELSE s.steps[j].status
                     /\ ~t.steps[j].isCurrent
                     /\ t.steps[j].actedBy = IF j = k THEN u ELSE s.steps[j].actedBy
  <2>1. \A j \in Idx : s.steps[j].isCurrent <=> j = k
    BY TheWaitingStep
  <2> SUFFICES ASSUME NEW j \in Idx
               PROVE  /\ t.steps[j].level = s.steps[j].level
                      /\ t.steps[j].status = IF j = k THEN st ELSE s.steps[j].status
                      /\ ~t.steps[j].isCurrent
                      /\ t.steps[j].actedBy = IF j = k THEN u ELSE s.steps[j].actedBy
    OBVIOUS
  <2>2. CASE j = k
    BY <1>1, <1>2, <2>2 DEF Steps
  <2>3. CASE j # k
    BY <1>1, <1>2, <2>1, <2>3
  <2> QED BY <2>2, <2>3
<1>4. s.steps[k].status = "PENDING"
  BY TheWaitingStep
<1>5. Recorded(t) = Recorded(s) /\ \A j \in Idx : Higher(t, j) = Higher(s, j)
  BY <1>1, <1>3, <1>4 DEF Recorded, Higher
<1>6. CurrentSteps(t) = {}
  BY <1>3 DEF CurrentSteps
<1>7. Waits(t) /\ Separated(t)
  BY <1>1, <1>2, <1>3, <1>6, SignedSeparated DEF Waits
<1>8. \A j \in Idx : t.steps[j].actedBy # None => t.steps[j].status # "PENDING"
  BY <1>1, <1>3 DEF Sound
<1>9. ASSUME st = "APPROVED", NEW j \in Recorded(t) PROVE LevelSignedOff(t, j)
  <2>1. j \in Idx /\ j \in Recorded(s) /\ s.steps[j].level <= s.steps[k].level
    BY <1>1, <1>5, <1>9 DEF Recorded, Higher
  <2>2. CASE s.steps[j].level = s.steps[k].level
    <3>1. SignedOff(t, k) /\ k \in Recorded(t)
      BY <1>1, <1>3, <1>9 DEF SignedOff, Recorded
    <3> QED BY <1>1, <1>3, <2>1, <2>2, <3>1 DEF LevelSignedOff
  <2>3. CASE s.steps[j].level < s.steps[k].level
    <3>1. LevelSignedOff(s, j)
      BY <1>1, <2>1, <2>3, TheWaitingStep DEF Sound
    <3>2. PICK m \in Recorded(s) : s.steps[m].level = s.steps[j].level /\ SignedOff(s, m)
      BY <3>1 DEF LevelSignedOff
    <3>3. m \in Recorded(t) /\ m # k /\ SignedOff(t, m) /\ t.steps[m].level = t.steps[j].level
      BY <1>1, <1>3, <1>5, <2>1, <2>3, <3>2 DEF SignedOff, Recorded
    <3> QED BY <3>3 DEF LevelSignedOff
  <2> QED BY <1>1, <2>1, <2>2, <2>3
<1>10. Sound(t)
  BY <1>1, <1>2, <1>6, <1>7, <1>8, <1>9 DEF Sound
<1>11. Follows(s, t)
  BY <1>1, <1>2, <1>3, <1>4, <1>5, TheWaitingStep DEF Follows
<1> QED BY <1>10, <1>11 DEF t

\* Handing a step to its backup, or cancelling: nobody signs.
LEMMA UnsignedKeepsSound ==
    ASSUME NEW s \in InstanceRows, Sound(s), s.status \in Open, NEW t,
           t.status # "NONE", t.status # "APPROVED", Waits(t),
           t.requester = s.requester, t.subjects = s.subjects,
           \A j \in Idx : /\ t.steps[j].level = s.steps[j].level
                          /\ t.steps[j].actedBy = s.steps[j].actedBy
                          /\ t.steps[j].isCurrent => s.steps[j].isCurrent
                          /\ \/ t.steps[j].status = s.steps[j].status
                                /\ t.steps[j].isCurrent = s.steps[j].isCurrent
                             \/ s.steps[j].status = "PENDING" /\ t.steps[j].status = "SKIPPED"
    PROVE  Sound(t) /\ Follows(s, t)
<1>1. Recorded(t) = Recorded(s) /\ CurrentSteps(t) \subseteq CurrentSteps(s)
  BY DEF Recorded, CurrentSteps
<1>2. \A j \in Idx : Higher(t, j) = Higher(s, j)
  BY DEF Higher
<1>3. Separated(t) /\ \A j \in Idx : t.steps[j].actedBy # None => t.steps[j].status # "PENDING"
  BY DEF Sound, Separated, IsParty
<1>4. \A n \in Idx : SignedOff(s, n) => SignedOff(t, n)
  BY <1>2 DEF Sound, SignedOff
<1>5. \A j \in Recorded(s) : LevelSignedOff(s, j) => LevelSignedOff(t, j)
  BY <1>1, <1>4 DEF LevelSignedOff, Recorded
<1>6. \A k \in CurrentSteps(t), j \in Recorded(t) :
        t.steps[j].level < t.steps[k].level => LevelSignedOff(t, j)
  BY <1>1, <1>5 DEF Sound, Recorded, CurrentSteps
<1>7. Sound(t)
  BY <1>3, <1>6 DEF Sound
<1>8. Follows(s, t)
  BY <1>1 DEF Follows
<1> QED BY <1>7, <1>8

-----------------------------------------------------------------------------
(* The actions.                                                            *)

\* A commit that replaces the row of one instance, keeps it sound and leaves the other
\* handlers something to trust, leaves everybody something to trust.
LEMMA CommitKeepsTrust ==
    ASSUME TypeOK, EngineInvariant, NEW i \in Instances, NEW t,
           inst' = [inst EXCEPT ![i] = t], Follows(inst[i], t),
           \A r \in Requests : handler'[r] \subseteq handler[r]
    PROVE  \A r \in Requests : \A h \in handler'[r] : Trustworthy(h, inst'[h.instance])
<1> SUFFICES ASSUME NEW r \in Requests, NEW h \in handler'[r]
             PROVE  Trustworthy(h, inst'[h.instance])
  OBVIOUS
<1>1. h \in Handlers /\ h.instance \in Instances /\ Trustworthy(h, inst[h.instance])
  BY DEF TypeOK, EngineInvariant, Handlers
<1>2. CASE h.instance = i
  BY <1>1, <1>2, TrustLasts DEF TypeOK
<1>3. CASE h.instance # i
  BY <1>1, <1>3 DEF TypeOK
<1> QED BY <1>2, <1>3

LEMMA StartKeepsSound ==
    ASSUME TypeOK, EngineInvariant, NEW i \in Instances, NEW f \in Filings,
           NEW m \in [id : Users \cup {None}, backup : Users \cup {None}], StartInstance(i, f, m)
    PROVE  EngineInvariant'
<1>1. PICK first \in Applicable(f.template) :
         /\ \A k \in Applicable(f.template) : f.template[first].level <= f.template[k].level
         /\ inst' = [inst EXCEPT ![i] =
              [status |-> "PENDING", currentLevel |-> f.template[first].level,
               requester |-> f.requester,
               subjects |-> {f.subject, f.target} \ {None},
               steps |-> [k \in Idx |-> IF k \in Applicable(f.template)
                                        THEN NewStep(f.template, m, k, first)
                                        ELSE NoStep],
               updatedAt |-> clock]]
  BY DEF StartInstance
<1>2. /\ Applicable(f.template) \subseteq Idx
      /\ \A k \in Applicable(f.template) : f.template[k].level \in Nat
  <2>1. PICK n \in Idx : f.template \in [1..n -> Stages]
    BY WorkflowAssumption DEF IsTemplate
  <2>2. 1..n \subseteq Idx
    BY WorkflowAssumption DEF Idx
  <2>3. Applicable(f.template) \subseteq 1..n
    BY <2>1 DEF Applicable
  <2>4. \A k \in 1..n : f.template[k].level \in Nat
    BY <2>1 DEF Stages
  <2> QED BY <2>2, <2>3, <2>4
<1> DEFINE t == inst'[i]
<1>3. /\ t.status = "PENDING" /\ t.currentLevel = f.template[first].level
      /\ \A k \in Idx : /\ t.steps[k].isCurrent <=> k = first
                        /\ t.steps[k].actedBy = None
                        /\ k \in Applicable(f.template) =>
                             /\ t.steps[k].status = "PENDING"
                             /\ t.steps[k].level = f.template[k].level
                        /\ k \notin Applicable(f.template) => t.steps[k].status = "NONE"
  BY <1>1, <1>2 DEF TypeOK, NewStep, NoStep
<1> HIDE DEF t
<1>4. /\ Recorded(t) = Applicable(f.template) /\ CurrentSteps(t) = {first}
      /\ \A n \in Higher(t, first) : t.steps[n].status = "PENDING"
  BY <1>2, <1>3 DEF Recorded, CurrentSteps, Higher
<1>5. Waits(t)
  BY <1>1, <1>2, <1>3, <1>4 DEF Waits, Open
<1>6. \A k \in CurrentSteps(t), j \in Recorded(t) : ~(t.steps[j].level < t.steps[k].level)
  BY <1>1, <1>2, <1>3, <1>4
<1>7. Sound(t)
  BY <1>3, <1>5, <1>6 DEF Sound, Separated
<1>8. \A j \in Instances : Sound(inst'[j])
  BY <1>1, <1>7 DEF TypeOK, EngineInvariant, t
<1>9. \A r \in Requests : \A h \in handler[r] : h.instance \in Instances /\ h.instance # i
  BY DEF TypeOK, EngineInvariant, Handlers, Trustworthy, StartInstance
<1>10. \A r \in Requests : \A h \in handler'[r] : Trustworthy(h, inst'[h.instance])
  BY <1>1, <1>9 DEF TypeOK, EngineInvariant, StartInstance
<1>11. ToldOnce'
  BY <1>1, <1>3 DEF TypeOK, EngineInvariant, ToldOnce, StartInstance, t
<1> QED BY <1>8, <1>10, <1>11 DEF EngineInvariant

LEMMA ReadKeepsSound ==
    ASSUME TypeOK, EngineInvariant, NEW r \in Requests, NEW u \in Users, NEW i \in Instances,
           NEW a \in Actions, ReadForAction(r, u, i, a)
    PROVE  EngineInvariant'
<1>1. PICK k \in Idx :
         /\ IsCurrentStep(inst[i], k)
         /\ handler' = [handler EXCEPT ![r] =
              {[user |-> u, instance |-> i, action |-> a, step |-> k, snap |-> inst[i]]}]
  BY DEF ReadForAction
<1>2. \A j \in Idx : inst[i].steps[j].actedBy # u
  BY WorkflowAssumption DEF ReadForAction, HasSigned, EngineInvariant, Sound
<1>3. Trustworthy([user |-> u, instance |-> i, action |-> a, step |-> k, snap |-> inst[i]], inst[i])
  BY <1>1, <1>2 DEF ReadForAction, Trustworthy, IsCurrentStep, Open
<1>4. inst' = inst /\ notified' = notified
  BY DEF ReadForAction
<1>5. \A q \in Requests : \A h \in handler'[q] : Trustworthy(h, inst'[h.instance])
  BY <1>1, <1>3, <1>4 DEF TypeOK, EngineInvariant
<1> QED BY <1>4, <1>5 DEF EngineInvariant, ToldOnce

LEMMA AdvanceKeeps ==
    ASSUME TypeOK, EngineInvariant, NEW r \in Requests, NEW h \in handler[r], Claims(h), Finish(r),
           NEW st \in {"APPROVED", "ESCALATED"}, NEW status \in {"PENDING", "ESCALATED"},
           Advance(h, st, status)
    PROVE  EngineInvariant'
<1>1. PICK n \in Idx : /\ IsNextStep(h.snap, h.step, n)
                       /\ inst' = [inst EXCEPT ![h.instance] =
                                     Advanced(inst[h.instance], h.step, n, st, status, h.user)]
  BY DEF Advance
<1> DEFINE i == h.instance
           t == Advanced(inst[i], h.step, n, st, status, h.user)
<1>2. i \in Instances /\ Sound(t) /\ Follows(inst[i], t) /\ inst[i].status \in Open
  BY <1>1, ClaimedMayCommit, AdvanceKeepsSound DEF Handlers, Open, MayCommit
<1>3. t.status = status
  BY <1>2 DEF Advanced, TypeOK, InstanceRows
<1> HIDE DEF t
<1>4. \A j \in Instances : inst'[j] = IF j = i THEN t ELSE inst[j]
  BY <1>1, <1>2 DEF TypeOK, t
<1>5. \A q \in Requests : handler'[q] \subseteq handler[q]
  BY DEF Finish, TypeOK
<1>6. \A q \in Requests : \A g \in handler'[q] : Trustworthy(g, inst'[g.instance])
  BY <1>1, <1>2, <1>5, CommitKeepsTrust DEF t
<1>7. ToldOnce'
  BY <1>2, <1>3, <1>4 DEF EngineInvariant, ToldOnce, Advance, Open
<1> QED BY <1>2, <1>4, <1>6, <1>7 DEF EngineInvariant

LEMMA DecideKeeps ==
    ASSUME TypeOK, EngineInvariant, NEW r \in Requests, NEW h \in handler[r], Claims(h), Finish(r),
           NEW st \in {"APPROVED", "REJECTED"}, st = "APPROVED" => Higher(h.snap, h.step) = {},
           Decide(h, st)
    PROVE  EngineInvariant'
<1> DEFINE i == h.instance
           t == Decided(inst[i], h.step, st, h.user)
<1>1. /\ i \in Instances /\ Sound(t) /\ Follows(inst[i], t) /\ inst[i].status \in Open
      /\ inst[i].requester # h.user
  BY ClaimedMayCommit, DecideKeepsSound DEF Handlers, MayCommit, IsParty
<1>2. t.status = st
  BY <1>1 DEF Decided, TypeOK, InstanceRows
<1> HIDE DEF t
<1>3. inst' = [inst EXCEPT ![i] = t]
  BY DEF Decide, t
<1>4. \A q \in Requests : \A g \in handler'[q] : Trustworthy(g, inst'[g.instance])
  <2>1. \A q \in Requests : handler'[q] \subseteq handler[q]
    BY DEF Finish, TypeOK
  <2> QED BY <1>1, <1>3, <2>1, CommitKeepsTrust
<1>5. ToldOnce'
  <2>1. notified[i] = 0
    BY <1>1 DEF EngineInvariant, ToldOnce, Open
  <2>2. \A j \in Instances : notified'[j] = IF j = i THEN 1 ELSE notified[j]
    BY <1>1, <2>1 DEF Decide, TypeOK
  <2> QED BY <1>1, <1>2, <1>3, <2>2 DEF EngineInvariant, ToldOnce, TypeOK
<1> QED BY <1>1, <1>3, <1>4, <1>5 DEF EngineInvariant, TypeOK

LEMMA BackupKeeps ==
    ASSUME TypeOK, EngineInvariant, NEW r \in Requests, EscalateToBackup(r)
    PROVE  EngineInvariant'
<1>1. PICK h \in handler[r] :
         /\ Claims(h) /\ Finish(r) /\ notified' = notified
         /\ inst' = [inst EXCEPT ![h.instance] = Reassigned(inst[h.instance], h.step)]
  BY DEF EscalateToBackup
<1> DEFINE i == h.instance
           k == h.step
           s == inst[i]
           t == Reassigned(s, k)
<1>2. /\ i \in Instances /\ MayCommit(s, k, h.user) /\ s \in InstanceRows /\ k \in Idx
      /\ s.status \in Open /\ Sound(s)
  BY <1>1, ClaimedMayCommit DEF Handlers, MayCommit
<1> DEFINE step == [s.steps[k] EXCEPT !.assignee = s.steps[k].backup, !.updatedAt = clock]
<1>3. /\ t.status = "ESCALATED" /\ t.currentLevel = s.steps[k].level
      /\ t.requester = s.requester /\ t.subjects = s.subjects
      /\ t.steps = [s.steps EXCEPT ![k] = step]
  BY <1>2 DEF Reassigned, InstanceRows
<1>4. s.steps[k] \in Steps
  BY <1>2 DEF InstanceRows
<1>5. \A j \in Idx : /\ t.steps[j].level = s.steps[j].level
                     /\ t.steps[j].actedBy = s.steps[j].actedBy
                     /\ t.steps[j].isCurrent = s.steps[j].isCurrent
                     /\ t.steps[j].status = s.steps[j].status
  BY <1>2, <1>3, <1>4 DEF Steps, InstanceRows
<1> HIDE DEF s, t, step
<1>6. CurrentSteps(t) = CurrentSteps(s) /\ Higher(t, k) = Higher(s, k)
  BY <1>2, <1>5 DEF CurrentSteps, Higher
<1>7. Waits(t)
  <2>1. /\ CurrentSteps(t) = {k} /\ t.steps[k].status = "PENDING" /\ t.currentLevel = t.steps[k].level
        /\ \A n \in Higher(t, k) : t.steps[n].status = "PENDING"
    BY <1>2, <1>3, <1>5, <1>6, TheWaitingStep DEF Higher
  <2> QED BY <1>2, <1>3, <2>1 DEF Waits, Open
<1>8. Sound(t) /\ Follows(s, t)
  BY <1>2, <1>3, <1>5, <1>7, UnsignedKeepsSound
<1>9. \A q \in Requests : \A g \in handler'[q] : Trustworthy(g, inst'[g.instance])
  <2>1. \A q \in Requests : handler'[q] \subseteq handler[q]
    BY <1>1 DEF Finish, TypeOK
  <2> QED BY <1>1, <1>2, <1>8, <2>1, CommitKeepsTrust DEF s, t
<1>10. \A j \in Instances : inst'[j] = IF j = i THEN t ELSE inst[j]
  BY <1>1, <1>2 DEF TypeOK, s, t
<1>11. ToldOnce'
  BY <1>1, <1>2, <1>3, <1>10 DEF EngineInvariant, ToldOnce, Open, s
<1> QED BY <1>8, <1>9, <1>10, <1>11 DEF EngineInvariant

LEMMA CancelKeeps ==
    ASSUME TypeOK, EngineInvariant, NEW i \in Instances, CancelInstanceByReference(i)
    PROVE  EngineInvariant'
<1> DEFINE s == inst[i]
           t == [s EXCEPT !.status = "CANCELLED", !.currentLevel = 0, !.updatedAt = clock,
                          !.steps = CancelledSteps(s)]
<1>1. s \in InstanceRows /\ Sound(s) /\ s.status \in Open /\ inst' = [inst EXCEPT ![i] = t]
  BY DEF CancelInstanceByReference, Cancellable, TypeOK, EngineInvariant
<1>2. /\ t.status = "CANCELLED" /\ t.currentLevel = 0 /\ t.steps = CancelledSteps(s)
      /\ t.requester = s.requester /\ t.subjects = s.subjects
  BY <1>1 DEF InstanceRows
<1>3. \A j \in Idx : s.steps[j] \in Steps
  BY <1>1 DEF InstanceRows
<1>4. \A j \in Idx : /\ t.steps[j].level = s.steps[j].level
                     /\ t.steps[j].actedBy = s.steps[j].actedBy
                     /\ IF s.steps[j].status = "PENDING"
                        THEN t.steps[j].status = "SKIPPED" /\ ~t.steps[j].isCurrent
                        ELSE t.steps[j] = s.steps[j]
  BY <1>2, <1>3 DEF CancelledSteps, Steps
<1>5. \A j \in Idx : s.steps[j].isCurrent => s.steps[j].status = "PENDING"
  BY <1>1 DEF Sound, Waits, CurrentSteps
<1> HIDE DEF s, t
<1>6. Waits(t)
  <2>1. CurrentSteps(t) = {}
    BY <1>4, <1>5 DEF CurrentSteps
  <2> QED BY <1>2, <2>1 DEF Waits, Open
<1>7. \A j \in Idx : /\ t.steps[j].isCurrent => s.steps[j].isCurrent
                     /\ \/ t.steps[j].status = s.steps[j].status
                           /\ t.steps[j].isCurrent = s.steps[j].isCurrent
                        \/ s.steps[j].status = "PENDING" /\ t.steps[j].status = "SKIPPED"
  BY <1>3, <1>4, <1>5
<1>8. Sound(t) /\ Follows(s, t)
  BY <1>1, <1>2, <1>4, <1>6, <1>7, UnsignedKeepsSound
<1>9. handler' = handler /\ notified' = notified
  BY DEF CancelInstanceByReference
<1>10. \A q \in Requests : \A g \in handler'[q] : Trustworthy(g, inst'[g.instance])
  BY <1>1, <1>8, <1>9, CommitKeepsTrust DEF s
<1>11. \A j \in Instances : inst'[j] = IF j = i THEN t ELSE inst[j]
  BY <1>1 DEF TypeOK, s, t
<1>12. ToldOnce'
  BY <1>1, <1>2, <1>9, <1>11 DEF EngineInvariant, ToldOnce, Open, s
<1> QED BY <1>8, <1>10, <1>11, <1>12 DEF EngineInvariant

-----------------------------------------------------------------------------
(* The invariant, and what follows from it.                                *)

LEMMA EngineInitially == Init => EngineInvariant
<1> SUFFICES ASSUME Init PROVE EngineInvariant
  OBVIOUS
<1>1. Sound(NoInstance)
  BY DEF Sound, Waits, Separated, CurrentSteps, NoInstance, NoStep, Open
<1> QED BY <1>1 DEF Init, EngineInvariant, ToldOnce, NoInstance

\* Whatever a step does to the handlers besides the transaction: it forgets some.
LEMMA OthersKeep ==
    ASSUME TypeOK, EngineInvariant, inst' = inst, notified' = notified,
           \A r \in Requests : handler'[r] \subseteq handler[r]
    PROVE  EngineInvariant'
BY DEF EngineInvariant, ToldOnce

LEMMA CommitKeeps ==
    ASSUME TypeOK, EngineInvariant, NEW r \in Requests,
           Approve(r) \/ Reject(r) \/ EscalateToNext(r) \/ EscalateToBackup(r) \/ Refused(r)
    PROVE  EngineInvariant'
<1>1. CASE Approve(r)
  <2>1. PICK h \in handler[r] :
          /\ Claims(h) /\ Finish(r)
          /\ IF Higher(h.snap, h.step) # {} THEN Advance(h, "APPROVED", "PENDING")
                                            ELSE Decide(h, "APPROVED")
    BY <1>1 DEF Approve
  <2> QED BY <2>1, AdvanceKeeps, DecideKeeps
<1>2. CASE Reject(r)
  BY <1>2, DecideKeeps DEF Reject
<1>3. CASE EscalateToNext(r)
  BY <1>3, AdvanceKeeps DEF EscalateToNext
<1>4. CASE EscalateToBackup(r)
  BY <1>4, BackupKeeps
<1>5. CASE Refused(r)
  BY <1>5, OthersKeep DEF Refused, Finish, TypeOK
<1> QED BY <1>1, <1>2, <1>3, <1>4, <1>5

LEMMA EngineStep == TypeOK /\ EngineInvariant /\ [Next]_vars => EngineInvariant'
<1> SUFFICES ASSUME TypeOK, EngineInvariant, [Next]_vars PROVE EngineInvariant'
  OBVIOUS
<1>1. ASSUME NEW p \in DelegationPairs,
             CreateDelegation(p[1], p[2]) \/ RevokeDelegation(p[1], p[2])
      PROVE  EngineInvariant'
  BY <1>1, OthersKeep DEF CreateDelegation, RevokeDelegation
<1>2. CASE Tick \/ UNCHANGED vars
  BY <1>2, OthersKeep DEF Tick, vars
<1> QED BY <1>1, <1>2, StartKeepsSound, ReadKeepsSound, CommitKeeps, CancelKeeps DEF Next

LEMMA EngineInvariantly == Spec => [](TypeOK /\ EngineInvariant)
BY TypeCorrect, EngineInitially, EngineStep, PTL DEF Spec

\* An open instance waits at exactly one step, however many requests race.
THEOREM OneStepWaits == Spec => []OneWaitingStep
<1>1. EngineInvariant => OneWaitingStep
  BY DEF EngineInvariant, Sound, Waits, OneWaitingStep
<1> QED BY <1>1, EngineInvariantly, PTL

\* No user signs twice, and no party to the request signs at all.
THEOREM DutiesSeparated == Spec => []SeparationOfDuties
<1>1. EngineInvariant => SeparationOfDuties
  BY DEF EngineInvariant, Sound, Separated, SeparationOfDuties
<1> QED BY <1>1, EngineInvariantly, PTL

\* An approval means a signature at every level of the instance.
THEOREM EveryLevelSigned == Spec => []ApprovedByEveryLevel
<1>1. EngineInvariant => ApprovedByEveryLevel
  BY DEF EngineInvariant, Sound, LevelSignedOff, SignedOff, ApprovedByEveryLevel
<1> QED BY <1>1, EngineInvariantly, PTL

\* The requester hears of a decision once, and only of a decision.
THEOREM RequesterToldOnce == Spec => []ToldOnce
<1>1. EngineInvariant => ToldOnce
  BY DEF EngineInvariant
<1> QED BY <1>1, EngineInvariantly, PTL

-----------------------------------------------------------------------------
(* The engine implements ApprovalDecision and undoes no decision.  The     *)
(* steps are first summed up by what they do to the row of one instance.   *)

(* What a step does to a row: it is filed, signed, or touched unsigned.    *)

SamePeople(s, t) == t.requester = s.requester /\ t.subjects = s.subjects

\* Signed steps stay as they are, in every transition of a row that exists.
KeepsSigned(s, t) == \A j \in Idx : s.steps[j].actedBy # None => t.steps[j] = s.steps[j]

Signs(s, t, k, u) ==
    /\ SamePeople(s, t) /\ KeepsSigned(s, t)
    /\ \A j \in Idx : t.steps[j].actedBy = IF j = k THEN u ELSE s.steps[j].actedBy

Replaces(i, t) == inst' = [inst EXCEPT ![i] = t]

Filed(i) == \E t : /\ inst[i].status = "NONE" /\ Replaces(i, t) /\ notified' = notified
                   /\ t.status = "PENDING" /\ \A j \in Idx : t.steps[j].actedBy = None
                   /\ t.requester \in Users /\ t.subjects \subseteq Users

PassedOn(i) == \E t, u, k : /\ MayCommit(inst[i], k, u) /\ Replaces(i, t) /\ notified' = notified
                            /\ t.status \in Open /\ Signs(inst[i], t, k, u)

Settled(i) == \E t, u, k : /\ MayCommit(inst[i], k, u) /\ Replaces(i, t)
                           /\ notified' = [notified EXCEPT ![i] = @ + 1]
                           /\ t.status \in {"APPROVED", "REJECTED"} /\ Signs(inst[i], t, k, u)

Touched(i) == \E t : /\ inst[i].status \in Open /\ Replaces(i, t) /\ notified' = notified
                     /\ t.status \in Open \cup {"CANCELLED"}
                     /\ SamePeople(inst[i], t) /\ KeepsSigned(inst[i], t)
                     /\ \A j \in Idx : t.steps[j].actedBy = inst[i].steps[j].actedBy

LEMMA StartFiles ==
    ASSUME TypeOK, NEW i \in Instances, NEW f \in Filings,
           NEW m \in [id : Users \cup {None}, backup : Users \cup {None}], StartInstance(i, f, m)
    PROVE  Filed(i)
<1>1. PICK first \in Applicable(f.template) :
         inst' = [inst EXCEPT ![i] =
              [status |-> "PENDING", currentLevel |-> f.template[first].level,
               requester |-> f.requester,
               subjects |-> {f.subject, f.target} \ {None},
               steps |-> [k \in Idx |-> IF k \in Applicable(f.template)
                                        THEN NewStep(f.template, m, k, first)
                                        ELSE NoStep],
               updatedAt |-> clock]]
  BY DEF StartInstance
<1> DEFINE t == [status |-> "PENDING", currentLevel |-> f.template[first].level,
                 requester |-> f.requester,
                 subjects |-> {f.subject, f.target} \ {None},
                 steps |-> [k \in Idx |-> IF k \in Applicable(f.template)
                                          THEN NewStep(f.template, m, k, first)
                                          ELSE NoStep],
                 updatedAt |-> clock]
<1>2. /\ t.status = "PENDING" /\ \A j \in Idx : t.steps[j].actedBy = None
      /\ t.requester \in Users /\ t.subjects \subseteq Users
  BY WorkflowAssumption DEF NewStep, NoStep
<1>3. Replaces(i, t)
  BY <1>1 DEF Replaces
<1> HIDE DEF t
<1> QED BY <1>2, <1>3 DEF Filed, StartInstance

LEMMA AdvancePassesOn ==
    ASSUME TypeOK, EngineInvariant, NEW r \in Requests, NEW h \in handler[r], Claims(h),
           NEW st \in {"APPROVED", "ESCALATED"}, NEW status \in {"PENDING", "ESCALATED"},
           Advance(h, st, status)
    PROVE  PassedOn(h.instance)
<1> DEFINE s == inst[h.instance]
           k == h.step
           u == h.user
<1>1. PICK n \in Idx : /\ IsNextStep(h.snap, k, n)
                       /\ Replaces(h.instance, Advanced(s, k, n, st, status, u))
  BY DEF Advance, Replaces
<1> DEFINE t == Advanced(s, k, n, st, status, u)
           signed == Signed(s, k, st, u)
<1>2. MayCommit(s, k, u) /\ s \in InstanceRows /\ k \in Idx /\ n \in Higher(s, k) /\ u # None
  BY <1>1, ClaimedMayCommit, WorkflowAssumption DEF IsNextStep, MayCommit
<1>3. /\ s.steps[k].actedBy = None /\ s.steps[n].actedBy = None /\ n # k
      /\ \A j \in Idx : s.steps[j] \in Steps
  BY <1>2, TheWaitingStep DEF Higher, Steps
<1>4. /\ signed[k].actedBy = u /\ \A j \in Idx \ {k} : signed[j] = s.steps[j]
      /\ DOMAIN signed = Idx
  BY <1>2, <1>3 DEF Signed, InstanceRows, Steps
<1>5. /\ t.status = status /\ SamePeople(s, t)
      /\ t.steps = [signed EXCEPT ![n] = [@ EXCEPT !.isCurrent = TRUE, !.updatedAt = clock]]
  BY <1>2 DEF Advanced, InstanceRows, SamePeople
<1> HIDE DEF t, signed, s
<1>6. \A j \in Idx : /\ t.steps[j].actedBy = IF j = k THEN u ELSE s.steps[j].actedBy
                     /\ j \notin {k, n} => t.steps[j] = s.steps[j]
  BY <1>3, <1>4, <1>5 DEF Steps
<1>7. Signs(s, t, k, u)
  BY <1>3, <1>5, <1>6 DEF Signs, KeepsSigned
<1>8. Replaces(h.instance, t) /\ notified' = notified
  BY <1>1 DEF Advance, t
<1> QED BY <1>2, <1>5, <1>7, <1>8 DEF PassedOn, Open, s

LEMMA DecideSettles ==
    ASSUME TypeOK, EngineInvariant, NEW r \in Requests, NEW h \in handler[r], Claims(h),
           NEW st \in {"APPROVED", "REJECTED"}, Decide(h, st)
    PROVE  Settled(h.instance)
<1> DEFINE s == inst[h.instance]
           k == h.step
           u == h.user
           t == Decided(s, k, st, u)
<1>1. /\ MayCommit(s, k, u) /\ s \in InstanceRows /\ k \in Idx /\ s.requester # u
      /\ h.instance \in Instances
  BY ClaimedMayCommit DEF MayCommit, IsParty, Handlers
<1>2. s.steps[k].actedBy = None /\ \A j \in Idx : s.steps[j] \in Steps
  BY <1>1, TheWaitingStep
<1>3. /\ t.status = st /\ SamePeople(s, t) /\ t.steps = Signed(s, k, st, u)
  BY <1>1 DEF Decided, InstanceRows, SamePeople
<1>4. \A j \in Idx : /\ t.steps[j].actedBy = IF j = k THEN u ELSE s.steps[j].actedBy
                     /\ j # k => t.steps[j] = s.steps[j]
  BY <1>1, <1>2, <1>3 DEF Signed, InstanceRows, Steps
<1>5. Replaces(h.instance, t) /\ notified' = [notified EXCEPT ![h.instance] = @ + 1]
  BY <1>1 DEF Decide, Replaces
<1> HIDE DEF t
<1>6. Signs(s, t, k, u)
  BY <1>2, <1>3, <1>4 DEF Signs, KeepsSigned
<1> QED BY <1>1, <1>3, <1>5, <1>6 DEF Settled

LEMMA BackupTouches ==
    ASSUME TypeOK, EngineInvariant, NEW r \in Requests, NEW h \in handler[r], Claims(h),
           inst' = [inst EXCEPT ![h.instance] = Reassigned(inst[h.instance], h.step)],
           notified' = notified
    PROVE  Touched(h.instance)
<1> DEFINE s == inst[h.instance]
           k == h.step
           t == Reassigned(s, k)
           step == [s.steps[k] EXCEPT !.assignee = s.steps[k].backup, !.updatedAt = clock]
<1>1. MayCommit(s, k, h.user) /\ s \in InstanceRows /\ k \in Idx /\ s.status \in Open
  BY ClaimedMayCommit DEF MayCommit
<1>2. s.steps[k].actedBy = None /\ \A j \in Idx : s.steps[j] \in Steps
  BY <1>1, TheWaitingStep
<1>3. /\ t.status = "ESCALATED" /\ SamePeople(s, t) /\ t.steps = [s.steps EXCEPT ![k] = step]
  BY <1>1 DEF Reassigned, InstanceRows, SamePeople
<1>4. step.actedBy = None /\ DOMAIN s.steps = Idx
  BY <1>1, <1>2 DEF Steps, InstanceRows
<1> HIDE DEF step
<1>5. \A j \in Idx : t.steps[j].actedBy = s.steps[j].actedBy /\ (j # k => t.steps[j] = s.steps[j])
  BY <1>2, <1>3, <1>4
<1>6. Replaces(h.instance, t)
  BY DEF Replaces
<1> HIDE DEF t
<1>7. KeepsSigned(s, t)
  BY <1>2, <1>5 DEF KeepsSigned
<1> QED BY <1>1, <1>3, <1>5, <1>6, <1>7 DEF Touched, Open

LEMMA CancelTouches ==
    ASSUME TypeOK, EngineInvariant, NEW i \in Instances, CancelInstanceByReference(i)
    PROVE  Touched(i)
<1> DEFINE s == inst[i]
           t == [s EXCEPT !.status = "CANCELLED", !.currentLevel = 0, !.updatedAt = clock,
                          !.steps = CancelledSteps(s)]
<1>1. s \in InstanceRows /\ Sound(s) /\ s.status \in Open /\ Replaces(i, t) /\ notified' = notified
  BY DEF CancelInstanceByReference, Cancellable, TypeOK, EngineInvariant, Replaces
<1>2. t.status = "CANCELLED" /\ t.steps = CancelledSteps(s) /\ SamePeople(s, t)
  BY <1>1 DEF InstanceRows, SamePeople
<1>3. \A j \in Idx : s.steps[j] \in Steps
  BY <1>1 DEF InstanceRows
<1>4. \A j \in Idx : /\ t.steps[j].actedBy = s.steps[j].actedBy
                     /\ s.steps[j].status # "PENDING" => t.steps[j] = s.steps[j]
  BY <1>2, <1>3 DEF CancelledSteps, Steps
<1> HIDE DEF t
<1>5. KeepsSigned(s, t)
  BY <1>1, <1>4 DEF KeepsSigned, Sound
<1> QED BY <1>1, <1>2, <1>4, <1>5 DEF Touched

LEMMA WhatAStepDoes ==
    ASSUME TypeOK, EngineInvariant, [Next]_vars
    PROVE  \/ inst' = inst /\ notified' = notified
           \/ \E i \in Instances : Filed(i) \/ PassedOn(i) \/ Settled(i) \/ Touched(i)
<1>1. ASSUME NEW r \in Requests, NEW h \in handler[r] PROVE h.instance \in Instances
  BY DEF TypeOK, Handlers
<1>2. ASSUME NEW r \in Requests, Approve(r)
      PROVE  \E i \in Instances : PassedOn(i) \/ Settled(i)
  <2>1. PICK h \in handler[r] :
          /\ Claims(h)
          /\ Advance(h, "APPROVED", "PENDING") \/ Decide(h, "APPROVED")
    BY <1>2 DEF Approve
  <2> QED BY <1>1, <2>1, AdvancePassesOn, DecideSettles
<1>3. ASSUME NEW r \in Requests, Reject(r) \/ EscalateToNext(r) \/ EscalateToBackup(r)
      PROVE  \E i \in Instances : PassedOn(i) \/ Settled(i) \/ Touched(i)
  BY <1>1, <1>3, AdvancePassesOn, DecideSettles, BackupTouches
     DEF Reject, EscalateToNext, EscalateToBackup
<1>4. ASSUME \/ UNCHANGED vars \/ Tick \/ \E r \in Requests : Refused(r)
             \/ \E r \in Requests, u \in Users, i \in Instances, a \in Actions :
                  ReadForAction(r, u, i, a)
             \/ \E p \in DelegationPairs : CreateDelegation(p[1], p[2]) \/ RevokeDelegation(p[1], p[2])
      PROVE  inst' = inst /\ notified' = notified
  BY <1>4 DEF vars, Tick, Refused, ReadForAction, CreateDelegation, RevokeDelegation
<1> QED BY <1>2, <1>3, <1>4, StartFiles, CancelTouches DEF Next

-----------------------------------------------------------------------------
(* No decision and no signature is ever undone.                            *)

LEMMA StepUndoesNothing == TypeOK /\ EngineInvariant /\ [Next]_vars => [NothingUndone]_vars
<1> SUFFICES ASSUME TypeOK, EngineInvariant, [Next]_vars PROVE NothingUndone
  OBVIOUS
<1>1. CASE inst' = inst
  BY <1>1 DEF NothingUndone
<1>2. ASSUME NEW i \in Instances, NEW t, Replaces(i, t), KeepsSigned(inst[i], t),
             inst[i].status \notin {"APPROVED", "REJECTED", "CANCELLED"}
      PROVE  NothingUndone
  BY <1>2 DEF Replaces, KeepsSigned, NothingUndone, TypeOK
<1>3. ASSUME NEW i \in Instances, Filed(i) PROVE NothingUndone
  <2>1. PICK t : Replaces(i, t) /\ inst[i].status = "NONE"
    BY <1>3 DEF Filed
  <2>2. inst[i] = NoInstance
    BY <2>1 DEF EngineInvariant, Sound
  <2>3. KeepsSigned(inst[i], t)
    BY <2>2 DEF KeepsSigned, NoInstance, NoStep
  <2> QED BY <1>2, <2>1, <2>3
<1>4. ASSUME NEW i \in Instances, PassedOn(i) \/ Settled(i) \/ Touched(i) PROVE NothingUndone
  <2>1. PICK t : Replaces(i, t) /\ inst[i].status \in Open /\ KeepsSigned(inst[i], t)
    BY <1>4 DEF PassedOn, Settled, Touched, MayCommit, Signs
  <2> QED BY <1>2, <2>1 DEF Open
<1> QED BY <1>1, <1>3, <1>4, WhatAStepDoes

\* A decided or cancelled instance stays as it is, and so does every signature.
THEOREM DecisionsStand == Spec => DecisionsAreFinal
BY EngineInvariantly, StepUndoesNothing, PTL DEF Spec, DecisionsAreFinal

-----------------------------------------------------------------------------
(* The engine implements ApprovalDecision.                                 *)

LEMMA DecisionInitially == Init => Decision!Init
<1> SUFFICES ASSUME Init PROVE Decision!Init
  OBVIOUS
<1>1. \A i \in Instances : inst[i] = NoInstance
  BY DEF Init
<1>2. OutcomeOf(NoInstance) = "none" /\ PartiesOf(NoInstance) = {} /\ SignersOf(NoInstance) = {}
  BY DEF OutcomeOf, PartiesOf, SignersOf, NoInstance, NoStep, Open
<1> QED BY <1>1, <1>2 DEF Init, Decision!Init

\* What the abstraction sees of a row that is replaced.
LEMMA Seen ==
    ASSUME TypeOK, NEW i \in Instances, NEW t, Replaces(i, t)
    PROVE  \A j \in Instances :
             /\ OutcomeOf(inst'[j]) = IF j = i THEN OutcomeOf(t) ELSE OutcomeOf(inst[j])
             /\ PartiesOf(inst'[j]) = IF j = i THEN PartiesOf(t) ELSE PartiesOf(inst[j])
             /\ SignersOf(inst'[j]) = IF j = i THEN SignersOf(t) ELSE SignersOf(inst[j])
<1>1. \A j \in Instances : inst'[j] = IF j = i THEN t ELSE inst[j]
  BY DEF Replaces, TypeOK
<1> QED BY <1>1

LEMMA SignatureSeen ==
    ASSUME NEW s, NEW t, NEW k, NEW u, MayCommit(s, k, u), Signs(s, t, k, u)
    PROVE  /\ u \in Users \ (PartiesOf(s) \cup SignersOf(s))
           /\ PartiesOf(t) = PartiesOf(s) /\ SignersOf(t) = SignersOf(s) \cup {u}
           /\ OutcomeOf(s) = "open"
<1>1. k \in Idx /\ s.steps[k].actedBy = None /\ u \in Users /\ u # None
  BY TheWaitingStep, WorkflowAssumption DEF MayCommit
<1>2. SignersOf(t) = SignersOf(s) \cup {u}
  BY <1>1 DEF SignersOf, Signs
<1>3. u \notin PartiesOf(s) \cup SignersOf(s)
  BY DEF MayCommit, IsParty, PartiesOf, SignersOf
<1>4. PartiesOf(t) = PartiesOf(s)
  BY DEF Signs, SamePeople, PartiesOf
<1>5. OutcomeOf(s) = "open"
  BY DEF MayCommit, OutcomeOf, Open
<1> QED BY <1>1, <1>2, <1>3, <1>4, <1>5

LEMMA FilingSeen ==
    ASSUME TypeOK, EngineInvariant, NEW i \in Instances, Filed(i)
    PROVE  Decision!File(i)
<1>1. PICK t : /\ inst[i].status = "NONE" /\ Replaces(i, t) /\ notified' = notified
               /\ t.status = "PENDING" /\ \A j \in Idx : t.steps[j].actedBy = None
               /\ t.requester \in Users /\ t.subjects \subseteq Users
  BY DEF Filed
<1>2. inst[i] = NoInstance
  BY <1>1 DEF EngineInvariant, Sound
<1>3. OutcomeOf(inst[i]) = "none" /\ SignersOf(inst[i]) = {}
  BY <1>2 DEF OutcomeOf, SignersOf, NoInstance, NoStep, Open
<1>4. /\ OutcomeOf(t) = "open" /\ SignersOf(t) = {}
      /\ PartiesOf(t) \in SUBSET Users /\ PartiesOf(t) # {}
  BY <1>1, WorkflowAssumption DEF OutcomeOf, SignersOf, PartiesOf, Open
<1>5. [j \in Instances |-> SignersOf(inst[j])]' = [j \in Instances |-> SignersOf(inst[j])]
  BY <1>1, <1>3, <1>4, Seen
<1>6. /\ [j \in Instances |-> OutcomeOf(inst[j])]'
            = [[j \in Instances |-> OutcomeOf(inst[j])] EXCEPT ![i] = "open"]
      /\ [j \in Instances |-> PartiesOf(inst[j])]'
            = [[j \in Instances |-> PartiesOf(inst[j])] EXCEPT ![i] = PartiesOf(t)]
  BY <1>1, <1>4, Seen
<1>7. [j \in Instances |-> OutcomeOf(inst[j])][i] = "none"  BY <1>3
<1> HIDE DEF OutcomeOf, PartiesOf, SignersOf
<1> QED BY <1>1, <1>4, <1>5, <1>6, <1>7 DEF Decision!File

LEMMA PassingOnSeen ==
    ASSUME TypeOK, EngineInvariant, NEW i \in Instances, PassedOn(i)
    PROVE  \E u \in Users : Decision!PassOn(i, u)
<1>1. PICK t, u, k : /\ MayCommit(inst[i], k, u) /\ Replaces(i, t) /\ notified' = notified
                     /\ t.status \in Open /\ Signs(inst[i], t, k, u)
  BY DEF PassedOn
<1>2. OutcomeOf(t) = "open"
  BY <1>1 DEF OutcomeOf, Open
<1>3. /\ u \in Users \ (PartiesOf(inst[i]) \cup SignersOf(inst[i]))
      /\ PartiesOf(t) = PartiesOf(inst[i]) /\ SignersOf(t) = SignersOf(inst[i]) \cup {u}
      /\ OutcomeOf(inst[i]) = "open"
  BY <1>1, SignatureSeen
<1>4. /\ [j \in Instances |-> OutcomeOf(inst[j])]' = [j \in Instances |-> OutcomeOf(inst[j])]
      /\ [j \in Instances |-> PartiesOf(inst[j])]' = [j \in Instances |-> PartiesOf(inst[j])]
      /\ [j \in Instances |-> SignersOf(inst[j])]' =
           [[j \in Instances |-> SignersOf(inst[j])] EXCEPT ![i] = @ \cup {u}]
  BY <1>1, <1>2, <1>3, Seen
<1> QED BY <1>1, <1>3, <1>4 DEF Decision!PassOn

LEMMA SettlingSeen ==
    ASSUME TypeOK, EngineInvariant, NEW i \in Instances, Settled(i)
    PROVE  \E u \in Users : Decision!Settle(i, u)
<1>1. PICK t, u, k : /\ MayCommit(inst[i], k, u) /\ Replaces(i, t)
                     /\ notified' = [notified EXCEPT ![i] = @ + 1]
                     /\ t.status \in {"APPROVED", "REJECTED"} /\ Signs(inst[i], t, k, u)
  BY DEF Settled
<1>2. OutcomeOf(t) \in {"APPROVED", "REJECTED"}
  BY <1>1 DEF OutcomeOf, Open
<1>3. /\ u \in Users \ (PartiesOf(inst[i]) \cup SignersOf(inst[i]))
      /\ PartiesOf(t) = PartiesOf(inst[i]) /\ SignersOf(t) = SignersOf(inst[i]) \cup {u}
      /\ OutcomeOf(inst[i]) = "open"
  BY <1>1, SignatureSeen
<1>4. /\ [j \in Instances |-> OutcomeOf(inst[j])]' =
           [[j \in Instances |-> OutcomeOf(inst[j])] EXCEPT ![i] = OutcomeOf(t)]
      /\ [j \in Instances |-> PartiesOf(inst[j])]' = [j \in Instances |-> PartiesOf(inst[j])]
      /\ [j \in Instances |-> SignersOf(inst[j])]' =
           [[j \in Instances |-> SignersOf(inst[j])] EXCEPT ![i] = @ \cup {u}]
  BY <1>1, <1>3, Seen
<1> QED BY <1>1, <1>2, <1>3, <1>4 DEF Decision!Settle

LEMMA TouchSeen ==
    ASSUME TypeOK, EngineInvariant, NEW i \in Instances, Touched(i)
    PROVE  Decision!Withdraw(i) \/ UNCHANGED Decision!vars
<1>1. PICK t : /\ inst[i].status \in Open /\ Replaces(i, t) /\ notified' = notified
               /\ t.status \in Open \cup {"CANCELLED"} /\ SamePeople(inst[i], t)
               /\ \A j \in Idx : t.steps[j].actedBy = inst[i].steps[j].actedBy
  BY DEF Touched
<1>2. /\ OutcomeOf(inst[i]) = "open" /\ OutcomeOf(t) \in {"open", "CANCELLED"}
      /\ PartiesOf(t) = PartiesOf(inst[i]) /\ SignersOf(t) = SignersOf(inst[i])
  BY <1>1 DEF OutcomeOf, Open, PartiesOf, SignersOf, SamePeople
<1>3. /\ [j \in Instances |-> PartiesOf(inst[j])]' = [j \in Instances |-> PartiesOf(inst[j])]
      /\ [j \in Instances |-> SignersOf(inst[j])]' = [j \in Instances |-> SignersOf(inst[j])]
      /\ [j \in Instances |-> OutcomeOf(inst[j])]' =
           [[j \in Instances |-> OutcomeOf(inst[j])] EXCEPT ![i] = OutcomeOf(t)]
  BY <1>1, <1>2, Seen
<1>4. CASE OutcomeOf(t) = "CANCELLED"
  BY <1>1, <1>2, <1>3, <1>4 DEF Decision!Withdraw
<1>5. CASE OutcomeOf(t) = "open"
  BY <1>1, <1>2, <1>3, <1>5 DEF Decision!vars
<1> QED BY <1>2, <1>4, <1>5

LEMMA DecisionStep ==
    TypeOK /\ EngineInvariant /\ [Next]_vars => [Decision!Next]_Decision!vars
<1> SUFFICES ASSUME TypeOK, EngineInvariant, [Next]_vars PROVE [Decision!Next]_Decision!vars
  OBVIOUS
<1>1. CASE inst' = inst /\ notified' = notified
  BY <1>1 DEF Decision!vars
<1>2. ASSUME NEW i \in Instances, Filed(i) \/ PassedOn(i) \/ Settled(i) \/ Touched(i)
      PROVE  [Decision!Next]_Decision!vars
  BY <1>2, FilingSeen, PassingOnSeen, SettlingSeen, TouchSeen DEF Decision!Next
<1> QED BY <1>1, <1>2, WhatAStepDoes

\* Domain services may forget the engine's levels, snapshots, claims and delegations.
THEOREM EngineImplementsDecision == Spec => ImplementsDecision
BY EngineInvariantly, DecisionInitially, DecisionStep, PTL
   DEF Spec, ImplementsDecision, Decision!Spec
=============================================================================
