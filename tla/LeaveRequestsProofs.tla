------------------------ MODULE LeaveRequestsProofs ------------------------
(***************************************************************************)
(* Theorems about LeaveRequests for any requests, days, allocations and    *)
(* handlers in flight.  That the used days add up rests on the facts about *)
(* sums of module Sums.                                                    *)
(***************************************************************************)
EXTENDS LeaveRequests, Sums

-----------------------------------------------------------------------------
(* The balance row.                                                        *)

GoodBalance(b) == b \in Balances /\ b.remaining = AtLeast0(b.total - b.used)

LEMMA RowParts ==
    ASSUME NEW b \in Balances
    PROVE  b.total \in Nat /\ b.used \in Nat /\ b.remaining \in Int
BY DEF Balances

LEMMA NotNegative ==
    ASSUME NEW n \in Int
    PROVE  AtLeast0(n) \in Nat /\ AtLeast0(n) >= n /\ (n >= 0 => AtLeast0(n) = n)
BY DEF AtLeast0

LEMMA DeductGood ==
    ASSUME NEW b, GoodBalance(b), NEW days \in Nat \ {0}, Sufficient(b, days)
    PROVE  /\ GoodBalance(Deduct(b, days))
           /\ Deduct(b, days).used <= Deduct(b, days).total
<1> DEFINE c == Deduct(b, days)
<1>1. b \in Balances /\ b.remaining = AtLeast0(b.total - b.used)
  BY DEF GoodBalance
<1>2. b.total \in Nat /\ b.used \in Nat /\ b.remaining \in Int /\ b.remaining >= days
  BY <1>1, RowParts DEF Sufficient
<1>3. b.remaining = b.total - b.used
  BY <1>1, <1>2 DEF AtLeast0
<1>4. c.total = b.total /\ c.used = b.used + days /\ c.remaining = b.remaining - days
  BY <1>1 DEF Deduct, Balances
<1>5. b.used + days \in Nat /\ b.remaining - days \in Int
  BY <1>2
<1>6. c \in Balances
  BY <1>1, <1>5 DEF Deduct, Balances
<1>7. c.total - c.used = c.remaining /\ c.remaining >= 0
  BY <1>2, <1>3, <1>4
<1>8. c.remaining = AtLeast0(c.total - c.used)
  BY <1>7 DEF AtLeast0
<1>9. c.used <= c.total
  BY <1>2, <1>3, <1>4
<1> QED BY <1>6, <1>8, <1>9 DEF GoodBalance

LEMMA RestoreGood ==
    ASSUME NEW b, GoodBalance(b), NEW days \in Nat \ {0}
    PROVE  GoodBalance(Restore(b, days)) /\ Restore(b, days).used <= b.used
<1> DEFINE u == AtLeast0(b.used - days)
           r == AtLeast0(b.total - u)
           c == Restore(b, days)
<1>1. b \in Balances /\ b.total \in Nat /\ b.used \in Nat
  BY RowParts DEF GoodBalance
<1>2. u \in Nat /\ u <= b.used
  BY <1>1 DEF AtLeast0
<1> HIDE DEF u
<1>3. r \in Nat /\ r \in Int
  BY <1>1, <1>2, NotNegative
<1>4. c = [b EXCEPT !.used = u, !.remaining = r]
  BY DEF Restore, u
<1> HIDE DEF c, r
<1>5. c \in Balances
  BY <1>1, <1>2, <1>3, <1>4 DEF Balances
<1>6. c.total = b.total /\ c.used = u /\ c.remaining = r
  BY <1>1, <1>4 DEF Balances
<1> QED BY <1>2, <1>5, <1>6 DEF GoodBalance, c, r

LEMMA SetTotalGood ==
    ASSUME NEW b, GoodBalance(b), NEW total \in Nat
    PROVE  GoodBalance(SetTotal(b, total)) /\ SetTotal(b, total).used = b.used
<1> DEFINE r == AtLeast0(total - b.used)
           c == SetTotal(b, total)
<1>1. b \in Balances /\ b.used \in Nat
  BY RowParts DEF GoodBalance
<1>2. r \in Nat /\ r \in Int
  BY <1>1, NotNegative
<1>3. c = [b EXCEPT !.exists = TRUE, !.total = total, !.remaining = r]
  BY DEF SetTotal
<1> HIDE DEF c, r
<1>4. c \in Balances
  BY <1>1, <1>2, <1>3 DEF Balances
<1>5. c.total = total /\ c.used = b.used /\ c.remaining = r
  BY <1>1, <1>3 DEF Balances
<1> QED BY <1>4, <1>5 DEF GoodBalance, c, r

-----------------------------------------------------------------------------
(* The inductive invariant.                                                *)

\* What a handler in flight knows of its request and of the workflow.
Knows(h) ==
    /\ h.act = "FILE" => instance[h.req] = "none"
    /\ h.act = "FILE" /\ h.at = "START" => req[h.req] # "NONE"
    /\ h.act = "APPROVE" /\ h.at \in {"GUARD", "FINALIZE"} => instance[h.req] = "APPROVED"
    /\ h.act = "REJECT" /\ h.at = "REFUSE" => instance[h.req] = "REJECTED"

\* A request is filed by one handler at a time.
OneFiler ==
    \A s, t \in Slots : \A h \in handler[s], g \in handler[t] :
        h.req = g.req /\ h.act = "FILE" /\ g.act = "FILE" => s = t

LeaveInvariant ==
    /\ TypeOK /\ RemainingIsWhatIsLeft /\ StatusFollowsDecision
    /\ \A q \in Requests : req[q] = "NONE" => instance[q] = "none"
    /\ \A s \in Slots : \A h \in handler[s] : Knows(h)
    /\ OneFiler

LEMMA LeaveInitially == Init => LeaveInvariant
<1> SUFFICES ASSUME Init PROVE LeaveInvariant
  OBVIOUS
<1>1. NoBalance \in Balances /\ NoBalance.remaining = AtLeast0(NoBalance.total - NoBalance.used)
  BY DEF NoBalance, Balances, AtLeast0
<1>2. TypeOK /\ RemainingIsWhatIsLeft
  BY <1>1 DEF Init, TypeOK, RemainingIsWhatIsLeft, RequestStatus, Outcomes
<1>3. StatusFollowsDecision /\ OneFiler
  BY DEF Init, StatusFollowsDecision, OneFiler
<1> QED BY <1>2, <1>3 DEF Init, LeaveInvariant

\* A slot is left with handlers that know what they should and file nothing that
\* another slot files.
Passes(s, left) ==
    /\ left \in SUBSET Handlers
    /\ \A h \in left : Knows(h)'
    /\ \A h \in left, t \in Slots \ {s} : \A g \in handler[t] :
          ~(h.req = g.req /\ h.act = "FILE" /\ g.act = "FILE")

LEMMA PassesNothing == ASSUME NEW s \in Slots PROVE Passes(s, {})
BY DEF Passes

LEMMA PassesOne ==
    ASSUME NEW s \in Slots, NEW h \in Handlers, Knows(h)',
           h.act = "FILE" =>
             \A t \in Slots \ {s} : \A g \in handler[t] : ~(g.req = h.req /\ g.act = "FILE")
    PROVE  Passes(s, {h})
BY DEF Passes

\* The filer of a request alone may take it back or start its workflow.
Undisturbed(s) ==
    \A t \in Slots \ {s} : \A g \in handler[t] :
        /\ instance'[g.req] # instance[g.req] =>
             g.act # "FILE" /\ instance[g.req] \in {"none", "open"}
        /\ req'[g.req] = "NONE" /\ req[g.req] # "NONE" => g.act # "FILE"

LEMMA HandlerMoves ==
    ASSUME LeaveInvariant, NEW s \in Slots, NEW left, Passes(s, left), Undisturbed(s),
           handler' = [handler EXCEPT ![s] = left]
    PROVE  /\ handler' \in [Slots -> SUBSET Handlers]
           /\ \A t \in Slots : \A h \in handler'[t] : Knows(h)'
           /\ OneFiler'
<1>1. handler' \in [Slots -> SUBSET Handlers] /\ \A t \in Slots \ {s} : handler'[t] = handler[t]
  BY DEF LeaveInvariant, TypeOK, Passes
<1>2. handler'[s] = left
  BY DEF LeaveInvariant, TypeOK
<1>3. ASSUME NEW t \in Slots \ {s}, NEW h \in handler[t] PROVE Knows(h)'
  <2>1. Knows(h)
    BY DEF LeaveInvariant
  <2>2. CASE instance'[h.req] = instance[h.req]
    BY <2>1, <2>2 DEF Knows, Undisturbed
  <2>3. CASE instance'[h.req] # instance[h.req]
    BY <2>1, <2>3 DEF Knows, Undisturbed
  <2> QED BY <2>2, <2>3
<1>4. \A t \in Slots : \A h \in handler'[t] : Knows(h)'
  BY <1>1, <1>2, <1>3 DEF Passes
<1>5. OneFiler'
  BY <1>1, <1>2 DEF OneFiler, LeaveInvariant, Passes
<1> QED BY <1>1, <1>4, <1>5

-----------------------------------------------------------------------------
(* The three ways a handler leaves the rows behind it.                     *)

LEMMA OnlyHandlerMoves ==
    ASSUME LeaveInvariant, NEW s \in Slots, NEW left, Passes(s, left),
           handler' = [handler EXCEPT ![s] = left],
           UNCHANGED <<req, instance, balance, locked>>
    PROVE  LeaveInvariant'
<1>1. Undisturbed(s)
  BY DEF Undisturbed
<1>2. /\ handler' \in [Slots -> SUBSET Handlers]
      /\ \A t \in Slots : \A h \in handler'[t] : Knows(h)'
      /\ OneFiler'
  BY <1>1, HandlerMoves
<1> QED BY <1>2 DEF LeaveInvariant, TypeOK, RemainingIsWhatIsLeft, StatusFollowsDecision

\* It gives its request a status that the workflow supports.
LEMMA RequestMoves ==
    ASSUME LeaveInvariant, NEW s \in Slots, NEW q \in Requests, NEW left, Passes(s, left),
           handler' = [handler EXCEPT ![s] = left],
           NEW status \in RequestStatus,
           req' = [req EXCEPT ![q] = status],
           status \in {"APPROVED", "REJECTED"} => instance[q] = status,
           status = "NONE" => /\ instance[q] = "none"
                              /\ \A t \in Slots \ {s} : \A g \in handler[t] :
                                    ~(g.req = q /\ g.act = "FILE"),
           GoodBalance(balance'),
           UNCHANGED <<instance, locked>>
    PROVE  LeaveInvariant'
<1>1. req' \in [Requests -> RequestStatus] /\ \A p \in Requests : req'[p] = IF p = q THEN status ELSE req[p]
  BY DEF LeaveInvariant, TypeOK
<1>2. Undisturbed(s)
  BY <1>1 DEF Undisturbed, LeaveInvariant, TypeOK, Handlers
<1>3. /\ handler' \in [Slots -> SUBSET Handlers]
      /\ \A t \in Slots : \A h \in handler'[t] : Knows(h)'
      /\ OneFiler'
  BY <1>2, HandlerMoves
<1>4. TypeOK' /\ RemainingIsWhatIsLeft'
  BY <1>1, <1>3 DEF LeaveInvariant, TypeOK, RemainingIsWhatIsLeft, GoodBalance
<1>5. StatusFollowsDecision' /\ \A p \in Requests : req'[p] = "NONE" => instance'[p] = "none"
  BY <1>1 DEF LeaveInvariant, StatusFollowsDecision
<1> QED BY <1>3, <1>4, <1>5 DEF LeaveInvariant

\* It moves the workflow: an instance starts, or an open one is closed.
LEMMA WorkflowMoves ==
    ASSUME LeaveInvariant, NEW s \in Slots, NEW q \in Requests, NEW left, Passes(s, left),
           handler' = [handler EXCEPT ![s] = left],
           NEW outcome \in Outcomes \ {"none"},
           instance' = [instance EXCEPT ![q] = outcome],
           \/ instance[q] = "open"
           \/ /\ instance[q] = "none" /\ req[q] # "NONE"
              /\ \A t \in Slots \ {s} : \A g \in handler[t] : ~(g.req = q /\ g.act = "FILE"),
           UNCHANGED <<req, balance, locked>>
    PROVE  LeaveInvariant'
<1>1. /\ instance' \in [Requests -> Outcomes]
      /\ \A p \in Requests : instance'[p] = IF p = q THEN outcome ELSE instance[p]
  BY DEF LeaveInvariant, TypeOK
<1>2. ASSUME NEW t \in Slots \ {s}, NEW g \in handler[t], instance'[g.req] # instance[g.req]
      PROVE  g.act # "FILE" /\ instance[g.req] \in {"none", "open"}
  <2>1. g.req = q
    BY <1>1, <1>2 DEF LeaveInvariant, TypeOK, Handlers
  <2>2. Knows(g)
    BY DEF LeaveInvariant
  <2> QED BY <2>1, <2>2 DEF Knows
<1>3. Undisturbed(s)
  BY <1>2 DEF Undisturbed
<1>4. /\ handler' \in [Slots -> SUBSET Handlers]
      /\ \A t \in Slots : \A h \in handler'[t] : Knows(h)'
      /\ OneFiler'
  BY <1>3, HandlerMoves
<1>5. TypeOK' /\ RemainingIsWhatIsLeft'
  BY <1>1, <1>4 DEF LeaveInvariant, TypeOK, RemainingIsWhatIsLeft
<1>6. StatusFollowsDecision' /\ \A p \in Requests : req'[p] = "NONE" => instance'[p] = "none"
  BY <1>1 DEF LeaveInvariant, StatusFollowsDecision
<1> QED BY <1>4, <1>5, <1>6 DEF LeaveInvariant

-----------------------------------------------------------------------------
(* Every action keeps the invariant.                                       *)

\* The handler of a slot, and what the invariant says of it.
LEMMA HandlerKnown ==
    ASSUME LeaveInvariant, NEW s \in Slots, NEW q \in Requests, NEW act, NEW at,
           Doing(s, q, act, at)
    PROVE  /\ act = "FILE" => instance[q] = "none"
           /\ act = "FILE" /\ at = "START" => req[q] # "NONE"
           /\ act = "APPROVE" /\ at \in {"GUARD", "FINALIZE"} => instance[q] = "APPROVED"
           /\ act = "REJECT" /\ at = "REFUSE" => instance[q] = "REJECTED"
           /\ act = "FILE" =>
                \A t \in Slots \ {s} : \A g \in handler[t] : ~(g.req = q /\ g.act = "FILE")
<1> DEFINE h == [req |-> q, act |-> act, at |-> at]
<1>1. h \in handler[s] /\ h.req = q /\ h.act = act /\ h.at = at
  BY DEF Doing
<1> HIDE DEF h
<1>2. Knows(h)
  BY <1>1 DEF LeaveInvariant
<1>3. ASSUME act = "FILE", NEW t \in Slots \ {s}, NEW g \in handler[t]
      PROVE  ~(g.req = q /\ g.act = "FILE")
  BY <1>1, <1>3 DEF LeaveInvariant, OneFiler
<1> QED BY <1>1, <1>2, <1>3 DEF Knows

\* The handler that a step leaves behind.
LEMMA HandlerLeft ==
    ASSUME NEW q \in Requests, NEW act \in {"FILE", "APPROVE", "REJECT", "CANCEL"},
           NEW at \in HandlerSteps, NEW s \in Slots,
           act = "FILE" => /\ instance'[q] = "none"
                           /\ at = "START" => req'[q] # "NONE"
                           /\ \A t \in Slots \ {s} : \A g \in handler[t] :
                                 ~(g.req = q /\ g.act = "FILE"),
           act = "APPROVE" /\ at \in {"GUARD", "FINALIZE"} => instance'[q] = "APPROVED",
           act = "REJECT" /\ at = "REFUSE" => instance'[q] = "REJECTED"
    PROVE  Passes(s, {[req |-> q, act |-> act, at |-> at]})
<1> DEFINE h == [req |-> q, act |-> act, at |-> at]
<1>1. h \in Handlers /\ h.req = q /\ h.act = act /\ h.at = at
  BY DEF Handlers
<1> HIDE DEF h
<1>2. Knows(h)'
  BY <1>1 DEF Knows
<1>3. Passes(s, {h})
  BY <1>1, <1>2, PassesOne
<1> QED BY <1>3 DEF h

LEMMA BalanceIsGood == ASSUME LeaveInvariant PROVE GoodBalance(balance)
BY DEF LeaveInvariant, TypeOK, RemainingIsWhatIsLeft, GoodBalance

LEMMA FilingSafe ==
    ASSUME LeaveInvariant, NEW s \in Slots, NEW q \in Requests,
           File(s, q) \/ Create(s, q) \/ StartWorkflow(s, q) \/ TakeBack(s, q)
    PROVE  LeaveInvariant'
<1>1. CASE File(s, q)
  <2>1. /\ handler' = [handler EXCEPT ![s] = {[req |-> q, act |-> "FILE", at |-> "CREATE"]}]
        /\ UNCHANGED <<req, instance, balance, locked>>
    BY <1>1 DEF File, Begin
  <2>2. instance'[q] = "none" /\ \A t \in Slots : \A g \in handler[t] : g.req # q
    BY <1>1 DEF File, LeaveInvariant
  <2>3. Passes(s, {[req |-> q, act |-> "FILE", at |-> "CREATE"]})
    BY <2>2, HandlerLeft DEF HandlerSteps
  <2> QED BY <2>1, <2>3, OnlyHandlerMoves
<1>2. CASE Create(s, q)
  <2>1. /\ handler' = [handler EXCEPT ![s] = {[req |-> q, act |-> "FILE", at |-> "START"]}]
        /\ req' = [req EXCEPT ![q] = "PENDING"]
        /\ UNCHANGED <<instance, balance, locked>>
    BY <1>2 DEF Create, GoOn
  <2>2. /\ instance'[q] = "none" /\ req'[q] # "NONE"
        /\ \A t \in Slots \ {s} : \A g \in handler[t] : ~(g.req = q /\ g.act = "FILE")
    BY <1>2, <2>1, HandlerKnown DEF Create, LeaveInvariant, TypeOK
  <2>3. Passes(s, {[req |-> q, act |-> "FILE", at |-> "START"]})
    BY <2>2, HandlerLeft DEF HandlerSteps
  <2> QED BY <2>1, <2>3, RequestMoves, BalanceIsGood DEF RequestStatus
<1>3. CASE StartWorkflow(s, q)
  <2>1. /\ handler' = [handler EXCEPT ![s] = {}]
        /\ instance' = [instance EXCEPT ![q] = "open"]
        /\ UNCHANGED <<req, balance, locked>>
    BY <1>3 DEF StartWorkflow, Done
  <2>2. /\ instance[q] = "none" /\ req[q] # "NONE"
        /\ \A t \in Slots \ {s} : \A g \in handler[t] : ~(g.req = q /\ g.act = "FILE")
    BY <1>3, HandlerKnown DEF StartWorkflow
  <2> QED BY <2>1, <2>2, PassesNothing, WorkflowMoves DEF Outcomes
<1>4. CASE TakeBack(s, q)
  <2>1. /\ handler' = [handler EXCEPT ![s] = {}]
        /\ req' = [req EXCEPT ![q] = "NONE"]
        /\ UNCHANGED <<instance, balance, locked>>
    BY <1>4 DEF TakeBack, Done
  <2>2. /\ instance[q] = "none"
        /\ \A t \in Slots \ {s} : \A g \in handler[t] : ~(g.req = q /\ g.act = "FILE")
    BY <1>4, HandlerKnown DEF TakeBack
  <2> QED BY <2>1, <2>2, PassesNothing, RequestMoves, BalanceIsGood DEF RequestStatus
<1> QED BY <1>1, <1>2, <1>3, <1>4

LEMMA HandlerDone ==
    ASSUME LeaveInvariant, NEW s \in Slots, handler' = [handler EXCEPT ![s] = {}],
           UNCHANGED <<req, instance, balance, locked>>
    PROVE  LeaveInvariant'
BY PassesNothing, OnlyHandlerMoves

LEMMA DeciderArrives ==
    ASSUME LeaveInvariant, NEW s \in Slots, NEW q \in Requests,
           CheckApprove(s, q) \/ CheckReject(s, q) \/ SignLevel(s, q)
    PROVE  LeaveInvariant'
<1>1. CASE CheckApprove(s, q)
  <2>1. /\ handler' = [handler EXCEPT ![s] = {[req |-> q, act |-> "APPROVE", at |-> "ACT"]}]
        /\ UNCHANGED <<req, instance, balance, locked>>
    BY <1>1 DEF CheckApprove, Begin
  <2>2. Passes(s, {[req |-> q, act |-> "APPROVE", at |-> "ACT"]})
    BY HandlerLeft DEF HandlerSteps
  <2> QED BY <2>1, <2>2, OnlyHandlerMoves
<1>2. CASE CheckReject(s, q)
  <2>1. /\ handler' = [handler EXCEPT ![s] = {[req |-> q, act |-> "REJECT", at |-> "ACT"]}]
        /\ UNCHANGED <<req, instance, balance, locked>>
    BY <1>2 DEF CheckReject, Begin
  <2>2. Passes(s, {[req |-> q, act |-> "REJECT", at |-> "ACT"]})
    BY HandlerLeft DEF HandlerSteps
  <2> QED BY <2>1, <2>2, OnlyHandlerMoves
<1>3. CASE SignLevel(s, q)
  BY <1>3, HandlerDone DEF SignLevel, Done
<1> QED BY <1>1, <1>2, <1>3

LEMMA EngineSafe ==
    ASSUME LeaveInvariant, NEW s \in Slots, NEW q \in Requests,
           ApproveLast(s, q) \/ RejectInEngine(s, q)
    PROVE  LeaveInvariant'
<1>1. CASE ApproveLast(s, q)
  <2>1. /\ handler' = [handler EXCEPT ![s] = {[req |-> q, act |-> "APPROVE", at |-> "GUARD"]}]
        /\ instance[q] = "open" /\ instance' = [instance EXCEPT ![q] = "APPROVED"]
        /\ UNCHANGED <<req, balance, locked>>
    BY <1>1 DEF ApproveLast, EngineDecides, GoOn
  <2>2. instance'[q] = "APPROVED"
    BY <2>1 DEF LeaveInvariant, TypeOK
  <2>3. Passes(s, {[req |-> q, act |-> "APPROVE", at |-> "GUARD"]})
    BY <2>2, HandlerLeft DEF HandlerSteps
  <2> QED BY <2>1, <2>3, WorkflowMoves DEF Outcomes
<1>2. CASE RejectInEngine(s, q)
  <2>1. /\ handler' = [handler EXCEPT ![s] = {[req |-> q, act |-> "REJECT", at |-> "REFUSE"]}]
        /\ instance[q] = "open" /\ instance' = [instance EXCEPT ![q] = "REJECTED"]
        /\ UNCHANGED <<req, balance, locked>>
    BY <1>2 DEF RejectInEngine, EngineDecides, GoOn
  <2>2. instance'[q] = "REJECTED"
    BY <2>1 DEF LeaveInvariant, TypeOK
  <2>3. Passes(s, {[req |-> q, act |-> "REJECT", at |-> "REFUSE"]})
    BY <2>2, HandlerLeft DEF HandlerSteps
  <2> QED BY <2>1, <2>3, WorkflowMoves DEF Outcomes
<1> QED BY <1>1, <1>2

LEMMA GuardSafe ==
    ASSUME LeaveInvariant, NEW s \in Slots, NEW q \in Requests,
           GuardApprove(s, q) \/ GuardCancel(s, q)
    PROVE  LeaveInvariant'
<1>1. CASE locked
  BY <1>1, HandlerDone DEF GuardApprove, GuardCancel, PayrollGuard, Done
<1>2. CASE ~locked /\ GuardApprove(s, q)
  <2>1. /\ handler' = [handler EXCEPT ![s] = {[req |-> q, act |-> "APPROVE", at |-> "FINALIZE"]}]
        /\ UNCHANGED <<req, instance, balance, locked>>
    BY <1>2 DEF GuardApprove, PayrollGuard, GoOn
  <2>2. instance'[q] = "APPROVED"
    BY <1>2, <2>1, HandlerKnown DEF GuardApprove, PayrollGuard
  <2>3. Passes(s, {[req |-> q, act |-> "APPROVE", at |-> "FINALIZE"]})
    BY <2>2, HandlerLeft DEF HandlerSteps
  <2> QED BY <2>1, <2>3, OnlyHandlerMoves
<1>3. CASE ~locked /\ GuardCancel(s, q)
  <2>1. /\ handler' = [handler EXCEPT ![s] = {[req |-> q, act |-> "CANCEL", at |-> "RESTORE"]}]
        /\ UNCHANGED <<req, instance, balance, locked>>
    BY <1>3 DEF GuardCancel, PayrollGuard, GoOn
  <2>2. Passes(s, {[req |-> q, act |-> "CANCEL", at |-> "RESTORE"]})
    BY HandlerLeft DEF HandlerSteps
  <2> QED BY <2>1, <2>2, OnlyHandlerMoves
<1> QED BY <1>1, <1>2, <1>3

LEMMA EffectsSafe ==
    ASSUME LeaveInvariant, NEW s \in Slots, NEW q \in Requests,
           FinalizeApprovalEffects(s, q) \/ Refuse(s, q)
    PROVE  LeaveInvariant'
<1>1. CASE FinalizeApprovalEffects(s, q)
  <2>1. handler' = [handler EXCEPT ![s] = {}] /\ UNCHANGED <<instance, locked>>
    BY <1>1 DEF FinalizeApprovalEffects, Done
  <2>2. instance[q] = "APPROVED"
    BY <1>1, HandlerKnown DEF FinalizeApprovalEffects
  <2>3. CASE Finalizable(q) /\ Sufficient(balance, Days[q])
    <3>1. /\ balance' = Deduct(balance, Days[q])
          /\ req' = [req EXCEPT ![q] = "APPROVED"]
      BY <1>1, <2>3 DEF FinalizeApprovalEffects
    <3>2. GoodBalance(balance')
      BY <2>3, <3>1, BalanceIsGood, DeductGood, LeaveAssumption
    <3> QED BY <2>1, <2>2, <3>1, <3>2, PassesNothing, RequestMoves DEF RequestStatus
  <2>4. CASE ~(Finalizable(q) /\ Sufficient(balance, Days[q]))
    BY <1>1, <2>1, <2>4, HandlerDone DEF FinalizeApprovalEffects
  <2> QED BY <2>3, <2>4
<1>2. CASE Refuse(s, q)
  <2>1. handler' = [handler EXCEPT ![s] = {}] /\ UNCHANGED <<instance, balance, locked>>
    BY <1>2 DEF Refuse, Done
  <2>2. instance[q] = "REJECTED"
    BY <1>2, HandlerKnown DEF Refuse
  <2>3. CASE Refusable(q)
    <3>1. req' = [req EXCEPT ![q] = "REJECTED"]
      BY <1>2, <2>3 DEF Refuse
    <3> QED BY <2>1, <2>2, <3>1, PassesNothing, RequestMoves, BalanceIsGood DEF RequestStatus
  <2>4. CASE ~Refusable(q)
    BY <1>2, <2>1, <2>4, HandlerDone DEF Refuse
  <2> QED BY <2>3, <2>4
<1> QED BY <1>1, <1>2

LEMMA CancellingSafe ==
    ASSUME LeaveInvariant, NEW s \in Slots, NEW q \in Requests,
           CancelPending(s, q) \/ Withdraw(s, q) \/ CancelApproved(s, q) \/ RestoreBalance(s, q)
    PROVE  LeaveInvariant'
<1>1. CASE CancelPending(s, q)
  <2>1. /\ handler' = [handler EXCEPT ![s] = {[req |-> q, act |-> "CANCEL", at |-> "WITHDRAW"]}]
        /\ req' = [req EXCEPT ![q] = "CANCELLED"]
        /\ UNCHANGED <<instance, balance, locked>>
    BY <1>1 DEF CancelPending, Begin
  <2>2. Passes(s, {[req |-> q, act |-> "CANCEL", at |-> "WITHDRAW"]})
    BY HandlerLeft DEF HandlerSteps
  <2> QED BY <2>1, <2>2, RequestMoves, BalanceIsGood DEF RequestStatus
<1>2. CASE Withdraw(s, q)
  <2>1. handler' = [handler EXCEPT ![s] = {}] /\ UNCHANGED <<req, balance, locked>>
    BY <1>2 DEF Withdraw, Done
  <2>2. CASE instance[q] = "open"
    BY <1>2, <2>1, <2>2, PassesNothing, WorkflowMoves DEF Withdraw, Outcomes
  <2>3. CASE instance[q] # "open"
    BY <1>2, <2>1, <2>3, HandlerDone DEF Withdraw
  <2> QED BY <2>2, <2>3
<1>3. CASE CancelApproved(s, q)
  <2>1. /\ handler' = [handler EXCEPT ![s] = {[req |-> q, act |-> "CANCEL", at |-> "GUARD"]}]
        /\ UNCHANGED <<req, instance, balance, locked>>
    BY <1>3 DEF CancelApproved, Begin
  <2>2. Passes(s, {[req |-> q, act |-> "CANCEL", at |-> "GUARD"]})
    BY HandlerLeft DEF HandlerSteps
  <2> QED BY <2>1, <2>2, OnlyHandlerMoves
<1>4. CASE RestoreBalance(s, q)
  <2>1. handler' = [handler EXCEPT ![s] = {}] /\ UNCHANGED <<instance, locked>>
    BY <1>4 DEF RestoreBalance, Done
  <2>2. CASE Restorable(q)
    <3>1. balance' = Restore(balance, Days[q]) /\ req' = [req EXCEPT ![q] = "CANCELLED"]
      BY <1>4, <2>2 DEF RestoreBalance
    <3>2. GoodBalance(balance')
      BY <3>1, BalanceIsGood, RestoreGood, LeaveAssumption
    <3> QED BY <2>1, <3>1, <3>2, PassesNothing, RequestMoves DEF RequestStatus
  <2>3. CASE ~Restorable(q)
    BY <1>4, <2>1, <2>3, HandlerDone DEF RestoreBalance
  <2> QED BY <2>2, <2>3
<1> QED BY <1>1, <1>2, <1>3, <1>4

LEMMA AllocationSafe ==
    ASSUME LeaveInvariant, NEW n \in Totals, UpsertLeaveBalance(n)
    PROVE  LeaveInvariant'
<1>1. balance' = SetTotal(balance, n) /\ UNCHANGED <<req, instance, locked, handler>>
  BY DEF UpsertLeaveBalance
<1>2. GoodBalance(balance')
  BY <1>1, BalanceIsGood, SetTotalGood, LeaveAssumption
<1> QED BY <1>1, <1>2 DEF LeaveInvariant, TypeOK, RemainingIsWhatIsLeft, StatusFollowsDecision,
           OneFiler, Knows, GoodBalance

LEMMA LockSafe == LeaveInvariant /\ LockPayrollPeriod => LeaveInvariant'
BY DEF LockPayrollPeriod, LeaveInvariant, TypeOK, RemainingIsWhatIsLeft, StatusFollowsDecision,
       OneFiler, Knows

LEMMA LeaveStep == LeaveInvariant /\ [Next]_vars => LeaveInvariant'
<1> SUFFICES ASSUME LeaveInvariant, [Next]_vars PROVE LeaveInvariant'
  OBVIOUS
<1>1. ASSUME NEW s \in Slots, NEW q \in Requests, Handling(s, q) PROVE LeaveInvariant'
  BY <1>1, FilingSafe, DeciderArrives, EngineSafe, GuardSafe, EffectsSafe, CancellingSafe
     DEF Handling
<1>2. ASSUME NEW s \in Slots, Crash(s) PROVE LeaveInvariant'
  BY <1>2, HandlerDone DEF Crash, Done
<1>3. CASE UNCHANGED vars
  BY <1>3 DEF vars, LeaveInvariant, TypeOK, RemainingIsWhatIsLeft, StatusFollowsDecision,
              OneFiler, Knows
<1> QED BY <1>1, <1>2, <1>3, AllocationSafe, LockSafe DEF Next, Working

-----------------------------------------------------------------------------
(* The ledger: the used days are the days of the approved requests.        *)

Approved == {q \in Requests : req[q] = "APPROVED"}

LEMMA LedgerIsSum == LedgerBalanced <=> balance.used = SumOf(Days, Approved)
BY DEF LedgerBalanced, SumOf, Approved

LEMMA LedgerIsSumNext == LedgerBalanced' <=> balance'.used = SumOf(Days, Approved')
<1>1. (LedgerBalanced <=> balance.used = SumOf(Days, Approved))'
  BY LedgerIsSum, PTL
<1> QED BY <1>1

LEMMA DaysAreNumbers ==
    ASSUME NEW S \in SUBSET Requests
    PROVE  /\ IsFiniteSet(S) /\ \A q \in S : Days[q] \in Nat
           /\ SumOf(Days, S) \in Nat
<1>1. IsFiniteSet(S) /\ \A q \in S : Days[q] \in Nat
  BY LeaveAssumption, FS_Subset
<1> QED BY <1>1, SumType

\* Every other step keeps the used days and who is approved.
LedgerKept == balance'.used = balance.used /\ Approved' = Approved

LEMMA KeptLedger == LedgerBalanced /\ LedgerKept => LedgerBalanced'
BY LedgerIsSum, LedgerIsSumNext DEF LedgerKept

\* A request that moves from and to another status than APPROVED.
LEMMA OtherStatus ==
    ASSUME LeaveInvariant, NEW q \in Requests, req[q] # "APPROVED",
           NEW status, status # "APPROVED", req' = [req EXCEPT ![q] = status],
           UNCHANGED balance
    PROVE  LedgerKept
BY DEF LedgerKept, Approved, LeaveInvariant, TypeOK

LEMMA FinalizeBalances ==
    ASSUME LeaveInvariant, LedgerBalanced, NEW s \in Slots, NEW q \in Requests,
           FinalizeApprovalEffects(s, q)
    PROVE  LedgerBalanced'
<1>1. CASE Finalizable(q) /\ Sufficient(balance, Days[q])
  <2>1. balance' = Deduct(balance, Days[q]) /\ req' = [req EXCEPT ![q] = "APPROVED"]
    BY <1>1 DEF FinalizeApprovalEffects
  <2>2. q \notin Approved /\ Approved' = Approved \cup {q}
    BY <1>1, <2>1 DEF Approved, Finalizable, LeaveInvariant, TypeOK
  <2>3. balance'.used = balance.used + Days[q]
    BY <2>1 DEF Deduct, LeaveInvariant, TypeOK, Balances
  <2>4. SumOf(Days, Approved \cup {q}) = SumOf(Days, Approved) + Days[q]
    <3>1. Approved \in SUBSET Requests
      BY DEF Approved
    <3>2. IsFiniteSet(Approved) /\ \A p \in Approved : Days[p] \in Nat
      BY <3>1, DaysAreNumbers
    <3>3. Days[q] \in Nat
      BY LeaveAssumption
    <3> QED BY <2>2, <3>2, <3>3, SumWith
  <2>5. balance'.used = SumOf(Days, Approved')
    BY <2>2, <2>3, <2>4, LedgerIsSum
  <2> QED BY <2>5, LedgerIsSumNext
<1>2. CASE ~(Finalizable(q) /\ Sufficient(balance, Days[q]))
  BY <1>2, KeptLedger DEF FinalizeApprovalEffects, LedgerKept, Approved
<1> QED BY <1>1, <1>2

\* What is given back was used: the days of the request are among those of the
\* approved ones, so the floor at zero never bites.
LEMMA RestoreBalances ==
    ASSUME LeaveInvariant, LedgerBalanced, NEW s \in Slots, NEW q \in Requests,
           RestoreBalance(s, q)
    PROVE  LedgerBalanced'
<1>1. CASE Restorable(q)
  <2>1. balance' = Restore(balance, Days[q]) /\ req' = [req EXCEPT ![q] = "CANCELLED"]
    BY <1>1 DEF RestoreBalance
  <2>2. q \in Approved /\ Approved' = Approved \ {q}
    BY <1>1, <2>1 DEF Approved, Restorable, LeaveInvariant, TypeOK
  <2>3. /\ SumOf(Days, Approved \ {q}) = SumOf(Days, Approved) - Days[q]
        /\ SumOf(Days, Approved \ {q}) \in Nat
    <3>1. Approved \in SUBSET Requests /\ Approved \ {q} \in SUBSET Requests
      BY DEF Approved
    <3>2. IsFiniteSet(Approved) /\ \A p \in Approved : Days[p] \in Nat
      BY <3>1, DaysAreNumbers
    <3> QED BY <2>2, <3>1, <3>2, DaysAreNumbers, SumWithout
  <2>4. balance.used = SumOf(Days, Approved)
    BY LedgerIsSum
  <2>5. AtLeast0(balance.used - Days[q]) = SumOf(Days, Approved \ {q})
    BY <2>3, <2>4 DEF AtLeast0
  <2>6. balance'.used = AtLeast0(balance.used - Days[q])
    BY <2>1 DEF Restore, LeaveInvariant, TypeOK, Balances
  <2>7. balance'.used = SumOf(Days, Approved')
    BY <2>2, <2>5, <2>6
  <2> QED BY <2>7, LedgerIsSumNext
<1>2. CASE ~Restorable(q)
  BY <1>2, KeptLedger DEF RestoreBalance, LedgerKept, Approved
<1> QED BY <1>1, <1>2

\* A filer's request is not approved, so creating it or taking it back moves no day.
LEMMA FilingKeepsLedger ==
    ASSUME LeaveInvariant, NEW s \in Slots, NEW q \in Requests,
           Create(s, q) \/ TakeBack(s, q)
    PROVE  LedgerKept
<1>1. instance[q] = "none"
  BY HandlerKnown DEF Create, TakeBack
<1>2. req[q] # "APPROVED"
  BY <1>1 DEF LeaveInvariant, StatusFollowsDecision
<1> QED BY <1>2, OtherStatus DEF Create, TakeBack

LEMMA HandlingBalances ==
    ASSUME LeaveInvariant, LedgerBalanced, NEW s \in Slots, NEW q \in Requests, Handling(s, q)
    PROVE  LedgerBalanced'
<1>1. CASE Create(s, q) \/ TakeBack(s, q)
  BY <1>1, FilingKeepsLedger, KeptLedger
<1>2. CASE Refuse(s, q)
  <2>1. CASE Refusable(q)
    BY <1>2, <2>1, OtherStatus, KeptLedger DEF Refuse, Refusable
  <2>2. CASE ~Refusable(q)
    BY <1>2, <2>2, KeptLedger DEF Refuse, LedgerKept, Approved
  <2> QED BY <2>1, <2>2
<1>3. CASE CancelPending(s, q)
  BY <1>3, OtherStatus, KeptLedger DEF CancelPending
<1>4. CASE UNCHANGED <<req, balance>>
  BY <1>4, KeptLedger DEF LedgerKept, Approved
<1> QED
  BY <1>1, <1>2, <1>3, <1>4, FinalizeBalances, RestoreBalances
     DEF Handling, File, StartWorkflow, CheckApprove, CheckReject, SignLevel, ApproveLast,
         RejectInEngine, GuardApprove, PayrollGuard, Withdraw, CancelApproved, GuardCancel

LEMMA LedgerStep == LeaveInvariant /\ LedgerBalanced /\ [Next]_vars => LedgerBalanced'
<1> SUFFICES ASSUME LeaveInvariant, LedgerBalanced, [Next]_vars PROVE LedgerBalanced'
  OBVIOUS
<1>1. ASSUME NEW n \in Totals, UpsertLeaveBalance(n) PROVE LedgerBalanced'
  <2>1. balance'.used = balance.used
    BY <1>1, BalanceIsGood, SetTotalGood, LeaveAssumption DEF UpsertLeaveBalance
  <2> QED BY <1>1, <2>1, KeptLedger DEF UpsertLeaveBalance, LedgerKept, Approved
<1>2. CASE UNCHANGED <<req, balance>>
  BY <1>2, KeptLedger DEF LedgerKept, Approved
<1> QED BY <1>1, <1>2, HandlingBalances DEF Next, Working, LockPayrollPeriod, Crash, vars

-----------------------------------------------------------------------------
(* The theorems.                                                           *)

\* The invariant holds of every execution, with handlers dying anywhere in it.
THEOREM LeaveInvariantHolds == Spec => []LeaveInvariant
<1>1. Init => LeaveInvariant
  BY LeaveInitially
<1>2. LeaveInvariant /\ [Next]_vars => LeaveInvariant'
  BY LeaveStep
<1> QED BY <1>1, <1>2, PTL DEF Spec

\* Every variable keeps its type; the used days never become negative.
THEOREM LeaveTypeCorrect == Spec => []TypeOK
<1>1. LeaveInvariant => TypeOK
  BY DEF LeaveInvariant
<1> QED BY <1>1, LeaveInvariantHolds, PTL

\* finalizeApprovalEffects and updateLeaveStatus run long after the engine decided,
\* and still a request has the status APPROVED or REJECTED only when that is how its
\* workflow ended.
THEOREM StatusTruthful == Spec => []StatusFollowsDecision
<1>1. LeaveInvariant => StatusFollowsDecision
  BY DEF LeaveInvariant
<1> QED BY <1>1, LeaveInvariantHolds, PTL

\* The column remaining agrees with total and used after every writer, although
\* approval subtracts from it and the others compute it afresh.
THEOREM RemainingTruthful == Spec => []RemainingIsWhatIsLeft
<1>1. LeaveInvariant => RemainingIsWhatIsLeft
  BY DEF LeaveInvariant
<1> QED BY <1>1, LeaveInvariantHolds, PTL

\* The used days of the balance are the days of the approved requests after any
\* interleaving of filings, approvals and cancellations and wherever a handler died:
\* no day is deducted twice, restored twice or lost.
THEOREM LedgerAddsUp == Spec => []LedgerBalanced
<1>1. Init => LedgerBalanced
  <2>1. Init => Approved = {} /\ balance.used = 0
    BY DEF Init, Approved, NoBalance
  <2> QED BY <2>1, LedgerIsSum, SumEmpty
<1>2. LeaveInvariant /\ LedgerBalanced /\ [Next]_vars => LedgerBalanced'
  BY LedgerStep
<1> QED BY <1>1, <1>2, LeaveInvariantHolds, PTL DEF Spec

\* No approval takes days beyond the allocation of its moment, however many are in
\* flight and whatever HR has done to the allocation since they were checked.
THEOREM AllocationRespected == Spec => NeverOverdrawn
<1> DEFINE Within == balance'.used > balance.used => balance'.used <= balance'.total
<1>1. ASSUME LeaveInvariant, [Next]_vars PROVE Within
  <2>1. GoodBalance(balance) /\ balance.used \in Nat
    BY <1>1, BalanceIsGood, RowParts DEF GoodBalance
  <2>2. CASE UNCHANGED balance
    BY <2>1, <2>2
  <2>3. ASSUME NEW s \in Slots, NEW q \in Requests, FinalizeApprovalEffects(s, q) PROVE Within
    BY <2>1, <2>2, <2>3, DeductGood, LeaveAssumption DEF FinalizeApprovalEffects
  <2>4. ASSUME NEW s \in Slots, NEW q \in Requests, RestoreBalance(s, q) PROVE Within
    <3>1. CASE balance' = Restore(balance, Days[q])
      <4>1. balance'.used <= balance.used /\ GoodBalance(balance')
        BY <2>1, <3>1, RestoreGood, LeaveAssumption
      <4>2. balance'.used \in Nat
        BY <4>1, RowParts DEF GoodBalance
      <4> QED BY <2>1, <4>1, <4>2
    <3> QED BY <2>2, <2>4, <3>1 DEF RestoreBalance
  <2>5. ASSUME NEW n \in Totals, UpsertLeaveBalance(n) PROVE Within
    <3>1. balance'.used = balance.used
      BY <2>1, <2>5, SetTotalGood, LeaveAssumption DEF UpsertLeaveBalance
    <3> QED BY <2>1, <3>1
  <2>6. ASSUME NEW s \in Slots, NEW q \in Requests, Handling(s, q) PROVE Within
    BY <2>2, <2>3, <2>4, <2>6
       DEF Handling, File, Create, StartWorkflow, TakeBack, CheckApprove, CheckReject,
           SignLevel, ApproveLast, RejectInEngine, GuardApprove, PayrollGuard, Refuse,
           CancelPending, Withdraw, CancelApproved, GuardCancel
  <2> QED BY <1>1, <2>2, <2>5, <2>6 DEF Next, Working, LockPayrollPeriod, Crash, vars
<1> HIDE DEF Within
<1>2. [][LeaveInvariant /\ [Next]_vars => Within]_vars
  BY <1>1, PTL
<1>3. Spec => [][Within]_vars
  BY <1>2, LeaveInvariantHolds, PTL DEF Spec
<1> QED BY <1>3 DEF NeverOverdrawn, Within
=============================================================================
