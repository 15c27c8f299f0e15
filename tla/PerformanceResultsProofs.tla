---------------------- MODULE PerformanceResultsProofs ----------------------
(***************************************************************************)
(* Both properties of PerformanceResults for any employees, sessions,      *)
(* requests in flight and bounds.  A handler writes long after it read, so *)
(* the invariant says what each may still rely on (Knows): about the rows  *)
(* nobody wrote since, what it read is still so.  It also says why an      *)
(* approved result that calibration took back is not published meanwhile:  *)
(* a session that is not finalized has the employee (Covered).             *)
(***************************************************************************)
EXTENDS PerformanceResults, TLAPS

Rows ==
    [status : ResultStatuses, score : 0 .. MaxScore, approved : BOOLEAN,
     calculated : 0 .. MaxScore, calibrated : 0 .. MaxScore, final : 0 .. MaxScore]
Books ==
    [status : SessionStatuses, participants : SUBSET Employees,
     decisions : [Employees -> Nat]]

ScoreMaps == UNION {[S -> Scores] : S \in SUBSET Employees}
Plain == {"create", "approve", "publish", "reopen"}
OnSession == {"open", "close", "finalize", "decide"}
Calculations ==
    [kind : {"calculate"}, on : SUBSET Employees, late : SUBSET Employees, scores : ScoreMaps]
Plains == [kind : Plain, on : SUBSET Employees, late : SUBSET Employees]
SessionCalls ==
    [kind : OnSession, on : SUBSET Employees, late : SUBSET Employees, session : Sessions]
Slots == {Idle} \cup Calculations \cup Plains \cup SessionCalls

Form ==
    /\ worth \in [Employees -> Scores]
    /\ results \in [Employees -> Rows]
    /\ sessions \in [Sessions -> Books]
    /\ requests \in [Requests -> Slots]
    /\ overtaken \in SUBSET Employees

Settled(res, e) == res[e].status \in {"FINALIZED", "PUBLISHED"}
IsScored(res, e) == res[e].status # "ABSENT"
Unfinished(book, s, e) ==
    book[s].status \in {"DRAFT", "OPEN", "CLOSED"} /\ e \in book[s].participants

\* What a request knows of the rows that nobody wrote since it read them.
Knows(x, res, book, over) ==
    /\ x.kind = "calculate" =>
         /\ DOMAIN x.scores \subseteq x.on
         /\ \A e \in DOMAIN x.scores : e \notin x.late => ~Settled(res, e)
    /\ x.kind = "decide" =>
         \A e \in x.on : e \notin x.late => Unfinished(book, x.session, e)
    /\ x.kind = "approve" =>
         /\ x.on = Employees
         /\ \A e \in Employees : e \notin x.late /\ IsScored(res, e) => Settled(res, e)
    /\ x.kind = "publish" =>
         /\ x.on = Employees
         /\ \A e \in Employees :
              e \notin x.late /\ e \notin over /\ IsScored(res, e)
                => Settled(res, e) /\ res[e].approved

Trust == \A r \in Requests : Knows(requests[r], results, sessions, overtaken)

Covers(res, book, e) ==
    res[e].approved => Settled(res, e) \/ \E s \in Sessions : Unfinished(book, s, e)
Covered == \A e \in Employees : e \notin overtaken => Covers(results, sessions, e)

IInv == Form /\ Trust /\ Covered

-----------------------------------------------------------------------------
(* Lemmas about rows and slots.                                              *)

LEMMA IdleIsPlain == Idle.kind = "idle" /\ \A res, book, over : Knows(Idle, res, book, over)
BY DEF Idle, Knows

\* Every write of a result leaves a result.
LEMMA RowsMade ==
    ASSUME NEW row \in Rows, NEW n \in Scores
    PROVE  /\ Calculated(row, n) \in Rows /\ Calculated(row, n).status = "CALCULATED"
           /\ Calculated(row, n).approved = row.approved
           /\ Decided(row, n) \in Rows /\ Decided(row, n).status = "CALIBRATION_IN_PROGRESS"
           /\ Decided(row, n).approved = row.approved
           /\ Reopened(row) \in Rows /\ Reopened(row).approved = FALSE
           /\ Published(row) \in Rows /\ Published(row).status = "PUBLISHED"
           /\ Frozen(row) \in 0 .. MaxScore
<1>1. n \in 0 .. MaxScore  BY BoundsAssumption DEF Scores
<1>2. Frozen(row) \in 0 .. MaxScore  BY DEF Frozen, Rows
<1>3. Calculated(row, n) \in Rows /\ Calculated(row, n).status = "CALCULATED"
      /\ Calculated(row, n).approved = row.approved
  BY <1>1 DEF Calculated, Rows, ResultStatuses
<1>4. Decided(row, n) \in Rows /\ Decided(row, n).status = "CALIBRATION_IN_PROGRESS"
      /\ Decided(row, n).approved = row.approved
  BY <1>1 DEF Decided, Rows, ResultStatuses
<1>5. Reopened(row) \in Rows /\ Reopened(row).approved = FALSE
  BY DEF Reopened, Rows, ResultStatuses
<1>6. Published(row) \in Rows /\ Published(row).status = "PUBLISHED"
  BY <1>2 DEF Published, Rows, ResultStatuses
<1> QED  BY <1>2, <1>3, <1>4, <1>5, <1>6

\* A slot that learns it is late stays what it is otherwise.
LEMMA LateSlot ==
    ASSUME NEW x \in Slots, x # Idle, NEW W \in SUBSET Employees,
           NEW y, y = [x EXCEPT !.late = @ \cup (W \cap x.on)]
    PROVE  /\ y \in Slots /\ y.kind = x.kind /\ y.on = x.on
           /\ y.late = x.late \cup (W \cap x.on)
           /\ x.kind = "calculate" => y.scores = x.scores
           /\ x.kind = "decide" => y.session = x.session
<1>1. CASE x \in Calculations  BY <1>1 DEF Calculations, Slots
<1>2. CASE x \in Plains  BY <1>2 DEF Plains, Plain, Slots
<1>3. CASE x \in SessionCalls  BY <1>3 DEF SessionCalls, OnSession, Slots
<1> QED  BY <1>1, <1>2, <1>3 DEF Slots

\* A session that has an employee unfinished keeps it through writes of others.
Keeps(W, book, book2) ==
    \A s \in Sessions, e \in Employees :
        e \notin W /\ Unfinished(book, s, e) => Unfinished(book2, s, e)

\* Whatever a request knew, it knows after another's write, being late on what was written.
LEMMA StillKnows ==
    ASSUME NEW x \in Slots, x # Idle, NEW W \in SUBSET Employees, NEW y,
           y = [x EXCEPT !.late = @ \cup (W \cap x.on)],
           NEW res, NEW res2, NEW book, NEW book2, NEW over, NEW over2,
           \A e \in Employees : e \notin W => res2[e] = res[e],
           Keeps(W, book, book2), over \subseteq over2,
           Knows(x, res, book, over)
    PROVE  y \in Slots /\ Knows(y, res2, book2, over2)
<1>1. /\ y \in Slots /\ y.kind = x.kind /\ y.on = x.on
      /\ y.late = x.late \cup (W \cap x.on)
      /\ x.kind = "calculate" => y.scores = x.scores
      /\ x.kind = "decide" => y.session = x.session
  BY LateSlot
<1>2. \A e \in Employees : e \notin W => /\ Settled(res2, e) = Settled(res, e)
                                         /\ IsScored(res2, e) = IsScored(res, e)
  BY DEF Settled, IsScored
<1>3. CASE x.kind = "calculate"
  <2>1. DOMAIN x.scores \subseteq Employees
    BY <1>3 DEF Slots, Idle, Calculations, Plains, SessionCalls, Plain, OnSession, ScoreMaps
  <2> QED  BY <1>1, <1>2, <1>3, <2>1 DEF Knows
<1>4. CASE x.kind = "decide"
  <2>1. x.on \subseteq Employees /\ x.session \in Sessions
    BY <1>4 DEF Slots, Idle, Calculations, Plains, SessionCalls, Plain, OnSession
  <2> QED  BY <1>1, <1>4, <2>1 DEF Knows, Keeps
<1>5. CASE x.kind = "approve"  BY <1>1, <1>2, <1>5 DEF Knows
<1>6. CASE x.kind = "publish"
  <2>1. \A e \in Employees : e \notin W => res2[e].approved = res[e].approved
    OBVIOUS
  <2> QED  BY <1>1, <1>2, <1>6, <2>1 DEF Knows
<1>7. CASE x.kind \notin {"calculate", "decide", "approve", "publish"}
  BY <1>1, <1>7 DEF Knows
<1> QED  BY <1>3, <1>4, <1>5, <1>6, <1>7

-----------------------------------------------------------------------------
(* The two kinds of steps.                                                   *)

\* A step that writes no result: only request r moves, and sessions keep whom they have.
LEMMA QuietStep ==
    ASSUME IInv, NEW r \in Requests, NEW y \in Slots,
           requests' = [requests EXCEPT ![r] = y],
           worth' = worth, results' = results, overtaken' = overtaken,
           sessions' \in [Sessions -> Books], Keeps({}, sessions, sessions'),
           Knows(y, results, sessions', overtaken)
    PROVE  IInv'
<1>0. Form /\ Trust /\ Covered  BY DEF IInv
<1>1. Form'  BY <1>0 DEF Form
<1>2. ASSUME NEW q \in Requests PROVE Knows(requests'[q], results', sessions', overtaken')
  <2>1. CASE q = r
    <3>1. requests'[q] = y  BY <2>1, <1>0 DEF Form
    <3> QED  BY <3>1
  <2>2. CASE q # r
    <3>1. requests'[q] = requests[q]  BY <2>2, <1>0 DEF Form
    <3>2. Knows(requests[q], results, sessions, overtaken)  BY <1>0 DEF Trust
    <3>3. requests[q].kind = "decide" =>
            requests[q].on \subseteq Employees /\ requests[q].session \in Sessions
      <4>1. requests[q] \in Slots  BY <1>0 DEF Form
      <4> QED  BY <4>1 DEF Slots, Idle, Calculations, Plains, SessionCalls, Plain, OnSession
    <3> QED  BY <3>1, <3>2, <3>3 DEF Knows, Keeps
  <2> QED  BY <2>1, <2>2
<1>3. Covered'
  <2> SUFFICES ASSUME NEW e \in Employees, e \notin overtaken
               PROVE  Covers(results, sessions', e)
    BY DEF Covered
  <2>1. Covers(results, sessions, e)  BY <1>0 DEF Covered
  <2> QED  BY <2>1 DEF Covers, Keeps
<1> QED  BY <1>1, <1>2, <1>3 DEF IInv, Trust

\* A step that writes the results of W: it must leave its own slot knowing, and each of W
\* either overtaken or covered.
LEMMA WriteStep ==
    ASSUME IInv, NEW r \in Requests, NEW y \in Slots, NEW W \in SUBSET Employees,
           Overtake(r, W, y), Mark(r, W),
           worth' = worth, results' \in [Employees -> Rows],
           sessions' \in [Sessions -> Books],
           \A e \in Employees : e \notin W => results'[e] = results[e],
           Keeps(W, sessions, sessions'),
           Knows(y, results', sessions', overtaken'),
           \A e \in W : e \notin overtaken' => Covers(results', sessions', e)
    PROVE  IInv'
<1>0. Form /\ Trust /\ Covered  BY DEF IInv
<1>1. overtaken \subseteq overtaken' /\ overtaken' \in SUBSET Employees
  BY <1>0 DEF Mark, Form
<1>2. ASSUME NEW q \in Requests
      PROVE  requests'[q] \in Slots /\ Knows(requests'[q], results', sessions', overtaken')
  <2>1. CASE q = r
    <3>1. requests'[q] = y  BY <2>1 DEF Overtake
    <3> QED  BY <3>1
  <2>2. CASE q # r /\ requests[q] = Idle
    <3>1. requests'[q] = Idle  BY <2>2 DEF Overtake
    <3> QED  BY <3>1, IdleIsPlain DEF Slots
  <2>3. CASE q # r /\ requests[q] # Idle
    <3> DEFINE x == requests[q]
               z == requests'[q]
    <3>1. z = [x EXCEPT !.late = @ \cup (W \cap x.on)]  BY <2>3 DEF Overtake
    <3>2. x \in Slots /\ x # Idle /\ Knows(x, results, sessions, overtaken)
      BY <1>0, <2>3 DEF Form, Trust
    <3>3. Keeps(W, sessions, sessions') /\ overtaken \subseteq overtaken'  BY <1>1
    <3>4. \A e \in Employees : e \notin W => results'[e] = results[e]  OBVIOUS
    <3> HIDE DEF x, z
    <3>5. z \in Slots /\ Knows(z, results', sessions', overtaken')
      BY <3>1, <3>2, <3>3, <3>4, StillKnows
    <3> QED  BY <3>5 DEF z
  <2> QED  BY <2>1, <2>2, <2>3
<1>3. Form'
  <2>1. requests' \in [Requests -> Slots]
    <3>1. requests' = [q \in Requests |-> requests'[q]]  BY DEF Overtake
    <3> QED  BY <3>1, <1>2
  <2> QED  BY <1>0, <1>1, <2>1 DEF Form
<1>4. Covered'
  <2> SUFFICES ASSUME NEW e \in Employees, e \notin overtaken'
               PROVE  Covers(results', sessions', e)
    BY DEF Covered
  <2>1. CASE e \in W  BY <2>1
  <2>2. CASE e \notin W
    <3>1. Covers(results, sessions, e)  BY <1>0, <1>1 DEF Covered
    <3> QED  BY <2>2, <3>1 DEF Covers, Keeps, Settled
  <2> QED  BY <2>1, <2>2
<1> QED  BY <1>2, <1>3, <1>4 DEF IInv, Trust
-----------------------------------------------------------------------------
(* The invariant.                                                            *)

LEMMA InitIInv == Init => IInv
<1> SUFFICES ASSUME Init PROVE IInv
  OBVIOUS
<1>1. 1 \in Scores /\ NoResult \in Rows
  BY BoundsAssumption DEF Scores, NoResult, Rows, None, ResultStatuses
<1>2. NoSession \in Books  BY DEF NoSession, NoneDecided, Books, SessionStatuses
<1>3. Form  BY <1>1, <1>2 DEF Init, Form, Slots
<1>4. Trust  BY IdleIsPlain DEF Init, Trust
<1>5. Covered  BY DEF Init, Covered, Covers, NoResult
<1> QED  BY <1>3, <1>4, <1>5 DEF IInv

\* The slot a request begins with is a slot, and what it was begun on holds.
LEMMA BeginStep ==
    ASSUME IInv, NEW r \in Requests, BeginRequest(r)
    PROVE  IInv'
<1>0. Form /\ Covered  BY DEF IInv
<1>00. sessions \in [Sessions -> Books] /\ \A s \in Sessions : sessions[s].participants \in SUBSET Employees
  BY <1>0 DEF Form, Books
<1>k. \A book : Keeps({}, book, book)  BY DEF Keeps
<1>1. ASSUME NEW y \in Slots, Begin(r, y),
             UNCHANGED <<worth, results, sessions, overtaken>>,
             Knows(y, results, sessions, overtaken)
      PROVE  IInv'
  BY <1>1, <1>k, <1>00, QuietStep DEF Begin
<1>2. CASE BeginCalculate(r)
  <2> DEFINE m == [e \in Eligible |-> worth[e]]
             y == [kind |-> "calculate", on |-> Eligible, late |-> {}, scores |-> m]
  <2>1. Eligible \in SUBSET Employees  BY DEF Eligible
  <2>2. m \in [Eligible -> Scores]  BY <1>0, <2>1 DEF Form
  <2>3. m \in ScoreMaps  BY <2>1, <2>2 DEF ScoreMaps
  <2>4. y \in Slots  BY <2>1, <2>3 DEF Slots, Calculations
  <2>5. Knows(y, results, sessions, overtaken)
    BY <2>1 DEF Knows, Settled, Eligible, Locked, InStatus
  <2>6. Begin(r, y) /\ UNCHANGED <<worth, results, sessions, overtaken>>
    BY <1>2 DEF BeginCalculate
  <2> HIDE DEF y
  <2> QED  BY <1>1, <2>4, <2>5, <2>6
<1>3. CASE BeginCreate(r)
  <2> DEFINE y == [kind |-> "create", on |-> Scored, late |-> {}]
  <2>1. y \in Slots  BY DEF Slots, Plains, Plain, Scored
  <2>2. Knows(y, results, sessions, overtaken)  BY DEF Knows
  <2>3. Begin(r, y) /\ UNCHANGED <<worth, results, sessions, overtaken>>
    BY <1>3 DEF BeginCreate
  <2> HIDE DEF y
  <2> QED  BY <1>1, <2>1, <2>2, <2>3
<1>4. ASSUME NEW s \in Sessions, BeginOpen(r, s) \/ BeginClose(r, s) \/ BeginFinalize(r, s)
      PROVE  IInv'
  <2>1. ASSUME NEW kind \in {"open", "close", "finalize"},
               Begin(r, [kind |-> kind, on |-> sessions[s].participants, late |-> {}, session |-> s]),
               UNCHANGED <<worth, results, sessions, overtaken>>
        PROVE  IInv'
    <3> DEFINE y == [kind |-> kind, on |-> sessions[s].participants, late |-> {}, session |-> s]
    <3>1. y \in Slots  BY <1>00 DEF Slots, SessionCalls, OnSession
    <3>2. Knows(y, results, sessions, overtaken)  BY DEF Knows
    <3>3. Begin(r, y)  BY <2>1
    <3> HIDE DEF y
    <3> QED  BY <1>1, <2>1, <3>1, <3>2, <3>3
  <2> QED  BY <1>4, <2>1 DEF BeginOpen, BeginClose, BeginFinalize, BeginOnSession
<1>5. ASSUME NEW s \in Sessions, NEW e \in Employees, BeginDecide(r, s, e)
      PROVE  IInv'
  <2> DEFINE y == [kind |-> "decide", on |-> {e}, late |-> {}, session |-> s]
  <2>1. y \in Slots  BY DEF Slots, SessionCalls, OnSession
  <2>2. Knows(y, results, sessions, overtaken)  BY <1>5 DEF Knows, Unfinished, BeginDecide
  <2>3. Begin(r, y) /\ UNCHANGED <<worth, results, sessions, overtaken>>
    BY <1>5 DEF BeginDecide
  <2> HIDE DEF y
  <2> QED  BY <1>1, <2>1, <2>2, <2>3
<1>6. CASE BeginApprove(r)
  <2> DEFINE y == [kind |-> "approve", on |-> Employees, late |-> {}]
  <2>1. y \in Slots  BY DEF Slots, Plains, Plain
  <2>2. Knows(y, results, sessions, overtaken)
    BY <1>6 DEF Knows, BeginApprove, Approvable, Scored, Locked, InStatus, IsScored, Settled
  <2>3. Begin(r, y) /\ UNCHANGED <<worth, results, sessions, overtaken>>
    BY <1>6 DEF BeginApprove
  <2> HIDE DEF y
  <2> QED  BY <1>1, <2>1, <2>2, <2>3
<1>7. CASE BeginPublish(r)
  <2> DEFINE y == [kind |-> "publish", on |-> Employees, late |-> {}]
  <2>1. y \in Slots  BY DEF Slots, Plains, Plain
  <2>2. \A s \in Sessions, e \in Employees : ~Unfinished(sessions, s, e)
    BY <1>7 DEF BeginPublish, Publishable, Existing, Unfinished
  <2>3. \A e \in Employees : e \notin overtaken /\ results[e].approved => Settled(results, e)
    BY <1>0, <2>2 DEF Covered, Covers
  <2>4. Knows(y, results, sessions, overtaken)
    BY <1>7, <2>3 DEF Knows, BeginPublish, Publishable, Scored, IsScored
  <2>5. Begin(r, y) /\ UNCHANGED <<worth, results, sessions, overtaken>>
    BY <1>7 DEF BeginPublish
  <2> HIDE DEF y
  <2> QED  BY <1>1, <2>1, <2>4, <2>5
<1>8. ASSUME NEW e \in Employees, BeginReopen(r, e) PROVE IInv'
  <2> DEFINE y == [kind |-> "reopen", on |-> {e}, late |-> {}]
  <2>1. y \in Slots  BY DEF Slots, Plains, Plain
  <2>2. Knows(y, results, sessions, overtaken)  BY DEF Knows
  <2>3. Begin(r, y) /\ UNCHANGED <<worth, results, sessions, overtaken>>
    BY <1>8 DEF BeginReopen
  <2> HIDE DEF y
  <2> QED  BY <1>1, <2>1, <2>2, <2>3
<1> QED  BY <1>2, <1>3, <1>4, <1>5, <1>6, <1>7, <1>8 DEF BeginRequest

\* What the types give for the slot of a request at work.
LEMMA SlotFacts ==
    ASSUME Form, NEW r \in Requests
    PROVE  /\ requests[r] \in Slots
           /\ requests[r].kind \in OnSession =>
                /\ requests[r].session \in Sessions /\ requests[r].on \subseteq Employees
                /\ sessions[requests[r].session].participants \in SUBSET Employees
           /\ requests[r].kind = "reopen" => requests[r].on \subseteq Employees
           /\ requests[r].kind = "calculate" =>
                requests[r] \in Calculations /\ requests[r] # Idle
<1>1. requests[r] \in Slots  BY DEF Form
<1>2. requests[r].kind \in OnSession =>
        requests[r].session \in Sessions /\ requests[r].on \subseteq Employees
  BY <1>1 DEF Slots, Idle, Calculations, Plains, SessionCalls, Plain, OnSession
<1>3. requests[r].kind = "reopen" => requests[r].on \subseteq Employees
  BY <1>1 DEF Slots, Idle, Calculations, Plains, SessionCalls, Plain, OnSession
<1>4. requests[r].kind = "calculate" => requests[r] \in Calculations /\ requests[r] # Idle
  BY <1>1 DEF Slots, Idle, Calculations, Plains, SessionCalls, Plain, OnSession
<1> QED  BY <1>1, <1>2, <1>3, <1>4 DEF Form, Books

\* A calculation writes one of its scores; whoever took the result meanwhile is marked.
LEMMA CalculateStep ==
    ASSUME IInv, NEW r \in Requests, NEW e \in Employees, CalculateOne(r, e)
    PROVE  IInv' /\ (e \notin overtaken' => ~Settled(results, e))
<1> DEFINE x == requests[r]
           left == DOMAIN x.scores \ {e}
           m == [f \in left |-> x.scores[f]]
           y == IF left = {} THEN Idle ELSE [x EXCEPT !.scores = m]
<1>0. Form /\ Trust /\ Covered  BY DEF IInv
<1>1. x \in Calculations /\ x.kind = "calculate" /\ e \in DOMAIN x.scores
  BY <1>0, SlotFacts DEF CalculateOne
<1>2. Overtake(r, {e}, y) /\ Mark(r, {e}) /\ UNCHANGED <<worth, sessions>>
      /\ results' = [results EXCEPT ![e] = Calculated(@, x.scores[e])]
  BY DEF CalculateOne
<1>3. x.scores \in ScoreMaps /\ x.on \subseteq Employees /\ x.late \subseteq Employees
  BY <1>1 DEF Calculations
<1>4. \A f \in DOMAIN x.scores : f \in Employees /\ x.scores[f] \in Scores
  BY <1>3 DEF ScoreMaps
<1>5. /\ DOMAIN x.scores \subseteq x.on
      /\ \A f \in DOMAIN x.scores : f \notin x.late => ~Settled(results, f)
  BY <1>0, <1>1 DEF Trust, Knows
<1>6. results \in [Employees -> Rows]  BY <1>0 DEF Form
<1>7. Calculated(results[e], x.scores[e]) \in Rows
      /\ Calculated(results[e], x.scores[e]).approved = results[e].approved
  BY <1>1, <1>4, <1>6, RowsMade
<1>8. results' \in [Employees -> Rows] /\ results'[e].approved = results[e].approved
      /\ \A f \in Employees : f \notin {e} => results'[f] = results[f]
  BY <1>2, <1>6, <1>7
<1>9. e \notin overtaken' => e \notin x.late /\ e \notin overtaken
  BY <1>1, <1>2, <1>5 DEF Mark
<1>10. m \in ScoreMaps
  <2>1. left \in SUBSET Employees /\ m \in [left -> Scores]  BY <1>4
  <2> HIDE DEF left, m
  <2> QED  BY <2>1 DEF ScoreMaps
<1>11. y \in Slots /\ Knows(y, results', sessions', overtaken')
  <2>1. CASE left = {}  BY <2>1, IdleIsPlain DEF Slots
  <2>2. CASE left # {}
    <3>1. y = [x EXCEPT !.scores = m]  BY <2>2
    <3>2. DOMAIN m = left  OBVIOUS
    <3> HIDE DEF y, m
    <3>3. y \in Calculations /\ y.kind = "calculate" /\ y.on = x.on /\ y.late = x.late
          /\ y.scores = m
      BY <3>1, <1>1, <1>10 DEF Calculations
    <3>4. \A f \in left : f \in Employees /\ f # e /\ f \in DOMAIN x.scores
      BY <1>4
    <3>5. \A f \in left : f \notin x.late => ~Settled(results', f)
      BY <3>4, <1>5, <1>8 DEF Settled
    <3>6. left \subseteq x.on  BY <1>5
    <3> HIDE DEF left, x
    <3> QED  BY <3>2, <3>3, <3>5, <3>6 DEF Knows, Slots
  <2> QED  BY <2>1, <2>2
<1>12. Keeps({e}, sessions, sessions')  BY <1>2 DEF Keeps
<1>13. e \notin overtaken' => Covers(results', sessions', e)
  <2> SUFFICES ASSUME e \notin overtaken' PROVE Covers(results', sessions', e)
    OBVIOUS
  <2>1. ~Settled(results, e) /\ Covers(results, sessions, e)
    BY <1>0, <1>1, <1>5, <1>9 DEF Covered
  <2> QED  BY <2>1, <1>2, <1>8 DEF Covers
<1>14. IInv'
  <2> DEFINE W == {e}
  <2>1. W \in SUBSET Employees /\ sessions' \in [Sessions -> Books] /\ worth' = worth
    BY <1>0, <1>2 DEF Form
  <2>2. /\ Overtake(r, W, y) /\ Mark(r, W) /\ Keeps(W, sessions, sessions')
        /\ \A f \in Employees : f \notin W => results'[f] = results[f]
    BY <1>2, <1>8, <1>12
  <2>3. \A f \in W : f \notin overtaken' => Covers(results', sessions', f)
    BY <1>13
  <2>4. y \in Slots /\ Knows(y, results', sessions', overtaken') /\ results' \in [Employees -> Rows]
    BY <1>8, <1>11
  <2> HIDE DEF W, y
  <2> QED  BY <2>1, <2>2, <2>3, <2>4, WriteStep
<1> QED  BY <1>14, <1>1, <1>5, <1>9

\* Creating and closing a session write no result, and unfinish nobody.
LEMMA SessionStep ==
    ASSUME IInv, NEW r \in Requests, Close(r) \/ \E s \in Sessions : Create(r, s)
    PROVE  IInv'
<1>0. Form  BY DEF IInv
<1>00. sessions \in [Sessions -> Books]  BY <1>0 DEF Form
<1>01. Idle \in Slots /\ Knows(Idle, results, sessions', overtaken)  BY IdleIsPlain DEF Slots
<1>1. CASE Close(r)
  <2> DEFINE s == requests[r].session
  <2>1. s \in Sessions  BY <1>1, <1>0, SlotFacts DEF Close, OnSession
  <2>2. sessions' = [sessions EXCEPT ![s].status = "CLOSED"]
        /\ requests' = [requests EXCEPT ![r] = Idle]
        /\ UNCHANGED <<worth, results, overtaken>>
    BY <1>1 DEF Close
  <2> HIDE DEF s
  <2>3. sessions' \in [Sessions -> Books]  BY <1>00, <2>1, <2>2 DEF Books, SessionStatuses
  <2>4. Keeps({}, sessions, sessions')
    BY <1>00, <2>1, <2>2 DEF Keeps, Unfinished, Books
  <2> QED  BY <2>2, <2>3, <2>4, <1>01, QuietStep
<1>2. ASSUME NEW s \in Sessions, Create(r, s) PROVE IInv'
  <2> DEFINE b == [status |-> "DRAFT", participants |-> requests[r].on, decisions |-> NoneDecided]
  <2>1. requests[r].on \in SUBSET Employees
    <3>1. requests[r] \in Slots /\ requests[r].kind = "create"
      BY <1>2, <1>0, SlotFacts DEF Create
    <3> QED  BY <3>1 DEF Slots, Idle, Calculations, Plains, SessionCalls, Plain, OnSession
  <2>2. b \in Books  BY <2>1 DEF Books, SessionStatuses, NoneDecided
  <2>3. sessions' = [sessions EXCEPT ![s] = b] /\ sessions[s].status = "ABSENT"
        /\ requests' = [requests EXCEPT ![r] = Idle]
        /\ UNCHANGED <<worth, results, overtaken>>
    BY <1>2 DEF Create
  <2> HIDE DEF b
  <2>4. sessions' \in [Sessions -> Books]  BY <1>00, <2>2, <2>3
  <2>5. Keeps({}, sessions, sessions')  BY <1>00, <2>3 DEF Keeps, Unfinished
  <2> QED  BY <2>3, <2>4, <2>5, <1>01, QuietStep
<1> QED  BY <1>1, <1>2

\* The other steps that write results: each leaves its slot idle.
LEMMA EndStep ==
    ASSUME IInv, NEW r \in Requests, NEW W \in SUBSET Employees,
           Overtake(r, W, Idle), Mark(r, W), worth' = worth,
           results' \in [Employees -> Rows], sessions' \in [Sessions -> Books],
           \A e \in Employees : e \notin W => results'[e] = results[e],
           Keeps(W, sessions, sessions'),
           \A e \in W : e \notin overtaken' => Covers(results', sessions', e)
    PROVE  IInv'
<1>1. Idle \in Slots /\ Knows(Idle, results', sessions', overtaken')
  BY IdleIsPlain DEF Slots
<1> QED  BY <1>1, WriteStep

LEMMA OpenStep == ASSUME IInv, NEW r \in Requests, Open(r) PROVE IInv'
<1> DEFINE s == requests[r].session
           W == sessions[s].participants
<1>0. Form  BY DEF IInv
<1>1. s \in Sessions /\ W \in SUBSET Employees
  BY <1>0, SlotFacts DEF Open, OnSession
<1>2. /\ sessions' = [sessions EXCEPT ![s].status = "OPEN"]
      /\ results' = [e \in Employees |->
            IF e \in W THEN [results[e] EXCEPT !.status = "CALIBRATION_IN_PROGRESS"]
            ELSE results[e]]
      /\ Overtake(r, W, Idle) /\ Mark(r, W) /\ worth' = worth
  BY DEF Open
<1>3. sessions \in [Sessions -> Books] /\ results \in [Employees -> Rows]  BY <1>0 DEF Form
<1>4. sessions' \in [Sessions -> Books]  BY <1>1, <1>2, <1>3 DEF Books, SessionStatuses
<1>5. results' \in [Employees -> Rows]  BY <1>2, <1>3 DEF Rows, ResultStatuses
<1>6. Keeps(W, sessions, sessions')  BY <1>1, <1>2, <1>3 DEF Keeps, Unfinished, Books
<1>7. \A e \in W : Unfinished(sessions', s, e)
  BY <1>1, <1>2, <1>3 DEF Unfinished, Books
<1>8. \A e \in W : Covers(results', sessions', e)  BY <1>1, <1>7 DEF Covers
<1>9. \A e \in Employees : e \notin W => results'[e] = results[e]  BY <1>2
<1> HIDE DEF W, s
<1> QED  BY <1>1, <1>2, <1>4, <1>5, <1>6, <1>8, <1>9, EndStep

LEMMA FinalizeStep == ASSUME IInv, NEW r \in Requests, Finalize(r) PROVE IInv'
<1> DEFINE s == requests[r].session
           W == sessions[s].participants
<1>0. Form  BY DEF IInv
<1>1. s \in Sessions /\ W \in SUBSET Employees
  BY <1>0, SlotFacts DEF Finalize, OnSession
<1>2. /\ sessions' = [sessions EXCEPT ![s].status = "FINALIZED"]
      /\ results' = [e \in Employees |->
            IF e \in W THEN [results[e] EXCEPT !.status = "FINALIZED",
                                               !.final = Frozen(results[e])]
            ELSE results[e]]
      /\ Overtake(r, W, Idle) /\ Mark(r, W) /\ worth' = worth
  BY DEF Finalize
<1>3. sessions \in [Sessions -> Books] /\ results \in [Employees -> Rows]  BY <1>0 DEF Form
<1>4. sessions' \in [Sessions -> Books]
  <2>1. [sessions[s] EXCEPT !.status = "FINALIZED"] \in Books
    BY <1>1, <1>3 DEF Books, SessionStatuses
  <2> HIDE DEF s, W
  <2> QED  BY <1>1, <1>2, <1>3, <2>1
<1>5. results' \in [Employees -> Rows]
  <2>1. \A e \in Employees : Frozen(results[e]) \in 0 .. MaxScore
    BY <1>3 DEF Frozen, Rows
  <2> QED  BY <1>2, <1>3, <2>1 DEF Rows, ResultStatuses
<1>6. Keeps(W, sessions, sessions')  BY <1>1, <1>2, <1>3 DEF Keeps, Unfinished, Books
<1>7. \A e \in W : results'[e].status = "FINALIZED"
  BY <1>1, <1>2, <1>3 DEF Rows
<1>8. \A e \in W : Covers(results', sessions', e)  BY <1>7 DEF Covers, Settled
<1>9. \A e \in Employees : e \notin W => results'[e] = results[e]  BY <1>2
<1> HIDE DEF W, s
<1> QED  BY <1>1, <1>2, <1>4, <1>5, <1>6, <1>8, <1>9, EndStep

\* A decision finds its session still unfinished, unless somebody finalized it since.
LEMMA DecideStep == ASSUME IInv, NEW r \in Requests, Decide(r) PROVE IInv'
<1> DEFINE s == requests[r].session
<1>0. Form /\ Trust  BY DEF IInv
<1>1. s \in Sessions /\ requests[r].on \subseteq Employees /\ requests[r].kind = "decide"
  BY <1>0, SlotFacts DEF Decide, OnSession
<1>2. PICK e \in requests[r].on, n \in Scores :
        /\ results' = [results EXCEPT ![e] = Decided(@, n)]
        /\ sessions' = [sessions EXCEPT ![s].decisions[e] = @ + 1]
        /\ Overtake(r, {e}, Idle) /\ Mark(r, {e}) /\ worth' = worth
  BY DEF Decide
<1> DEFINE W == {e}
<1>3. sessions \in [Sessions -> Books] /\ results \in [Employees -> Rows]  BY <1>0 DEF Form
<1>4. e \in Employees /\ W \in SUBSET Employees  BY <1>1
<1>5. sessions' \in [Sessions -> Books]
      /\ \A t \in Sessions : sessions'[t].status = sessions[t].status
                             /\ sessions'[t].participants = sessions[t].participants
  <2> DEFINE d == [sessions[s].decisions EXCEPT ![e] = @ + 1]
             b == [sessions[s] EXCEPT !.decisions = d]
  <2>1. sessions[s] \in Books /\ sessions[s].decisions \in [Employees -> Nat]
    BY <1>1, <1>3 DEF Books
  <2>2. d \in [Employees -> Nat]  BY <1>4, <2>1
  <2>3. sessions' = [sessions EXCEPT ![s] = b]  BY <1>1, <1>2, <1>3
  <2> HIDE DEF d
  <2>4. b \in Books /\ b.status = sessions[s].status
        /\ b.participants = sessions[s].participants
    BY <2>1, <2>2 DEF Books
  <2> HIDE DEF b
  <2> QED  BY <1>1, <1>3, <2>3, <2>4
<1>6. results' \in [Employees -> Rows]
      /\ \A f \in Employees : f \notin W => results'[f] = results[f]
  <2>1. Decided(results[e], n) \in Rows  BY <1>3, <1>4, RowsMade
  <2> QED  BY <2>1, <1>2, <1>3, <1>4
<1>7. Keeps(W, sessions, sessions')  BY <1>5 DEF Keeps, Unfinished
<1>8. e \notin overtaken' => Unfinished(sessions, s, e)
  <2>1. Knows(requests[r], results, sessions, overtaken)  BY <1>0 DEF Trust
  <2> QED  BY <2>1, <1>1, <1>2 DEF Knows, Mark
<1>9. \A f \in W : f \notin overtaken' => Covers(results', sessions', f)
  BY <1>1, <1>5, <1>8 DEF Covers, Unfinished
<1>10. Overtake(r, W, Idle) /\ Mark(r, W) /\ worth' = worth  BY <1>2
<1> HIDE DEF W
<1> QED  BY <1>4, <1>5, <1>6, <1>7, <1>9, <1>10, EndStep

\* What nobody wrote since the check is as settled as the check found it.
LEMMA ApproveStep == ASSUME IInv, NEW r \in Requests, Approve(r) PROVE IInv'
<1>0. Form /\ Trust  BY DEF IInv
<1>1. Scored \in SUBSET Employees /\ requests[r].kind = "approve"
  BY DEF Scored, Approve
<1>2. /\ results' = [e \in Employees |->
            IF e \in Scored THEN [results[e] EXCEPT !.approved = TRUE] ELSE results[e]]
      /\ Overtake(r, Scored, Idle) /\ Mark(r, Scored) /\ UNCHANGED <<worth, sessions>>
  BY DEF Approve
<1>3. sessions' \in [Sessions -> Books] /\ results \in [Employees -> Rows]
  BY <1>0, <1>2 DEF Form
<1>4. results' \in [Employees -> Rows]
      /\ \A e \in Employees : results'[e].status = results[e].status
  BY <1>2, <1>3 DEF Rows
<1>5. \A e \in Scored : e \notin overtaken' => Settled(results, e)
  <2>1. Knows(requests[r], results, sessions, overtaken)  BY <1>0 DEF Trust
  <2> QED  BY <2>1, <1>1, <1>2 DEF Knows, Mark, IsScored, Scored
<1>6. \A e \in Scored : e \notin overtaken' => Covers(results', sessions', e)
  BY <1>1, <1>4, <1>5 DEF Covers, Settled
<1>7. \A e \in Employees : e \notin Scored => results'[e] = results[e]  BY <1>2
<1>8. Keeps(Scored, sessions, sessions')  BY <1>2 DEF Keeps
<1> QED  BY <1>1, <1>2, <1>3, <1>4, <1>6, <1>7, <1>8, EndStep

LEMMA PublishStep ==
    ASSUME IInv, NEW r \in Requests, Publish(r)
    PROVE  /\ IInv'
           /\ \A e \in Scored : e \notin overtaken' => Settled(results, e) /\ results[e].approved
<1>0. Form /\ Trust  BY DEF IInv
<1>1. Scored \in SUBSET Employees /\ requests[r].kind = "publish"
  BY DEF Scored, Publish
<1>2. /\ results' = [e \in Employees |->
            IF e \in Scored THEN Published(results[e]) ELSE results[e]]
      /\ Overtake(r, Scored, Idle) /\ Mark(r, Scored) /\ UNCHANGED <<worth, sessions>>
  BY DEF Publish
<1>3. sessions' \in [Sessions -> Books] /\ results \in [Employees -> Rows]
  BY <1>0, <1>2 DEF Form
<1>4. results' \in [Employees -> Rows]
      /\ \A e \in Scored : results'[e].status = "PUBLISHED"
  <2>1. 1 \in Scores  BY BoundsAssumption DEF Scores
  <2>2. \A e \in Employees : Published(results[e]) \in Rows
                             /\ Published(results[e]).status = "PUBLISHED"
    BY <1>3, <2>1, RowsMade
  <2> QED  BY <1>1, <1>2, <1>3, <2>2
<1>5. \A e \in Scored : e \notin overtaken' => Settled(results, e) /\ results[e].approved
  <2>1. Knows(requests[r], results, sessions, overtaken)  BY <1>0 DEF Trust
  <2> QED  BY <2>1, <1>1, <1>2 DEF Knows, Mark, IsScored, Scored
<1>6. \A e \in Scored : Covers(results', sessions', e)  BY <1>4 DEF Covers, Settled
<1>7. \A e \in Employees : e \notin Scored => results'[e] = results[e]  BY <1>2
<1>8. Keeps(Scored, sessions, sessions')  BY <1>2 DEF Keeps
<1>9. IInv'  BY <1>1, <1>2, <1>3, <1>4, <1>6, <1>7, <1>8, EndStep
<1> QED  BY <1>5, <1>9

LEMMA ReopenStep == ASSUME IInv, NEW r \in Requests, Reopen(r) PROVE IInv'
<1>0. Form  BY DEF IInv
<1>1. requests[r].on \subseteq Employees  BY <1>0, SlotFacts DEF Reopen
<1>2. PICK e \in requests[r].on :
        /\ results' = [results EXCEPT ![e] = Reopened(@)]
        /\ Overtake(r, {e}, Idle) /\ Mark(r, {e}) /\ UNCHANGED <<worth, sessions>>
  BY DEF Reopen
<1> DEFINE W == {e}
<1>3. sessions' \in [Sessions -> Books] /\ results \in [Employees -> Rows]
  BY <1>0, <1>2 DEF Form
<1>4. e \in Employees /\ W \in SUBSET Employees  BY <1>1
<1>5. results' \in [Employees -> Rows] /\ results'[e].approved = FALSE
      /\ \A f \in Employees : f \notin W => results'[f] = results[f]
  <2>1. 1 \in Scores  BY BoundsAssumption DEF Scores
  <2>2. Reopened(results[e]) \in Rows /\ Reopened(results[e]).approved = FALSE
    BY <1>3, <1>4, <2>1, RowsMade
  <2> QED  BY <2>2, <1>2, <1>3, <1>4
<1>6. \A f \in W : Covers(results', sessions', f)  BY <1>5 DEF Covers
<1>7. Overtake(r, W, Idle) /\ Mark(r, W) /\ worth' = worth /\ Keeps(W, sessions, sessions')
  BY <1>2 DEF Keeps
<1> HIDE DEF W
<1> QED  BY <1>3, <1>4, <1>5, <1>6, <1>7, EndStep

\* The work under the results touches nothing the invariant speaks of.
LEMMA WorkStep ==
    ASSUME IInv, EditPlan \/ PublishPlan \/ \E e \in Employees : ApproveWork(e)
    PROVE  IInv'
<1>0. Form /\ Trust /\ Covered  BY DEF IInv
<1>1. UNCHANGED <<results, sessions, requests, overtaken>> /\ worth' \in [Employees -> Scores]
  BY <1>0 DEF EditPlan, PublishPlan, ApproveWork, Form
<1>2. Form'  BY <1>0, <1>1 DEF Form
<1>3. Trust' /\ Covered'  BY <1>0, <1>1 DEF Trust, Covered
<1> QED  BY <1>2, <1>3 DEF IInv

LEMMA StepIInv == IInv /\ [Next]_vars => IInv'
<1> SUFFICES ASSUME IInv, [Next]_vars PROVE IInv'
  OBVIOUS
<1>1. CASE UNCHANGED vars
  <2>1. UNCHANGED <<worth, results, sessions, requests, overtaken>>  BY <1>1 DEF vars
  <2> QED  BY <2>1 DEF IInv, Form, Trust, Covered
<1>2. CASE EditPlan \/ PublishPlan \/ \E e \in Employees : ApproveWork(e)
  BY <1>2, WorkStep
<1>3. ASSUME NEW r \in Requests, BeginRequest(r) PROVE IInv'
  BY <1>3, BeginStep
<1>4. ASSUME NEW r \in Requests, EndRequest(r) PROVE IInv'
  BY <1>4, CalculateStep, SessionStep, OpenStep, FinalizeStep, DecideStep, ApproveStep,
     PublishStep, ReopenStep DEF EndRequest
<1> QED  BY <1>1, <1>2, <1>3, <1>4 DEF Next

LEMMA IInvariant == Spec => []IInv
BY InitIInv, StepIInv, PTL DEF Spec

-----------------------------------------------------------------------------
(* The theorems.                                                             *)

\* Plans, results, sessions and their counts keep their types.
THEOREM PerformanceTypeCorrect == Spec => []TypeOK
<1> DEFINE Work == planned \in BOOLEAN /\ ready \in [Employees -> BOOLEAN]
<1>1. Init => Work  BY DEF Init
<1>2. Work /\ [Next]_vars => Work'
  <2> SUFFICES ASSUME Work, [Next]_vars PROVE Work'  OBVIOUS
  <2>1. CASE UNCHANGED vars  BY <2>1 DEF vars
  <2>2. CASE EditPlan \/ PublishPlan \/ \E e \in Employees : ApproveWork(e)
    BY <2>2 DEF EditPlan, PublishPlan, ApproveWork
  <2>3. ASSUME NEW r \in Requests, BeginRequest(r) PROVE UNCHANGED <<planned, ready>>
    BY <2>3 DEF BeginRequest, BeginCalculate, BeginCreate, BeginOpen, BeginClose,
       BeginFinalize, BeginDecide, BeginApprove, BeginPublish, BeginReopen
  <2>4. ASSUME NEW r \in Requests, EndRequest(r) PROVE UNCHANGED <<planned, ready>>
    BY <2>4 DEF EndRequest, CalculateOne, Create, Open, Close, Finalize, Decide,
       Approve, Publish, Reopen
  <2> QED  BY <2>1, <2>2, <2>3, <2>4 DEF Next
<1>3. Work /\ IInv => TypeOK  BY DEF IInv, Form, TypeOK, Rows, Books
<1> HIDE DEF Work
<1> QED  BY IInvariant, <1>1, <1>2, <1>3, PTL DEF Spec

\* What a request at work writes, by the status it leaves: only a calculation and a
\* reopening make a result CALCULATED, only a publication makes it PUBLISHED.
LEMMA StatusWritten ==
    ASSUME IInv, [Next]_vars, NEW e \in Employees, results'[e].status # results[e].status
    PROVE  \/ \E r \in Requests : CalculateOne(r, e)
           \/ \E r \in Requests : Publish(r) /\ e \in Scored
           \/ results'[e] = Reopened(results[e])
           \/ results'[e].status \in {"CALIBRATION_IN_PROGRESS", "FINALIZED"}
<1>0. results \in [Employees -> Rows] /\ results[e] \in Rows  BY DEF IInv, Form
<1>1. results' # results  OBVIOUS
<1>2. \A r \in Requests : ~BeginRequest(r)
  BY <1>1 DEF BeginRequest, BeginCalculate, BeginCreate, BeginOpen, BeginClose,
     BeginFinalize, BeginDecide, BeginApprove, BeginPublish, BeginReopen
<1>3. ~UNCHANGED vars /\ ~EditPlan /\ ~PublishPlan /\ \A f \in Employees : ~ApproveWork(f)
  BY <1>1 DEF vars, EditPlan, PublishPlan, ApproveWork
<1>4. PICK r \in Requests : EndRequest(r)  BY <1>2, <1>3 DEF Next
<1>5. ASSUME NEW f \in Employees, CalculateOne(r, f) PROVE f = e
  BY <1>0, <1>5 DEF CalculateOne
<1>6. ~Close(r) /\ \A s \in Sessions : ~Create(r, s)  BY <1>1 DEF Close, Create
<1>7. CASE Open(r)
  BY <1>0, <1>7 DEF Open, Rows
<1>8. CASE Finalize(r)
  BY <1>0, <1>8 DEF Finalize, Rows
<1>9. CASE Decide(r)
  <2>1. PICK f \in requests[r].on, n \in Scores :
          results' = [results EXCEPT ![f] = Decided(@, n)]
    BY <1>9 DEF Decide
  <2>2. results'[e] = Decided(results[e], n)  BY <1>0, <2>1
  <2> QED  BY <1>0, <2>2 DEF Decided, Rows
<1>10. ~Approve(r)  BY <1>0 DEF Approve, Rows
<1>11. CASE Publish(r)
  BY <1>0, <1>11 DEF Publish
<1>12. CASE Reopen(r)
  BY <1>0, <1>12 DEF Reopen
<1> QED  BY <1>4, <1>5, <1>6, <1>7, <1>8, <1>9, <1>10, <1>11, <1>12 DEF EndRequest

\* A recalculation spares every result that a calibration finalized or that was published,
\* unless it overlapped with another request there.
THEOREM RecalculationSpares == Spec => RecalculationSparesSettled
<1>1. IInv /\ [Next]_vars =>
        [\A e \in Employees :
           (e \in Locked /\ results'[e].status = "CALCULATED" /\ Undisturbed(e))
             => results'[e] = Reopened(results[e])]_vars
  <2> SUFFICES ASSUME IInv, [Next]_vars, NEW e \in Employees,
                      e \in Locked, results'[e].status = "CALCULATED", e \notin overtaken'
               PROVE  results'[e] = Reopened(results[e])
    BY DEF Undisturbed
  <2>1. Settled(results, e) /\ results[e].status # "CALCULATED"
    BY DEF Locked, InStatus, Settled
  <2>2. \A r \in Requests : ~CalculateOne(r, e)  BY <2>1, CalculateStep
  <2>3. \A r \in Requests : ~(Publish(r) /\ e \in Scored)
    <3>1. results[e] \in Rows /\ 1 \in Scores
      BY BoundsAssumption DEF IInv, Form, Scores
    <3>2. Published(results[e]).status = "PUBLISHED"  BY <3>1, RowsMade
    <3> QED  BY <3>2 DEF Publish
  <2> QED  BY <2>1, <2>2, <2>3, StatusWritten
<1> QED  BY IInvariant, <1>1, PTL DEF Spec, RecalculationSparesSettled

\* No result is published that a session has not finalized and HR not approved, unless
\* the publication overlapped with another request there.
THEOREM PublishedIsFinalized == Spec => OnlyFinalizedIsPublished
<1>1. IInv /\ [Next]_vars =>
        [\A e \in Employees :
           (results[e].status # "PUBLISHED" /\ results'[e].status = "PUBLISHED"
              /\ Undisturbed(e))
             => results[e].status = "FINALIZED" /\ results[e].approved]_vars
  <2> SUFFICES ASSUME IInv, [Next]_vars, NEW e \in Employees,
                      results[e].status # "PUBLISHED", results'[e].status = "PUBLISHED",
                      e \notin overtaken'
               PROVE  results[e].status = "FINALIZED" /\ results[e].approved
    BY DEF Undisturbed
  <2>1. results[e] \in Rows /\ results \in [Employees -> Rows]  BY DEF IInv, Form
  <2>2. results'[e] # Reopened(results[e])  BY <2>1 DEF Reopened, Rows
  <2>3. ASSUME NEW r \in Requests, CalculateOne(r, e) PROVE FALSE
    BY <2>1, <2>3 DEF CalculateOne, Calculated, Rows
  <2>4. PICK r \in Requests : Publish(r) /\ e \in Scored
    BY <2>2, <2>3, StatusWritten
  <2> QED  BY <2>4, PublishStep DEF Settled
<1> QED  BY IInvariant, <1>1, PTL DEF Spec, OnlyFinalizedIsPublished
-----------------------------------------------------------------------------
(* The limit of adjustments, as a session keeps it.                          *)

Made(x) == sessions[x.session].decisions

\* A decision in flight found room for itself, and has it as long as it is not late.
HasRoom(x) ==
    x.kind = "decide" => \A e \in x.on : e \notin x.late => Made(x)[e] < MaxAdjustments
Room == \A r \in Requests : HasRoom(requests[r])

LInv == IInv /\ Room /\ AdjustedWithinSession

\* A slot that changes hands so that a decision in it is one that was there, or later.
Follows(x, y) ==
    y.kind = "decide" =>
        x.kind = "decide" /\ y.on = x.on /\ y.session = x.session /\ x.late \subseteq y.late

LEMMA LaterSlot ==
    ASSUME IInv, NEW r \in Requests, NEW W \in SUBSET Employees, NEW y, y.kind # "decide",
           Overtake(r, W, y), NEW q \in Requests
    PROVE  /\ Follows(requests[q], requests'[q])
           /\ \A e \in W : requests'[q].kind = "decide" /\ e \in requests'[q].on
                             => e \in requests'[q].late
<1>1. requests[q] \in Slots  BY DEF IInv, Form
<1>2. CASE q = r
  <2>1. requests'[q] = y  BY <1>2 DEF Overtake
  <2> QED  BY <2>1 DEF Follows
<1>3. CASE q # r /\ requests[q] = Idle
  <2>1. requests'[q] = Idle  BY <1>3 DEF Overtake
  <2> QED  BY <2>1, IdleIsPlain DEF Follows
<1>4. CASE q # r /\ requests[q] # Idle
  <2>1. requests'[q] = [requests[q] EXCEPT !.late = @ \cup (W \cap requests[q].on)]
    BY <1>4 DEF Overtake
  <2>2. /\ requests'[q].kind = requests[q].kind /\ requests'[q].on = requests[q].on
        /\ requests'[q].late = requests[q].late \cup (W \cap requests[q].on)
        /\ requests[q].kind = "decide" => requests'[q].session = requests[q].session
    BY <1>1, <1>4, <2>1, LateSlot
  <2> QED  BY <2>2 DEF Follows
<1> QED  BY <1>2, <1>3, <1>4

\* A step that counts no decision keeps the limit.
LEMMA NothingCounted ==
    ASSUME LInv, overtaken \subseteq overtaken',
           \A s \in Sessions : sessions'[s].decisions = sessions[s].decisions,
           \A q \in Requests : Follows(requests[q], requests'[q])
    PROVE  Room' /\ AdjustedWithinSession'
<1>1. AdjustedWithinSession'  BY DEF LInv, AdjustedWithinSession
<1>2. ASSUME NEW q \in Requests, requests'[q].kind = "decide",
             NEW e \in requests'[q].on, e \notin requests'[q].late
      PROVE  sessions'[requests'[q].session].decisions[e] < MaxAdjustments
  <2>1. /\ requests[q].kind = "decide" /\ e \in requests[q].on /\ e \notin requests[q].late
        /\ requests'[q].session = requests[q].session
    BY <1>2 DEF Follows
  <2>2. requests[q].session \in Sessions
    BY <2>1, SlotFacts DEF LInv, IInv, OnSession
  <2>3. sessions[requests[q].session].decisions[e] < MaxAdjustments
    BY <2>1 DEF LInv, Room, HasRoom, Made
  <2> QED  BY <2>1, <2>2, <2>3
<1> QED  BY <1>1, <1>2 DEF Room, HasRoom, Made

\* A request that begins has read the count; nothing is written yet.
LEMMA BeginKeepsLimit ==
    ASSUME LInv, NEW r \in Requests, BeginRequest(r)
    PROVE  Room' /\ AdjustedWithinSession'
<1>0. IInv /\ requests \in [Requests -> Slots]  BY DEF LInv, IInv, Form
<1>1. UNCHANGED <<sessions, overtaken>>
  BY DEF BeginRequest, BeginCalculate, BeginCreate, BeginOpen, BeginClose,
     BeginFinalize, BeginDecide, BeginApprove, BeginPublish, BeginReopen
<1>2. ASSUME NEW x, Begin(r, x), x.kind # "decide" PROVE Room' /\ AdjustedWithinSession'
  <2>1. ASSUME NEW q \in Requests PROVE Follows(requests[q], requests'[q])
    BY <1>0, <1>2 DEF Begin, Follows
  <2> QED  BY <1>1, <2>1, NothingCounted
<1>3. ASSUME NEW s \in Sessions, NEW e \in Employees, BeginDecide(r, s, e)
      PROVE  Room' /\ AdjustedWithinSession'
  <2>1. requests' = [requests EXCEPT ![r] =
                       [kind |-> "decide", on |-> {e}, late |-> {}, session |-> s]]
        /\ sessions[s].decisions[e] < MaxAdjustments
    BY <1>3 DEF BeginDecide, Begin
  <2>2. ASSUME NEW q \in Requests PROVE HasRoom(requests[q])'
    <3>1. CASE q = r
      <4>1. requests'[q] = [kind |-> "decide", on |-> {e}, late |-> {}, session |-> s]
        BY <1>0, <2>1, <3>1
      <4> QED  BY <4>1, <2>1, <1>1 DEF HasRoom, Made
    <3>2. CASE q # r
      <4>1. requests'[q] = requests[q]  BY <1>0, <2>1, <3>2
      <4> QED  BY <4>1, <1>1 DEF LInv, Room, HasRoom, Made
    <3> QED  BY <3>1, <3>2
  <2> QED  BY <1>1, <2>2 DEF LInv, Room, AdjustedWithinSession
<1> QED
  BY <1>2, <1>3 DEF BeginRequest, BeginCalculate, BeginCreate, BeginOpen, BeginClose,
     BeginFinalize, BeginOnSession, BeginApprove, BeginPublish, BeginReopen

\* A decision counts one; every other decision on the employee is late by it.
LEMMA DecideKeepsLimit ==
    ASSUME LInv, NEW r \in Requests, Decide(r)
    PROVE  Room' /\ AdjustedWithinSession'
<1> DEFINE z == requests[r].session
<1>0. IInv /\ Form  BY DEF LInv, IInv
<1>1. PICK e \in requests[r].on :
        /\ sessions' = [sessions EXCEPT ![z].decisions[e] = @ + 1]
        /\ Overtake(r, {e}, Idle) /\ Mark(r, {e})
  BY DEF Decide
<1>2. z \in Sessions /\ e \in Employees /\ requests[r].kind = "decide"
  BY <1>0, SlotFacts DEF Decide, OnSession
<1>3. sessions \in [Sessions -> Books] /\ \A s \in Sessions : sessions[s].decisions \in [Employees -> Nat]
  BY <1>0 DEF Form, Books
<1>4. \A s \in Sessions, f \in Employees :
        sessions'[s].decisions[f] =
          IF s = z /\ f = e THEN sessions[s].decisions[f] + 1 ELSE sessions[s].decisions[f]
  <2> HIDE DEF z
  <2> QED  BY <1>1, <1>2, <1>3 DEF Books
<1>5. overtaken \subseteq overtaken'
      /\ (e \notin overtaken' => sessions[z].decisions[e] < MaxAdjustments)
  BY <1>1, <1>2 DEF Mark, LInv, Room, HasRoom, Made
<1>6. AdjustedWithinSession'
  <2> SUFFICES ASSUME NEW s \in Sessions, NEW f \in Employees, f \notin overtaken'
               PROVE  sessions'[s].decisions[f] <= MaxAdjustments
    BY DEF AdjustedWithinSession
  <2>1. sessions[s].decisions[f] \in Nat /\ sessions[s].decisions[f] <= MaxAdjustments
    BY <1>3, <1>5 DEF LInv, AdjustedWithinSession
  <2>2. CASE s = z /\ f = e
    <3>1. sessions'[s].decisions[f] = sessions[s].decisions[f] + 1  BY <1>4, <2>2
    <3>2. sessions[s].decisions[f] < MaxAdjustments  BY <1>5, <2>2
    <3> QED  BY <2>1, <3>1, <3>2, BoundsAssumption
  <2>3. CASE ~(s = z /\ f = e)
    <3>1. sessions'[s].decisions[f] = sessions[s].decisions[f]  BY <1>4, <2>3
    <3> QED  BY <2>1, <3>1
  <2> QED  BY <2>2, <2>3
<1>7. ASSUME NEW q \in Requests, requests'[q].kind = "decide",
             NEW f \in requests'[q].on, f \notin requests'[q].late
      PROVE  sessions'[requests'[q].session].decisions[f] < MaxAdjustments
  <2> DEFINE W == {e}
  <2>1. W \in SUBSET Employees /\ Overtake(r, W, Idle) /\ Idle.kind # "decide"
    BY <1>1, <1>2, IdleIsPlain
  <2>2. Follows(requests[q], requests'[q]) /\ f # e
    <3> HIDE DEF W
    <3>1. /\ Follows(requests[q], requests'[q])
          /\ \A g \in W : requests'[q].kind = "decide" /\ g \in requests'[q].on
                            => g \in requests'[q].late
      BY <1>0, <2>1, LaterSlot
    <3> QED  BY <1>7, <3>1 DEF W
  <2>3. /\ requests[q].kind = "decide" /\ f \in requests[q].on /\ f \notin requests[q].late
        /\ requests'[q].session = requests[q].session
    BY <1>7, <2>2 DEF Follows
  <2>4. requests[q].session \in Sessions /\ f \in Employees
    BY <1>0, <2>3, SlotFacts DEF OnSession
  <2>5. sessions[requests[q].session].decisions[f] < MaxAdjustments
    BY <2>3 DEF LInv, Room, HasRoom, Made
  <2> QED  BY <1>4, <2>2, <2>3, <2>4, <2>5
<1> QED  BY <1>6, <1>7 DEF Room, HasRoom, Made

\* A session is created with no decision counted, and no decision in flight is on it.
LEMMA CreateKeepsLimit ==
    ASSUME LInv, NEW r \in Requests, NEW s \in Sessions, Create(r, s)
    PROVE  Room' /\ AdjustedWithinSession'
<1>0. IInv /\ Form /\ Trust  BY DEF LInv, IInv
<1>1. /\ sessions' = [sessions EXCEPT ![s] =
                        [status |-> "DRAFT", participants |-> requests[r].on,
                         decisions |-> NoneDecided]]
      /\ sessions[s].status = "ABSENT"
      /\ requests' = [requests EXCEPT ![r] = Idle] /\ overtaken' = overtaken
  BY DEF Create
<1>2. sessions \in [Sessions -> Books] /\ requests \in [Requests -> Slots]
  BY <1>0 DEF Form
<1>3. sessions'[s].decisions = NoneDecided
      /\ \A z \in Sessions : z # s => sessions'[z] = sessions[z]
  BY <1>1, <1>2
<1>4. AdjustedWithinSession'
  BY <1>1, <1>3, BoundsAssumption DEF LInv, AdjustedWithinSession, NoneDecided
<1>5. ASSUME NEW q \in Requests, requests'[q].kind = "decide",
             NEW f \in requests'[q].on, f \notin requests'[q].late
      PROVE  sessions'[requests'[q].session].decisions[f] < MaxAdjustments
  <2>1. requests'[q] = requests[q]  BY <1>1, <1>2, <1>5, IdleIsPlain
  <2>2. requests[q].session \in Sessions /\ Unfinished(sessions, requests[q].session, f)
    BY <1>0, <1>5, <2>1, SlotFacts DEF OnSession, Trust, Knows
  <2>3. requests[q].session # s  BY <1>1, <2>2 DEF Unfinished
  <2>4. sessions[requests[q].session].decisions[f] < MaxAdjustments
    BY <1>5, <2>1 DEF LInv, Room, HasRoom, Made
  <2> QED  BY <1>3, <2>1, <2>2, <2>3, <2>4
<1> QED  BY <1>4, <1>5 DEF Room, HasRoom, Made

\* The other requests that end write no count.
LEMMA EndKeepsLimit ==
    ASSUME LInv, NEW r \in Requests, EndRequest(r)
    PROVE  Room' /\ AdjustedWithinSession'
<1>0. IInv /\ Form /\ sessions \in [Sessions -> Books] /\ requests \in [Requests -> Slots]
  BY DEF LInv, IInv, Form
<1>1. ASSUME NEW W \in SUBSET Employees, NEW y, y.kind # "decide",
             Overtake(r, W, y), Mark(r, W),
             \A s \in Sessions : sessions'[s].decisions = sessions[s].decisions
      PROVE  Room' /\ AdjustedWithinSession'
  <2>1. \A q \in Requests : Follows(requests[q], requests'[q])
    BY <1>0, <1>1, LaterSlot
  <2>2. overtaken \subseteq overtaken'  BY <1>1 DEF Mark
  <2> QED  BY <1>1, <2>1, <2>2, NothingCounted
<1>2. Idle.kind # "decide"  BY IdleIsPlain
<1>3. ASSUME NEW e \in Employees, CalculateOne(r, e) PROVE Room' /\ AdjustedWithinSession'
  <2> DEFINE left == DOMAIN requests[r].scores \ {e}
             y == IF left = {} THEN Idle
                  ELSE [requests[r] EXCEPT !.scores = [f \in left |-> requests[r].scores[f]]]
  <2>1. Overtake(r, {e}, y) /\ Mark(r, {e}) /\ sessions' = sessions
    BY <1>3 DEF CalculateOne
  <2>2. y.kind # "decide"
    <3>1. requests[r] \in Calculations /\ requests[r].kind = "calculate"
      BY <1>0, <1>3, SlotFacts DEF CalculateOne
    <3> QED  BY <1>2, <3>1 DEF Calculations
  <2> HIDE DEF y
  <2> QED  BY <1>1, <2>1, <2>2
<1>4. CASE Close(r)
  <2>1. requests' = [requests EXCEPT ![r] = Idle] /\ overtaken' = overtaken
        /\ sessions' = [sessions EXCEPT ![requests[r].session].status = "CLOSED"]
    BY <1>4 DEF Close
  <2>2. \A s \in Sessions : sessions'[s].decisions = sessions[s].decisions
    BY <1>0, <2>1 DEF Books
  <2>3. \A q \in Requests : Follows(requests[q], requests'[q])
    BY <1>0, <1>2, <2>1 DEF Follows
  <2> QED  BY <2>1, <2>2, <2>3, NothingCounted
<1>5. ASSUME Open(r) \/ Finalize(r) PROVE Room' /\ AdjustedWithinSession'
  <2> DEFINE z == requests[r].session
             W == sessions[z].participants
  <2>1. z \in Sessions /\ W \in SUBSET Employees
    BY <1>0, <1>5, SlotFacts DEF Open, Finalize, OnSession
  <2>2. Overtake(r, W, Idle) /\ Mark(r, W)
        /\ \E status \in SessionStatuses : sessions' = [sessions EXCEPT ![z].status = status]
    BY <1>5 DEF Open, Finalize, SessionStatuses
  <2> HIDE DEF z, W
  <2>3. \A s \in Sessions : sessions'[s].decisions = sessions[s].decisions
    BY <1>0, <2>1, <2>2 DEF Books
  <2> QED  BY <1>1, <1>2, <2>1, <2>2, <2>3
<1>6. ASSUME Approve(r) \/ Publish(r) PROVE Room' /\ AdjustedWithinSession'
  <2>1. Overtake(r, Scored, Idle) /\ Mark(r, Scored) /\ sessions' = sessions
    BY <1>6 DEF Approve, Publish
  <2>2. Scored \in SUBSET Employees  BY DEF Scored
  <2> QED  BY <1>1, <1>2, <2>1, <2>2
<1>7. ASSUME Reopen(r) PROVE Room' /\ AdjustedWithinSession'
  <2>1. PICK e \in requests[r].on : Overtake(r, {e}, Idle) /\ Mark(r, {e}) /\ sessions' = sessions
    BY <1>7 DEF Reopen
  <2>2. {e} \in SUBSET Employees  BY <1>0, <1>7, SlotFacts DEF Reopen
  <2> QED  BY <1>1, <1>2, <2>1, <2>2
<1> QED
  BY <1>3, <1>4, <1>5, <1>6, <1>7, CreateKeepsLimit, DecideKeepsLimit DEF EndRequest

LEMMA LInvariant == Spec => []LInv
<1>1. Init => LInv
  <2> SUFFICES ASSUME Init PROVE LInv  OBVIOUS
  <2>1. Room  BY IdleIsPlain DEF Init, Room, HasRoom
  <2>2. AdjustedWithinSession
    BY BoundsAssumption DEF Init, AdjustedWithinSession, NoSession, NoneDecided
  <2> QED  BY <2>1, <2>2, InitIInv DEF LInv
<1>2. LInv /\ [Next]_vars => LInv'
  <2> SUFFICES ASSUME LInv, [Next]_vars PROVE LInv'  OBVIOUS
  <2>1. IInv'  BY StepIInv DEF LInv
  <2>2. ASSUME UNCHANGED <<sessions, requests, overtaken>> PROVE Room' /\ AdjustedWithinSession'
    BY <2>2, NothingCounted DEF Follows
  <2>3. UNCHANGED vars => Room' /\ AdjustedWithinSession'  BY <2>2 DEF vars
  <2>4. EditPlan \/ PublishPlan \/ (\E e \in Employees : ApproveWork(e))
          => Room' /\ AdjustedWithinSession'
    BY <2>2 DEF EditPlan, PublishPlan, ApproveWork
  <2>5. ASSUME NEW r \in Requests, BeginRequest(r) \/ EndRequest(r)
        PROVE  Room' /\ AdjustedWithinSession'
    BY <2>5, BeginKeepsLimit, EndKeepsLimit
  <2>6. Room' /\ AdjustedWithinSession'  BY <2>3, <2>4, <2>5 DEF Next
  <2> QED  BY <2>1, <2>6 DEF LInv
<1> QED  BY <1>1, <1>2, PTL DEF Spec

\* However many decisions are in flight, no session adjusts an employee's score more
\* often than the limit, unless two requests overlapped on the result.
THEOREM SessionsKeepTheLimit == Spec => []AdjustedWithinSession
<1>1. LInv => AdjustedWithinSession  BY DEF LInv
<1> QED  BY LInvariant, <1>1, PTL
=============================================================================
