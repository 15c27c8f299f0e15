----------------------------- MODULE RetryProofs ------------------------------
(***************************************************************************)
(* What is tried more than once: retried mutations, and deliveries.        *)
(*                                                                         *)
(* For any number of retries: whoever is given another request's answer    *)
(* asked for the same, and the mutation is made once, and once more only   *)
(* for each time the key was forgotten.  The argument counts the right to  *)
(* execute.  It is either free (no record), or held by a request that runs *)
(* or was refused, or spent by one whose mutation took effect; only        *)
(* forgetting the key makes a new one.                                     *)
(*                                                                         *)
(* For any subscriptions, events and attempts: a settled delivery is left  *)
(* alone, an event is accepted once and once more only for each fault, a   *)
(* call is an attempt, and a subscription is switched off for its own      *)
(* failures only.  The argument follows the sweep: nobody stands in line   *)
(* twice, so the rest of a batch is as the sweep read it, and only the     *)
(* delivery at hand has a call that is not written down yet.               *)
(***************************************************************************)
EXTENDS Idempotency, WebhookDelivery, FiniteSetTheorems, SequenceTheorems, TLAPS

-----------------------------------------------------------------------------
(* The key of a mutation.                                                  *)

\* Who holds, or has spent, the right to execute.
Holders == effect \cup {r \in Requests : at[r] \in {"RUN", "FAILED"}}
Rights == IF record = None THEN 1 ELSE 0

\* Where a request is tells whether its mutation is made.
Placed ==
    \A r \in Requests :
        /\ at[r] \in {"NEW", "LOOK", "RESERVE", "RACED", "RUN", "FAILED"} => r \notin effect
        /\ at[r] = "SUCCEEDED" => r \in effect

\* A record is nobody's exactly when there is none, and a stored answer is a success.
Recorded ==
    /\ record.by = Nobody <=> record.state = "NONE"
    /\ record.state = "COMPLETED" => record.by \in effect

Counted == Cardinality(Holders) + Rights <= 1 + forgotten

IInv == TypeOK /\ Placed /\ Recorded /\ ReplayIsTruthful /\ Counted

-----------------------------------------------------------------------------
USE IdempotencyAssumption

\* Holders are requests, hence finitely many.
LEMMA HoldersFinite ==
    ASSUME TypeOK
    PROVE  Holders \subseteq Requests /\ IsFiniteSet(Holders) /\ Cardinality(Holders) \in Nat
<1>1. Holders \subseteq Requests  BY DEF TypeOK, Holders
<1>2. IsFiniteSet(Holders)  BY <1>1, FS_Subset
<1> QED  BY <1>1, <1>2, FS_CardinalityType

\* A step in which no holder appears and no right is made keeps the count.
LEMMA NoNewHolder ==
    ASSUME TypeOK, TypeOK', Counted, Holders' \subseteq Holders,
           forgotten' + Rights >= forgotten + Rights'
    PROVE  Counted'
<1>1. IsFiniteSet(Holders) /\ Cardinality(Holders) \in Nat  BY HoldersFinite
<1>2. Cardinality(Holders') <= Cardinality(Holders) /\ Cardinality(Holders') \in Nat
  BY <1>1, FS_Subset, FS_CardinalityType
<1>3. Rights \in Nat /\ Rights' \in Nat /\ forgotten \in Nat /\ forgotten' \in Nat
  BY DEF TypeOK, Rights
<1>4. \A c, d, p, q, f, g \in Nat :
        c + p <= 1 + f /\ d <= c /\ g + p >= f + q => d + q <= 1 + g
  OBVIOUS
<1> HIDE DEF Holders, Rights
<1>5. /\ Cardinality(Holders) + Rights <= 1 + forgotten
      /\ forgotten' + Rights >= forgotten + Rights'
  BY DEF Counted
<1>6. Cardinality(Holders') + Rights' <= 1 + forgotten'
  BY <1>1, <1>2, <1>3, <1>4, <1>5
<1> QED  BY <1>6 DEF Counted

\* The invariant holds at the start: one right, nobody holds it.
LEMMA InitIInv == Init => IInv
<1> SUFFICES ASSUME Init PROVE IInv  OBVIOUS
<1>1. TypeOK  BY DEF Init, TypeOK, Records, None, Stages
<1>2. Placed /\ Recorded /\ ReplayIsTruthful
  BY DEF Init, Placed, Recorded, None, ReplayIsTruthful
<1>3. Holders = {}  BY DEF Init, Holders
<1>4. Counted  BY <1>3, FS_EmptySet DEF Init, Counted, Rights
<1> QED  BY <1>1, <1>2, <1>4 DEF IInv

\* Every step keeps the types.
LEMMA TypeStep == TypeOK /\ [Next]_vars => TypeOK'
<1> SUFFICES ASSUME TypeOK, [Next]_vars PROVE TypeOK'  OBVIOUS
<1> USE DEF TypeOK, Records, None, Stages, Goes, Works, Lapses, Forget
<1>1. ASSUME NEW r \in Requests, Arrive(r) PROVE TypeOK'  BY <1>1 DEF Arrive
<1>2. ASSUME NEW r \in Requests, GetRecord(r) PROVE TypeOK'
  BY <1>2 DEF GetRecord, ReplayOrThrow
<1>3. ASSUME NEW r \in Requests, Reserve(r) PROVE TypeOK'  BY <1>3 DEF Reserve, Free
<1>4. ASSUME NEW r \in Requests, Raced(r) PROVE TypeOK'
  BY <1>4 DEF Raced, ReplayOrThrow
<1>5. ASSUME NEW r \in Requests, Handle(r) PROVE TypeOK'  BY <1>5 DEF Handle
<1>6. ASSUME NEW r \in Requests, Finalize(r) PROVE TypeOK'
  BY <1>6 DEF Finalize, Save, Release
<1>7. ASSUME NEW r \in Requests, Send(r) PROVE TypeOK'  BY <1>7 DEF Send
<1>8. ASSUME NEW r \in Requests, Close(r) PROVE TypeOK'  BY <1>8 DEF Close, Release
<1>9. CASE Expire  BY <1>9 DEF Expire
<1>10. ASSUME NEW dead \in SUBSET Served, Die(dead) PROVE TypeOK'  BY <1>10 DEF Die
<1>11. CASE UNCHANGED vars  BY <1>11 DEF vars
<1> QED
  BY <1>1, <1>2, <1>3, <1>4, <1>5, <1>6, <1>7, <1>8, <1>9, <1>10, <1>11 DEF Next, Step

\* Every step keeps what the record and the places of the requests say, and the answers
\* given true.
LEMMA TruthStep ==
    TypeOK /\ Placed /\ Recorded /\ ReplayIsTruthful /\ [Next]_vars
      => Placed' /\ Recorded' /\ ReplayIsTruthful'
<1> SUFFICES ASSUME TypeOK, Placed, Recorded, ReplayIsTruthful, [Next]_vars
             PROVE Placed' /\ Recorded' /\ ReplayIsTruthful'
  OBVIOUS
<1> DEFINE Goal == Placed' /\ Recorded' /\ ReplayIsTruthful'
<1> USE DEF TypeOK, Records, None, Stages, Goes, Placed, Recorded, ReplayIsTruthful
<1>1. ASSUME NEW r \in Requests, Arrive(r) PROVE Goal  BY <1>1 DEF Arrive
<1>2. ASSUME NEW r \in Requests, GetRecord(r) PROVE Goal
  BY <1>2 DEF GetRecord, ReplayOrThrow, SameFingerprint
<1>3. ASSUME NEW r \in Requests, Reserve(r) PROVE Goal  BY <1>3 DEF Reserve, Free
<1>4. ASSUME NEW r \in Requests, Raced(r) PROVE Goal
  BY <1>4 DEF Raced, ReplayOrThrow, SameFingerprint
<1>5. ASSUME NEW r \in Requests, Handle(r) PROVE Goal  BY <1>5 DEF Handle
<1>6. ASSUME NEW r \in Requests, Finalize(r) PROVE Goal
  BY <1>6 DEF Finalize, Save, Release
<1>7. ASSUME NEW r \in Requests, Send(r) PROVE Goal  BY <1>7 DEF Send
<1>8. ASSUME NEW r \in Requests, Close(r) PROVE Goal  BY <1>8 DEF Close, Release
<1>9. CASE Expire  BY <1>9 DEF Expire
<1>10. ASSUME NEW dead \in SUBSET Served, Die(dead) PROVE Goal  BY <1>10 DEF Die
<1>11. CASE UNCHANGED vars  BY <1>11 DEF vars
<1> QED
  BY <1>1, <1>2, <1>3, <1>4, <1>5, <1>6, <1>7, <1>8, <1>9, <1>10, <1>11 DEF Next, Step

\* Every step keeps the count of rights.
LEMMA CountStep ==
    TypeOK /\ TypeOK' /\ Placed /\ Recorded /\ Counted /\ [Next]_vars => Counted'
<1> SUFFICES ASSUME TypeOK, TypeOK', Placed, Recorded, Counted, [Next]_vars PROVE Counted'
  OBVIOUS
<1> DEFINE Quiet == /\ Holders' \subseteq Holders
                    /\ forgotten' + Rights >= forgotten + Rights'
<1>0. Quiet => Counted'  BY NoNewHolder
<1>a. forgotten \in Nat /\ forgotten' \in Nat  BY DEF TypeOK
<1>1. ASSUME NEW r \in Requests, Arrive(r) \/ Send(r) PROVE Quiet
  <2>1. Holders' \subseteq Holders  BY <1>1 DEF Arrive, Send, Goes, Holders, TypeOK
  <2>2. forgotten' = forgotten /\ record' = record  BY <1>1 DEF Arrive, Send
  <2>3. Rights' = Rights /\ Rights \in Nat  BY <2>2 DEF Rights
  <2> QED  BY <1>a, <2>1, <2>2, <2>3
<1>2. ASSUME NEW r \in Requests, GetRecord(r) \/ Raced(r) PROVE Quiet
  <2>1. Holders' \subseteq Holders
    BY <1>2 DEF GetRecord, Raced, ReplayOrThrow, Goes, Holders, TypeOK
  <2>2. forgotten' = forgotten /\ record' = record  BY <1>2 DEF GetRecord, Raced
  <2>3. Rights' = Rights /\ Rights \in Nat  BY <2>2 DEF Rights
  <2> QED  BY <1>a, <2>1, <2>2, <2>3
<1>3. ASSUME NEW r \in Requests, Reserve(r) PROVE Counted'
  <2>1. CASE at'[r] = "RUN"
    <3>1. record = None /\ record' # None /\ forgotten' = forgotten
      BY <1>3, <2>1 DEF Reserve, Goes, Free, None, TypeOK
    <3>2. r \notin Holders  BY <1>3 DEF Reserve, Goes, Holders, Placed
    <3>3. Holders' = Holders \cup {r}
      BY <1>3, <2>1 DEF Reserve, Goes, Holders, TypeOK
    <3>4. Cardinality(Holders') = Cardinality(Holders) + 1
      BY <3>2, <3>3, HoldersFinite, FS_AddElement
    <3> QED  BY <3>1, <3>4, <1>a, HoldersFinite DEF Counted, Rights
  <2>2. CASE at'[r] # "RUN"
    <3>1. Holders' \subseteq Holders
      BY <1>3, <2>2 DEF Reserve, Goes, Holders, TypeOK
    <3>2. forgotten' = forgotten /\ (record' = None => record = None)
      BY <1>3, <2>2 DEF Reserve, Goes, Free, None, TypeOK
    <3> QED  BY <1>0, <1>a, <3>1, <3>2 DEF Rights
  <2> QED  BY <2>1, <2>2
<1>4. ASSUME NEW r \in Requests, Handle(r) PROVE Quiet
  <2>1. Holders' \subseteq Holders  BY <1>4 DEF Handle, Goes, Holders, TypeOK
  <2>2. forgotten' = forgotten /\ record' = record  BY <1>4 DEF Handle
  <2>3. Rights' = Rights /\ Rights \in Nat  BY <2>2 DEF Rights
  <2> QED  BY <1>a, <2>1, <2>2, <2>3
<1>5. ASSUME NEW r \in Requests, Finalize(r) PROVE Counted'
  <2>1. CASE at[r] = "SUCCEEDED"
    <3>1. Holders' \subseteq Holders
      BY <1>5, <2>1 DEF Finalize, Goes, Holders, TypeOK
    <3>2. forgotten' = forgotten /\ (record' = None => record = None)
      BY <1>5, <2>1 DEF Finalize, Goes, Save, None
    <3> QED  BY <1>0, <1>a, <3>1, <3>2 DEF Rights
  <2>2. CASE at[r] = "FAILED"
    <3>1. r \in Holders /\ Holders' = Holders \ {r}
      BY <1>5, <2>2 DEF Finalize, Goes, Holders, Placed, TypeOK
    <3>2. Cardinality(Holders') = Cardinality(Holders) - 1
      BY <3>1, HoldersFinite, FS_RemoveElement
    <3>3. forgotten' = forgotten  BY <1>5 DEF Finalize
    <3>4. Rights \in 0..1 /\ Rights' \in 0..1  BY DEF Rights
    <3> HIDE DEF Holders, Rights
    <3> QED  BY <3>2, <3>3, <3>4, <1>a, HoldersFinite DEF Counted
  <2> QED  BY <1>5, <2>1, <2>2 DEF Finalize, Goes
<1>6. ASSUME NEW r \in Requests, Close(r) PROVE Quiet
  <2>1. Holders' \subseteq Holders  BY <1>6 DEF Close, Holders
  <2> QED  BY <1>6, <1>a, <2>1 DEF Close, Forget, Rights
<1>7. ASSUME Expire PROVE Quiet
  <2>1. Holders' \subseteq Holders  BY <1>7 DEF Expire, Holders
  <2> QED  BY <1>7, <1>a, <2>1 DEF Expire, Forget, Rights
<1>8. ASSUME NEW dead \in SUBSET Served, Die(dead) PROVE Quiet
  <2>1. Holders' \subseteq Holders  BY <1>8 DEF Die, Holders, TypeOK
  <2>2. \/ Rights' = Rights /\ forgotten' = forgotten
        \/ forgotten' = forgotten + 1
    BY <1>8 DEF Die, Forget, Rights
  <2>3. Rights \in {0, 1} /\ Rights' \in {0, 1}  BY DEF Rights
  <2>4. \A p, q \in {0, 1}, f, g \in Nat :
          (q = p /\ g = f) \/ g = f + 1 => g + p >= f + q
    OBVIOUS
  <2>5. forgotten' + Rights >= forgotten + Rights'
    <3> HIDE DEF Rights
    <3> QED  BY <1>a, <2>2, <2>3, <2>4
  <2> QED  BY <2>1, <2>5
<1>9. ASSUME UNCHANGED vars PROVE Quiet  BY <1>9, <1>a DEF vars, Holders, Rights
<1> QED
  BY <1>0, <1>1, <1>2, <1>3, <1>4, <1>5, <1>6, <1>7, <1>8, <1>9 DEF Next, Step

\* The invariant is inductive.
LEMMA IInvariant == Spec => []IInv
<1>1. IInv /\ [Next]_vars => IInv'
  BY TypeStep, TruthStep, CountStep DEF IInv
<1> QED  BY InitIInv, <1>1, PTL DEF Spec

-----------------------------------------------------------------------------
\* The record, the places of the requests and what they hold stay of their types.
THEOREM KeyTypeCorrect == Spec => []TypeOK
<1>1. IInv => TypeOK  BY DEF IInv
<1> QED  BY IInvariant, <1>1, PTL

\* "Supplying the same key with a different payload fails with 409": no request is ever
\* answered with what another payload brought about, nor with a refusal or an attempt
\* that was rolled back.
THEOREM ReplaysAreTruthful == Spec => []ReplayIsTruthful
<1>1. IInv => ReplayIsTruthful  BY DEF IInv
<1> QED  BY IInvariant, <1>1, PTL

\* The mutation behind a key is made once, and once more only for each hang-up, expiry
\* or restart of a process that kept its records in memory; failures of Redis and the
\* death of one process among several never add an execution.
THEOREM MutationIsMadeOnce == Spec => []ExecutedOnce
<1>1. IInv => ExecutedOnce
  <2> SUFFICES ASSUME IInv PROVE ExecutedOnce  OBVIOUS
  <2>1. IsFiniteSet(Holders) /\ Cardinality(Holders) \in Nat  BY HoldersFinite DEF IInv
  <2>2. Cardinality(effect) <= Cardinality(Holders) /\ Cardinality(effect) \in Nat
    BY <2>1, FS_Subset, FS_CardinalityType DEF Holders
  <2>3. Rights \in Nat /\ forgotten \in Nat  BY DEF IInv, TypeOK, Rights
  <2> HIDE DEF Rights, Holders
  <2> QED  BY <2>1, <2>2, <2>3 DEF IInv, Counted, ExecutedOnce
<1> QED  BY IInvariant, <1>1, PTL

-----------------------------------------------------------------------------
(* The line of due deliveries: nobody stands in it twice.                  *)
HIDE IdempotencyAssumption

InLine(s, e) == \E i \in DOMAIN s : s[i] = e

LEMMA RemovedFromLine ==
    ASSUME NEW S, NEW s \in Seq(S), IsInjective(s), NEW e
    PROVE  /\ RemoveFirst(s, e) \in Seq(S) /\ IsInjective(RemoveFirst(s, e))
           /\ \A x : InLine(RemoveFirst(s, e), x) => InLine(s, x) /\ x # e
<1>1. CASE \E i \in 1..Len(s) : s[i] = e
  <2>1. PICK k \in 1..Len(s) : s[k] = e
    BY <1>1
  <2>2. {i \in 1..Len(s) : s[i] = e} = {k}
    BY <2>1 DEF IsInjective
  <2>3. SelectInSeq(s, LAMBDA v : v = e) = k
    <3>1. Min({k}) = k
      BY <2>1 DEF Min
    <3> QED BY <2>2, <3>1 DEF SelectInSeq
  <2> DEFINE a == SubSeq(s, 1, k - 1)
             b == SubSeq(s, k + 1, Len(s))
             r == a \o b
  <2>4. RemoveFirst(s, e) = r
    BY <1>1, <2>3 DEF RemoveFirst, RemoveAt
  <2>5. a \in Seq(S) /\ Len(a) = k - 1 /\ \A i \in 1..(k - 1) : a[i] = s[i]
    BY <2>1, SubSeqProperties
  <2>6. b \in Seq(S) /\ Len(b) = Len(s) - k /\ \A i \in 1..(Len(s) - k) : b[i] = s[k + i]
    BY <2>1, SubSeqProperties
  <2> HIDE DEF a, b
  <2>7. /\ r \in Seq(S) /\ Len(r) = Len(s) - 1
        /\ \A i \in 1..Len(r) : r[i] = IF i < k THEN s[i] ELSE s[i + 1]
    <3>1. r \in Seq(S) /\ Len(r) = Len(s) - 1
      BY <2>1, <2>5, <2>6, ConcatProperties
    <3>2. \A i \in 1..Len(r) : r[i] = IF i <= Len(a) THEN a[i] ELSE b[i - Len(a)]
      BY <2>1, <2>5, <2>6, ConcatProperties
    <3> QED BY <2>1, <2>5, <2>6, <3>1, <3>2
  <2> HIDE DEF r
  <2>8. IsInjective(r)
    BY <2>1, <2>7 DEF IsInjective
  <2>9. \A x : InLine(r, x) => InLine(s, x) /\ x # e
    BY <2>1, <2>7 DEF IsInjective, InLine
  <2> QED BY <2>4, <2>7, <2>8, <2>9
<1>2. CASE ~\E i \in 1..Len(s) : s[i] = e
  BY <1>2 DEF RemoveFirst, InLine
<1> QED BY <1>1, <1>2

LEMMA AddedToLine ==
    ASSUME NEW S, NEW s \in Seq(S), IsInjective(s), NEW r \in Seq(S), IsInjective(r),
           \A x : ~(InLine(s, x) /\ InLine(r, x))
    PROVE  /\ s \o r \in Seq(S) /\ IsInjective(s \o r)
           /\ \A x : InLine(s \o r, x) => InLine(s, x) \/ InLine(r, x)
<1> DEFINE q == s \o r
<1>1. /\ q \in Seq(S) /\ Len(q) = Len(s) + Len(r)
      /\ \A i \in 1..Len(q) : q[i] = IF i <= Len(s) THEN s[i] ELSE r[i - Len(s)]
  BY ConcatProperties
<1> HIDE DEF q
<1>2. \A i \in 1..Len(q) : \/ i \in 1..Len(s) /\ q[i] = s[i]
                           \/ i - Len(s) \in 1..Len(r) /\ q[i] = r[i - Len(s)]
  BY <1>1
<1>3. ASSUME NEW i \in 1..Len(q), NEW j \in 1..Len(q), q[i] = q[j]
      PROVE  i = j
  <2>1. CASE i <= Len(s) /\ j <= Len(s)
    BY <1>1, <1>3, <2>1 DEF IsInjective
  <2>2. CASE i > Len(s) /\ j > Len(s)
    <3>1. i - Len(s) \in DOMAIN r /\ j - Len(s) \in DOMAIN r
      BY <1>1, <2>2
    <3>2. r[i - Len(s)] = r[j - Len(s)]
      BY <1>1, <1>3, <2>2
    <3>3. i - Len(s) = j - Len(s)
      BY <3>1, <3>2 DEF IsInjective
    <3> QED BY <3>3
  <2>3. CASE (i <= Len(s)) # (j <= Len(s))
    <3>1. InLine(s, q[i]) /\ InLine(r, q[i])
      BY <1>1, <1>2, <1>3, <2>3 DEF InLine
    <3> QED BY <3>1
  <2> QED BY <1>1, <2>1, <2>2, <2>3
<1>4. \A x : InLine(q, x) => InLine(s, x) \/ InLine(r, x)
  BY <1>1, <1>2 DEF InLine
<1>5. IsInjective(q)
  BY <1>1, <1>3 DEF IsInjective
<1> QED BY <1>1, <1>4, <1>5 DEF q

LEMMA NewRowsLine ==
    ASSUME NEW S, IsFiniteSet(S), NEW r \in SetToSeqs(S)
    PROVE  r \in Seq(S) /\ IsInjective(r) /\ \A x : InLine(r, x) => x \in S
<1>1. Cardinality(S) \in Nat
  BY FS_CardinalityType
<1>2. r \in [1..Cardinality(S) -> S] /\ \A i, j \in 1..Cardinality(S) : i # j => r[i] # r[j]
  BY DEF SetToSeqs
<1>3. r \in Seq(S)
  BY <1>1, <1>2
<1> QED BY <1>2, <1>3 DEF IsInjective, InLine

-----------------------------------------------------------------------------
(* What the sweep has read, and what it has yet to write.                  *)

Waiting(d) == delivery[d].status \in {"PENDING", "FAILED"}

\* A delivery as its entry read it, as a recorded failure leaves it, and as a success
\* does of which the sweep has not heard.
Untouched(t) == Waiting(t.to) /\ delivery[t.to].attempts = t.attempts
Noted(t) ==
    delivery[t.to] = [status |-> IF Exhausted(t.attempts + 1) THEN "DEAD" ELSE "FAILED",
                      attempts |-> t.attempts + 1]
Unheard(t) ==
    /\ sweep.caught
    /\ delivery[t.to] = [status |-> "SENT", attempts |-> t.attempts + 1]

\* Who is due waits, and who waits has an attempt left.
Line ==
    /\ \A d \in Deliveries : InLine(line, d) => Waiting(d)
    /\ \A d \in Deliveries : /\ Waiting(d) => delivery[d].attempts < MaxAttempts
                             /\ delivery[d].status = "NONE" => delivery[d].attempts = 0

\* The rest of the batch is as it was read; the delivery at hand is so until its
\* failure is recorded.
Batch ==
    /\ \A i, j \in DOMAIN sweep.todo : sweep.todo[i].to = sweep.todo[j].to => i = j
    /\ \A i \in DOMAIN sweep.todo : i > 1 => Untouched(sweep.todo[i])
    /\ sweep.todo = <<>> => sweep.stage = "NEXT"
    /\ sweep.todo # <<>> =>
         /\ sweep.stage \in {"NEXT", "ACCEPTED"} => Untouched(Now)
         /\ sweep.stage = "REFUSED" => Untouched(Now) \/ Noted(Now) \/ Unheard(Now)
         /\ sweep.stage \in {"COUNT", "SWITCH_OFF"} => Noted(Now)

\* The delivery whose call is made and not recorded.
Calling(d) == sweep.todo # <<>> /\ Now.to = d /\ sweep.stage \in {"ACCEPTED", "REFUSED"}
Made(d) == IF Calling(d) THEN Now.attempts + 1 ELSE delivery[d].attempts
Accepts(d) == \/ delivery[d].status = "SENT" /\ ~Unacknowledged(d)
              \/ Calling(d) /\ sweep.stage = "ACCEPTED"
\* Calls and acceptances, up to the ones that faults made forget.
Calls ==
    \A d \in Deliveries :
       /\ delivery[d].attempts <= customer[d].calls
       /\ Made(d) <= customer[d].calls /\ customer[d].calls <= Made(d) + faults
       /\ customer[d].accepted <= faults + (IF Accepts(d) THEN 1 ELSE 0)
       /\ Accepts(d) \/ delivery[d].status = "SENT" => customer[d].accepted > 0

\* The counter of failures never runs ahead of the failures in a row.
Streaks ==
    /\ \A s \in Subscriptions : subscription[s].failures <= streak[s] + faults
    /\ sweep.stage \in {"REFUSED", "COUNT"} =>
         subscription[Of(Now.to)].failures + 1 <= streak[Of(Now.to)] + faults
    /\ sweep.stage = "SWITCH_OFF" => streak[Of(Now.to)] + faults >= FailureLimit

-----------------------------------------------------------------------------
(* Types, and who stands in line.                                          *)

LineInv == WebhookTypeOK /\ Line
DeliveryRows == [status : DeliveryStatus, attempts : 0..MaxAttempts]
SweepStates == [todo : Seq(Entries), stage : SweepStages, caught : BOOLEAN]

LEMMA NowType ==
    ASSUME WebhookTypeOK, sweep.todo # <<>>
    PROVE  /\ Now \in Entries /\ Now.to \in Deliveries /\ Of(Now.to) \in Subscriptions
           /\ Now.attempts \in Nat /\ Now.attempts + 1 \in 1..MaxAttempts
           /\ Tail(sweep.todo) \in Seq(Entries)
           /\ Len(sweep.todo) \in Nat \ {0} /\ Now = sweep.todo[1]
           /\ Len(Tail(sweep.todo)) = Len(sweep.todo) - 1
           /\ \A i \in 1..(Len(sweep.todo) - 1) : Tail(sweep.todo)[i] = sweep.todo[i + 1]
<1>1. sweep.todo \in Seq(Entries)
  BY DEF WebhookTypeOK
<1> DEFINE s == sweep.todo
<1>2. /\ s # <<>> /\ s \in Seq(Entries)
  BY <1>1
<1> HIDE DEF s
<1>3. /\ Head(s) \in Entries /\ Tail(s) \in Seq(Entries) /\ Head(s) = s[1]
      /\ Len(s) \in Nat \ {0} /\ Len(Tail(s)) = Len(s) - 1
      /\ \A i \in 1..(Len(s) - 1) : Tail(s)[i] = s[i + 1]
  BY <1>2
<1>4. Now \in Entries
  BY <1>3 DEF Now, s
<1>5. /\ Now.to \in Deliveries /\ Now.attempts \in 0..(MaxAttempts - 1)
  BY <1>4 DEF Entries
<1>6. MaxAttempts \in Nat
  BY WebhookAssumption
<1> QED BY <1>3, <1>4, <1>5, <1>6 DEF Now, s, Deliveries, Of

LEMMA WriteType ==
    ASSUME LineInv, NEW d \in Deliveries, NEW status \in {"SENT", "FAILED", "DEAD"},
           NEW n \in 0..MaxAttempts, status = "FAILED" => n < MaxAttempts,
           Write(d, status, n)
    PROVE  /\ delivery' \in [Deliveries -> DeliveryRows]
           /\ line' \in Seq(Deliveries) /\ IsInjective(line') /\ Line'
<1>1. [status |-> status, attempts |-> n] \in DeliveryRows
  BY DEF DeliveryRows, DeliveryStatus
<1>2. delivery \in [Deliveries -> DeliveryRows]
  BY DEF LineInv, WebhookTypeOK, DeliveryRows
<1>3. delivery' \in [Deliveries -> DeliveryRows]
  BY <1>1, <1>2 DEF Write
<1>4. /\ line' = RemoveFirst(line, d) /\ line \in Seq(Deliveries) /\ IsInjective(line)
  BY DEF LineInv, WebhookTypeOK, Write, Left
<1>5. /\ line' \in Seq(Deliveries) /\ IsInjective(line')
      /\ \A x : InLine(line', x) => InLine(line, x) /\ x # d
  BY <1>4, RemovedFromLine
<1>6. \A x \in Deliveries : delivery'[x] = IF x = d THEN [status |-> status, attempts |-> n]
                                                     ELSE delivery[x]
  BY <1>2 DEF Write
<1>7. Line'
  BY <1>5, <1>6 DEF LineInv, Line, Waiting
<1> QED BY <1>3, <1>5, <1>7

LEMMA StageTypes ==
    ASSUME WebhookTypeOK, NEW stage \in SweepStages, NEW b \in BOOLEAN
    PROVE  /\ [sweep EXCEPT !.stage = stage] \in SweepStates
           /\ [sweep EXCEPT !.stage = stage, !.caught = b] \in SweepStates
           /\ Idle \in SweepStates
           /\ sweep.todo # <<>> => Next1 \in SweepStates
<1>1. sweep \in SweepStates
  BY DEF WebhookTypeOK, SweepStates
<1>2. <<>> \in Seq(Entries)
  OBVIOUS
<1>3. Idle \in SweepStates
  BY <1>2 DEF Idle, SweepStates, SweepStages
<1>4. ASSUME sweep.todo # <<>> PROVE Next1 \in SweepStates
  <2>1. Tail(sweep.todo) \in Seq(Entries)
    BY <1>4, NowType
  <2> QED BY <2>1 DEF Next1, Idle, SweepStates, SweepStages
<1> QED BY <1>1, <1>3, <1>4 DEF SweepStates

LEMMA SweepReadType ==
    ASSUME LineInv, SweepRead
    PROVE  /\ sweep' \in SweepStates /\ sweep'.stage = "NEXT"
           /\ \A i \in DOMAIN sweep'.todo :
                /\ i \in DOMAIN line /\ sweep'.todo[i].to = line[i]
                /\ sweep'.todo[i].attempts = delivery[line[i]].attempts
<1>1. line \in Seq(Deliveries) /\ Len(line) \in Nat /\ BatchSize \in Nat
  BY WebhookAssumption DEF LineInv, WebhookTypeOK
<1>2. PICK n \in 1..Min({BatchSize, Len(line)}) : sweep' = [Idle EXCEPT !.todo = BatchRead(n)]
  BY DEF SweepRead
<1>3. n \in Nat /\ n <= Len(line)
  BY <1>1, <1>2 DEF Min
<1>4. ASSUME NEW i \in 1..n
      PROVE  [to |-> line[i], attempts |-> delivery[line[i]].attempts,
              on |-> subscription[Of(line[i])].state = "ON"] \in Entries
  <2>1. line[i] \in Deliveries /\ InLine(line, line[i])
    BY <1>1, <1>3 DEF InLine
  <2>2. delivery[line[i]].attempts \in 0..MaxAttempts /\ delivery[line[i]].attempts < MaxAttempts
    BY <2>1 DEF LineInv, Line, WebhookTypeOK
  <2>3. delivery[line[i]].attempts \in 0..(MaxAttempts - 1)
    BY <2>2, WebhookAssumption
  <2> QED BY <2>1, <2>3 DEF Entries
<1> DEFINE todo == BatchRead(n)
<1>5. /\ todo \in Seq(Entries)
      /\ \A i \in DOMAIN todo : /\ i \in DOMAIN line /\ todo[i].to = line[i]
                               /\ todo[i].attempts = delivery[line[i]].attempts
  BY <1>1, <1>3, <1>4 DEF BatchRead
<1>6. sweep' = [Idle EXCEPT !.todo = todo]
  BY <1>2
<1> HIDE DEF todo
<1> QED BY <1>5, <1>6 DEF SweepStates, Idle, SweepStages

SubscriptionRows == [state : {"NONE", "ON", "OFF", "AUTO", "GONE"},
                     events : SUBSET Events, failures : Nat]

LEMMA CreateDeliveriesType ==
    ASSUME LineInv, NEW e \in Events, CreateDeliveries(e)
    PROVE  LineInv'
<1>1. targets[e] \in SUBSET Subscriptions /\ line \in Seq(Deliveries) /\ IsInjective(line)
  BY DEF LineInv, WebhookTypeOK
<1>2. NewRows(e) \in SUBSET Deliveries /\ IsFiniteSet(NewRows(e))
  <2>1. IsFiniteSet(targets[e])
    BY <1>1, WebhookAssumption, FS_Subset
  <2>2. IsFiniteSet(targets[e] \X {e})
    BY <2>1, FS_Singleton, FS_Product
  <2>3. NewRows(e) \in SUBSET (targets[e] \X {e})
    BY DEF NewRows
  <2> QED BY <1>1, <2>2, <2>3, FS_Subset DEF Deliveries
<1>3. PICK rows \in SetToSeqs(NewRows(e)) : line' = line \o rows
  BY DEF CreateDeliveries
<1>4. /\ rows \in Seq(NewRows(e)) /\ IsInjective(rows)
      /\ \A x : InLine(rows, x) => x \in NewRows(e)
  BY <1>2, NewRowsLine
<1>5. rows \in Seq(Deliveries)
  BY <1>2, <1>4
<1>6. \A x : ~(InLine(line, x) /\ InLine(rows, x))
  BY <1>2, <1>4 DEF NewRows, LineInv, Line, Waiting
<1>7. /\ line' \in Seq(Deliveries) /\ IsInjective(line')
      /\ \A x : InLine(line', x) => InLine(line, x) \/ x \in NewRows(e)
  BY <1>1, <1>3, <1>4, <1>5, <1>6, AddedToLine
<1>8. \A d \in Deliveries :
        /\ d \notin NewRows(e) => delivery'[d] = delivery[d]
        /\ d \in NewRows(e) => delivery'[d] = [delivery[d] EXCEPT !.status = "PENDING"]
  BY DEF CreateDeliveries
<1>9. \A d \in Deliveries : /\ delivery[d] \in DeliveryRows
                           /\ [delivery[d] EXCEPT !.status = "PENDING"] \in DeliveryRows
                           /\ [delivery[d] EXCEPT !.status = "PENDING"].status = "PENDING"
                           /\ [delivery[d] EXCEPT !.status = "PENDING"].attempts
                              = delivery[d].attempts
  BY DEF LineInv, WebhookTypeOK, DeliveryRows, DeliveryStatus
<1>10. /\ delivery' \in [Deliveries -> DeliveryRows]
       /\ \A d \in NewRows(e) : delivery'[d].status = "PENDING" /\ delivery'[d].attempts = 0
  <2>1. \A d \in NewRows(e) : delivery[d].attempts = 0
    BY <1>2 DEF NewRows, LineInv, Line
  <2> QED BY <1>2, <1>8, <1>9, <2>1 DEF CreateDeliveries
<1>11. Line'
  <2>1. MaxAttempts > 0
    BY WebhookAssumption
  <2> QED BY <1>2, <1>7, <1>8, <1>10, <2>1 DEF Line, LineInv, Waiting
<1>12. WebhookTypeOK'
  BY <1>7, <1>10 DEF CreateDeliveries, JobStep, LineInv, WebhookTypeOK, DeliveryRows
<1> QED BY <1>11, <1>12 DEF LineInv

LEMMA BackoffType ==
    ASSUME LineInv, NEW d \in Deliveries, BackoffElapses(d)
    PROVE  LineInv'
<1>1. line \in Seq(Deliveries) /\ IsInjective(line) /\ <<d>> \in Seq(Deliveries)
  BY DEF LineInv, WebhookTypeOK
<1>2. line' = line \o <<d>>
  BY <1>1 DEF BackoffElapses
<1>3. IsInjective(<<d>>) /\ \A x : InLine(<<d>>, x) => x = d
  BY DEF IsInjective, InLine
<1>4. ~InLine(line, d)
  BY <1>1 DEF BackoffElapses, Contains, InLine
<1>5. /\ line' \in Seq(Deliveries) /\ IsInjective(line')
      /\ \A x : InLine(line', x) => InLine(line, x) \/ x = d
  <2>1. \A x : ~(InLine(line, x) /\ InLine(<<d>>, x))
    BY <1>3, <1>4
  <2> QED BY <1>1, <1>2, <1>3, <2>1, AddedToLine
<1>6. Line'
  BY <1>5 DEF BackoffElapses, Retried, LineInv, Line, Waiting
<1> QED BY <1>5, <1>6 DEF BackoffElapses, jobs, LineInv, WebhookTypeOK

\* Administrators and the steps of a fan-out before its insert.
LEMMA OutsideType ==
    ASSUME LineInv,
           \/ \E s \in Subscriptions :
                \/ \E selection \in Selections : Create(s, selection) \/ UpdateEvents(s, selection)
                \/ Enable(s) \/ Disable(s) \/ Delete(s)
           \/ \E e \in Events : Publish(e) \/ ClaimInbox(e) \/ ReadSubscriptions(e) \/ JobFails(e)
    PROVE  LineInv'
<1>1. ASSUME UNCHANGED <<delivery, line>> PROVE Line'
  BY <1>1 DEF LineInv, Line, Waiting
<1>2. ASSUME NEW s \in Subscriptions, NEW r \in SubscriptionRows, Administer(s, r)
      PROVE  LineInv'
  <2>1. subscription' \in [Subscriptions -> SubscriptionRows]
    BY <1>2 DEF Administer, LineInv, WebhookTypeOK, SubscriptionRows
  <2> QED
    BY <1>1, <1>2, <2>1 DEF Administer, jobs, LineInv, WebhookTypeOK, SubscriptionRows
<1>3. ASSUME NEW s \in Subscriptions, NEW selection \in Selections,
             Create(s, selection) \/ UpdateEvents(s, selection)
      PROVE  LineInv'
  <2>1. selection \in SUBSET Events /\ subscription[s] \in SubscriptionRows
    BY WebhookAssumption DEF LineInv, WebhookTypeOK, SubscriptionRows
  <2>2. /\ [state |-> "ON", events |-> selection, failures |-> 0] \in SubscriptionRows
        /\ [subscription[s] EXCEPT !.events = selection] \in SubscriptionRows
    BY <2>1 DEF SubscriptionRows
  <2> QED BY <1>2, <1>3, <2>2 DEF Create, UpdateEvents
<1>4. ASSUME NEW s \in Subscriptions, Enable(s) \/ Disable(s) \/ Delete(s)
      PROVE  LineInv'
  <2>1. subscription[s] \in SubscriptionRows
    BY DEF LineInv, WebhookTypeOK, SubscriptionRows
  <2>2. /\ [subscription[s] EXCEPT !.state = "ON", !.failures = 0] \in SubscriptionRows
        /\ [subscription[s] EXCEPT !.state = "OFF"] \in SubscriptionRows
        /\ [subscription[s] EXCEPT !.state = "GONE"] \in SubscriptionRows
    BY <2>1 DEF SubscriptionRows
  <2> QED BY <1>2, <1>4, <2>2 DEF Enable, Disable, Delete
<1>5. ASSUME NEW e \in Events, Publish(e) \/ ClaimInbox(e) PROVE LineInv'
  BY <1>1, <1>5 DEF Publish, ClaimInbox, JobStep, LineInv, WebhookTypeOK
<1>6. ASSUME NEW e \in Events, ReadSubscriptions(e) PROVE LineInv'
  <2>1. Interested(e) \in SUBSET Subscriptions
    BY DEF Interested
  <2> QED BY <1>1, <1>6, <2>1 DEF ReadSubscriptions, JobStep, LineInv, WebhookTypeOK
<1>7. ASSUME NEW e \in Events, JobFails(e) PROVE LineInv'
  <2>1. faults' \in 0..MaxFaults
    BY <1>7, WebhookAssumption DEF JobFails, LineInv, WebhookTypeOK
  <2> QED BY <1>1, <1>7, <2>1 DEF JobFails, JobStep, LineInv, WebhookTypeOK
<1> QED BY <1>3, <1>4, <1>5, <1>6, <1>7

\* What the sweep writes besides its deliveries.
LEMMA SubscriptionTypes ==
    ASSUME WebhookTypeOK, NEW s \in Subscriptions, NEW n \in Nat,
           NEW state \in {"NONE", "ON", "OFF", "AUTO", "GONE"}
    PROVE  /\ [subscription EXCEPT ![s].failures = n] \in [Subscriptions -> SubscriptionRows]
           /\ [subscription EXCEPT ![s].state = state] \in [Subscriptions -> SubscriptionRows]
           /\ subscription[s].failures \in Nat /\ streak[s] \in Nat
           /\ [streak EXCEPT ![s] = n] \in [Subscriptions -> Nat]
<1>1. subscription \in [Subscriptions -> SubscriptionRows]
  BY DEF WebhookTypeOK, SubscriptionRows
<1>2. /\ [subscription[s] EXCEPT !.failures = n] \in SubscriptionRows
      /\ [subscription[s] EXCEPT !.state = state] \in SubscriptionRows
  BY <1>1 DEF SubscriptionRows
<1> QED BY <1>1, <1>2 DEF SubscriptionRows, WebhookTypeOK

LEMMA PostType ==
    ASSUME LineInv, Post
    PROVE  LineInv'
<1>1. Now.to \in Deliveries /\ Of(Now.to) \in Subscriptions
  BY NowType DEF Post, At, LineInv
<1>2. faults' \in 0..MaxFaults
  <2>1. faults' = faults \/ (faults < MaxFaults /\ faults' = faults + 1)
    BY DEF Post
  <2> QED BY <2>1, WebhookAssumption DEF LineInv, WebhookTypeOK
<1>3. sweep' \in SweepStates
  BY StageTypes DEF Post, Taken, Refused, LineInv, SweepStages
<1>4. customer' \in [Deliveries -> [calls : Nat, accepted : Nat]]
  <2>1. customer[Now.to] \in [calls : Nat, accepted : Nat]
    BY <1>1 DEF LineInv, WebhookTypeOK
  <2>2. /\ [customer[Now.to] EXCEPT !.calls = @ + 1] \in [calls : Nat, accepted : Nat]
        /\ [calls |-> customer[Now.to].calls + 1, accepted |-> customer[Now.to].accepted + 1]
           \in [calls : Nat, accepted : Nat]
    BY <2>1
  <2> QED BY <1>1, <2>2 DEF Post, Taken, Refused, LineInv, WebhookTypeOK
<1>5. streak' \in [Subscriptions -> Nat]
  <2>1. streak[Of(Now.to)] + 1 \in Nat
    BY <1>1 DEF LineInv, WebhookTypeOK
  <2> QED BY <1>1, <2>1 DEF Post, Tried, LineInv, WebhookTypeOK
<1>6. Line'
  BY DEF Post, LineInv, Line, Waiting
<1> QED
  BY <1>2, <1>3, <1>4, <1>5, <1>6 DEF Post, jobs, LineInv, WebhookTypeOK, SweepStates

\* The four statements that record a call.
LEMMA StatementTypes ==
    ASSUME LineInv, sweep.todo # <<>>, WriteSent \/ WriteFailed \/ WriteCount \/ WriteOff
    PROVE  /\ delivery' \in [Deliveries -> DeliveryRows]
           /\ line' \in Seq(Deliveries) /\ IsInjective(line') /\ Line'
           /\ subscription' \in [Subscriptions -> SubscriptionRows]
           /\ streak' \in [Subscriptions -> Nat]
<1>1. /\ WebhookTypeOK /\ Now.to \in Deliveries /\ Of(Now.to) \in Subscriptions
      /\ Now.attempts + 1 \in 0..MaxAttempts /\ MaxAttempts \in Nat \ {0}
  BY NowType, WebhookAssumption DEF LineInv
<1>2. /\ delivery \in [Deliveries -> DeliveryRows] /\ line \in Seq(Deliveries)
      /\ IsInjective(line) /\ Line
      /\ subscription \in [Subscriptions -> SubscriptionRows] /\ streak \in [Subscriptions -> Nat]
  BY DEF LineInv, WebhookTypeOK, DeliveryRows, SubscriptionRows
<1>3. UNCHANGED <<delivery, line>> => Line'
  BY <1>2 DEF Line, Waiting
<1>4. CASE WriteSent
  <2>1. /\ delivery' \in [Deliveries -> DeliveryRows]
        /\ line' \in Seq(Deliveries) /\ IsInjective(line') /\ Line'
    BY <1>1, <1>4, WriteType DEF WriteSent, SentStatus
  <2> QED BY <1>1, <1>4, <2>1, SubscriptionTypes DEF WriteSent, FailuresAfterSuccess
<1>5. CASE WriteFailed
  <2>1. ~Exhausted(Now.attempts + 1) => Now.attempts + 1 < MaxAttempts
    BY <1>1 DEF Exhausted
  <2>2. /\ delivery' \in [Deliveries -> DeliveryRows]
        /\ line' \in Seq(Deliveries) /\ IsInjective(line') /\ Line'
    BY <1>1, <1>5, <2>1, WriteType DEF WriteFailed
  <2> QED BY <1>2, <1>5, <2>2 DEF WriteFailed
<1>6. CASE WriteCount
  <2>1. subscription[Of(Now.to)].failures + 1 \in Nat
    BY <1>1, <1>2 DEF SubscriptionRows
  <2> QED BY <1>1, <1>2, <1>3, <1>6, <2>1, SubscriptionTypes DEF WriteCount
<1>7. CASE WriteOff
  BY <1>1, <1>2, <1>3, <1>7, SubscriptionTypes DEF WriteOff
<1> QED BY <1>4, <1>5, <1>6, <1>7

LEMMA RecordType ==
    ASSUME LineInv,
           RecordSent \/ RecordFailed \/ CountFailure \/ SwitchOff \/ AcknowledgementLost
    PROVE  LineInv'
<1>1. /\ sweep.todo # <<>> /\ WebhookTypeOK
      /\ WriteSent \/ WriteFailed \/ WriteCount \/ WriteOff
  BY DEF RecordSent, RecordFailed, CountFailure, SwitchOff, AcknowledgementLost, At, LineInv
<1>2. sweep' \in SweepStates
  BY <1>1, StageTypes
     DEF RecordSent, RecordFailed, CountFailure, SwitchOff, AcknowledgementLost, Caught,
         SweepStages
<1>3. faults' \in 0..MaxFaults
  <2>1. faults' = faults \/ (faults < MaxFaults /\ faults' = faults + 1)
    BY DEF RecordSent, RecordFailed, CountFailure, SwitchOff, AcknowledgementLost, Caught
  <2> QED BY <1>1, <2>1, WebhookAssumption DEF WebhookTypeOK
<1>4. UNCHANGED <<jobs, customer>>
  BY DEF RecordSent, RecordFailed, CountFailure, SwitchOff, AcknowledgementLost, Caught
<1>5. /\ delivery' \in [Deliveries -> DeliveryRows]
      /\ line' \in Seq(Deliveries) /\ IsInjective(line') /\ Line'
      /\ subscription' \in [Subscriptions -> SubscriptionRows]
      /\ streak' \in [Subscriptions -> Nat]
  BY <1>1, StatementTypes
<1> QED
  BY <1>1, <1>2, <1>3, <1>4, <1>5
     DEF jobs, LineInv, WebhookTypeOK, DeliveryRows, SweepStates, SubscriptionRows

LEMMA BuryType ==
    ASSUME LineInv, BuryInactive
    PROVE  LineInv'
<1>1. /\ sweep.todo # <<>> /\ WebhookTypeOK /\ Now.to \in Deliveries
      /\ delivery[Now.to].attempts \in 0..MaxAttempts
  BY NowType DEF BuryInactive, At, LineInv, WebhookTypeOK
<1>2. /\ delivery' \in [Deliveries -> DeliveryRows]
      /\ line' \in Seq(Deliveries) /\ IsInjective(line') /\ Line'
  BY <1>1, WriteType DEF BuryInactive
<1>3. sweep' \in SweepStates
  BY <1>1, StageTypes DEF BuryInactive, SweepStages
<1> QED
  BY <1>1, <1>2, <1>3
     DEF BuryInactive, jobs, LineInv, WebhookTypeOK, DeliveryRows, SweepStates, SubscriptionRows

LEMMA SweepType ==
    ASSUME LineInv, SweepRead \/ DatabaseFails \/ SweepEnds
    PROVE  LineInv'
<1>1. Line'
  BY DEF SweepRead, DatabaseFails, Caught, SweepEnds, LineInv, Line, Waiting
<1>2. sweep' \in SweepStates
  BY SweepReadType, StageTypes DEF DatabaseFails, Caught, SweepEnds, LineInv, SweepStages
<1>3. faults' \in 0..MaxFaults
  BY WebhookAssumption DEF SweepRead, DatabaseFails, Caught, SweepEnds, LineInv, WebhookTypeOK
<1> QED
  BY <1>1, <1>2, <1>3
     DEF SweepRead, DatabaseFails, Caught, SweepEnds, jobs, LineInv, WebhookTypeOK, SweepStates

LEMMA LineStep == LineInv /\ [WebhookNext]_webhookVars => LineInv'
<1>1. LineInv /\ UNCHANGED webhookVars => LineInv'
  BY DEF webhookVars, jobs, LineInv, WebhookTypeOK, Line, Waiting
<1> QED
  BY <1>1, OutsideType, CreateDeliveriesType, BackoffType, PostType, RecordType, BuryType,
     SweepType
     DEF WebhookNext, Sweep

LEMMA LineHolds == WebhookSpec => []LineInv
<1>1. WebhookInit => LineInv
  <2> SUFFICES ASSUME WebhookInit PROVE LineInv
    OBVIOUS
  <2>1. /\ IsInjective(<<>>) /\ <<>> \in Seq(Deliveries) /\ <<>> \in Seq(Entries)
        /\ 0 \in 0..MaxFaults /\ 0 \in 0..MaxAttempts
    BY WebhookAssumption DEF IsInjective
  <2>2. Line
    BY DEF WebhookInit, Line, InLine, Waiting
  <2>3. sweep \in SweepStates
    BY <2>1 DEF WebhookInit, Idle, SweepStates, SweepStages
  <2>4. delivery \in [Deliveries -> DeliveryRows]
    BY <2>1 DEF WebhookInit, DeliveryRows, DeliveryStatus
  <2> QED
    BY <2>1, <2>2, <2>3, <2>4 DEF WebhookInit, LineInv, WebhookTypeOK, SweepStates, DeliveryRows
<1> QED BY <1>1, LineStep, PTL DEF WebhookSpec

\* Every variable stays in its range: nobody stands in line twice, and no attempt is
\* made beyond the last.
THEOREM WebhookTypeCorrect == WebhookSpec => []WebhookTypeOK
<1>1. LineInv => WebhookTypeOK
  BY DEF LineInv
<1> QED BY <1>1, LineHolds, PTL

-----------------------------------------------------------------------------
(* The batch: what the sweep has read still holds where it is at.          *)

BatchInv == LineInv /\ Batch

\* What anything but the sweep does.
Outside ==
    /\ UNCHANGED <<sweep, customer, streak>>
    /\ faults \in Nat /\ faults' \in Nat /\ faults <= faults'
    /\ \A d \in Deliveries :
         \/ delivery'[d] = delivery[d]
         \/ /\ delivery[d].status = "NONE" /\ delivery'[d].status = "PENDING"
            /\ delivery'[d].attempts = delivery[d].attempts
    /\ \A s \in Subscriptions : subscription'[s].failures <= subscription[s].failures

Outsider ==
    \/ \E s \in Subscriptions :
         \/ \E selection \in Selections : Create(s, selection) \/ UpdateEvents(s, selection)
         \/ Enable(s) \/ Disable(s) \/ Delete(s)
    \/ \E e \in Events : \/ Publish(e) \/ ClaimInbox(e) \/ ReadSubscriptions(e)
                         \/ CreateDeliveries(e) \/ JobFails(e)
    \/ \E d \in Deliveries : BackoffElapses(d)

LEMMA OutsiderIsOutside ==
    ASSUME WebhookTypeOK, Outsider
    PROVE  Outside
<1>1. faults \in Nat /\ subscription \in [Subscriptions -> SubscriptionRows]
  BY WebhookAssumption DEF WebhookTypeOK, SubscriptionRows
<1>2. \A s \in Subscriptions : subscription[s].failures \in Nat
  BY <1>1 DEF SubscriptionRows
<1>3. ASSUME NEW s \in Subscriptions, NEW r, r.failures <= subscription[s].failures,
             Administer(s, r)
      PROVE  Outside
  <2>1. \A m \in Subscriptions : subscription'[m].failures <= subscription[m].failures
    BY <1>1, <1>2, <1>3 DEF Administer
  <2> QED BY <1>1, <1>3, <2>1 DEF Administer, Outside
<1>4. ASSUME NEW s \in Subscriptions, NEW selection \in Selections,
             Create(s, selection) \/ UpdateEvents(s, selection)
      PROVE  Outside
  <2>1. subscription[s] \in SubscriptionRows
    BY <1>1
  <2>2. [subscription[s] EXCEPT !.events = selection].failures <= subscription[s].failures
    BY <1>2, <2>1 DEF SubscriptionRows
  <2>3. [state |-> "ON", events |-> selection, failures |-> 0].failures
        <= subscription[s].failures
    BY <1>2
  <2>4. CASE Create(s, selection)
    BY <1>3, <2>3, <2>4 DEF Create
  <2>5. CASE UpdateEvents(s, selection)
    BY <1>3, <2>2, <2>5 DEF UpdateEvents
  <2> QED BY <1>4, <2>4, <2>5
<1>5. ASSUME NEW s \in Subscriptions, Enable(s) \/ Disable(s) \/ Delete(s)
      PROVE  Outside
  <2>1. subscription[s] \in SubscriptionRows
    BY <1>1
  <2>2. /\ [subscription[s] EXCEPT !.state = "ON", !.failures = 0].failures
           <= subscription[s].failures
        /\ [subscription[s] EXCEPT !.state = "OFF"].failures <= subscription[s].failures
        /\ [subscription[s] EXCEPT !.state = "GONE"].failures <= subscription[s].failures
    BY <1>2, <2>1 DEF SubscriptionRows
  <2> QED BY <1>3, <1>5, <2>2 DEF Enable, Disable, Delete
<1>6. ASSUME NEW e \in Events, Publish(e) \/ ClaimInbox(e) \/ ReadSubscriptions(e) \/ JobFails(e)
      PROVE  Outside
  BY <1>1, <1>2, <1>6 DEF Publish, ClaimInbox, ReadSubscriptions, JobFails, JobStep, Outside
<1>7. ASSUME NEW e \in Events, CreateDeliveries(e) PROVE Outside
  <2>1. ASSUME NEW d \in Deliveries
        PROVE  \/ delivery'[d] = delivery[d]
               \/ /\ delivery[d].status = "NONE" /\ delivery'[d].status = "PENDING"
                  /\ delivery'[d].attempts = delivery[d].attempts
    <3>1. delivery[d] \in DeliveryRows
      BY DEF WebhookTypeOK, DeliveryRows
    <3>2. delivery'[d] = IF d \in NewRows(e) THEN [delivery[d] EXCEPT !.status = "PENDING"]
                                             ELSE delivery[d]
      BY <1>7 DEF CreateDeliveries
    <3> QED BY <3>1, <3>2 DEF NewRows, DeliveryRows
  <2>2. UNCHANGED <<sweep, customer, streak, subscription, faults>>
    BY <1>7 DEF CreateDeliveries, JobStep
  <2> QED BY <1>1, <1>2, <2>1, <2>2 DEF Outside
<1>8. ASSUME NEW d \in Deliveries, BackoffElapses(d) PROVE Outside
  BY <1>1, <1>2, <1>8 DEF BackoffElapses, Outside
<1> QED BY <1>4, <1>5, <1>6, <1>7, <1>8 DEF Outsider

LEMMA OutsideBatch ==
    ASSUME BatchInv, Outside
    PROVE  Batch'
<1>1. sweep' = sweep
  BY DEF Outside
<1>2. ASSUME NEW t \in Entries
      PROVE  /\ Untouched(t) => Untouched(t)'
             /\ Noted(t) => Noted(t)'
             /\ Unheard(t) => Unheard(t)'
  <2>1. t.to \in Deliveries
    BY DEF Entries
  <2>2. delivery[t.to].status # "NONE" => delivery'[t.to] = delivery[t.to]
    BY <2>1 DEF Outside
  <2>3. Noted(t) \/ Unheard(t) => delivery[t.to].status # "NONE"
    BY DEF Noted, Unheard
  <2> QED BY <1>1, <2>2, <2>3 DEF Untouched, Waiting, Noted, Unheard
<1>3. \A i \in DOMAIN sweep.todo : sweep.todo[i] \in Entries
  BY DEF BatchInv, LineInv, WebhookTypeOK
<1>4. sweep.todo # <<>> => Now \in Entries
  BY NowType DEF BatchInv, LineInv
<1>5. Now' = Now
  BY <1>1 DEF Now
<1> QED BY <1>1, <1>2, <1>3, <1>4, <1>5 DEF BatchInv, Batch

\* The entry at hand is done with, and the next one is taken up.
LEMMA NextBatch ==
    ASSUME BatchInv, sweep.todo # <<>>, sweep' = Next1,
           \A d \in Deliveries : d # Now.to => delivery'[d] = delivery[d]
    PROVE  Batch'
<1> DEFINE s == sweep.todo
           u == Tail(sweep.todo)
<1>1. /\ s \in Seq(Entries) /\ Now = s[1] /\ Now.to \in Deliveries /\ Len(s) \in Nat \ {0}
      /\ u \in Seq(Entries) /\ Len(u) = Len(s) - 1
      /\ \A i \in 1..(Len(s) - 1) : u[i] = s[i + 1]
  <2>1. WebhookTypeOK
    BY DEF BatchInv, LineInv
  <2> QED BY <2>1, NowType DEF WebhookTypeOK
<1>2. \A i, j \in DOMAIN s : s[i].to = s[j].to => i = j
  BY DEF BatchInv, Batch
<1>3. sweep'.todo = u /\ sweep'.stage = "NEXT"
  BY DEF Next1, Idle
<1>4. ASSUME NEW i \in DOMAIN s, i > 1
      PROVE  /\ delivery'[s[i].to].status \in {"PENDING", "FAILED"}
             /\ delivery'[s[i].to].attempts = s[i].attempts
  <2>1. Untouched(s[i])
    BY <1>4 DEF BatchInv, Batch
  <2>2. s[i].to # Now.to /\ s[i].to \in Deliveries
    <3>1. s[i] \in Entries /\ 1 \in DOMAIN s
      BY <1>1
    <3>2. s[1].to # s[i].to
      BY <1>2, <1>4, <3>1
    <3> QED BY <1>1, <3>1, <3>2 DEF Entries
  <2> QED BY <2>1, <2>2 DEF Untouched, Waiting
<1> HIDE DEF s, u
<1>5. ASSUME NEW i \in DOMAIN u
      PROVE  i + 1 \in DOMAIN s /\ i + 1 > 1 /\ u[i] = s[i + 1]
  BY <1>1
<1>6. ASSUME NEW i \in DOMAIN u
      PROVE  /\ delivery'[u[i].to].status \in {"PENDING", "FAILED"}
             /\ delivery'[u[i].to].attempts = u[i].attempts
  BY <1>4, <1>5
<1>7. \A i, j \in DOMAIN u : u[i].to = u[j].to => i = j
  <2> SUFFICES ASSUME NEW i \in DOMAIN u, NEW j \in DOMAIN u, u[i].to = u[j].to
               PROVE  i = j
    OBVIOUS
  <2>1. i + 1 = j + 1
    BY <1>2, <1>5
  <2> QED BY <1>1, <2>1
<1>8. u # <<>> => Head(u) = u[1] /\ 1 \in DOMAIN u
  BY <1>1
<1>9. \A i \in DOMAIN sweep'.todo : Untouched(sweep.todo[i])'
  BY <1>3, <1>6 DEF Untouched, Waiting
<1>10. sweep'.todo # <<>> => Untouched(Now)'
  BY <1>3, <1>6, <1>8 DEF Now, Untouched, Waiting
<1> QED BY <1>3, <1>7, <1>9, <1>10 DEF Batch

\* The sweep goes on with the entry at hand.
LEMMA SameBatch ==
    ASSUME BatchInv, sweep.todo # <<>>, sweep'.todo = sweep.todo,
           \A d \in Deliveries : d # Now.to => delivery'[d] = delivery[d],
           \/ sweep'.stage \in {"ACCEPTED", "REFUSED"} /\ Untouched(Now) /\ delivery' = delivery
           \/ sweep'.stage \in {"REFUSED", "COUNT", "SWITCH_OFF"} /\ Noted(Now)'
           \/ sweep'.stage = "REFUSED" /\ Unheard(Now)'
    PROVE  Batch'
<1> DEFINE s == sweep.todo
<1>1. s \in Seq(Entries) /\ Now = s[1] /\ 1 \in DOMAIN s /\ Len(s) \in Nat \ {0}
  <2>1. WebhookTypeOK
    BY DEF BatchInv, LineInv
  <2> QED BY <2>1, NowType DEF WebhookTypeOK
<1>2. \A i, j \in DOMAIN s : s[i].to = s[j].to => i = j
  BY DEF BatchInv, Batch
<1> HIDE DEF s
<1>3. ASSUME NEW i \in DOMAIN s, i > 1 PROVE Untouched(s[i])'
  <2>1. Untouched(s[i])
    BY <1>3 DEF BatchInv, Batch, s
  <2>2. s[i].to # Now.to /\ s[i].to \in Deliveries
    <3>1. s[i] \in Entries
      BY <1>1
    <3> QED BY <1>1, <1>2, <1>3, <3>1 DEF Entries
  <2> QED BY <2>1, <2>2 DEF Untouched, Waiting, s
<1>4. Now' = Now
  BY DEF Now
<1>5. \/ sweep'.stage \in {"ACCEPTED", "REFUSED"} /\ Untouched(Now)'
      \/ sweep'.stage \in {"REFUSED", "COUNT", "SWITCH_OFF"} /\ Noted(Now)'
      \/ sweep'.stage = "REFUSED" /\ Unheard(Now)'
  BY <1>4 DEF Untouched, Waiting
<1> QED BY <1>2, <1>3, <1>4, <1>5 DEF Batch, s

LEMMA SweepReadBatch ==
    ASSUME BatchInv, SweepRead
    PROVE  Batch'
<1>1. /\ sweep' \in SweepStates /\ sweep'.stage = "NEXT" /\ delivery' = delivery
      /\ \A i \in DOMAIN sweep'.todo :
           /\ i \in DOMAIN line /\ sweep'.todo[i].to = line[i]
           /\ sweep'.todo[i].attempts = delivery[line[i]].attempts
  BY SweepReadType DEF BatchInv, SweepRead
<1>2. ASSUME NEW i \in DOMAIN sweep'.todo
      PROVE  Untouched(sweep.todo[i])'
  <2>1. line[i] \in Deliveries /\ InLine(line, line[i])
    BY <1>1 DEF InLine, BatchInv, LineInv, WebhookTypeOK
  <2>2. Waiting(line[i])
    BY <2>1 DEF BatchInv, LineInv, Line
  <2> QED BY <1>1, <2>2 DEF Untouched, Waiting
<1>3. \A i, j \in DOMAIN sweep'.todo : sweep'.todo[i].to = sweep'.todo[j].to => i = j
  BY <1>1 DEF BatchInv, LineInv, WebhookTypeOK, IsInjective
<1>4. sweep'.todo # <<>> => Head(sweep'.todo) = sweep'.todo[1] /\ 1 \in DOMAIN sweep'.todo
  <2>1. sweep'.todo \in Seq(Entries)
    BY <1>1 DEF SweepStates
  <2> QED BY <2>1
<1>5. sweep'.todo # <<>> => Untouched(Now)'
  BY <1>2, <1>4 DEF Now, Untouched, Waiting
<1> QED BY <1>1, <1>2, <1>3, <1>5 DEF Batch

\* What a record does to the delivery at hand, and to no other.
LEMMA WriteWrites ==
    ASSUME WebhookTypeOK, NEW d \in Deliveries, NEW status, NEW n, Write(d, status, n)
    PROVE  /\ \A x \in Deliveries : x # d => delivery'[x] = delivery[x]
           /\ delivery'[d] = [status |-> status, attempts |-> n]
BY DEF Write, WebhookTypeOK

LEMMA StatementWrites ==
    ASSUME WebhookTypeOK, sweep.todo # <<>>, WriteSent \/ WriteFailed \/ WriteCount \/ WriteOff
    PROVE  /\ \A x \in Deliveries : x # Now.to => delivery'[x] = delivery[x]
           /\ WriteSent => delivery'[Now.to] = [status |-> "SENT", attempts |-> Now.attempts + 1]
           /\ WriteFailed => delivery'[Now.to] =
                [status |-> IF Exhausted(Now.attempts + 1) THEN "DEAD" ELSE "FAILED",
                 attempts |-> Now.attempts + 1]
           /\ WriteCount \/ WriteOff => delivery' = delivery
<1>1. Now.to \in Deliveries
  BY NowType
<1>2. ASSUME WriteSent
      PROVE  /\ \A x \in Deliveries : x # Now.to => delivery'[x] = delivery[x]
             /\ delivery'[Now.to] = [status |-> "SENT", attempts |-> Now.attempts + 1]
  BY <1>1, <1>2, WriteWrites DEF WriteSent, SentStatus
<1>3. ASSUME WriteFailed
      PROVE  /\ \A x \in Deliveries : x # Now.to => delivery'[x] = delivery[x]
             /\ delivery'[Now.to] =
                  [status |-> IF Exhausted(Now.attempts + 1) THEN "DEAD" ELSE "FAILED",
                   attempts |-> Now.attempts + 1]
  BY <1>1, <1>3, WriteWrites DEF WriteFailed
<1>4. WriteCount \/ WriteOff => delivery' = delivery
  BY DEF WriteCount, WriteOff
<1> QED BY <1>2, <1>3, <1>4

\* At the counter and at the switch the failure is on record.
LEMMA NotedKept ==
    ASSUME BatchInv, At("COUNT") \/ At("SWITCH_OFF"), sweep'.todo = sweep.todo,
           delivery' = delivery
    PROVE  Noted(Now)'
<1>1. Now' = Now /\ Noted(Now)
  BY DEF Now, At, BatchInv, Batch
<1> QED BY <1>1 DEF Noted, Exhausted

LEMMA SweepBatch ==
    ASSUME BatchInv,
           \/ BuryInactive \/ Post \/ RecordSent \/ RecordFailed \/ CountFailure \/ SwitchOff
           \/ DatabaseFails \/ AcknowledgementLost \/ SweepEnds
    PROVE  Batch'
<1>1. WebhookTypeOK /\ sweep \in SweepStates
  BY DEF BatchInv, LineInv, WebhookTypeOK, SweepStates
<1>2. sweep.todo # <<>>
  BY DEF BuryInactive, Post, RecordSent, RecordFailed, CountFailure, SwitchOff, DatabaseFails,
         AcknowledgementLost, SweepEnds, At, BatchInv, Batch
<1>3. Now.to \in Deliveries
  BY <1>1, <1>2, NowType
<1>4. CASE BuryInactive
  BY <1>1, <1>2, <1>3, <1>4, NextBatch, WriteWrites DEF BuryInactive
<1>5. CASE RecordSent
  BY <1>1, <1>2, <1>3, <1>5, NextBatch, StatementWrites DEF RecordSent
<1>6. CASE SwitchOff
  BY <1>1, <1>2, <1>6, NextBatch, StatementWrites DEF SwitchOff
<1>7. CASE Post
  <2>1. Untouched(Now) /\ delivery' = delivery
    BY <1>2, <1>7 DEF Post, At, BatchInv, Batch
  <2>2. sweep'.todo = sweep.todo /\ sweep'.stage \in {"ACCEPTED", "REFUSED"}
    BY <1>1, <1>7 DEF Post, Taken, Refused, SweepStates
  <2> QED BY <1>2, <2>1, <2>2, SameBatch
<1>8. ASSUME WriteFailed, sweep'.todo = sweep.todo, sweep'.stage \in {"REFUSED", "COUNT"}
      PROVE  Batch'
  <2>1. /\ \A x \in Deliveries : x # Now.to => delivery'[x] = delivery[x]
        /\ delivery'[Now.to] = [status |-> IF Exhausted(Now.attempts + 1) THEN "DEAD"
                                                                          ELSE "FAILED",
                                attempts |-> Now.attempts + 1]
    BY <1>1, <1>2, <1>8, StatementWrites
  <2>2. Now' = Now
    BY <1>8 DEF Now
  <2>3. Noted(Now)'
    BY <2>1, <2>2 DEF Noted, Exhausted
  <2> QED BY <1>2, <1>8, <2>1, <2>3, SameBatch
<1>9. CASE RecordFailed
  <2>1. sweep'.todo = sweep.todo /\ sweep'.stage = "COUNT"
    BY <1>1, <1>9 DEF RecordFailed, SweepStates
  <2> QED BY <1>8, <1>9, <2>1 DEF RecordFailed
<1>10. CASE CountFailure
  <2>1. CASE sweep' = Next1
    BY <1>1, <1>2, <1>10, <2>1, NextBatch, StatementWrites DEF CountFailure
  <2>2. CASE sweep' = [sweep EXCEPT !.stage = "SWITCH_OFF"]
    <3>1. sweep'.todo = sweep.todo /\ sweep'.stage = "SWITCH_OFF"
      BY <1>1, <2>2 DEF SweepStates
    <3>2. delivery' = delivery
      BY <1>10 DEF CountFailure, WriteCount
    <3>3. Noted(Now)'
      BY <1>10, <3>1, <3>2, NotedKept DEF CountFailure
    <3> QED BY <1>2, <3>1, <3>2, <3>3, SameBatch
  <2> QED BY <1>10, <2>1, <2>2 DEF CountFailure
<1>11. CASE DatabaseFails
  <2>1. /\ sweep'.todo = sweep.todo /\ sweep'.stage = "REFUSED" /\ delivery' = delivery
        /\ ~sweep.caught /\ sweep.stage # "NEXT"
    BY <1>1, <1>11 DEF DatabaseFails, Caught, SweepStates
  <2>2. Now' = Now /\ (Untouched(Now) \/ Noted(Now))
    BY <1>1, <1>2, <2>1 DEF Now, SweepStates, SweepStages, BatchInv, Batch, Unheard
  <2>3. Noted(Now) => Noted(Now)'
    BY <2>1, <2>2 DEF Noted, Exhausted
  <2> QED BY <1>2, <2>1, <2>2, <2>3, SameBatch
<1>12. CASE AcknowledgementLost
  <2>1. sweep'.todo = sweep.todo /\ sweep'.stage = "REFUSED" /\ sweep'.caught /\ Now' = Now
    BY <1>1, <1>12 DEF AcknowledgementLost, Caught, SweepStates, Now
  <2>2. CASE At("ACCEPTED") /\ WriteSent
    <3>1. /\ \A x \in Deliveries : x # Now.to => delivery'[x] = delivery[x]
          /\ delivery'[Now.to] = [status |-> "SENT", attempts |-> Now.attempts + 1]
      BY <1>1, <1>2, <2>2, StatementWrites
    <3>2. Unheard(Now)'
      BY <2>1, <3>1 DEF Unheard
    <3> QED BY <1>2, <2>1, <3>1, <3>2, SameBatch
  <2>3. CASE At("REFUSED") /\ WriteFailed
    BY <1>8, <2>1, <2>3
  <2>4. CASE (At("COUNT") /\ WriteCount) \/ (At("SWITCH_OFF") /\ WriteOff)
    <3>1. delivery' = delivery
      BY <2>4 DEF WriteCount, WriteOff
    <3>2. Noted(Now)'
      BY <2>1, <2>4, <3>1, NotedKept
    <3> QED BY <1>2, <2>1, <3>1, <3>2, SameBatch
  <2> QED BY <1>12, <2>2, <2>3, <2>4 DEF AcknowledgementLost
<1>13. CASE SweepEnds
  BY <1>13 DEF SweepEnds, Idle, Batch
<1> QED BY <1>4, <1>5, <1>6, <1>7, <1>9, <1>10, <1>11, <1>12, <1>13

\* Every step is the sweep's, a fault's or somebody else's.
LEMMA WhoSteps ==
    ASSUME [WebhookNext]_webhookVars
    PROVE  \/ Outsider \/ SweepRead \/ UNCHANGED webhookVars
           \/ BuryInactive \/ Post \/ RecordSent \/ RecordFailed \/ CountFailure \/ SwitchOff
           \/ DatabaseFails \/ AcknowledgementLost \/ SweepEnds
BY DEF WebhookNext, Sweep, Outsider

LEMMA BatchStep == BatchInv /\ [WebhookNext]_webhookVars => BatchInv'
<1> SUFFICES ASSUME BatchInv, [WebhookNext]_webhookVars PROVE BatchInv'
  OBVIOUS
<1>1. LineInv'
  BY LineStep DEF BatchInv
<1>2. UNCHANGED webhookVars => Batch'
  BY DEF webhookVars, BatchInv, Batch, Now, Untouched, Noted, Unheard, Waiting, Exhausted
<1>3. Outsider => Batch'
  BY OutsiderIsOutside, OutsideBatch DEF BatchInv, LineInv
<1>4. Batch'
  BY <1>2, <1>3, WhoSteps, SweepReadBatch, SweepBatch
<1> QED BY <1>1, <1>4 DEF BatchInv

LEMMA BatchHolds == WebhookSpec => []BatchInv
<1>1. WebhookInit => Batch
  BY DEF WebhookInit, Idle, Batch
<1>2. WebhookInit /\ LineInv => BatchInv
  BY <1>1 DEF BatchInv
<1> QED BY <1>2, LineHolds, BatchStep, PTL DEF WebhookSpec

\* The deliveries a step of the sweep writes or calls are waiting, or written again as
\* they are; or one is sent, and the sweep has not heard of it.
LEMMA OnlyWaitingAreTouched ==
    ASSUME BatchInv, [WebhookNext]_webhookVars,
           NEW d \in Deliveries, Settled(d), ~Unacknowledged(d)
    PROVE  delivery'[d] = delivery[d] /\ customer'[d] = customer[d]
<1>1. WebhookTypeOK
  BY DEF BatchInv, LineInv
<1>2. CASE Outsider
  BY <1>1, <1>2, OutsiderIsOutside DEF Outside, Settled
<1>3. CASE UNCHANGED <<delivery, customer>>
  BY <1>3
<1>4. ASSUME sweep.todo # <<>>, Untouched(Now) PROVE d # Now.to
  BY <1>4 DEF Untouched, Waiting, Settled
<1>5. CASE BuryInactive
  <2>1. sweep.todo # <<>> /\ Untouched(Now) /\ UNCHANGED customer
    BY <1>5 DEF BuryInactive, At, BatchInv, Batch
  <2> QED BY <1>1, <1>4, <1>5, <2>1, NowType, WriteWrites DEF BuryInactive
<1>6. CASE Post
  <2>1. sweep.todo # <<>> /\ Untouched(Now) /\ UNCHANGED delivery
    BY <1>6 DEF Post, At, BatchInv, Batch
  <2>2. d # Now.to /\ Now.to \in Deliveries
    BY <1>1, <1>4, <2>1, NowType
  <2>3. customer'[d] = customer[d]
    BY <1>1, <1>6, <2>2 DEF Post, Taken, Refused, WebhookTypeOK
  <2> QED BY <2>1, <2>3
<1>7. ASSUME At("ACCEPTED"), WriteSent PROVE delivery'[d] = delivery[d]
  <2>1. sweep.todo # <<>> /\ Untouched(Now)
    BY <1>7 DEF At, BatchInv, Batch
  <2> QED BY <1>1, <1>4, <1>7, <2>1, StatementWrites
<1>8. ASSUME At("REFUSED"), WriteFailed PROVE delivery'[d] = delivery[d]
  <2>1. sweep.todo # <<>> /\ (Untouched(Now) \/ Noted(Now) \/ Unheard(Now))
    BY <1>8 DEF At, BatchInv, Batch
  <2>2. CASE d # Now.to
    BY <1>1, <1>8, <2>1, <2>2, StatementWrites
  <2>3. CASE d = Now.to
    <3>1. ~Unheard(Now)
      BY <1>8, <2>3 DEF Unheard, Unacknowledged
    <3>2. Noted(Now)
      BY <1>4, <2>1, <2>3, <3>1
    <3> QED BY <1>1, <1>8, <2>1, <2>3, <3>2, StatementWrites DEF Noted
  <2> QED BY <2>2, <2>3
<1>9. CASE RecordSent
  BY <1>7, <1>9 DEF RecordSent
<1>10. CASE RecordFailed
  BY <1>8, <1>10 DEF RecordFailed
<1>11. CASE AcknowledgementLost
  <2>1. UNCHANGED customer
    BY <1>11 DEF AcknowledgementLost, Caught
  <2>2. WriteCount \/ WriteOff => delivery' = delivery
    BY DEF WriteCount, WriteOff
  <2> QED BY <1>7, <1>8, <1>11, <2>1, <2>2 DEF AcknowledgementLost
<1>12. CASE SweepRead \/ CountFailure \/ SwitchOff \/ DatabaseFails \/ SweepEnds
  BY <1>3, <1>12
     DEF SweepRead, CountFailure, WriteCount, SwitchOff, WriteOff, DatabaseFails, Caught, SweepEnds
<1>13. UNCHANGED webhookVars => UNCHANGED <<delivery, customer>>
  BY DEF webhookVars
<1> QED
  BY <1>2, <1>3, <1>5, <1>6, <1>9, <1>10, <1>11, <1>12, <1>13, WhoSteps

\* A delivery that was sent or given up is never written or called again, though a sweep
\* works from what it read and starts anew after any fault; only one that was sent while
\* the acknowledgement got lost is written once more, as a failure.
THEOREM SettledStaysSettled == WebhookSpec => SettledIsFinal
<1> DEFINE Final == \A d \in Deliveries : Settled(d) /\ ~Unacknowledged(d)
                      => delivery'[d] = delivery[d] /\ customer'[d] = customer[d]
<1>1. BatchInv /\ [WebhookNext]_webhookVars => [Final]_webhookVars
  BY OnlyWaitingAreTouched
<1> QED BY <1>1, BatchHolds, PTL DEF WebhookSpec, SettledIsFinal

-----------------------------------------------------------------------------
(* Calls and attempts.                                                     *)

CallsInv == BatchInv /\ Calls

\* What is known of one delivery, in numbers.
CallsOf(made, accepts, row, tried, f) ==
    /\ row.attempts <= tried.calls /\ made <= tried.calls /\ tried.calls <= made + f
    /\ tried.accepted <= f + (IF accepts THEN 1 ELSE 0)
    /\ accepts \/ row.status = "SENT" => tried.accepted > 0

LEMMA CallsAreOf ==
    Calls <=> \A d \in Deliveries :
                 CallsOf(Made(d), Accepts(d), delivery[d], customer[d], faults)
BY DEF Calls, CallsOf

LEMMA NumberTypes ==
    ASSUME WebhookTypeOK, NEW d \in Deliveries
    PROVE  /\ delivery[d].attempts \in Nat /\ delivery[d].attempts <= MaxAttempts
           /\ customer[d].calls \in Nat /\ customer[d].accepted \in Nat /\ faults \in Nat
           /\ MaxAttempts \in Nat
BY WebhookAssumption DEF WebhookTypeOK

\* A delivery that is not at hand is known by its row.
LEMMA NotAtHand ==
    ASSUME NEW d, ~Calling(d)
    PROVE  Made(d) = delivery[d].attempts /\ (Accepts(d) <=> delivery[d].status = "SENT")
BY DEF Made, Accepts, Calling, Unacknowledged, At

\* The same after a step.
CallsFor(d) == CallsOf(Made(d), Accepts(d), delivery[d], customer[d], faults)

LEMMA NotAtHandNext ==
    ASSUME NEW d, sweep'.stage \notin {"ACCEPTED", "REFUSED"}
    PROVE  Made(d)' = delivery'[d].attempts /\ (Accepts(d)' <=> delivery'[d].status = "SENT")
BY DEF Made, Accepts, Calling, Unacknowledged, At

LEMMA AtHandNext ==
    ASSUME NEW d, sweep.todo # <<>>, sweep'.todo = sweep.todo,
           sweep'.stage \in {"ACCEPTED", "REFUSED"}
    PROVE  /\ Made(d)' = (IF Now.to = d THEN Now.attempts + 1 ELSE delivery'[d].attempts)
           /\ Accepts(d)' <=>
                \/ /\ delivery'[d].status = "SENT"
                   /\ ~(sweep'.stage = "REFUSED" /\ sweep'.caught /\ Now.to = d)
                \/ Now.to = d /\ sweep'.stage = "ACCEPTED"
BY DEF Made, Accepts, Calling, Unacknowledged, At, Now

LEMMA OutsideCalls ==
    ASSUME CallsInv, Outside, NEW d \in Deliveries
    PROVE  CallsFor(d)'
<1>1. /\ delivery'[d].attempts = delivery[d].attempts
      /\ delivery'[d].status = "SENT" <=> delivery[d].status = "SENT"
      /\ customer' = customer /\ faults <= faults' /\ faults' \in Nat /\ faults \in Nat
  BY DEF Outside
<1>2. Made(d)' = Made(d) /\ (Accepts(d)' <=> Accepts(d))
  BY <1>1 DEF Made, Accepts, Calling, Unacknowledged, At, Now, Outside
<1>3. CallsFor(d) /\ WebhookTypeOK
  BY CallsAreOf DEF CallsInv, CallsFor, BatchInv, LineInv
<1>4. /\ delivery[d].attempts \in Nat /\ customer[d].calls \in Nat
      /\ customer[d].accepted \in Nat
  BY <1>3, NumberTypes
<1>5. Made(d) \in Nat
  <2>1. Calling(d) => Now.attempts + 1 \in Nat
    BY <1>3, NowType DEF Calling
  <2> QED BY <1>4, <2>1 DEF Made
<1> QED BY <1>1, <1>2, <1>3, <1>4, <1>5 DEF CallsFor, CallsOf

\* The sweep goes on to another delivery, having recorded this one or not; a fault pays
\* for what is not recorded.
LEMMA LeavesCalls ==
    ASSUME CallsInv, NEW d \in Deliveries,
           BuryInactive \/ RecordSent \/ RecordFailed \/ CountFailure \/ SwitchOff
           \/ SweepEnds \/ SweepRead
    PROVE  CallsFor(d)'
<1>1. /\ WebhookTypeOK /\ CallsFor(d) /\ sweep \in SweepStates
  BY CallsAreOf DEF CallsInv, CallsFor, BatchInv, LineInv, WebhookTypeOK, SweepStates
<1>2. /\ delivery[d].attempts \in Nat /\ customer[d].calls \in Nat
      /\ customer[d].accepted \in Nat /\ faults \in Nat
  BY <1>1, NumberTypes
<1>3. sweep'.stage \in {"NEXT", "COUNT", "SWITCH_OFF"}
  BY <1>1 DEF BuryInactive, RecordSent, RecordFailed, CountFailure, SwitchOff, SweepEnds,
              SweepRead, Next1, Idle, SweepStates
<1>4. Made(d)' = delivery'[d].attempts /\ (Accepts(d)' <=> delivery'[d].status = "SENT")
  BY <1>3, NotAtHandNext
<1>5. sweep.todo # <<>> => Now.to \in Deliveries /\ Now.attempts \in Nat
  BY <1>1, NowType
<1>6. CASE ~Calling(d) /\ delivery'[d] = delivery[d] /\ UNCHANGED customer
           /\ faults' \in {faults, faults + 1}
  BY <1>1, <1>2, <1>4, <1>6, NotAtHand DEF CallsFor, CallsOf
<1>7. CASE SweepRead \/ CountFailure \/ SwitchOff
  BY <1>6, <1>7 DEF SweepRead, CountFailure, WriteCount, SwitchOff, WriteOff, Calling, At
<1>8. CASE BuryInactive
  <2>1. ~Calling(d) /\ UNCHANGED <<customer, faults>> /\ sweep.todo # <<>>
    BY <1>8 DEF BuryInactive, Calling, At
  <2>2. CASE d # Now.to
    BY <1>1, <1>5, <1>6, <1>8, <2>1, <2>2, WriteWrites DEF BuryInactive
  <2>3. CASE d = Now.to
    <3>1. delivery[d].status # "SENT"
      BY <1>8, <2>1, <2>3
         DEF BuryInactive, At, CallsInv, BatchInv, Batch, Untouched, Waiting
    <3>2. delivery'[d] = [status |-> "DEAD", attempts |-> delivery[d].attempts]
      BY <1>1, <1>5, <1>8, <2>1, <2>3, WriteWrites DEF BuryInactive
    <3> QED BY <1>1, <1>2, <1>4, <2>1, <3>1, <3>2, NotAtHand DEF CallsFor, CallsOf
  <2> QED BY <2>2, <2>3
<1>9. CASE RecordSent
  <2>1. sweep.todo # <<>> /\ sweep.stage = "ACCEPTED" /\ UNCHANGED <<customer, faults>>
    BY <1>9 DEF RecordSent, At
  <2>2. CASE d # Now.to
    BY <1>1, <1>6, <1>9, <2>1, <2>2, StatementWrites DEF RecordSent, Calling
  <2>3. CASE d = Now.to
    <3>1. Made(d) = Now.attempts + 1 /\ Accepts(d)
      BY <2>1, <2>3 DEF Made, Accepts, Calling
    <3>2. delivery'[d] = [status |-> "SENT", attempts |-> Now.attempts + 1]
      BY <1>1, <1>9, <2>1, <2>3, StatementWrites DEF RecordSent
    <3> QED BY <1>1, <1>2, <1>4, <1>5, <2>1, <3>1, <3>2 DEF CallsFor, CallsOf
  <2> QED BY <2>2, <2>3
<1>10. CASE RecordFailed
  <2>1. sweep.todo # <<>> /\ sweep.stage = "REFUSED" /\ UNCHANGED <<customer, faults>>
    BY <1>10 DEF RecordFailed, At
  <2>2. CASE d # Now.to
    BY <1>1, <1>6, <1>10, <2>1, <2>2, StatementWrites DEF RecordFailed, Calling
  <2>3. CASE d = Now.to
    <3>1. delivery[d].status = "SENT" => Unacknowledged(d)
      BY <2>1, <2>3
         DEF CallsInv, BatchInv, Batch, Untouched, Waiting, Noted, Unheard, Unacknowledged, At
    <3>2. Made(d) = Now.attempts + 1 /\ ~Accepts(d)
      BY <2>1, <2>3, <3>1 DEF Made, Accepts, Calling
    <3>3. delivery'[d].status # "SENT" /\ delivery'[d].attempts = Now.attempts + 1
      <4>1. delivery'[Now.to] = [status |-> IF Exhausted(Now.attempts + 1) THEN "DEAD"
                                                                           ELSE "FAILED",
                                 attempts |-> Now.attempts + 1]
        BY <1>1, <1>10, <2>1, StatementWrites DEF RecordFailed
      <4> QED BY <2>3, <4>1
    <3> QED BY <1>1, <1>2, <1>4, <1>5, <2>1, <3>2, <3>3 DEF CallsFor, CallsOf
  <2> QED BY <2>2, <2>3
<1>11. CASE SweepEnds
  <2>1. UNCHANGED <<customer, delivery>> /\ faults' = faults + 1 /\ sweep.todo # <<>>
    BY <1>11 DEF SweepEnds
  <2>2. CASE ~Calling(d)
    BY <1>6, <2>1, <2>2
  <2>3. CASE Calling(d)
    <3>1. delivery[d].attempts \in {Now.attempts, Now.attempts + 1}
      BY <2>3 DEF Calling, CallsInv, BatchInv, Batch, Untouched, Waiting, Noted, Unheard
    <3>2. Made(d) = Now.attempts + 1
      BY <2>3 DEF Made
    <3>3. /\ delivery[d].attempts <= customer[d].calls
          /\ Now.attempts + 1 <= customer[d].calls
          /\ customer[d].calls <= Now.attempts + 1 + faults
          /\ customer[d].accepted <= faults + 1
          /\ delivery[d].status = "SENT" => customer[d].accepted > 0
      BY <1>1, <1>2, <3>2 DEF CallsFor, CallsOf
    <3> QED BY <1>2, <1>4, <1>5, <2>1, <3>1, <3>3 DEF CallsFor, CallsOf
  <2> QED BY <2>2, <2>3
<1> QED BY <1>7, <1>8, <1>9, <1>10, <1>11

LEMMA CustomerHears ==
    ASSUME WebhookTypeOK, sweep.todo # <<>>, NEW thrown
    PROVE  /\ Refused(thrown) => /\ customer'[Now.to].calls = customer[Now.to].calls + 1
                                 /\ customer'[Now.to].accepted = customer[Now.to].accepted
                                 /\ sweep'.stage = "REFUSED"
           /\ \A stage : Taken(stage, thrown)
                         => /\ customer'[Now.to].calls = customer[Now.to].calls + 1
                            /\ customer'[Now.to].accepted = customer[Now.to].accepted + 1
                            /\ sweep'.stage = stage
<1>1. Now.to \in Deliveries /\ customer[Now.to] \in [calls : Nat, accepted : Nat]
  BY NowType DEF WebhookTypeOK
<1>2. customer \in [Deliveries -> [calls : Nat, accepted : Nat]] /\ sweep \in SweepStates
  BY DEF WebhookTypeOK, SweepStates
<1>3. ASSUME Refused(thrown)
      PROVE  /\ customer'[Now.to] = [customer[Now.to] EXCEPT !.calls = customer[Now.to].calls + 1]
             /\ sweep' = [sweep EXCEPT !.stage = "REFUSED", !.caught = thrown]
  BY <1>1, <1>2, <1>3 DEF Refused
<1>4. ASSUME NEW stage, Taken(stage, thrown)
      PROVE  /\ customer'[Now.to] = [calls |-> customer[Now.to].calls + 1,
                                     accepted |-> customer[Now.to].accepted + 1]
             /\ sweep' = [sweep EXCEPT !.stage = stage, !.caught = thrown]
  BY <1>1, <1>2, <1>4 DEF Taken
<1>5. \A stage : [sweep EXCEPT !.stage = stage, !.caught = thrown].stage = stage
  BY <1>2 DEF SweepStates
<1>6. ASSUME Refused(thrown)
      PROVE  /\ customer'[Now.to].calls = customer[Now.to].calls + 1
             /\ customer'[Now.to].accepted = customer[Now.to].accepted
  BY <1>1, <1>3, <1>6
<1>7. Refused(thrown) => sweep'.stage = "REFUSED"
  BY <1>3, <1>5
<1>8. ASSUME NEW stage, Taken(stage, thrown)
      PROVE  /\ customer'[Now.to].calls = customer[Now.to].calls + 1
             /\ customer'[Now.to].accepted = customer[Now.to].accepted + 1
             /\ sweep'.stage = stage
  <2>1. customer'[Now.to] = [calls |-> customer[Now.to].calls + 1,
                             accepted |-> customer[Now.to].accepted + 1]
    BY <1>4, <1>8
  <2>2. sweep'.stage = stage
    BY <1>4, <1>5, <1>8
  <2> QED BY <2>1, <2>2
<1> QED BY <1>6, <1>7, <1>8

\* A call is one more, and one the customer took is one more of those, for us to record
\* or for a fault to answer for.
LEMMA PostCalls ==
    ASSUME CallsInv, NEW d \in Deliveries, Post
    PROVE  CallsFor(d)'
<1>1. WebhookTypeOK /\ CallsFor(d) /\ sweep \in SweepStates
  BY CallsAreOf DEF CallsInv, CallsFor, BatchInv, LineInv, WebhookTypeOK, SweepStates
<1>2. /\ delivery[d].attempts \in Nat /\ customer[d].calls \in Nat
      /\ customer[d].accepted \in Nat /\ faults \in Nat
  BY <1>1, NumberTypes
<1>3. sweep.todo # <<>> /\ sweep.stage = "NEXT" /\ delivery' = delivery
  BY DEF Post, At
<1>4. ~Calling(d)
  BY <1>3 DEF Calling
<1>5. Made(d) = delivery[d].attempts /\ (Accepts(d) <=> delivery[d].status = "SENT")
  BY <1>4, NotAtHand
<1>6. sweep'.todo = sweep.todo /\ sweep'.stage \in {"ACCEPTED", "REFUSED"}
  BY <1>1 DEF Post, Taken, Refused, SweepStates
<1>7. /\ Made(d)' = (IF Now.to = d THEN Now.attempts + 1 ELSE delivery[d].attempts)
      /\ Accepts(d)' <=>
           \/ /\ delivery[d].status = "SENT"
              /\ ~(sweep'.stage = "REFUSED" /\ sweep'.caught /\ Now.to = d)
           \/ Now.to = d /\ sweep'.stage = "ACCEPTED"
  BY <1>3, <1>6, AtHandNext
<1>8. CASE d # Now.to
  <2>1. customer'[d] = customer[d] /\ faults' \in {faults, faults + 1}
    BY <1>1, <1>8 DEF Post, Taken, Refused, WebhookTypeOK
  <2> QED BY <1>1, <1>2, <1>3, <1>5, <1>7, <1>8, <2>1 DEF CallsFor, CallsOf
<1>9. CASE d = Now.to
  <2>1. delivery[d].status # "SENT" /\ delivery[d].attempts = Now.attempts
    BY <1>3, <1>9 DEF CallsInv, BatchInv, Batch, Untouched, Waiting
  <2>2. CASE Taken("ACCEPTED", FALSE) /\ UNCHANGED faults
    <3>1. /\ customer'[d].calls = customer[d].calls + 1 /\ sweep'.stage = "ACCEPTED"
          /\ customer'[d].accepted = customer[d].accepted + 1
      BY <1>1, <1>3, <1>9, <2>2, CustomerHears
    <3>2. Made(d)' = delivery[d].attempts + 1 /\ Accepts(d)'
      BY <1>7, <1>9, <2>1, <3>1
    <3> QED BY <1>1, <1>2, <1>3, <1>5, <2>1, <2>2, <3>1, <3>2 DEF CallsFor, CallsOf
  <2>3. CASE (\E thrown \in BOOLEAN : Refused(thrown)) /\ UNCHANGED faults
    <3>1. /\ customer'[d].calls = customer[d].calls + 1 /\ sweep'.stage = "REFUSED"
          /\ customer'[d].accepted = customer[d].accepted
      BY <1>1, <1>3, <1>9, <2>3, CustomerHears
    <3>2. Made(d)' = delivery[d].attempts + 1 /\ ~Accepts(d)'
      BY <1>7, <1>9, <2>1, <3>1
    <3> QED BY <1>1, <1>2, <1>3, <1>5, <2>1, <2>3, <3>1, <3>2 DEF CallsFor, CallsOf
  <2>4. CASE Taken("REFUSED", TRUE) /\ faults' = faults + 1
    <3>1. /\ customer'[d].calls = customer[d].calls + 1 /\ sweep'.stage = "REFUSED"
          /\ customer'[d].accepted = customer[d].accepted + 1
      BY <1>1, <1>3, <1>9, <2>4, CustomerHears
    <3>2. Made(d)' = delivery[d].attempts + 1 /\ ~Accepts(d)'
      BY <1>7, <1>9, <2>1, <3>1
    <3> QED BY <1>1, <1>2, <1>3, <1>5, <2>1, <2>4, <3>1, <3>2 DEF CallsFor, CallsOf
  <2> QED BY <2>2, <2>3, <2>4 DEF Post
<1> QED BY <1>8, <1>9

\* Before a statement that is caught, and after it: the call at hand is made, and a
\* success that was written and not heard of counts as none.
LEMMA CaughtCalls ==
    ASSUME CallsInv, NEW d \in Deliveries, sweep.todo # <<>>, sweep.stage # "NEXT", Caught
    PROVE  /\ faults' = faults + 1 /\ customer' = customer
           /\ Made(d)' = (IF Now.to = d THEN Now.attempts + 1 ELSE delivery'[d].attempts)
           /\ Accepts(d)' <=> delivery'[d].status = "SENT" /\ d # Now.to
           /\ Made(d) = (IF Now.to = d THEN Now.attempts + 1 ELSE delivery[d].attempts)
           /\ d # Now.to => (Accepts(d) <=> delivery[d].status = "SENT")
<1>1. WebhookTypeOK /\ sweep \in SweepStates
  BY DEF CallsInv, BatchInv, LineInv, WebhookTypeOK, SweepStates
<1>2. /\ sweep'.todo = sweep.todo /\ sweep'.stage = "REFUSED" /\ sweep'.caught
      /\ faults' = faults + 1 /\ customer' = customer
  BY <1>1 DEF Caught, SweepStates
<1>3. /\ Made(d)' = (IF Now.to = d THEN Now.attempts + 1 ELSE delivery'[d].attempts)
      /\ Accepts(d)' <=> delivery'[d].status = "SENT" /\ d # Now.to
  BY <1>2, AtHandNext
<1>4. ASSUME d # Now.to
      PROVE  Made(d) = delivery[d].attempts /\ (Accepts(d) <=> delivery[d].status = "SENT")
  BY <1>4, NotAtHand DEF Calling
<1>5. ASSUME d = Now.to PROVE Made(d) = Now.attempts + 1
  <2>1. CASE sweep.stage \in {"ACCEPTED", "REFUSED"}
    BY <1>5, <2>1 DEF Made, Calling
  <2>2. CASE sweep.stage \in {"COUNT", "SWITCH_OFF"}
    BY <1>5, <2>2 DEF Made, Calling, CallsInv, BatchInv, Batch, Noted
  <2> QED BY <1>1, <2>1, <2>2 DEF SweepStates, SweepStages
<1> QED BY <1>2, <1>3, <1>4, <1>5

LEMMA DatabaseCalls ==
    ASSUME CallsInv, NEW d \in Deliveries, DatabaseFails \/ AcknowledgementLost
    PROVE  CallsFor(d)'
<1>1. WebhookTypeOK /\ CallsFor(d)
  BY CallsAreOf DEF CallsInv, CallsFor, BatchInv, LineInv
<1>2. /\ delivery[d].attempts \in Nat /\ customer[d].calls \in Nat
      /\ customer[d].accepted \in Nat /\ faults \in Nat
  BY <1>1, NumberTypes
<1>3. sweep.todo # <<>> /\ sweep.stage # "NEXT" /\ Caught
  BY DEF DatabaseFails, AcknowledgementLost, At, CallsInv, BatchInv, Batch
<1>4. Now.attempts \in Nat
  BY <1>1, <1>3, NowType
<1>5. ASSUME delivery'[d] = delivery[d] PROVE CallsFor(d)'
  <2>1. /\ faults' = faults + 1 /\ customer' = customer /\ Made(d)' = Made(d)
        /\ Made(d) = (IF Now.to = d THEN Now.attempts + 1 ELSE delivery[d].attempts)
        /\ Accepts(d)' <=> delivery[d].status = "SENT" /\ d # Now.to
        /\ d # Now.to => (Accepts(d) <=> delivery[d].status = "SENT")
    BY <1>3, <1>5, CaughtCalls
  <2>2. Made(d) \in Nat
    BY <1>2, <1>4, <2>1
  <2>3. /\ delivery[d].attempts <= customer[d].calls /\ Made(d) <= customer[d].calls
        /\ customer[d].calls <= Made(d) + faults /\ customer[d].accepted <= faults + 1
        /\ delivery[d].status = "SENT" => customer[d].accepted > 0
    BY <1>1, <1>2, <2>2 DEF CallsFor, CallsOf
  <2> QED BY <1>2, <1>5, <2>1, <2>2, <2>3 DEF CallsFor, CallsOf
<1>6. CASE DatabaseFails
  BY <1>5, <1>6 DEF DatabaseFails
<1>7. CASE AcknowledgementLost /\ d # Now.to
  BY <1>1, <1>3, <1>5, <1>7, StatementWrites DEF AcknowledgementLost
<1>8. CASE AcknowledgementLost /\ d = Now.to
  <2>1. CASE At("ACCEPTED") /\ WriteSent
    <3>1. delivery'[d] = [status |-> "SENT", attempts |-> Now.attempts + 1]
      BY <1>1, <1>3, <1>8, <2>1, StatementWrites
    <3>2. Accepts(d)
      BY <1>8, <2>1 DEF Accepts, Calling, At
    <3> QED BY <1>1, <1>2, <1>3, <1>4, <1>8, <3>1, <3>2, CaughtCalls DEF CallsFor, CallsOf
  <2>2. CASE At("REFUSED") /\ WriteFailed
    <3>1. delivery'[d].attempts = Now.attempts + 1 /\ delivery'[d].status # "SENT"
      <4>1. delivery'[d] = [status |-> IF Exhausted(Now.attempts + 1) THEN "DEAD" ELSE "FAILED",
                            attempts |-> Now.attempts + 1]
        BY <1>1, <1>3, <1>8, <2>2, StatementWrites
      <4> QED BY <4>1
    <3> QED BY <1>1, <1>2, <1>3, <1>4, <1>8, <3>1, CaughtCalls DEF CallsFor, CallsOf
  <2>3. WriteCount \/ WriteOff => delivery' = delivery
    BY DEF WriteCount, WriteOff
  <2> QED BY <1>5, <1>8, <2>1, <2>2, <2>3 DEF AcknowledgementLost
<1> QED BY <1>6, <1>7, <1>8

LEMMA CallsHold == WebhookSpec => []CallsInv
<1>1. WebhookInit /\ BatchInv => CallsInv
  <2> SUFFICES ASSUME WebhookInit, BatchInv PROVE Calls
    BY DEF CallsInv
  <2>1. \A d \in Deliveries : ~Calling(d)
    BY DEF WebhookInit, Idle, Calling
  <2>2. \A d \in Deliveries : Made(d) = 0 /\ ~Accepts(d)
    BY <2>1, NotAtHand DEF WebhookInit
  <2> QED BY <2>2 DEF WebhookInit, Calls
<1>2. CallsInv /\ [WebhookNext]_webhookVars => CallsInv'
  <2> SUFFICES ASSUME CallsInv, [WebhookNext]_webhookVars PROVE CallsInv'
    OBVIOUS
  <2>1. BatchInv'
    BY BatchStep DEF CallsInv
  <2>2. ASSUME NEW d \in Deliveries, UNCHANGED webhookVars PROVE CallsFor(d)'
    <3>1. CallsFor(d)
      BY CallsAreOf DEF CallsInv, CallsFor
    <3> QED BY <2>2, <3>1 DEF webhookVars, CallsFor, Made, Accepts, Calling, Unacknowledged, At, Now
  <2>3. ASSUME NEW d \in Deliveries PROVE CallsFor(d)'
    <3>1. Outsider => CallsFor(d)'
      BY OutsiderIsOutside, OutsideCalls DEF CallsInv, BatchInv, LineInv
    <3> QED BY <2>2, <3>1, WhoSteps, LeavesCalls, PostCalls, DatabaseCalls
  <2>4. Calls'
    BY <2>3 DEF Calls, CallsFor, CallsOf
  <2> QED BY <2>1, <2>4 DEF CallsInv
<1> QED BY <1>1, <1>2, BatchHolds, PTL DEF WebhookSpec

\* The customer accepts an event once, and again only for a fault: a crash, a failure of
\* the database, or a lost answer or acknowledgement.
THEOREM EventAcceptedOnce == WebhookSpec => []AcceptedOnce
<1>1. CallsInv => AcceptedOnce
  <2> SUFFICES ASSUME CallsInv, NEW d \in Deliveries PROVE customer[d].accepted <= 1 + faults
    BY DEF AcceptedOnce
  <2>1. customer[d].accepted \in Nat /\ faults \in Nat
    BY NumberTypes DEF CallsInv, BatchInv, LineInv
  <2> QED BY <2>1 DEF CallsInv, Calls
<1> QED BY <1>1, CallsHold, PTL

\* As many calls as attempts, but for the one under way and those a fault forgot; and
\* a delivery waits only while it has attempts left.
THEOREM CallsMatchAttempts == WebhookSpec => []CallsAreAttempts
<1>1. CallsInv => CallsAreAttempts
  <2> SUFFICES ASSUME CallsInv, NEW d \in Deliveries
               PROVE  /\ customer[d].calls <= MaxAttempts + faults
                      /\ delivery[d].attempts <= customer[d].calls
                      /\ delivery[d].status = "SENT" => customer[d].accepted > 0
                      /\ delivery[d].status \in {"PENDING", "FAILED"}
                           => delivery[d].attempts < MaxAttempts
    BY DEF CallsAreAttempts
  <2>1. WebhookTypeOK
    BY DEF CallsInv, BatchInv, LineInv
  <2>2. /\ delivery[d].attempts <= MaxAttempts /\ delivery[d].attempts \in Nat
        /\ customer[d].calls \in Nat /\ MaxAttempts \in Nat /\ faults \in Nat
    BY <2>1, NumberTypes
  <2>3. Made(d) \in Nat /\ Made(d) <= MaxAttempts
    <3>1. Calling(d) => Now.attempts + 1 \in 1..MaxAttempts
      BY <2>1, NowType DEF Calling
    <3> QED BY <2>2, <3>1 DEF Made
  <2>4. customer[d].calls <= MaxAttempts + faults
    BY <2>2, <2>3 DEF CallsInv, Calls
  <2>5. delivery[d].status = "SENT" => customer[d].accepted > 0
    BY DEF CallsInv, Calls
  <2>6. Waiting(d) => delivery[d].attempts < MaxAttempts
    BY DEF CallsInv, BatchInv, LineInv, Line
  <2> QED BY <2>4, <2>5, <2>6 DEF Waiting, CallsInv, Calls
<1> QED BY <1>1, CallsHold, PTL

-----------------------------------------------------------------------------
(* Failures in a row.                                                      *)

StreaksInv == BatchInv /\ Streaks

LEMMA StreakTypes ==
    ASSUME StreaksInv, NEW s \in Subscriptions
    PROVE  /\ subscription[s].failures \in Nat /\ streak[s] \in Nat /\ faults \in Nat
           /\ subscription[s].failures <= streak[s] + faults
<1>1. subscription[s] \in SubscriptionRows /\ streak[s] \in Nat /\ faults \in Nat
  BY WebhookAssumption DEF StreaksInv, BatchInv, LineInv, WebhookTypeOK, SubscriptionRows
<1> QED BY <1>1 DEF SubscriptionRows, StreaksInv, Streaks

\* Nothing is counted and no call is tried.
LEMMA QuietStreaks ==
    ASSUME StreaksInv, UNCHANGED streak,
           \A s \in Subscriptions : subscription'[s].failures <= subscription[s].failures,
           \A s \in Subscriptions : subscription'[s].failures \in Nat,
           faults' \in Nat, faults <= faults',
           \/ sweep'.stage = "NEXT" \/ sweep' = sweep
           \/ /\ sweep.stage = "REFUSED" /\ sweep'.stage = "COUNT"
              /\ sweep'.todo = sweep.todo
    PROVE  Streaks'
<1>1. \A s \in Subscriptions : subscription'[s].failures <= streak'[s] + faults'
  BY StreakTypes
<1>2. sweep.stage # "NEXT" => Of(Now.to) \in Subscriptions
  BY NowType DEF StreaksInv, BatchInv, LineInv, Batch
<1>3. sweep'.stage # "NEXT" => Now' = Now
  BY DEF Now
<1>4. sweep'.stage \in {"REFUSED", "COUNT"} =>
        subscription'[Of(Now.to)].failures + 1 <= streak'[Of(Now.to)] + faults'
  <2> SUFFICES ASSUME sweep'.stage \in {"REFUSED", "COUNT"}
               PROVE  subscription'[Of(Now.to)].failures + 1 <= streak'[Of(Now.to)] + faults'
    OBVIOUS
  <2>1. sweep.stage \in {"REFUSED", "COUNT"} /\ Of(Now.to) \in Subscriptions
    BY <1>2
  <2>2. subscription[Of(Now.to)].failures + 1 <= streak[Of(Now.to)] + faults
    BY <2>1 DEF StreaksInv, Streaks
  <2> QED BY <2>1, <2>2, StreakTypes
<1>5. sweep'.stage = "SWITCH_OFF" => streak'[Of(Now.to)] + faults' >= FailureLimit
  <2> SUFFICES ASSUME sweep'.stage = "SWITCH_OFF"
               PROVE  streak'[Of(Now.to)] + faults' >= FailureLimit
    OBVIOUS
  <2>1. sweep.stage = "SWITCH_OFF" /\ Of(Now.to) \in Subscriptions
    BY <1>2
  <2>2. streak[Of(Now.to)] + faults >= FailureLimit /\ FailureLimit \in Nat
    BY <2>1, WebhookAssumption DEF StreaksInv, Streaks
  <2> QED BY <2>1, <2>2, StreakTypes
<1> QED BY <1>1, <1>3, <1>4, <1>5 DEF Streaks

\* A try that fails, or a fault of ours, stands behind every failure to be counted.
LEMMA TriedStreaks ==
    ASSUME StreaksInv, sweep.todo # <<>>, sweep'.todo = sweep.todo,
           UNCHANGED subscription, faults' \in {faults, faults + 1},
           \/ /\ sweep'.stage = "ACCEPTED" /\ UNCHANGED streak
           \/ /\ sweep'.stage = "REFUSED" /\ Tried
           \/ /\ sweep'.stage = "REFUSED" /\ UNCHANGED streak /\ faults' = faults + 1
    PROVE  Streaks'
<1>1. Of(Now.to) \in Subscriptions /\ Now' = Now /\ streak \in [Subscriptions -> Nat]
  BY NowType DEF StreaksInv, BatchInv, LineInv, WebhookTypeOK, Now
<1>2. \A s \in Subscriptions : streak'[s] \in {streak[s], streak[s] + 1}
  BY <1>1 DEF Tried
<1>3. ASSUME NEW s \in Subscriptions PROVE subscription'[s].failures <= streak'[s] + faults'
  BY <1>2, StreakTypes
<1>4. sweep'.stage = "REFUSED" =>
        subscription'[Of(Now.to)].failures + 1 <= streak'[Of(Now.to)] + faults'
  <2>1. CASE Tried
    <3>1. streak'[Of(Now.to)] = streak[Of(Now.to)] + 1
      BY <1>1, <2>1 DEF Tried
    <3> QED BY <1>1, <3>1, StreakTypes
  <2>2. CASE UNCHANGED streak /\ faults' = faults + 1
    BY <1>1, <2>2, StreakTypes
  <2> QED BY <2>1, <2>2
<1> QED BY <1>1, <1>3, <1>4 DEF Streaks

\* No statement of the sweep puts a counter ahead.
LEMMA StatementStreaks ==
    ASSUME StreaksInv,
           \/ At("ACCEPTED") /\ WriteSent
           \/ At("REFUSED") /\ WriteFailed
           \/ At("COUNT") /\ WriteCount
           \/ At("SWITCH_OFF") /\ WriteOff,
           NEW s \in Subscriptions
    PROVE  subscription'[s].failures \in Nat /\ subscription'[s].failures <= streak'[s] + faults
<1> DEFINE x == Of(Now.to)
<1>1. /\ subscription[s] \in SubscriptionRows /\ streak \in [Subscriptions -> Nat]
      /\ subscription \in [Subscriptions -> SubscriptionRows]
  BY DEF StreaksInv, BatchInv, LineInv, WebhookTypeOK, SubscriptionRows
<1>2. x \in Subscriptions /\ \A n : /\ [subscription[s] EXCEPT !.failures = n].failures = n
                                   /\ [subscription[s] EXCEPT !.state = n].failures
                                      = subscription[s].failures
  BY <1>1, NowType DEF At, StreaksInv, BatchInv, LineInv, SubscriptionRows
<1>3. subscription[s].failures \in Nat
  BY StreakTypes
<1> HIDE DEF x
<1>4. CASE WriteSent
  <2>1. subscription' = [subscription EXCEPT ![x].failures = 0] /\ streak' = [streak EXCEPT ![x] = 0]
    BY <1>4 DEF WriteSent, FailuresAfterSuccess, x
  <2>2. CASE s = x
    <3>1. subscription'[s] = [subscription[s] EXCEPT !.failures = 0] /\ streak'[s] = 0
      BY <1>1, <2>1, <2>2
    <3> QED BY <1>2, <3>1, StreakTypes
  <2>3. CASE s # x
    BY <1>1, <2>1, <2>3, StreakTypes
  <2> QED BY <2>2, <2>3
<1>5. CASE WriteFailed
  BY <1>3, <1>5, StreakTypes DEF WriteFailed
<1>6. CASE At("COUNT") /\ WriteCount
  <2>1. /\ subscription' = [subscription EXCEPT ![x].failures = subscription[x].failures + 1]
        /\ streak' = streak
    BY <1>6 DEF WriteCount, x
  <2>2. CASE s = x
    <3>1. subscription'[s] = [subscription[s] EXCEPT !.failures = subscription[s].failures + 1]
      BY <1>1, <2>1, <2>2
    <3>2. subscription[s].failures + 1 <= streak[s] + faults
      BY <1>6, <2>2 DEF At, StreaksInv, Streaks, x
    <3>3. subscription'[s].failures = subscription[s].failures + 1
      BY <1>2, <3>1
    <3> QED BY <1>3, <2>1, <3>2, <3>3
  <2>3. CASE s # x
    BY <1>1, <2>1, <2>3, StreakTypes
  <2> QED BY <2>2, <2>3
<1>7. CASE WriteOff
  <2>1. PICK state : /\ subscription' = [subscription EXCEPT ![x].state = state]
                     /\ streak' = streak
    BY <1>7 DEF WriteOff, x
  <2>2. subscription'[s].failures = subscription[s].failures
    <3>1. subscription'[s] \in {subscription[s], [subscription[s] EXCEPT !.state = state]}
      BY <1>1, <2>1
    <3> QED BY <1>2, <3>1
  <2> QED BY <2>1, <2>2, StreakTypes
<1> QED BY <1>4, <1>5, <1>6, <1>7

\* Having written, the sweep goes to the next delivery, or takes the lost acknowledgement
\* for a failure: the fault pays for it.
LEMMA WrittenStreaks ==
    ASSUME StreaksInv,
           RecordSent \/ (CountFailure /\ sweep' = Next1) \/ SwitchOff \/ AcknowledgementLost
    PROVE  Streaks'
<1>1. /\ \/ At("ACCEPTED") /\ WriteSent
         \/ At("REFUSED") /\ WriteFailed
         \/ At("COUNT") /\ WriteCount
         \/ At("SWITCH_OFF") /\ WriteOff
      /\ LineInv /\ WebhookTypeOK /\ sweep \in SweepStates
  BY DEF RecordSent, CountFailure, SwitchOff, AcknowledgementLost, StreaksInv, BatchInv, LineInv,
         WebhookTypeOK, SweepStates
<1>2. /\ sweep.todo # <<>> /\ faults \in Nat /\ Of(Now.to) \in Subscriptions
      /\ \A s \in Subscriptions : /\ subscription'[s].failures \in Nat /\ streak'[s] \in Nat
                                  /\ subscription'[s].failures <= streak'[s] + faults
  <2>1. sweep.todo # <<>> /\ (WriteSent \/ WriteFailed \/ WriteCount \/ WriteOff)
    BY <1>1 DEF At
  <2>2. streak' \in [Subscriptions -> Nat]
    BY <1>1, <2>1, StatementTypes
  <2>3. \A s \in Subscriptions : /\ subscription'[s].failures \in Nat
                                 /\ subscription'[s].failures <= streak'[s] + faults
    BY <1>1, StatementStreaks
  <2>4. faults \in Nat
    BY <1>1, WebhookAssumption DEF WebhookTypeOK
  <2> QED BY <1>1, <2>1, <2>2, <2>3, <2>4, NowType
<1>3. CASE RecordSent \/ (CountFailure /\ sweep' = Next1) \/ SwitchOff
  <2>1. sweep'.stage = "NEXT" /\ faults' = faults
    BY <1>3 DEF RecordSent, CountFailure, SwitchOff, Next1, Idle
  <2> QED BY <1>2, <2>1 DEF Streaks
<1>4. CASE AcknowledgementLost
  <2>1. sweep'.stage = "REFUSED" /\ faults' = faults + 1 /\ Now' = Now
    BY <1>1, <1>4 DEF AcknowledgementLost, Caught, SweepStates, Now
  <2> QED BY <1>1, <1>2, <2>1 DEF Streaks
<1> QED BY <1>3, <1>4

LEMMA CountedStreaks ==
    ASSUME StreaksInv, CountFailure
    PROVE  Streaks'
<1> DEFINE x == Of(Now.to)
<1>1. /\ x \in Subscriptions /\ subscription[x].failures + 1 <= streak[x] + faults
      /\ UNCHANGED <<streak, faults>> /\ sweep \in SweepStates
  BY NowType DEF CountFailure, WriteCount, At, StreaksInv, Streaks, BatchInv, LineInv,
                 WebhookTypeOK, SweepStates
<1>2. \A s \in Subscriptions : subscription'[s].failures <= streak'[s] + faults'
  BY <1>1, StatementStreaks DEF CountFailure, At
<1>3. CASE sweep' = Next1
  BY <1>3, WrittenStreaks
<1>4. CASE sweep' = [sweep EXCEPT !.stage = "SWITCH_OFF"]
           /\ subscription[x].failures + 1 >= FailureLimit
  <2>1. sweep'.stage = "SWITCH_OFF" /\ Now' = Now
    BY <1>1, <1>4 DEF SweepStates, Now
  <2>2. streak[x] + faults >= FailureLimit
    BY <1>1, <1>4, StreakTypes, WebhookAssumption
  <2> QED BY <1>1, <1>2, <2>1, <2>2 DEF Streaks
<1> QED BY <1>3, <1>4 DEF CountFailure

LEMMA StreaksStep == StreaksInv /\ [WebhookNext]_webhookVars => StreaksInv'
<1> SUFFICES ASSUME StreaksInv, [WebhookNext]_webhookVars PROVE StreaksInv'
  OBVIOUS
<1>1. BatchInv'
  BY BatchStep DEF StreaksInv
<1> SUFFICES Streaks'
  BY <1>1 DEF StreaksInv
<1>2. /\ WebhookTypeOK /\ faults \in Nat /\ faults' \in Nat /\ sweep \in SweepStates
      /\ \A s \in Subscriptions : /\ subscription[s].failures \in Nat
                                  /\ subscription'[s].failures \in Nat
  <2>1. WebhookTypeOK /\ WebhookTypeOK'
    BY <1>1 DEF StreaksInv, BatchInv, LineInv
  <2>2. /\ subscription \in [Subscriptions -> SubscriptionRows]
        /\ subscription' \in [Subscriptions -> SubscriptionRows]
        /\ faults \in 0..MaxFaults /\ faults' \in 0..MaxFaults
    BY <2>1 DEF WebhookTypeOK, SubscriptionRows
  <2> QED BY <2>1, <2>2, WebhookAssumption DEF SubscriptionRows, WebhookTypeOK, SweepStates
<1>3. ASSUME UNCHANGED <<subscription, streak>>, faults' \in {faults, faults + 1},
             \/ sweep'.stage = "NEXT" \/ sweep' = sweep
             \/ /\ sweep.stage = "REFUSED" /\ sweep'.stage = "COUNT"
                /\ sweep'.todo = sweep.todo
      PROVE  Streaks'
  BY <1>2, <1>3, QuietStreaks
<1>4. CASE Outsider
  BY <1>2, <1>4, OutsiderIsOutside, QuietStreaks DEF Outside
<1>5. CASE SweepRead
  <2>1. sweep'.stage = "NEXT"
    BY <1>5, SweepReadType DEF StreaksInv, BatchInv
  <2> QED BY <1>3, <1>5, <2>1 DEF SweepRead
<1>6. CASE BuryInactive \/ SweepEnds
  BY <1>3, <1>6 DEF BuryInactive, SweepEnds, Next1, Idle
<1>7. CASE RecordFailed
  BY <1>2, <1>3, <1>7 DEF RecordFailed, WriteFailed, At, SweepStates
<1>8. CASE RecordSent \/ SwitchOff \/ AcknowledgementLost
  BY <1>8, WrittenStreaks
<1>9. CASE Post
  <2>1. sweep'.todo = sweep.todo /\ sweep.todo # <<>> /\ UNCHANGED subscription
    BY <1>2, <1>9 DEF Post, At, Taken, Refused, SweepStates
  <2>2. \/ sweep'.stage = "ACCEPTED" /\ UNCHANGED streak /\ faults' = faults
        \/ sweep'.stage = "REFUSED" /\ Tried /\ faults' \in {faults, faults + 1}
    BY <1>2, <1>9 DEF Post, Taken, Refused, SweepStates
  <2> QED BY <2>1, <2>2, TriedStreaks
<1>10. CASE DatabaseFails
  <2>1. /\ sweep'.todo = sweep.todo /\ sweep.todo # <<>> /\ sweep'.stage = "REFUSED"
        /\ UNCHANGED <<subscription, streak>> /\ faults' = faults + 1
    BY <1>2, <1>10 DEF DatabaseFails, Caught, SweepStates, StreaksInv, BatchInv, Batch
  <2> QED BY <2>1, TriedStreaks
<1>11. CASE UNCHANGED webhookVars
  BY <1>3, <1>11 DEF webhookVars
<1> QED
  BY <1>4, <1>5, <1>6, <1>7, <1>8, <1>9, <1>10, <1>11, CountedStreaks, WhoSteps

LEMMA StreaksHold == WebhookSpec => []StreaksInv
<1>1. WebhookInit => Streaks
  BY DEF WebhookInit, Idle, Streaks
<1>2. WebhookInit /\ BatchInv => StreaksInv
  BY <1>1 DEF StreaksInv
<1> QED BY <1>2, BatchHolds, StreaksStep, PTL DEF WebhookSpec

\* Whoever switches a subscription off by itself, the limit of tries in a row had failed,
\* but for those a fault of ours stood for: deliveries, re-enabling and restarts in
\* between do not add up to it.
THEOREM SwitchedOffWithCause == WebhookSpec => SwitchedOffForCause
<1> DEFINE Cause == \A s \in Subscriptions :
                       SwitchesOff(s) => streak[s] + faults >= FailureLimit
<1>1. ASSUME StreaksInv, [WebhookNext]_webhookVars, NEW s \in Subscriptions, SwitchesOff(s)
      PROVE  streak[s] + faults >= FailureLimit
  <2>1. subscription \in [Subscriptions -> SubscriptionRows]
    BY <1>1 DEF StreaksInv, BatchInv, LineInv, WebhookTypeOK, SubscriptionRows
  <2>2. ASSUME At("SWITCH_OFF"), WriteOff PROVE streak[s] + faults >= FailureLimit
    <3>1. s = Of(Now.to)
      BY <1>1, <2>1, <2>2 DEF WriteOff, SwitchesOff
    <3> QED BY <1>1, <2>2, <3>1 DEF At, StreaksInv, Streaks
  <2>3. ASSUME NEW m \in Subscriptions, NEW r, r.state # "AUTO" \/ r.state = subscription[m].state,
               Administer(m, r)
        PROVE  FALSE
    BY <1>1, <2>1, <2>3 DEF Administer, SwitchesOff
  <2>4. ~Outsider
    <3>1. \A m \in Subscriptions : subscription[m] \in SubscriptionRows
      BY <2>1
    <3>2. ASSUME NEW m \in Subscriptions, NEW selection \in Selections,
                 Create(m, selection) \/ UpdateEvents(m, selection)
          PROVE  FALSE
      <4>1. [subscription[m] EXCEPT !.events = selection].state = subscription[m].state
        BY <3>1 DEF SubscriptionRows
      <4> QED BY <2>3, <3>2, <4>1 DEF Create, UpdateEvents
    <3>3. ASSUME NEW m \in Subscriptions, Enable(m) \/ Disable(m) \/ Delete(m) PROVE FALSE
      <4>1. /\ [subscription[m] EXCEPT !.state = "ON", !.failures = 0].state # "AUTO"
            /\ [subscription[m] EXCEPT !.state = "OFF"].state # "AUTO"
            /\ [subscription[m] EXCEPT !.state = "GONE"].state # "AUTO"
        BY <3>1 DEF SubscriptionRows
      <4> QED BY <2>3, <3>3, <4>1 DEF Enable, Disable, Delete
    <3>4. subscription' # subscription
      BY <1>1 DEF SwitchesOff
    <3> QED
      BY <3>2, <3>3, <3>4
         DEF Outsider, Publish, ClaimInbox, ReadSubscriptions, CreateDeliveries, JobFails,
             JobStep, BackoffElapses
  <2>5. ~WriteSent /\ ~WriteCount /\ ~WriteFailed
    <3>1. \A m \in Subscriptions : \A n :
            [subscription[m] EXCEPT !.failures = n].state = subscription[m].state
      BY <2>1 DEF SubscriptionRows
    <3>2. WriteSent => subscription'[s].state = subscription[s].state
      BY <2>1, <3>1 DEF WriteSent
    <3>3. WriteCount => subscription'[s].state = subscription[s].state
      BY <2>1, <3>1 DEF WriteCount
    <3> QED BY <1>1, <3>2, <3>3 DEF WriteFailed, SwitchesOff
  <2>6. subscription' # subscription
    BY <1>1 DEF SwitchesOff
  <2>7. \/ RecordSent \/ RecordFailed \/ CountFailure \/ SwitchOff \/ AcknowledgementLost
    BY <1>1, <2>4, <2>6, WhoSteps
       DEF SweepRead, webhookVars, BuryInactive, Post, DatabaseFails, SweepEnds
  <2>8. At("SWITCH_OFF") /\ WriteOff
    BY <2>5, <2>7 DEF RecordSent, RecordFailed, CountFailure, SwitchOff, AcknowledgementLost
  <2> QED BY <2>2, <2>8
<1>2. StreaksInv /\ [WebhookNext]_webhookVars => [Cause]_webhookVars
  BY <1>1
<1> QED BY <1>2, StreaksHold, PTL DEF WebhookSpec, SwitchedOffForCause
=============================================================================
