---------------------------- MODULE Idempotency ----------------------------
(***************************************************************************)
(* shared/middleware/Idempotency.ts: what a retried mutation finds under   *)
(* its Idempotency-Key.  One key of one actor on one path (the scope the   *)
(* middleware hashes); a request is one attempt that carries the key.      *)
(*                                                                         *)
(* Every await of the middleware is a step, so attempts interleave in it;  *)
(* the client may hang up, the process may die, Redis may fail and the     *)
(* record may expire between any two.  RedisCache swallows its errors: a   *)
(* failed read finds nothing, a failed write is lost.                      *)
(***************************************************************************)
EXTENDS Naturals, FiniteSets

CONSTANTS
    Requests,
    Payloads,
    Nobody,         \* stands for no request
    Redis,          \* config.redis.enabled; without it the records die with the process
    MaxForgotten,   \* bound: hang-ups, expiries and restarts that empty the memory
    MaxLapses       \* bound: failures of Redis

ASSUME IdempotencyAssumption ==
    /\ IsFiniteSet(Requests) /\ Nobody \notin Requests
    /\ Redis \in BOOLEAN /\ {MaxForgotten, MaxLapses} \subseteq Nat

None == [state |-> "NONE", by |-> Nobody]
Records == [state : {"NONE", "PENDING", "COMPLETED"}, by : Requests \cup {Nobody}]

VARIABLES
    record,     \* the stored record; by: the request whose payload and answer it holds
    at,         \* where the middleware is with each request
    payload,
    effect,     \* the requests whose handler committed its mutation
    replayed,   \* for each request, the request whose answer it was given
    cut,        \* the requests whose connection closed before their answer was sent
    forgotten, lapses

vars == <<record, at, payload, effect, replayed, cut, forgotten, lapses>>

Stages == {"NEW", "LOOK", "RESERVE", "RACED", "RUN", "SUCCEEDED", "FAILED", "SEND",
           "ANSWERED", "LOST"}

TypeOK ==
    /\ record \in Records
    /\ at \in [Requests -> Stages]
    /\ payload \in [Requests -> Payloads]
    /\ effect \subseteq Requests /\ cut \subseteq Requests
    /\ replayed \in [Requests -> Requests \cup {Nobody}]
    /\ forgotten \in Nat /\ lapses \in Nat

Init ==
    /\ record = None
    /\ at = [r \in Requests |-> "NEW"]
    /\ payload \in [Requests -> Payloads]
    /\ effect = {} /\ cut = {}
    /\ replayed = [r \in Requests |-> Nobody]
    /\ forgotten = 0 /\ lapses = 0

-----------------------------------------------------------------------------
Goes(r, from, to) == at[r] = from /\ at' = [at EXCEPT ![r] = to]

\* An operation on Redis works, or fails unnoticed.
Works == lapses' = lapses
Lapses == Redis /\ lapses < MaxLapses /\ lapses' = lapses + 1
Forget == forgotten < MaxForgotten /\ forgotten' = forgotten + 1

Arrive(r) ==
    /\ Goes(r, "NEW", "LOOK")
    /\ UNCHANGED <<record, payload, effect, replayed, cut, forgotten, lapses>>

\* replayOrThrow: the stored answer for the same payload, a conflict otherwise.
SameFingerprintAny(r) == TRUE  \* bug: the key alone decides
SameFingerprint(r) == payload[record.by] = payload[r]
ReplayOrThrow(r, from) ==
    /\ Goes(r, from, "ANSWERED")
    /\ replayed' = IF SameFingerprint(r) /\ record.state = "COMPLETED"
                   THEN [replayed EXCEPT ![r] = record.by] ELSE replayed

GetRecord(r) ==
    /\ \/ record # None /\ ReplayOrThrow(r, "LOOK") /\ Works
       \/ record = None /\ Goes(r, "LOOK", "RESERVE") /\ UNCHANGED replayed /\ Works
       \/ record # None /\ Goes(r, "LOOK", "RESERVE") /\ UNCHANGED replayed /\ Lapses
    /\ UNCHANGED <<record, payload, effect, cut, forgotten>>

\* SET NX; its answer may be lost with or without the record having been written.
FreeAlways == TRUE  \* bug: a plain SET
Free == record = None
Reserve(r) ==
    /\ \/ /\ Free /\ Goes(r, "RESERVE", "RUN") /\ Works
          /\ record' = [state |-> "PENDING", by |-> r]
       \/ ~Free /\ Goes(r, "RESERVE", "RACED") /\ UNCHANGED record /\ Works
       \/ /\ Goes(r, "RESERVE", "RACED") /\ Lapses
          /\ record' \in {record, IF Free THEN [state |-> "PENDING", by |-> r] ELSE record}
    /\ UNCHANGED <<payload, effect, replayed, cut, forgotten>>

\* The record that was in the way is read again; gone or unread, it counts as in progress.
Raced(r) ==
    /\ \/ record # None /\ ReplayOrThrow(r, "RACED") /\ Works
       \/ record = None /\ Goes(r, "RACED", "ANSWERED") /\ UNCHANGED replayed /\ Works
       \/ record # None /\ Goes(r, "RACED", "ANSWERED") /\ UNCHANGED replayed /\ Lapses
    /\ UNCHANGED <<record, payload, effect, cut, forgotten>>

\* The route's own handler, whose answer goes through the wrapped res.json.
Handle(r) ==
    /\ \/ Goes(r, "RUN", "SUCCEEDED") /\ effect' = effect \cup {r}
       \/ Goes(r, "RUN", "FAILED") /\ UNCHANGED effect
    /\ UNCHANGED <<record, payload, replayed, cut, forgotten, lapses>>

Save(r) ==
    /\ \/ record' = [state |-> "COMPLETED", by |-> r] /\ Works
       \/ UNCHANGED record /\ Lapses
ReleaseNothing == Works /\ UNCHANGED record  \* bug: a refused attempt keeps the key
Release == \/ record' = None /\ Works
           \/ UNCHANGED record /\ Lapses

\* Only then is the answer sent, a success as much as a refusal.
Finalize(r) ==
    /\ \/ Goes(r, "SUCCEEDED", "SEND") /\ Save(r)
       \/ Goes(r, "FAILED", "SEND") /\ Release
    /\ UNCHANGED <<payload, effect, replayed, cut, forgotten>>

Send(r) ==
    /\ Goes(r, "SEND", "ANSWERED")
    /\ UNCHANGED <<record, payload, effect, replayed, cut, forgotten, lapses>>

\* The client hangs up: the key is released, the handler runs on.
Close(r) ==
    /\ at[r] \in {"RUN", "SUCCEEDED", "FAILED", "SEND"} /\ r \notin cut
    /\ cut' = cut \cup {r}
    /\ Forget /\ Release
    /\ UNCHANGED <<at, payload, effect, replayed>>

Expire ==
    /\ record # None /\ Forget
    /\ record' = None
    /\ UNCHANGED <<at, payload, effect, replayed, cut, lapses>>

\* A process dies with the requests it was serving: one of several that share Redis,
\* or the only one, whose memory goes with it.
Served == {r \in Requests : at[r] \notin {"NEW", "ANSWERED", "LOST"}}
Die(dead) ==
    /\ dead # {} /\ at' = [r \in Requests |-> IF r \in dead THEN "LOST" ELSE at[r]]
    /\ IF Redis THEN UNCHANGED <<record, forgotten>>
                ELSE dead = Served /\ record' = None /\ Forget
    /\ UNCHANGED <<payload, effect, replayed, cut, lapses>>

Step(r) == \/ GetRecord(r) \/ Reserve(r) \/ Raced(r) \/ Handle(r) \/ Finalize(r) \/ Send(r)

Next ==
    \/ \E r \in Requests : Arrive(r) \/ Step(r) \/ Close(r)
    \/ Expire
    \/ \E dead \in SUBSET Served : Die(dead)

Spec == Init /\ [][Next]_vars

\* Node runs what it has begun; clients, time and faults owe nothing.
FairSpec == Spec /\ \A r \in Requests : WF_vars(Step(r))

-----------------------------------------------------------------------------
(* What is promised.                                                       *)

\* "Supplying the same key with a different payload fails with 409": whoever is given
\* the answer of another request asked for the same, and that one did take effect.
ReplayIsTruthful ==
    \A r \in Requests : replayed[r] # Nobody =>
        payload[replayed[r]] = payload[r] /\ replayed[r] \in effect

\* However many retries arrive, and however Redis fails, the mutation is made once, and
\* once more only for each time the key was forgotten.
ExecutedOnce == Cardinality(effect) <= 1 + forgotten

\* "Validation, permission, conflict and server failures must remain retryable with the
\* same key": no key stays in progress once the requests with it are through, unless a
\* process died or Redis failed over it.
InProgress == record.state = "PENDING"
KeyIsResolved ==
    InProgress ~> (~InProgress \/ lapses > 0 \/ \E r \in Requests : at[r] = "LOST")

\* "Replays a successful mutation for 24 hours" (Idempotency.ts:85): with the client
\* gone, the retry it is meant for is not executed again.
Running == {r \in Requests : at[r] \in {"RUN", "SUCCEEDED", "FAILED"}}
Expired == forgotten > Cardinality(cut)
ReplaysASuccess == Cardinality(effect) <= 1 \/ Expired
=============================================================================
