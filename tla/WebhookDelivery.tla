-------------------------- MODULE WebhookDelivery --------------------------
(***************************************************************************)
(* Domain events on their way to customers' endpoints: the BullMQ job of   *)
(* worker.ts that fans an event out to subscriptions, and the sweep of     *)
(* modules/webhook/webhook.service.ts that posts what is due.              *)
(*                                                                         *)
(* One worker process runs the sweep with concurrency 1, so two sweeps     *)
(* never overlap; administrators, fan-outs and time run in between its     *)
(* statements, and the process or the database may fail at any of them.    *)
(* A sweep works from what it read at its start.                           *)
(***************************************************************************)
EXTENDS Integers, SequencesExt, FiniteSetsExt

CONSTANTS
    Subscriptions,
    Events,         \* domain events of one company with a name in the catalogue
    Selections,     \* the sets of events a subscription may ask for
    MaxAttempts,    \* MAX_ATTEMPTS
    FailureLimit,   \* FAILURE_LIMIT
    BatchSize,      \* deliveries a sweep takes
    MaxFaults       \* bound: crashes of the worker, failures of the database, lost answers

ASSUME WebhookAssumption ==
    /\ Selections \subseteq SUBSET Events
    /\ {MaxAttempts, FailureLimit, BatchSize} \subseteq Nat \ {0} /\ MaxFaults \in Nat
    /\ IsFiniteSet(Subscriptions)

Deliveries == Subscriptions \X Events   \* webhook_deliveries, unique by both
DeliveryStatus == {"NONE", "PENDING", "FAILED", "SENT", "DEAD"}

VARIABLES
    job,            \* the domain-events job of each event
    inbox,          \* events whose inbox key is claimed in Redis
    targets,        \* the subscriptions a fan-out has read
    subscription,   \* webhook_subscriptions; only ON is active
    delivery,       \* [status, attempts] of each delivery
    line,           \* the deliveries due now, by nextAttemptAt
    sweep,          \* the sweep at work: the rest of its batch and where it is
    customer,       \* calls tried for each delivery, and accepted by the customer
    streak,         \* tries that failed for a subscription since one was recorded as sent
    faults

jobs == <<job, inbox, targets>>
webhookVars == <<jobs, subscription, delivery, line, sweep, customer, streak, faults>>

\* What a sweep read of a delivery that is due: its attempts, and whether its
\* subscription is active.
Entries == [to : Deliveries, attempts : 0..(MaxAttempts - 1), on : BOOLEAN]
SweepStages == {"NEXT", "ACCEPTED", "REFUSED", "COUNT", "SWITCH_OFF"}
WebhookTypeOK ==
    /\ job \in [Events -> {"NONE", "QUEUED", "CLAIMED", "READ", "DONE"}]
    /\ inbox \subseteq Events
    /\ targets \in [Events -> SUBSET Subscriptions]
    /\ subscription \in [Subscriptions ->
         [state : {"NONE", "ON", "OFF", "AUTO", "GONE"}, events : SUBSET Events, failures : Nat]]
    /\ delivery \in [Deliveries -> [status : DeliveryStatus, attempts : 0..MaxAttempts]]
    /\ line \in Seq(Deliveries) /\ IsInjective(line)
    /\ sweep \in [todo : Seq(Entries), stage : SweepStages, caught : BOOLEAN]
    /\ customer \in [Deliveries -> [calls : Nat, accepted : Nat]]
    /\ streak \in [Subscriptions -> Nat]
    /\ faults \in 0..MaxFaults

Idle == [todo |-> <<>>, stage |-> "NEXT", caught |-> FALSE]

WebhookInit ==
    /\ job = [e \in Events |-> "NONE"]
    /\ inbox = {}
    /\ targets = [e \in Events |-> {}]
    /\ subscription = [s \in Subscriptions |-> [state |-> "NONE", events |-> {}, failures |-> 0]]
    /\ delivery = [d \in Deliveries |-> [status |-> "NONE", attempts |-> 0]]
    /\ line = <<>>
    /\ sweep = Idle
    /\ customer = [d \in Deliveries |-> [calls |-> 0, accepted |-> 0]]
    /\ streak = [s \in Subscriptions |-> 0]
    /\ faults = 0

-----------------------------------------------------------------------------
(* Subscriptions.  One that is deleted stays so, whatever isActive says.   *)

Administer(s, row) ==
    /\ subscription' = [subscription EXCEPT ![s] = row]
    /\ UNCHANGED <<jobs, delivery, line, sweep, customer, streak, faults>>

Create(s, selection) ==
    /\ subscription[s].state = "NONE"
    /\ Administer(s, [state |-> "ON", events |-> selection, failures |-> 0])

Kept(s) == subscription[s].state \notin {"NONE", "GONE"}

UpdateEvents(s, selection) ==
    Kept(s) /\ Administer(s, [subscription[s] EXCEPT !.events = selection])
Enable(s) ==
    Kept(s) /\ Administer(s, [subscription[s] EXCEPT !.state = "ON", !.failures = 0])
Disable(s) ==
    Kept(s) /\ Administer(s, [subscription[s] EXCEPT !.state = "OFF"])
Delete(s) ==
    Kept(s) /\ Administer(s, [subscription[s] EXCEPT !.state = "GONE"])

-----------------------------------------------------------------------------
(* Fan-out: claim the event, read who is interested, insert their rows.    *)

JobStep(e, from, to) ==
    /\ job[e] = from /\ job' = [job EXCEPT ![e] = to]
    /\ UNCHANGED <<subscription, sweep, customer, streak>>

\* The enqueueing may fail, and then nobody knows of the event any more.
Publish(e) ==
    /\ \E to \in {"QUEUED", "DONE"} : JobStep(e, "NONE", to)
    /\ UNCHANGED <<inbox, targets, delivery, line, faults>>

ClaimInbox(e) ==
    /\ JobStep(e, "QUEUED", IF e \in inbox THEN "DONE" ELSE "CLAIMED")
    /\ inbox' = inbox \cup {e}
    /\ UNCHANGED <<targets, delivery, line, faults>>

Interested(e) ==
    {s \in Subscriptions : subscription[s].state = "ON" /\ e \in subscription[s].events}

ReadSubscriptions(e) ==
    /\ JobStep(e, "CLAIMED", "READ")
    /\ targets' = [targets EXCEPT ![e] = Interested(e)]
    /\ UNCHANGED <<inbox, delivery, line, faults>>

\* createMany with skipDuplicates; the rows of one insert are due at the same time.
NewRows(e) == {d \in targets[e] \X {e} : delivery[d].status = "NONE"}
CreateDeliveries(e) ==
    /\ JobStep(e, "READ", "DONE")
    /\ delivery' = [d \in Deliveries |-> IF d \in NewRows(e)
                                         THEN [delivery[d] EXCEPT !.status = "PENDING"]
                                         ELSE delivery[d]]
    /\ \E rows \in SetToSeqs(NewRows(e)) : line' = line \o rows
    /\ UNCHANGED <<inbox, targets, faults>>

\* The job throws, or its worker dies, and the queue delivers it again.
JobFails(e) ==
    /\ faults < MaxFaults /\ faults' = faults + 1
    /\ \E from \in {"CLAIMED", "READ"} : JobStep(e, from, "QUEUED")
    /\ UNCHANGED <<inbox, targets, delivery, line>>

-----------------------------------------------------------------------------
(* The sweep.                                                              *)

\* The delivery at hand, as it was read with its subscription.
Now == Head(sweep.todo)
Of(d) == d[1]
At(stage) == sweep.todo # <<>> /\ sweep.stage = stage

Next1 == [Idle EXCEPT !.todo = Tail(sweep.todo)]

BatchRead(n) ==
    [i \in 1..n |-> [to |-> line[i], attempts |-> delivery[line[i]].attempts,
                     on |-> subscription[Of(line[i])].state = "ON"]]

\* The first of the line, as many as find a place in the batch: the sweep serves every
\* company at once, and deliveries of others that are due may take the rest of it.
SweepReadOnce ==  \* bug: a sweep goes on from where the last one read, past what that one left
    /\ sweep.todo = <<>>
    /\ \E n \in 1..Min({BatchSize, Len(line)}) :
         /\ sweep' = [Idle EXCEPT !.todo = BatchRead(n)]
         /\ line' = SubSeq(line, 1, n)
    /\ UNCHANGED <<jobs, subscription, delivery, customer, streak, faults>>
SweepRead ==
    /\ sweep.todo = <<>>
    /\ \E n \in 1..Min({BatchSize, Len(line)}) : sweep' = [Idle EXCEPT !.todo = BatchRead(n)]
    /\ UNCHANGED <<jobs, subscription, delivery, line, customer, streak, faults>>

\* Status and attempts are written together with the next due time, which is not yet.
LeftDue(d) == line  \* bug: what is settled or waits is swept all the same
Left(d) == RemoveFirst(line, d)
Write(d, status, attempts) ==
    /\ delivery' = [delivery EXCEPT ![d] = [status |-> status, attempts |-> attempts]]
    /\ line' = Left(d)

BuryInactive ==
    /\ At("NEXT") /\ ~Now.on
    /\ Write(Now.to, "DEAD", delivery[Now.to].attempts)
    /\ sweep' = Next1
    /\ UNCHANGED <<jobs, subscription, customer, streak, faults>>

\* A refusal is an answer, or the lack of one, which is caught; at worst the customer
\* accepts and only the answer is lost.
Refused(thrown) ==
    /\ sweep' = [sweep EXCEPT !.stage = "REFUSED", !.caught = thrown]
    /\ customer' = [customer EXCEPT ![Now.to].calls = @ + 1]
Taken(stage, thrown) ==
    /\ sweep' = [sweep EXCEPT !.stage = stage, !.caught = thrown]
    /\ customer' = [customer EXCEPT ![Now.to] = [calls |-> @.calls + 1, accepted |-> @.accepted + 1]]
Tried == streak' = [streak EXCEPT ![Of(Now.to)] = @ + 1]

Post ==
    /\ At("NEXT") /\ Now.on
    /\ \/ Taken("ACCEPTED", FALSE) /\ UNCHANGED <<streak, faults>>
       \/ (\E thrown \in BOOLEAN : Refused(thrown)) /\ Tried /\ UNCHANGED faults
       \/ /\ faults < MaxFaults /\ faults' = faults + 1
          /\ Taken("REFUSED", TRUE) /\ Tried
    /\ UNCHANGED <<jobs, subscription, delivery, line>>

SentStatusFailed(d) == "FAILED"  \* bug: a success is written like a failure
SentStatus(d) == "SENT"
FailuresKept(s) == subscription[s].failures  \* bug: the count of failures in a row is not reset
FailuresAfterSuccess(s) == 0

\* The row and the counter are one transaction.
WriteSent ==
    /\ Write(Now.to, SentStatus(Now.to), Now.attempts + 1)
    /\ subscription' = [subscription EXCEPT ![Of(Now.to)].failures =
                          FailuresAfterSuccess(Of(Now.to))]
    /\ streak' = [streak EXCEPT ![Of(Now.to)] = 0]
RecordSent ==
    /\ At("ACCEPTED") /\ WriteSent
    /\ sweep' = Next1
    /\ UNCHANGED <<jobs, customer, faults>>

ExhaustedLate(attempts) == attempts > MaxAttempts  \* bug: one more than promised
Exhausted(attempts) == attempts >= MaxAttempts
WriteFailed ==
    /\ Write(Now.to, IF Exhausted(Now.attempts + 1) THEN "DEAD" ELSE "FAILED", Now.attempts + 1)
    /\ UNCHANGED <<subscription, streak>>
RecordFailed ==
    /\ At("REFUSED") /\ WriteFailed
    /\ sweep' = [sweep EXCEPT !.stage = "COUNT"]
    /\ UNCHANGED <<jobs, customer, faults>>

WriteCount ==
    /\ subscription' = [subscription EXCEPT ![Of(Now.to)].failures = @ + 1]
    /\ UNCHANGED <<delivery, line, streak>>
CountFailure ==
    /\ At("COUNT") /\ WriteCount
    /\ LET s == subscription[Of(Now.to)] IN
       sweep' = IF s.state = "ON" /\ s.failures + 1 >= FailureLimit
                THEN [sweep EXCEPT !.stage = "SWITCH_OFF"] ELSE Next1
    /\ UNCHANGED <<jobs, customer, faults>>

\* A subscription removed meanwhile stays removed.
WriteOff ==
    /\ subscription' = [subscription EXCEPT ![Of(Now.to)].state =
                          IF @ = "GONE" THEN "GONE" ELSE "AUTO"]
    /\ UNCHANGED <<delivery, line, streak>>
SwitchOff ==
    /\ At("SWITCH_OFF") /\ WriteOff
    /\ sweep' = Next1
    /\ UNCHANGED <<jobs, customer, faults>>

\* A statement throws inside the try: the catch records a failure, whatever the
\* endpoint answered.
Caught ==
    /\ faults < MaxFaults /\ faults' = faults + 1
    /\ ~sweep.caught
    /\ sweep' = [sweep EXCEPT !.stage = "REFUSED", !.caught = TRUE]
    /\ UNCHANGED <<jobs, customer>>

DatabaseFails ==
    /\ sweep.stage # "NEXT" /\ Caught
    /\ UNCHANGED <<subscription, delivery, line, streak>>

\* The statement is committed, and only its acknowledgement is lost.
AcknowledgementLost ==
    /\ Caught
    /\ \/ At("ACCEPTED") /\ WriteSent
       \/ At("REFUSED") /\ WriteFailed
       \/ At("COUNT") /\ WriteCount
       \/ At("SWITCH_OFF") /\ WriteOff

\* The process dies, or a statement fails outside the try: the job ends here.
SweepEnds ==
    /\ faults < MaxFaults /\ faults' = faults + 1
    /\ sweep.todo # <<>>
    /\ sweep' = Idle
    /\ UNCHANGED <<jobs, subscription, delivery, line, customer, streak>>

Retried(d) == delivery[d].status = "FAILED"
BackoffElapses(d) ==
    /\ Retried(d) /\ ~Contains(line, d)
    /\ line' = Append(line, d)
    /\ UNCHANGED <<jobs, subscription, delivery, sweep, customer, streak, faults>>

-----------------------------------------------------------------------------
Sweep == \/ SweepRead \/ BuryInactive \/ Post \/ RecordSent \/ RecordFailed
         \/ CountFailure \/ SwitchOff

WebhookNext ==
    \/ \E s \in Subscriptions :
         \/ \E selection \in Selections : Create(s, selection) \/ UpdateEvents(s, selection)
         \/ Enable(s) \/ Disable(s) \/ Delete(s)
    \/ \E e \in Events : \/ Publish(e) \/ ClaimInbox(e) \/ ReadSubscriptions(e)
                         \/ CreateDeliveries(e) \/ JobFails(e)
    \/ Sweep \/ DatabaseFails \/ AcknowledgementLost \/ SweepEnds
    \/ \E d \in Deliveries : BackoffElapses(d)

WebhookSpec == WebhookInit /\ [][WebhookNext]_webhookVars

\* The repeating job keeps sweeping and time passes; nothing is owed by
\* administrators, customers, publishers or faults.
WebhookFairSpec == WebhookSpec /\ WF_webhookVars(Sweep) /\ \A d \in Deliveries : WF_webhookVars(BackoffElapses(d))

-----------------------------------------------------------------------------
(* What is promised.                                                       *)

Settled(d) == delivery[d].status \in {"SENT", "DEAD"}

\* A delivery whose SENT the sweep wrote without hearing of it, and takes for a failure.
Unacknowledged(d) == /\ At("REFUSED") /\ sweep.caught /\ Now.to = d
                     /\ delivery[d].status = "SENT"

\* A delivery that was sent, or given up, is never touched or called again, whatever
\* the sweep read before and whatever fails: but for the one at hand, while a lost
\* acknowledgement hides its own success from the sweep.
SettledIsFinal ==
    [][\A d \in Deliveries : Settled(d) /\ ~Unacknowledged(d)
         => delivery'[d] = delivery[d] /\ customer'[d] = customer[d]]_webhookVars

\* "an event re-sent by the queue does not become two calls": the customer accepts an
\* event once, and once more only for each fault: a crash of the worker, a failure of
\* the database, or an answer or acknowledgement lost on its way.
AcceptedOnce == \A d \in Deliveries : customer[d].accepted <= 1 + faults

\* "gives up after 6 attempts": as many calls as recorded attempts, but for the call
\* under way and those a fault forgot; and a delivery waits only while it has attempts.
CallsAreAttempts ==
    \A d \in Deliveries :
        /\ customer[d].calls <= MaxAttempts + faults
        /\ delivery[d].attempts <= customer[d].calls
        /\ delivery[d].status = "SENT" => customer[d].accepted > 0
        /\ delivery[d].status \in {"PENDING", "FAILED"} => delivery[d].attempts < MaxAttempts

\* Only an endpoint that "failed 20 times in a row" is switched off by itself; a fault
\* of ours may stand for a failure.
SwitchesOff(s) == subscription[s].state # "AUTO" /\ subscription'[s].state = "AUTO"
SwitchedOffForCause ==
    [][\A s \in Subscriptions : SwitchesOff(s) => streak[s] + faults >= FailureLimit]_webhookVars

\* Every delivery is sent or given up at last: those a full batch leaves behind are not
\* starved by the ones in front of them that come back.
DeliveriesSettle ==
    \A d \in Deliveries : delivery[d].status \in {"PENDING", "FAILED"} ~> Settled(d)

\* "does not deliver to an inactive subscription - the delivery dies instead"
\* (webhook.service.test.ts:249).
OnlyActiveAreCalled ==
    [][\A d \in Deliveries : customer'[d] # customer[d] => subscription[Of(d)].state = "ON"]_webhookVars

\* "Re-enabling clears the counter and the reason, or the subscription would switch
\* itself off again on the next single failure" (webhook.service.ts:105-106).
ReenabledStartsOver ==
    [][\A s \in Subscriptions : SwitchesOff(s) => subscription[s].failures >= FailureLimit]_webhookVars
=============================================================================
