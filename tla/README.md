# A verification development for the HRIS backend

TLA+ models, TLC runs and TLAPS proofs for the parts of `src/backend/src` whose
correctness depends on the order in which requests, transactions and scheduled jobs
happen: approvals, leave, attendance and the roster, performance results, payroll and the
money that leaves through it, retried requests, webhooks.
Paths below are relative to `src/backend/src/` unless they start with `docs/`.

1. [The system](#1-the-system) — 2. [How the code becomes a model](#2-how-the-code-becomes-a-model) —
3. [The modules](#3-the-modules) — 4. [The runs](#4-the-runs) —
5. [Known disagreements](#5-known-disagreements) — 6. [The proofs](#6-the-proofs) —
7. [Not modelled](#7-not-modelled) — 8. [Plan](#8-plan) — 9. [Running it](#9-running-it)

## 1. The system

An Express/TypeScript server over one MySQL database (Prisma), Redis, and a BullMQ
worker (`worker.ts`). Every HTTP request runs in its own async handler; several server
processes and one worker share the database and no memory. So every `await` is a point
where other handlers run, and the only synchronisation is what the SQL does: conditional
`updateMany` claims, `SELECT ... FOR UPDATE`, serialisable transactions with retry,
named locks, unique keys. Any process may die between two commits.

### Components

State, operations and what is hard about each. `PROJECT.json` lists the same components
with the sources and the status of each, and the hazards at the lines where they bite.

| Component | State it keeps | Operations | What is hard | What makes it correct |
|---|---|---|---|---|
| Approval engine `modules/workflow-engine` | instances, their steps, delegations, notifications | start, approve, reject, escalate, cancel, delegate | guards are read outside the transaction that claims; `updatedAt` is a timestamp, not a version | one waiting step; every level signed by distinct outsiders; one decision, announced once |
| Leave requests `modules/leave/leave.service.ts` | requests, `leave_balances` | file, approve, reject, cancel, set allocation | engine, request and balance commit apart; the payroll lock is read outside | used days are the days of approved requests; status follows the workflow |
| Leave year `leave.scheduler.ts`, `carryover-expiry.service.ts` | this and last year's balances | accrue, expire, forfeit carried days | unlocked reads, repeats, failures half way | no deduction lost, carry-over once, expiry only after accrual |
| Collective leave, encashment | declarations, plans, encashments | declare, plan, apply, cancel; request, approve, pay, release | the plan is stale when applied; ceiling checked before insert | a day is spent once; paid by one standing run |
| Payroll periods and runs `modules/payroll` | periods, runs, payslips | review, close, create (regular, THR), approve, void, settle | two runs of a period, void against replacement, closing unlocked | one standing run per type; claims released exactly when their run is voided |
| Arrears, earned wage access, loans | their rows, claimed by a run | register, request, decide, pay, deduct, release | claims by several writers | nobody paid twice for a period; a loan ends at zero |
| Payment ledger `payroll-payment.*` | batches, transactions, operations | create, export, record, reconcile, cancel | retries, reused keys and bank references, failures paid later | a slip is paid once; a run is disbursed exactly with its batch |
| Webhooks `modules/webhook`, `worker.ts` | subscriptions, deliveries, inbox keys | publish, fan out, sweep, retry, switch off | crash between call and record, stale `isActive` | bounded retries, every delivery settles, switched off only for cause |
| Attendance `modules/attendance` | attendance rows, corrections | clock in and out, edit, delete, correct, decide; mark absent, check out automatically | nightly jobs race employees; two approvers; the payroll lock is read before the write | reviewed days rest; presence and check-outs are not overwritten; a refusal leaves no trace |
| Shift roster `modules/work-calendar` | swap requests, their instances, overrides | file, cancel, decide, finalise a swap; assign and clear a shift | engine, roster and request commit apart; HR and swaps write the same rows | payroll can justify every override; a swap has both halves or none |
| Overtime `attendance.service.ts`, `advisory-lock.ts` | overtime requests, named locks | file under the lock, decide | the lock ends before the transaction does | one date is approved once (it is not, section 5) |
| Performance results `modules/performance` | plan, results, calibration sessions | calculate, calibrate, approve, publish, reopen | every handler checks, awaits, writes without looking again; sessions overlap | settled scores survive recalculation; only finalized and approved results are published |
| Idempotency middleware `shared/middleware/Idempotency.ts` | one record per key, in Redis or memory | look up, reserve, run, store, replay, release | duplicates in flight, hang-ups, swallowed Redis errors, crash between effect and record | one effect per remembered key; answers go to whom they belong; no key stays in progress |
| Authentication | users, refresh tokens, recovery codes | login, rotate, revoke, MFA | rotation and reuse | (planned) |
| Travel, permission, letters, recruitment, training, assets, onboarding, documents | their own rows | file, decide, complete | the engine hand-over of leave again | (not modelled) |
| Audit log | hash chain | append | concurrent appends | (planned) |

### How they interact

* A domain service (leave, swaps, overtime, corrections, loans, travel, ...) files its own row, starts an **engine**
  instance for it, and when the engine says APPROVED or REJECTED applies the effect in a
  transaction of its own. The engine knows nothing of the domain row.
* A **payroll run** collects, in the transaction that creates it, what other components
  have ready: approved encashments, pending arrears, paid advances, due instalments. It
  holds them until it is settled or voided.
* The **payment ledger** pays an approved run and settles it when its batch is
  reconciled: the run becomes DISBURSED, the instalments PAID, the loans smaller.
* The **payroll lock** (`shared/payroll/payroll-period-guard.ts`) is read by leave,
  attendance and HR's roster before they change anything in a period that payroll has
  reviewed; it is never read in the transaction that writes.
* **Payroll** reads the **roster** and refuses to run on a swap override that no approved
  request justifies (`attendance-calendar.ts:66-75`).
* The **idempotency middleware** wraps the mobile mutations of the other components; the
  payment ledger has keys of its own.
* **Webhooks** get an event after the fact through a queue, and fan it out to rows.

## 2. How the code becomes a model

* *A transaction is a step, a read outside it is another.* A handler that reads, awaits
  and then writes is a chain of actions; its local state between them (`handler`, `plan`,
  `job`, `due`, `targets`, `sweep`, `op`, `call`, `requests`, `at`) is a variable, a set of at most one record per slot.
  Row locks and serialisable isolation make a whole transaction one step; the statements
  of a loop without a transaction are one step each.
* *A guard is a guard.* Early returns and `updateMany` conditions that can fail are
  conjuncts, or the stuttering branch of the step that ends the handler.
* *Data is small.* Money and days are natural numbers, users and rows model values, dates
  periods or an overlap relation; payload, wording and rendering are left out.
* *Faults.* A leave handler may die after any commit, the accrual and the sweep may fail
  per employee or die, the webhook worker may die, lose the database at any statement, or
  lose a customer's answer or the acknowledgement of a commit; a roster call may die after
  any commit, the attendance sweep between two rows; a mobile request may be hung up on, its process may die, Redis may lose an operation.
* *What a race may break is named.* Where the code has no lock, a history variable says
  which calls overlapped (`underway`, `contested`, `crossed`, `overtaken`, `lapped`,
  `withdrawn`, `forgotten`), and the property allows exactly that much; everything else it forbids.
* Definitions whose comment begins with `bug:` are mistakes the code does *not* make:
  each stands before the definition it would replace, and `PROJECT.json` names the
  property that notices it.

## 3. The modules

```
ApprovalDecision <--implements-- WorkflowEngine        (WorkflowEngineProofs)
LeaveBalance <--extends-- LeaveRequests                (LeaveRequestsProofs)
             <--extends-- LeaveYear, LeaveSpending     (LeaveDaysProofs)
Payout       <--implements-- PayrollPayment --extends and implements--> PayrollRun   (PayrollProofs)
Attendance, ShiftRoster      (WorkdayProofs)
Idempotency, WebhookDelivery (RetryProofs)
PerformanceResults           (PerformanceResultsProofs)
Overtime                     (no theorem: its property fails, section 5)
Sums: facts about sums over finite sets, for the leave and payroll proofs
```

**`WorkflowEngine`** — `workflow-engine.repository.ts`. `inst` is the instance row with
its steps, `handler` the requests in flight, `delegations` those in their window,
`notified` the notices written, `clock` the database clock. `ReadForAction` is the part
of `applyAction` before its transaction, every guard included; `Approve`, `Reject`,
`EscalateToNext`, `EscalateToBackup` and `Refused` are the transaction, with its
conditional claims. `StartInstance`, `CancelInstanceByReference`, `CreateDelegation` and
`RevokeDelegation` are one step each. `Tick` is separate because `updatedAt` has the
resolution of a millisecond: two commits may carry the same stamp.

**`ApprovalDecision`** — what domain services rely on: signatures of distinct outsiders,
one final decision, told once, withdrawal while open. The mapping reads signers from the
signed steps and the outcome from the status.

**`LeaveBalance`** — the balance row and what every writer does to it, as operators.

**`LeaveRequests`** — `leave.service.ts`: `File`/`Create`/`StartWorkflow`/`TakeBack`
(`createLeaveRequest` with its compensating delete), `CheckApprove`, `ApproveLast`,
`GuardApprove`, `FinalizeApprovalEffects` (`applyWorkflowAction`), the reject and the two
cancel chains, `UpsertLeaveBalance`, `LockPayrollPeriod`, `Crash`. The engine appears as
the outcome of an instance, which is what `ApprovalDecision` promises of it.

**`LeaveYear`** — `runYearlyLeaveAccrual` as reads and write per employee, its failures,
`ExpirePrevious` for those that did not fail; the sweep as `ReadDueRows` and
`WriteForfeit`; approvals and cancellations of both years in between. There are several
runs, because `POST /balances/accrue` starts one beside the scheduled one and nothing keeps
them apart (`leave.controller.ts:125-131`). `lapped` is history: the runs whose employee
another run has accrued since they read her.

**`LeaveSpending`** — `declare`, `buildPlan`/`apply` by two appliers, `cancel`; ordinary
leave on the day, filed, approved, rejected, cancelled while pending or approved, and filed
again; the bookings of the day, cancelled like any approved request; clock-ins, and their
deletion by HR. `withdrawn` is history: the employees who lost their leave, presence or
booking after the day was applied, or while a plan in flight skipped them for it.
`createRequest` of encashments is check and insert; then approval, rejection, payment and
release by payroll runs.

**`PayrollRun`** — `payroll.service.ts` with `payroll-arrears.service.ts`, `modules/ewa`
and the loan schedule. Claims are part of `CreateRegularRun`, releases of `VoidRun`,
because the code does them in the same transaction. `CheckClose`/`ClosePeriod` and
`CheckArrears`/`RegisterArrears` are pairs because the code has no lock there.

**`PayrollPayment`** — extends `PayrollRun` with `batch`, `payment` and `operation`. A
client request (a record of `Requests`) may be delivered at any time, again and again.
It is shown to implement both `PayrollRun` (it moves runs and loans only as settlement
does) and **`Payout`** (a slip is paid once; a payout that paid somebody is not called off).

**`WebhookDelivery`** — the event job (`ClaimInbox`, `ReadSubscriptions`,
`CreateDeliveries`, `JobFails`), the administrators, and the sweep statement by statement:
`SweepRead`, `BuryInactive`, `Post`, `RecordSent`/`RecordFailed`, `CountFailure`,
`SwitchOff`. A statement may fail (`DatabaseFails`), or commit and its acknowledgement be
lost (`AcknowledgementLost`): either way the code continues in its `catch`. A batch is
`take: 50` of the deliveries of every company, so `SweepRead` takes between one and
`BatchSize` of the first in the line: the rest of the batch goes to deliveries that are not
in the model. `line` is the order by `nextAttemptAt`; `customer` and `streak` are history.

**`Attendance`** — `attendance.service.ts`, `attendance-correction.service.ts` and the two
sweeps. `row` is one employee's day, `correction` the requests, `op` what each call has
read and is about to write, `sweep` the nightly job with the days it found. Each `Begin...`
is a handler up to its last `await` before the write, guards included; the plain action is
the write, by id, on whatever the row is by then. `Inserted` is the unique key of employee
and date, which a row marked deleted keeps. `sawOut` remembers whether a check-out was
there when the call looked.

**`ShiftRoster`** — swaps (`work-calendar.repository.ts` 1128-1529) and HR's assignments
(`work-calendar.service.ts` 240-322) on the overrides that payroll reads. `File`,
`StartWorkflow`, `Decide`, `ReadForApproval`, `FinalizeApproval` are the commits of one
swap; the engine appears by what `ApprovalDecision` promises, that an instance is decided
once. `Assign` and `Clear` write what `BeginAssign` and `BeginClear` checked.

**`Overtime`** — `createOvertime` under `withDatabaseAdvisoryLock`, statement by statement,
because the order of `ReleaseLock` and `Commit` is what matters.

**`PerformanceResults`** — plan, assignments and scores as far as a calculation reads them;
results with their three snapshots, calibration sessions with participants and decisions.
A request is `Begin...` and its write, and remembers which of its employees others wrote
in between (`late`); `overtaken` keeps those for the properties.

**`Idempotency`** — one key of one actor on one path. `at` says where the middleware is
with each attempt; `GetRecord`, `Reserve`, `Raced`, `Handle`, `Finalize`, `Send` are its
awaits, each with the outcome in which Redis fails and `RedisCache` swallows the error.
`Close` is the client hanging up, `Expire` the end of the 24 hours, `Die` a process with
all it serves. With `Redis = FALSE` the record is the memory of one process.

**`Sums`** — no code of its own: what `MapThenSumSet`, the operator behind the days of a
set of requests and the amount of a set of instalments, does when an element comes, goes or
changes, proved for every finite set and function to the natural numbers.

Components whose proofs share a module have distinct names: `LeaveSpending` has
`SpendingInit`, `SpendingNext`, `SpendingSpec`, `ShiftRoster` has `RosterSpec`,
`WebhookDelivery` has `WebhookSpec`, and `PayrollPayment` `PaymentSpec`; elsewhere they are
`Init`, `Next`, `Spec`.

The `MC` modules only give values to constants and name symmetries.

## 4. The runs

All runs are exhaustive. Distinct states in brackets.

| Run | Question | Bounds, and why they are enough |
|---|---|---|
| `engine` [208 160] | Is a request decided once, by everybody it must be? | One instance (instances share nothing but delegations), two racing requests of any of five users, four filings: manager then HR; a conditional level left out; two stages of one level; filed for somebody else. Two delegations, two clock values. A race needs two; `MaxClock = 1` has equal and different stamps. |
| `leave_requests` [366 182] | Does the balance always say what the approved requests used? | Three requests of 2, 1 and 2 days, two of them on a common date, two handlers in flight, allocations 2 and 3: too little for all three, and HR can lower it below what is used. |
| `leave_year` [1 411 816] | Do accrual, expiry and forfeiture keep each other's work? | Two accrual runs, overlapping at any point, repeated at will, failing and dying, and one sweep. Two employees, since failures and the expiry tell employees apart: for one, leave of this year, a late decision for last year and HR's new allocation race the jobs, under a remainder that the cap of 1 just admits; the other has a remainder above it. |
| `leave_spending` [475 692] | Is a day spent once, and what is cashed paid once? | Two appliers with plans of different ages, one employee with two days, who takes leave of her own, takes it back and encashes twice, and one with none, who may clock in and lose the record: so the day is paid or unpaid, and either reason to be skipped may be withdrawn. Two payroll runs, so that one may replace the other. |
| `payroll` [633 522] | Does every claim have one standing run? | Two periods, two runs of either type, one advance, a two-instalment loan over both periods, one employee who may be missing from a run. A void with its replacement needs two runs; arrears need two periods. |
| `payment` [1 832] | Does the ledger survive retries? | A regular and a THR run of one period, two slips each, twelve keys with deliberate collisions: one key for two runs, one key for two requests, one bank reference for two slips, a failure paid later, another user cancelling. Runs are claims only as far as `PayrollRun` has checked them. |
| `webhooks` [364 491] | Does every delivery settle, with bounded calls? | One subscription (they share only the batch order), two events, `MAX_ATTEMPTS` and `FAILURE_LIMIT` at 2, so both are reached and the failures of two deliveries add up. A batch of two, or of one when deliveries of other companies take the other place: then one delivery waits behind the other. Two faults of any kind: death, failed statement, lost answer, lost acknowledgement. |
| `attendance` [621 346] | Does a day keep what its writers did? | One day (days share only the lock and the list of a sweep), two corrections, two calls and a sweep at once: any pair of writers races, and a third may have read earlier. |
| `roster` [326 511] | Can payroll justify the roster, and are swaps whole? | Three employees, so that two swaps may share one of them or the same two; two swaps, two calls that may die, one date (dates meet only in HR's range). |
| `performance` [2 551 957] | Which scores reach the employees? | Two employees, two sessions, two requests in flight, scores 0 and 1, one adjustment per session, three changes of plan, calculations, decisions or reopenings in all: enough to finalize, reopen, recalculate and publish with another request in between. With these scores the part of `RecalculationSparesSettled` that says a settled score stays what it was is weak (few changes of score are possible); the theorem `RecalculationSpares` has it for every score. |
| `idempotency` [261 116] | Is a retried mutation made once and answered truthfully? | Three attempts (one that holds the key, one that races it, one that comes later), two payloads, one forgotten key, one lost Redis operation, any number of dying processes. |
| `overtime` (violation) | Where the code does otherwise than it says | See section 5. Two submissions of one date. |

What the properties say, each stated above its definition:

* engine: `OneWaitingStep`, `SeparationOfDuties`, `ApprovedByEveryLevel`,
  `ImplementsDecision`;
* leave: `LedgerBalanced`, `StatusFollowsDecision`, `NeverOverdrawn`; `DeductionsSurvive`, `ExpiredAfterAccrual`, `CarriedOnce`;
  `AppliedOnce`, `EveryDaySpentOnce`, `WholeCompany`, `PaidByAStandingRun`, `PaymentStands`;
* payroll: `OneLiveRun`, `ClaimsHeldByLiveRuns`, `PaidOncePerPeriod`, `LoansSettle`,
  `ApprovedMoneyStands`; `BatchTellsItsPayments`, `ImplementsPayout`,
  `ImplementsPayrollRun`;
* attendance: `LockedDaysStand`, `PresenceIsKept`, `CheckOutStands`,
  `RejectedLeavesNoTrace`; roster: `PayrollCanResolve`, `SwapsAreWhole`,
  `LockedRosterStands`; performance: `RecalculationSparesSettled`,
  `OnlyFinalizedIsPublished`;
* idempotency: `ReplayIsTruthful`, `ExecutedOnce` and the liveness property
  `KeyIsResolved`;
* webhooks: `AcceptedOnce`, `CallsAreAttempts`, `SettledIsFinal`, `SwitchedOffForCause`,
  and the liveness property `DeliveriesSettle`.

The modules state some properties that no run lists because a theorem has them for every
instance (`ToldOnce`, `DecisionsAreFinal`, `RemainingIsWhatIsLeft`,
`DisbursedWhenReconciled`, `RecordedUnderItsKey`, `AdjustedWithinSession`, and the type
invariants of the detailed modules but `Overtime`).

**Fairness.** Two properties need it. For `KeyIsResolved`, `Idempotency!FairSpec` has weak
fairness of each attempt's `Step`: node runs what it has begun, and the handlers of the
mutations are finite. Arrivals, hang-ups, expiry, crashes and Redis owe nothing, and
the property itself excepts a process that died or an operation that Redis lost. For
`DeliveriesSettle`, `WebhookDelivery!WebhookFairSpec` has weak fairness of `Sweep`
(the job is repeated by BullMQ for ever, the worker is one container with concurrency 1,
so sweeps neither stop nor overlap) and of `BackoffElapses` (time passes, so a failed
delivery becomes due). Nothing is owed by administrators, publishers, customers or faults;
a faulted sweep is followed by the next one. A sweep takes at least one of the modelled
deliveries that are due: sweeps take the due ones in the order of `nextAttemptAt`, an
attempt moves a delivery behind those already due, so only finitely many of
others are ever before ours, and the sweeps that took none of ours are stuttering steps.
The weak fairness is of the sweeps that do. Every other property is safety.

**Deadlock** is checked except where the system really comes to rest: an engine whose
instances are all decided, a webhook service with nothing left to deliver, a key whose
attempts are all answered, a locked attendance period or roster date with every request
decided, and results when the bounded changes are made.

**Symmetry** is used for handler slots, requests, calls, corrections, swaps, employees of
the roster and of performance, sessions, appliers, accrual runs, payroll runs of
`leave_spending`, encashments, advances and actors, in runs without liveness; no property
and no constant tells two of them apart.

## 5. Known disagreements

Places where a comment, a test or a document says one thing and the code does another.
The first is a run that must end in a violation. The others are stated in their modules,
and each module's `...Known.cfg` replays them: it lists the properties, one active, and TLC
finds whichever is active violated. No run relies on them. (`LeaveRequestsKnown.cfg` has
no crashes, so that none of its traces needs one.)

| Configuration and property | What is said | What happens |
|---|---|---|
| `Overtime` (run `overtime`): `OvertimePaidOnce` | "payroll sums every APPROVED row, so a double submit doubled the pay. The advisory lock serializes same employee+date creates across instances." (`attendance.service.ts:1027-1029`) | the lock is released in a `finally` inside the transaction (`advisory-lock.ts:38-42`), before the row is committed; the next holder does not see it, and both are approved and paid |
| `WorkflowEngineKnown`: `SomeoneCanAct` | startInstance must refuse "a step nobody can act on" (`workflow-engine.repository.ts:551-553`) | only empty approver columns are refused; a step may wait for people whom the party and separation-of-duties guards refuse |
| `LeaveRequestsKnown`: `CancelledIsFinal` | a cancelled request "cannot be approved afterwards" (`workflow-engine.repository.ts:621-623`) | cancelled between the engine's commit and the finalisation, it is deducted and set APPROVED: `leave.service.ts:339` stops only at APPROVED |
| `LeaveRequestsKnown`: `NoStuckRequest` | the balance is checked first so that no instance ends APPROVED over a PENDING request (`leave.service.ts:418-421`) | the payroll lock is looked at only after the engine has committed (line 324) |
| `LeaveYearKnown`: `ForfeitedStaysForfeited` | "Accrual must be safe to run twice" (`leave.service.ts:543`), the sweep "forfeits once" (`carryover-expiry.service.ts:24-25`) | the sweep leaves `carryOverDays`, and the next accrual adds it to the total again |
| `LeaveYearKnown`: `RunTwiceIsSafe` | "Accrual must be safe to run twice" (`leave.service.ts:543`) | of two runs that overlap, triggered by hand and scheduled, the later one writes the carry-over it computed before the other wrote, or before last year changed |
| `PayrollRunKnown`: `ClosedPeriodsAreSettled` | "A period may only close when its run (if any) has finished the money path" (`payroll.service.ts:316-317`) | one run is looked at, apart from the update; a second run, or one created meanwhile, is closed over |
| `WorkflowEngineKnown`: `EscalationOnlyWhereAllowed` | a stage has the switch `allowEscalation` (`workflow-engine.dto.ts:18`) | it is copied onto the step and never read; the step is escalated all the same |
| `LeaveRequestsKnown`: `NoOverlap` | "an employee cannot hold two pending/approved requests covering the same dates" (`leave.service.ts:117-119`) | check and insert are two statements |
| `LeaveRequestsKnown`: `LockedDatesKeepTheirLeave` | "Any attendance or leave mutation for a date inside such a period is rejected" (`payroll-period-guard.ts:7-13`) | the period may be locked between the guard and the transaction it guards |
| `LeaveYearKnown`: `RemainingIsWhatIsLeft` | "Keep the total/used/remaining invariant under concurrent deductions" (`leave.repository.ts:156`) | the sweep writes figures computed from an unlocked read, and an approval in between leaves `remaining` too high |
| `LeaveYearKnown`: `ExpiredDaysWereCarried` | "Once a row for this year exists, the figure it recorded is the truth" (`leave.service.ts:543-547`) | a row HR made has carried nothing; last year's days expire uncarried |
| `LeaveSpendingKnown`: `DayCoveredOnce` | "An employee who already has leave that day keeps it" (`collective-leave.service.ts:114-115`) | leave filed after the plan is booked a second time |
| `LeaveSpendingKnown`: `NobodyPassedOver` | "Half a company on leave is worse than none" (`collective-leave.service.ts:235`) | the plan skips whoever has a request, also a PENDING one (line 121); it is rejected or cancelled before the day is applied, and the employee has neither leave nor the day |
| `LeaveSpendingKnown`: `CeilingRespected` | "otherwise two pending requests could together exceed a limit each of them respects alone" (`leave-encashment.service.ts:145-147`) | sum and insert are two statements |
| `PayrollRunKnown`: `ReservedWithinLimit` | "Reservasi PENDING, APPROVED dan PAID tetap dihitung" (`docs/ewa-access-and-transitions.md:35`) | DEDUCTED does not count (`ewa.service.ts:184`), and a void turns it into PAID after a new request was admitted |
| `PayrollRunKnown`: `CancelledIsRegistrable` | a wrong row is cancelled and registered again (`docs/payroll-arrears.md:48-50`) | the cancelled row keeps its unique key, and registering again conflicts (`payroll-arrears.service.ts:145`) |
| `AttendanceKnown`: `ApprovedCounts` | "No existing record - create one with full provenance for the date" (`attendance-correction.service.ts:164`) | a day HR deleted keeps its row; the correction updates that row, marked deleted, and is APPROVED for nothing |
| `AttendanceKnown`: `OnlyForgottenAreClosed` | "someone who simply forgot to check out is credited with their shift and no more" (`auto-checkout.service.ts:18-19`) | who checks out while the sweep is on its way has the time replaced by the scheduled end |
| `ShiftRosterKnown`: `CancelledStaysCancelled` | a cancelled request is not touched again (the rejection checks it, `work-calendar.repository.ts:1506`) | cancelling leaves the instance open, and the approval stops only at APPROVED (line 1399): the cancelled swap is carried out |
| `ShiftRosterKnown`: `SettledDatesStand` | "a date inside a closed payroll period is refused because it would rewrite pay that is already settled" (`work-calendar.service.ts:237-238`) | HR's assignments ask the guard, the approval of a swap does not |
| `PerformanceResultsKnown`: `OnlyReopenUnlocks` | "reopen is the only way back" (`performance.service.ts:3183`) | opening another calibration session takes published results back to CALIBRATION_IN_PROGRESS |
| `PerformanceResultsKnown`: `AdjustedWithinLimit` | "maksimum 3 kali penyesuaian kalibrasi per karyawan" (at most three adjustments per employee, `performance.service.ts:3804`) | adjustments are counted per session |
| `PerformanceResultsKnown`: `SnapshotTellsTheScore` | a published result carries a snapshot of its score (`finalSnapshot`, `performance.repository.ts:1873-1895`) | a calculation during calibration changes the score, and the frozen snapshot is the calibration's |
| `IdempotencyKnown`: `ReplaysASuccess` | "Replays a successful mutation for 24 hours" (`Idempotency.ts:85`) | when the client hangs up, `close` releases the key although the handler goes on; its retry is carried out again |
| `WebhookDeliveryKnown`: `OnlyActiveAreCalled` | "does not deliver to an inactive subscription" (`webhook.service.test.ts:249`) | `isActive` is read at the start of a sweep of many calls |
| `WebhookDeliveryKnown`: `ReenabledStartsOver` | re-enabling clears the counter "or the subscription would switch itself off again" (`webhook.service.ts:105-106`) | re-enabled between the count and the update, it is switched off |

## 6. The proofs

Checked by TLAPS 1.4.5 with Z3, Zenon and LS4, for every value of the constants that meets
the module's assumption. `WorkflowAssumption`, `PayrollAssumption`, `RequestsAssumption`,
`LeaveAssumption`, `LeaveYearAssumption`, `SpendingAssumption`, `AttendanceAssumption`,
`RosterAssumption`, `IdempotencyAssumption`, `WebhookAssumption` and `BoundsAssumption` type
the constants and say what the schema and the input validation say: a template is a
sequence of stages, amounts and days are positive, no payroll is empty, a loan has at least
one instalment (`employee-loan.dto.ts:6`), the limits of the webhook sweep are positive.
What the models sum or count over (requests, encashments, instalments, subscriptions,
attempts) is finite: rows of a table. TLC evaluates the assumptions in every run.

**Every safety property of a passing run is a theorem**, and so are the refinements. Only
liveness is left to TLC.

**Engine.** `WorkflowEngineProofs` has type correctness and then proves `OneWaitingStep`,
`SeparationOfDuties`, `ApprovedByEveryLevel` and `ToldOnce`. None is
inductive: the guards were evaluated on a snapshot that may be stale. `EngineInvariant`
adds that every row is `Sound` (below the waiting step each level is signed off) and every
handler `Trustworthy`: parties and levels of a row never change, and as long as the step a
handler read still waits, nobody has signed since. So the conditional claim on that
step validates the whole snapshot, without help from the timestamp.
From it follow `DecisionsAreFinal` and that the engine
implements `ApprovalDecision`, one lemma per action.

**Leave requests.** `LeaveRequestsProofs`: `TypeOK`, `StatusFollowsDecision`,
`RemainingIsWhatIsLeft`, `NeverOverdrawn`. `LeaveInvariant` says what a handler in flight
knows (`Knows`): a finaliser's instance is APPROVED, a refuser's REJECTED, a filer's not
started, and that a request has one filer (`OneFiler`). Since the engine decides once,
what a handler learnt stays true however late it acts. Every step is one of three kinds
(only the handler moves; the request moves; the workflow moves), each with one lemma.
`LedgerBalanced` then relies on what handlers know: the two steps that touch `used` move a
request into or out of the approved ones, and `Sums` says what that does to the sum of
their days. Every other step keeps the ledger (`LedgerKept`).

**Leave year.** `LeaveDaysProofs`: `TypeOK`, `DeductionsSurvive`, `ExpiredAfterAccrual`,
`CarriedOnce`. For the second, a run that is past an active employee has written this year's
row or has recorded the failure (`Accounted`); rows stay, so this also holds of overlapping
runs. The first looks at every writer of the row: all but the sweep compute from the row
they have locked. The third, for any number of runs, needs that the figure a run has read is
the one that stands unless the run is `lapped` (`Figured`): nobody else writes a carried
figure, so only a run on the same employee can make it stale, and the step that does so
marks it.

**Leave spending.** `LeaveDaysProofs`: `SpendingTypeOK`, `AppliedOnce`, `WholeCompany`,
`PaidByAStandingRun`, `PaymentStands`, `EveryDaySpentOnce`. A plan is stale when it is
applied, so `DayInv` says what of it lasts: before the declaration is APPLIED nobody is
booked, and whom a plan in flight skips has leave or is present, unless she is `withdrawn`.
A plan built later sees her as she is, and forgets her only when no plan in flight skips her. `PaidByAStandingRun`
is inductive with the types, and gives `PaymentStands`: a row some run has paid is payable
to no other. `EveryDaySpentOnce` is a sum over the encashments of each employee
(`SpentAsBooked`); it needs neither of the other invariants, since each deduction reads the
balance it writes.

**Payroll runs.** `PayrollProofs`: `OneLiveRun`, `ClaimsHeldByLiveRuns`,
`PaidOncePerPeriod`, `ApprovedMoneyStands`. `PaidOncePerPeriod` needs
`ArrearsOfClosedPeriods`: a claim on arrears is of a period already closed, in which no
run can be created any more, so the unlocked pair of check and insert does no harm.
`LoansSettle` and the whole of `TypeOK` come after them, because they need them: an
instalment is claimed by one standing run (`ClaimsHeldByLiveRuns`), so a settlement
takes from each balance exactly the unpaid instalments of its payslips. What is inductive is
`LoansInv`, balances that add up and instalments paid by disbursed runs; that an approved
run agrees with its loans follows, for what it froze of a loan is part of what the balance
still holds (`ApprovedAgrees`).

**Payment.** `PayrollProofs` then proves the refinement of `PayrollRun`, so all the
theorems above hold of the composed system (`PayrollStandsUnderBatches`); then `Ledger`, which adds to the three
invariants that every run pays somebody (`RunsPaySomebody` — otherwise an empty batch would
be both unpaid and complete), and with it `PaymentTypeOK`; then `ImplementsPayout`.

**Attendance.** `WorkdayProofs`: `TypeOK` and the four properties of its run,
`RejectedLeavesNoTrace`, `LockedDaysStand`, `PresenceIsKept`, `CheckOutStands`.
The invariant says which calls are at work on what (`OpsFit`), that whatever may still
write while the period is locked was under way by then (`StragglersKnown`), and that
outside contested corrections there is one decision at a time, on a request still pending
(`OneDecision`): a decision that is alone finds the correction as undecided as it read it.
The last two rest on one lemma that says for every step what it may write into a day
(`DayWritten`), and `CheckOutStands` on what a call that is about to check out has seen
(`Unseen`).

**Roster.** `WorkdayProofs`: `RosterTypeOK`, `PayrollCanResolve`, `SwapsAreWhole`,
`LockedRosterStands`. `RosterInv` adds what a call in flight may rely on: the status of a request
agrees with its instance (`Agreed`), an assignment's days are free of swaps and open
unless the call was overtaken there (`AssignmentsFree`, `RangesOpen`), a filing has no
rival (`FilingsFree`), two live swaps share nobody on a date unless calls crossed there
(`SwapsApart`). An approval writes both rows of a pair that it alone may write.

**Performance.** `PerformanceResultsProofs`: `RecalculationSparesSettled` and
`OnlyFinalizedIsPublished`. A handler writes long after it read, so `Knows` says what it
may still rely on about the rows nobody wrote since: a calculation, that its results are
not settled; a decision, that its session is unfinished; a final approval, that every
result is settled; a publication, that it is approved too. `Covered` closes the circle: an
approved result that calibration took back belongs to a session not yet finalized, and
the publication's check refuses as long as there is one. A step that writes is summed up by
the rows it writes (`WriteStep`): a request that had read one of them is late on it.
Two more theorems no run lists: `TypeOK`, and `AdjustedWithinSession`, what the code does keep of
the limit of adjustments that section 5 finds broken over several sessions. There the
invariant is `Room`: a decision in flight read a count below the limit, and is late, hence
marked, if another one on the employee was written since (`DecideKeepsLimit`); a session
is created with no count and cannot be the one a decision is waiting on.

**Idempotency.** `RetryProofs`: `TypeOK`, `ReplayIsTruthful`, `ExecutedOnce`. A COMPLETED record
names a request whose effect is committed (`Recorded`). For the count (`Counted`) the
right to execute is either free (no record), or held by a request that runs or was
refused, or spent by one whose effect is committed; only forgetting the key makes a new
one, so these rights never exceed one more than the forgettings. It is a statement about
cardinalities of finite sets, one lemma for a step that moves a right.

**Webhooks.** `RetryProofs`: `WebhookTypeOK`, `SettledIsFinal`, `AcceptedOnce`,
`CallsAreAttempts`, `SwitchedOffForCause`. A sweep works from a batch it read once, so the
question is how much of that still holds. `Line`: nobody stands in it twice, and who does is
waiting. It takes the lemmas on sequences at the head of that part (`RemovedFromLine`,
`AddedToLine`, `NewRowsLine`), and it makes the entries of a batch distinct. `Batch`: then
the entries behind the one at hand are as they were read (`Untouched`), and that one is so
until its failure is recorded (`Noted`); a statement that fails inside the `try` may bring a
recorded one back to REFUSED, where it is recorded again with the same number. There, too,
arrives a delivery whose SENT was committed and not acknowledged (`Unheard`): its failure is
then written over it, the one way a settled delivery comes back, and one
`SettledIsFinal` names. So any other settled
delivery is in no batch that will call it. `Calls` and `Streaks` count calls against attempts
and `failureCount` against the failures in a row, and the slack is the number of faults,
lost answers and acknowledgements among them.

**With TLC only.** Liveness, which needs ENABLED: `DeliveriesSettle` and `KeyIsResolved`.
The properties of section 5 do not hold and have no theorems. The prover has no induction
over data here: `Sums` avoids it by counting (a sum is the number of pairs of an
element and one of its units, so the facts on cardinality apply), and the sums of the
models need no more.

## 7. Not modelled

The front end, deployment, migrations and storage are I/O or clients: what they can send
is an input here. Tenant scoping rewrites every query to one company, so the models have
one company. Payroll arithmetic (tax, insurance, formulas, depreciation) is a function of
one employee's inputs with unit tests; `PayrollRun` keeps which money a run takes, not how
much salary is. Master data, reports, benefits, letters, announcements and the like are
single rows without a protocol. Within modelled components: the spreadsheet import of attendance, geofence and face
checks; holidays, shift definitions and patterns; performance templates, scoring formulas,
acknowledgements and disputes; input validation, template
editing (copy on write, touches no running instance), notifications other than the
decision's, bank routing and CSV text, webhook signatures and the URL guard.
`PROJECT.json` gives the reason for each component.

A fan-out whose inbox key was claimed and that then fails is not retried (`worker.ts:144`);
the model has it (`JobFails`), no text promises otherwise, and `DeliveriesSettle` speaks of
rows only.

## 8. Plan

Done, in this order: engine with its abstract decision and proofs; leave balances and
their hand-over with the engine; the leave year and spending; payroll runs and their
claims; the payment ledger with `Payout`; webhooks; the idempotency middleware; attendance
with its sweeps; the shift roster; overtime under its lock; performance results.

What is left, most important first:

1. `AuditChain` — appends by concurrent requests form one chain; implements a sequence.
2. `DocumentSigning` — signing in turn; `ContractSuccession`; `TravelClaims` and
   `LoanRequests` over the engine; acknowledgement and disputes of results.
3. Authentication as a sequential contract: login, rotate, revoke.
4. Composition: `LeaveRequests` and `ShiftRoster` over `ApprovalDecision` by INSTANCE
   instead of an outcome; an abstract `AtMostOnce` that `Idempotency` implements.

Theorems after that: those of the new modules, and the refinement of an abstract
`AtMostOnce` by `Idempotency`.

## 9. Running it

```
tlc -workers 2 -config WorkflowEngine.cfg MCWorkflowEngine     # any MC module with its .cfg
tlapm WorkflowEngineProofs.tla                                 # any *Proofs module
```

`PROJECT.json` lists runs, theorems, and for every definition the lines it models.
