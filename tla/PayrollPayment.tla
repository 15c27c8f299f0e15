--------------------------- MODULE PayrollPayment ---------------------------
(***************************************************************************)
(* Paying out an approved run (payroll-payment.service.ts and              *)
(* payroll-payment-settlement.ts): a batch with a transaction for each     *)
(* payslip, exported for the bank, recorded by hand, reconciled into the   *)
(* settlement of the run, or cancelled.                                    *)
(*                                                                         *)
(* Every operation but the export carries an Idempotency-Key and reserves  *)
(* it in the same serialisable transaction that does the work.  Requests   *)
(* are delivered any number of times and in any order; the batch version   *)
(* makes two that overlap conflict, so a delivery is one step.             *)
(***************************************************************************)
EXTENDS PayrollRun

\* Requests clients may send: [key, op, run, by, slip, outcome, ref], where a field
\* an operation does not use has any value.
CONSTANTS Requests, IdempotencyKeys, BankReferences

ASSUME RequestsAssumption ==
    Requests \subseteq
        [key : IdempotencyKeys, op : {"CREATE", "RECORD", "RECONCILE", "CANCEL"}, run : Runs,
         by : Actors, slip : Employees, outcome : {"PAID", "FAILED"}, ref : BankReferences]

BatchStatus == {"NONE", "DRAFT", "EXPORTED", "PROCESSING", "PAID", "PARTIALLY_FAILED",
                "FAILED", "RECONCILED", "CANCELLED"}

VARIABLES
    batch,       \* payroll_payment_batches: the status for each run
    payment,     \* payroll_payment_transactions of each run and employee
    operation    \* payroll_payment_operations: the request a key was used for

paymentVars == <<batch, payment, operation>>
allVars == <<vars, paymentVars>>

Payments == [status : {"NONE", "PENDING", "PAID", "FAILED"}, ref : SUBSET BankReferences]

PaymentTypeOK ==
    /\ TypeOK
    /\ batch \in [Runs -> BatchStatus]
    /\ payment \in [Runs -> [Employees -> Payments]]
    /\ operation \in [IdempotencyKeys -> SUBSET Requests]

NoPayment == [status |-> "NONE", ref |-> {}]

PaymentInit ==
    /\ Init
    /\ batch = [n \in Runs |-> "NONE"]
    /\ payment = [n \in Runs |-> [e \in Employees |-> NoPayment]]
    /\ operation = [k \in IdempotencyKeys |-> {}]

-----------------------------------------------------------------------------
In(n, statuses) == {e \in Employees : payment[n][e].status \in statuses}

\* operate: a key already used is answered from its stored result, or with a
\* conflict when it was used for something else; neither does the work again.
Runs1st(q) == operation[q.key] = {}

Reserve(q) ==
    /\ Runs1st(q)
    /\ operation' = [operation EXCEPT ![q.key] = {q}]

\* createBatch: at most one batch a run, ever; a transaction for each of its slips.
CreateBatch(q) ==
    /\ q.op = "CREATE" /\ batch[q.run] = "NONE" /\ run[q.run].status = "APPROVED"
    /\ Reserve(q)
    /\ batch' = [batch EXCEPT ![q.run] = "DRAFT"]
    /\ payment' = [payment EXCEPT ![q.run] =
                     [e \in Employees |-> IF e \in run[q.run].slips
                                          THEN [status |-> "PENDING", ref |-> {}]
                                          ELSE NoPayment]]
    /\ UNCHANGED vars

Exportable(n) == batch[n] \notin {"NONE", "CANCELLED", "RECONCILED", "PAID"}
ExportBatch(n) ==
    /\ Exportable(n)
    /\ batch' = [batch EXCEPT ![n] = IF @ = "DRAFT" THEN "EXPORTED" ELSE @]
    /\ UNCHANGED <<vars, payment, operation>>

\* recordTransaction.  The bank reference is unique in the company: a second use of
\* it fails the transaction, reservation included.
FreeReference(q) == \A n \in Runs, e \in Employees : q.ref \notin payment[n][e].ref

PayableTwice(q) ==  \* bug: a recorded payment may be recorded again
    payment[q.run][q.slip].status \in {"PENDING", "PAID", "FAILED"}
Recordable(q) == payment[q.run][q.slip].status \in {"PENDING", "FAILED"}

Outcome(q) == IF q.outcome = "PAID" THEN [status |-> "PAID", ref |-> {q.ref}]
                                    ELSE [payment[q.run][q.slip] EXCEPT !.status = "FAILED"]

\* The batch's status from its transactions after the one just recorded.
StatusBefore(slips, paidOnes, failedOnes) ==  \* bug: one payment is enough
    IF paidOnes # {} THEN "PAID" ELSE "PROCESSING"
StatusAfter(slips, paidOnes, failedOnes) ==
    CASE paidOnes = slips -> "PAID"
      [] paidOnes # slips /\ failedOnes = slips -> "FAILED"
      [] failedOnes \notin {{}, slips} -> "PARTIALLY_FAILED"
      [] OTHER -> "PROCESSING"

\* assertRecorder and the order of the checks.
MayRecord(q) == q.by \notin run[q.run].approvedBy
RecordTransaction(q) ==
    /\ q.op = "RECORD" /\ MayRecord(q)
    /\ batch[q.run] \notin {"NONE", "DRAFT", "CANCELLED", "RECONCILED", "PAID"}
    /\ Recordable(q)
    /\ q.outcome = "PAID" => FreeReference(q)
    /\ Reserve(q)
    /\ payment' = [payment EXCEPT ![q.run][q.slip] = Outcome(q)]
    /\ batch' = [batch EXCEPT ![q.run] =
                   StatusAfter(In(q.run, {"PENDING", "PAID", "FAILED"}),
                               {e \in Employees : payment'[q.run][e].status = "PAID"},
                               {e \in Employees : payment'[q.run][e].status = "FAILED"})]
    /\ UNCHANGED vars

\* The payments are the payslips, and every one of them is recorded as paid.
Matches(n) == In(n, {"PAID"}) = run[n].slips /\ In(n, {"PENDING", "FAILED"}) = {}
ReconcileBare(q) ==  \* bug: the run is disbursed and the loans forgotten
    /\ q.op = "RECONCILE" /\ batch[q.run] = "PAID" /\ Reserve(q)
    /\ run' = [run EXCEPT ![q.run].status = "DISBURSED"]
    /\ batch' = [batch EXCEPT ![q.run] = "RECONCILED"]
    /\ UNCHANGED <<period, closing, claims, loan, payment>>
ReconcileBatch(q) ==
    /\ q.op = "RECONCILE" /\ MayRecord(q)
    /\ batch[q.run] = "PAID" /\ Matches(q.run)
    /\ Reserve(q)
    /\ Settle(q.run, q.by)
    /\ batch' = [batch EXCEPT ![q.run] = "RECONCILED"]
    /\ UNCHANGED payment

CancellableDraft(n) ==  \* bug: a batch is called off with somebody already paid
    batch[n] \notin {"NONE", "CANCELLED", "RECONCILED"}
Cancellable(n) ==
    batch[n] \notin {"NONE", "CANCELLED", "RECONCILED"} /\ In(n, {"PAID"}) = {}
CancelBatch(q) ==
    /\ q.op = "CANCEL" /\ Cancellable(q.run)
    /\ Reserve(q)
    /\ batch' = [batch EXCEPT ![q.run] = "CANCELLED"]
    /\ UNCHANGED <<vars, payment>>

-----------------------------------------------------------------------------
\* What payroll does meanwhile; a run is settled by reconciliation only.
PayrollGoesOn ==
    /\ \/ \E p \in Periods : ConfirmAttendance(p)
       \/ \E n \in Runs, p \in Periods, u \in Actors, staff \in Payrolls :
            CreateRegularRun(n, p, u, staff) \/ CreateThrRun(n, p, u, staff)
       \/ \E n \in Runs : VoidRun(n)
       \/ \E n \in Runs, u \in Actors : ApproveRun(n, u)
    /\ UNCHANGED paymentVars

PaymentNext ==
    \/ PayrollGoesOn
    \/ \E n \in Runs : ExportBatch(n)
    \/ \E q \in Requests : \/ CreateBatch(q) \/ RecordTransaction(q)
                           \/ ReconcileBatch(q) \/ CancelBatch(q)

PaymentSpec == PaymentInit /\ [][PaymentNext]_allVars

-----------------------------------------------------------------------------
(* What is promised.                                                       *)

\* The batch's status says what its transactions are, whatever was recorded, retried,
\* exported again or cancelled: PAID and RECONCILED when everybody is paid, FAILED and
\* CANCELLED when nobody is, and nothing recorded before the export.
BatchTellsItsPayments ==
    \A n \in Runs :
        LET slips == In(n, {"PENDING", "PAID", "FAILED"}) IN
        /\ batch[n] = "NONE" <=> slips = {}
        /\ batch[n] # "NONE" => slips = run[n].slips
        /\ batch[n] \in {"PAID", "RECONCILED"} <=> slips # {} /\ In(n, {"PAID"}) = slips
        /\ batch[n] \in {"CANCELLED", "FAILED", "DRAFT", "EXPORTED"} => In(n, {"PAID"}) = {}
        /\ batch[n] \in {"DRAFT", "EXPORTED"} => In(n, {"FAILED"}) = {}

\* A run is disbursed exactly when its batch is reconciled, and a run with a batch is
\* never voided under it.
DisbursedWhenReconciled ==
    \A n \in Runs : /\ run[n].status = "DISBURSED" <=> batch[n] = "RECONCILED"
                    /\ batch[n] # "NONE" => run[n].status \in {"APPROVED", "DISBURSED"}

\* Retries and reused keys: a recorded payment keeps the reference of the one request
\* that recorded it, so what stands in the ledger is what some key was used for.
RecordedUnderItsKey ==
    \A n \in Runs, e \in Employees :
        payment[n][e].status = "PAID" =>
            \E k \in IdempotencyKeys, q \in Requests :
                /\ operation[k] = {q}
                /\ q.op = "RECORD" /\ q.run = n /\ q.slip = e /\ payment[n][e].ref = {q.ref}

\* The ledger implements Payout.
Ordered(n) == In(n, {"PENDING", "PAID", "FAILED"})
Order == INSTANCE Payout WITH
    Slips <- Employees,
    stage <- [n \in Runs |-> CASE batch[n] = "RECONCILED" -> "DONE"
                               [] batch[n] = "CANCELLED" -> "OFF"
                               [] OTHER -> "WAITING"],
    due <- [n \in Runs |-> Ordered(n)],
    paid <- [n \in Runs |-> In(n, {"PAID"})]
ImplementsPayout == Order!Spec

\* With batches in between it is still the payroll of PayrollRun: reconciliation is a
\* settlement, nothing else touches runs, claims and loans.
ImplementsPayrollRun == Spec
=============================================================================
