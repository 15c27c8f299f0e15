-------------------------- MODULE MCPayrollPayment --------------------------
(* A regular run with a loan deduction and a holiday allowance, paid out   *)
(* with a reused key, a reused bank reference and a failure paid later.    *)
EXTENDS PayrollPayment, TLC

CONSTANTS e1, e2, l1, i1, i2, u1, u2, b1, b2, b3, b4

MCNothing == [a \in Advances |-> a]
MCBorrower == [l \in Loans |-> e2]
MCLoanOf == [i \in Installments |-> l1]
MCAmount == (i1 :> 1) @@ (i2 :> 2)
MCDueIn == (i1 :> 1) @@ (i2 :> 1)
MCPayrolls == {{e1, e2}}

Request(k, op, n, u, e, outcome, b) ==
    [key |-> k, op |-> op, run |-> n, by |-> u, slip |-> e, outcome |-> outcome, ref |-> b]
MCRequests ==
    {Request(2 * n - 1, op, n, u1, e1, "PAID", b1) : n \in Runs, op \in {"CREATE", "CANCEL"}}
    \cup {Request(2 * n, "RECONCILE", n, u1, e1, "PAID", b1) : n \in Runs}
    \cup {Request(5, "RECORD", n, u1, e1, "PAID", b1) : n \in Runs}
    \cup {Request(6, "RECORD", n, u1, e2, "FAILED", b1) : n \in Runs}
    \cup {Request(7, "RECORD", n, u1, e2, "PAID", b2) : n \in Runs}
    \cup {Request(8, "RECORD", 2, u1, e1, "PAID", b3),
          Request(9, "RECORD", 2, u1, e2, "PAID", b4),
          Request(10, "RECORD", 1, u2, e1, "FAILED", b1),
          Request(8, "RECORD", 1, u1, e2, "PAID", b4),
          Request(12, "CANCEL", 1, u2, e1, "PAID", b1)}
=============================================================================
