---------------------------- MODULE MCPayrollRun ----------------------------
(* e1 draws advances, e2 repays a loan of two instalments, and either may  *)
(* be missing from a payroll.                                              *)
EXTENDS PayrollRun, TLC

CONSTANTS e1, e2, a1, a2, l1, i1, i2, u1, u2

MCEmployeeOf == [a \in Advances |-> e1]
MCPeriodOf == [a \in Advances |-> 1]
MCBorrower == [l \in Loans |-> e2]
MCLoanOf == [i \in Installments |-> l1]
MCAmount == (i1 :> 1) @@ (i2 :> 2)
MCDueIn == (i1 :> 1) @@ (i2 :> 2)
MCPayrolls == {{e1}, {e1, e2}}
MCMissed == {<<e2, 1>>}
MCSymmetry == Permutations(Advances) \cup Permutations(Actors)
=============================================================================
