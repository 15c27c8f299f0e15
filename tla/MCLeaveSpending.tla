-------------------------- MODULE MCLeaveSpending --------------------------
(* e1 has two days, for leave of her own and two encashments; e2 has none  *)
(* and may clock in.  Appliers, encashments and payroll runs are alike     *)
(* among themselves.                                                       *)
EXTENDS LeaveSpending, TLC

CONSTANTS e1, e2, r1, r2

MCAllocation == (e1 :> 2) @@ (e2 :> 0)
MCDays == (r1 :> 1) @@ (r2 :> 1)
MCOwnerOf == (r1 :> e1) @@ (r2 :> e1)
MCSymmetry == {a @@ r @@ n : a \in Permutations(Appliers), r \in Permutations(Rows),
                                  n \in Permutations(Runs)}
=============================================================================
