---------------------------- MODULE MCLeaveYear ----------------------------
(* Both employees are entitled to two days.  e1 has one day left of last   *)
(* year, and leave of both years and her allocation move while the jobs    *)
(* run; e2 has more left than the cap lets her carry.  The runs are alike. *)
EXTENDS LeaveYear, TLC

CONSTANTS e1, e2

MCEntitlement == (e1 :> 2) @@ (e2 :> 2)
MCLastYear == (e1 :> 1) @@ (e2 :> 2)
MCHRTotals == (e1 :> {2}) @@ (e2 :> {})
MCMaxUsed == (e1 :> 1) @@ (e2 :> 0)
MCMaxLate == (e1 :> 1) @@ (e2 :> 0)

Runs == Permutations(Jobs)

\* The known disagreements need more days: three left and two carried, two taken.
KnownLastYear == (e1 :> 3) @@ (e2 :> 1)
KnownHRTotals == (e1 :> {4}) @@ (e2 :> {4})
KnownMaxUsed == (e1 :> 2) @@ (e2 :> 2)
KnownMaxLate == (e1 :> 0) @@ (e2 :> 0)
=============================================================================
