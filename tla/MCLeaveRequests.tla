-------------------------- MODULE MCLeaveRequests --------------------------
(* Three requests on one balance: r1 and r2 share dates, r3 does not.      *)
EXTENDS LeaveRequests, TLC

CONSTANTS r1, r2, r3

MCDays == (r1 :> 2) @@ (r2 :> 1) @@ (r3 :> 2)
MCOverlapping(q, p) == {q, p} = {r1, r2}
MCSlots == Permutations(Slots)
=============================================================================
