---------------------------- MODULE LeaveBalance ----------------------------
(***************************************************************************)
(* The row of leave_balances and what the writers of src/backend/src/modules/leave  *)
(* do to it under its lock.  Days are whole numbers (schema.prisma:3531).  *)
(***************************************************************************)
EXTENDS Integers

AtLeast0(n) == IF n >= 0 THEN n ELSE 0
Lesser(m, n) == IF m <= n THEN m ELSE n

\* The row of one employee, leave type and year.
Balances == [exists : BOOLEAN, total : Nat, used : Nat, remaining : Int,
             carry : Nat, carryExpired : BOOLEAN, expired : BOOLEAN]

NoBalance == [exists |-> FALSE, total |-> 0, used |-> 0, remaining |-> 0,
              carry |-> 0, carryExpired |-> FALSE, expired |-> FALSE]

\* evaluateLeaveBalance, and the same test under the lock.
SufficientIfAllocated(b, days) == b.exists  \* bug: what is left is not compared
Sufficient(b, days) == b.exists /\ b.remaining >= days

Deduct(b, days) == [b EXCEPT !.used = @ + days, !.remaining = @ - days]

RestoreDays(b, days) ==  \* bug: adds the days back instead of recomputing them
    [b EXCEPT !.used = AtLeast0(@ - days), !.remaining = @ + days]
Restore(b, days) ==
    LET used == AtLeast0(b.used - days)
    IN [b EXCEPT !.used = used, !.remaining = AtLeast0(b.total - used)]

\* HR sets the allocation: a new row, or a new total for a row in use.
SetTotal(b, total) ==
    [b EXCEPT !.exists = TRUE, !.total = total,
              !.remaining = AtLeast0(total - b.used)]

\* Opening a year, or accruing it again: the carried days are part of the total.
CarryOverUncapped(remaining, cap) == AtLeast0(remaining)  \* bug: no cap
CarryOver(remaining, cap) == Lesser(AtLeast0(remaining), cap)
Accrued(b, entitlement, carry) ==
    [b EXCEPT !.exists = TRUE, !.total = entitlement + carry, !.carry = carry,
              !.remaining = AtLeast0(entitlement + carry - b.used)]

\* The cut-off for carried days: what was not taken of them is forfeited, the
\* carried pile counting as spent first.  carry keeps its value.
ForfeitedAll(b) == b.carry  \* bug: entitlement counts as spent first
Forfeited(b) == AtLeast0(b.carry - b.used)
Forfeit(b) ==
    LET total == AtLeast0(b.total - Forfeited(b))
    IN [b EXCEPT !.carryExpired = TRUE, !.total = total,
                 !.remaining = AtLeast0(total - b.used)]

\* The end of the year after: what is left is gone.
Expire(b) == [b EXCEPT !.expired = TRUE, !.remaining = 0]
=============================================================================
