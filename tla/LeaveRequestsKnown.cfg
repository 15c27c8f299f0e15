\* The properties the code does not keep (README, Known disagreements), one at a time:
\* TLC finds the active one violated; activate another to see its trace.
CONSTANTS
    r1 = r1
    r2 = r2
    r3 = r3
    Requests = {r1, r2, r3}
    Days <- MCDays
    Overlapping <- MCOverlapping
    Slots = {s1, s2}
    Totals = {2, 3}
SPECIFICATION SpecUncrashed
SYMMETRY MCSlots
PROPERTY CancelledIsFinal
\* INVARIANT NoStuckRequest
\* INVARIANT NoOverlap
\* PROPERTY LockedDatesKeepTheirLeave
