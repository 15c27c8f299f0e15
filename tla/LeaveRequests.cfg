\* r1 and r2 are two and one day on a common date, r3 is two other days.
CONSTANTS
    r1 = r1
    r2 = r2
    r3 = r3
    Requests = {r1, r2, r3}
    Days <- MCDays
    Overlapping <- MCOverlapping
    Slots = {s1, s2}
    Totals = {2, 3}
SPECIFICATION Spec
SYMMETRY MCSlots
INVARIANTS LedgerBalanced StatusFollowsDecision
PROPERTY NeverOverdrawn
