\* The properties the code does not keep (README, Known disagreements), one at a time:
\* TLC finds the active one violated; activate another to see its trace.
SPECIFICATION Spec
CONSTANTS
    Employees = {ann}
    Sessions = {s1, s2}
    Requests = {r1, r2}
    MaxScore = 2
    MaxChanges = 4
    MaxAdjustments = 1
    ann = ann
    s1 = s1
    s2 = s2
    r1 = r1
    r2 = r2
SYMMETRY Symmetry
CHECK_DEADLOCK FALSE
PROPERTY OnlyReopenUnlocks
\* INVARIANT AdjustedWithinLimit
\* INVARIANT SnapshotTellsTheScore
