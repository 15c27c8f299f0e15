SPECIFICATION Spec
CONSTANTS
    Employees = {ann, bob}
    Sessions = {s1, s2}
    Requests = {r1, r2}
    MaxScore = 1
    MaxChanges = 3
    MaxAdjustments = 1
    ann = ann
    bob = bob
    s1 = s1
    s2 = s2
    r1 = r1
    r2 = r2
SYMMETRY Symmetry
PROPERTIES RecalculationSparesSettled OnlyFinalizedIsPublished
CHECK_DEADLOCK FALSE
