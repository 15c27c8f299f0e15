\* Two submissions of the same instant.
SPECIFICATION Spec
CONSTANTS
    Requests = {r1, r2}
    Stamps = {s1}
    Nobody = nobody
INVARIANT OvertimePaidOnce
CHECK_DEADLOCK FALSE
