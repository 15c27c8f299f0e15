\* The properties the code does not keep (README, Known disagreements), one at a time:
\* TLC finds the active one violated; activate another to see its trace.
SPECIFICATION FairSpec
CONSTANTS
    Requests = {r1, r2}
    Payloads = {p1}
    Nobody = nobody
    Redis = TRUE
    MaxForgotten = 1
    MaxLapses = 0
CHECK_DEADLOCK FALSE
INVARIANT ReplaysASuccess
