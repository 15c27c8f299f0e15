\* Three attempts with one of two payloads, one forgotten key, one failure of Redis.
SPECIFICATION FairSpec
CONSTANTS
    Requests = {r1, r2, r3}
    Payloads = {p1, p2}
    Nobody = nobody
    Redis = TRUE
    MaxForgotten = 1
    MaxLapses = 1
INVARIANTS ReplayIsTruthful ExecutedOnce
PROPERTY KeyIsResolved
CHECK_DEADLOCK FALSE
