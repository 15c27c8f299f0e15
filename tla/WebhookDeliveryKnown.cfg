\* The properties the code does not keep (README, Known disagreements), one at a time:
\* TLC finds the active one violated; activate another to see its trace.
CONSTANTS
    s1 = s1
    e1 = e1
    e2 = e2
    Subscriptions = {s1}
    Events = {e1, e2}
    Selections <- MCSelections
    MaxAttempts = 2
    FailureLimit = 2
    BatchSize = 2
    MaxFaults = 0
CHECK_DEADLOCK FALSE
SPECIFICATION WebhookSpec
PROPERTY OnlyActiveAreCalled
\* PROPERTY ReenabledStartsOver
