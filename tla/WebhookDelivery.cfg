CONSTANTS
    s1 = s1
    e1 = e1
    e2 = e2
    Subscriptions = {s1}
    Events = {e1, e2}
    Selections <- MCSelections
    MaxAttempts = 2
    FailureLimit = 2
    BatchSize = 2
    MaxFaults = 2
SPECIFICATION WebhookFairSpec
INVARIANTS AcceptedOnce CallsAreAttempts
PROPERTIES SettledIsFinal SwitchedOffForCause DeliveriesSettle
CHECK_DEADLOCK FALSE
