\* The administrator requeues a dead letter.
SPECIFICATION Spec
CONSTANTS
    Workers = {w1}
    Deliveries = {d1, d2}
    Malformed = {}
    MaxAttempts = 2
    FetchLimit = 2
    BatchBudget = 2
    MaxRetries = 0
    MaxFaults = 0
    NoItem = NoItem
PROPERTY RequeueRevives
