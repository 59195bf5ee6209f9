\* Two API processes share the database and race on their rows, one of which has a
\* malformed url.
SPECIFICATION FairSpec
CONSTANTS
    Workers = {w1, w2}
    Deliveries = {d1, bad}
    Malformed = {bad}
    MaxAttempts = 3
    FetchLimit = 1
    BatchBudget = 2
    MaxRetries = 1
    MaxFaults = 1
    NoItem = NoItem
INVARIANTS TypeOK AttemptsBounded GivenUpOnlyWhenExhausted DeliveredWasAcked DeadLetterDebt
PROPERTY EventuallySettled
