\* One API process; batches of two rows, an expiring context, and a malformed url.
SPECIFICATION FairSpec
CONSTANTS
    Workers = {w1}
    Deliveries = {d1, d2, bad}
    Malformed = {bad}
    MaxAttempts = 2
    FetchLimit = 2
    BatchBudget = 2
    MaxRetries = 2
    MaxFaults = 1
    NoItem = NoItem
PROPERTY ImplementsContract
