\* One stream is left while its pump runs.
SPECIFICATION Spec
CONSTANTS
    Streams = {s1}
    Capacity = 2
    MaxResends = 1
    MaxEvents = 2
INVARIANT UnsubscribeSuffices
CHECK_DEADLOCK FALSE
