\* Two streams of one route; buffers that overflow, feeds that drop and end.
SPECIFICATION Spec
CONSTANTS
    Streams = {s1, s2}
    Capacity = 1
    MaxResends = 1
    MaxEvents = 3
INVARIANTS TypeOK InOrder PanicNeedsDeparture BlankNeedsEndedFeed
CHECK_DEADLOCK FALSE
