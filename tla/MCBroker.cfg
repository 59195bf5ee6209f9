\* Two streams of one route; buffers that overflow.
SPECIFICATION FairSpec
CONSTANTS
    Streams = {s1, s2}
    Routes = {r1}
    Capacity = 2
    MaxEvents = 4
INVARIANTS TypeOK NoPanic InOrder GapsOnlyFromOverflow
PROPERTIES PublishReturns ChannelReleased
CHECK_DEADLOCK FALSE
