\* Heartbeats, monitor ticks, restarts and a slow subscriber.
SPECIFICATION FairSpec
CONSTANTS
    Beats = {b1}
    OfflineAfter = 1
    Samples <- MCSamples
    Subscribers = {s1}
    QueueMax = 1
INVARIANTS TypeOK FreshOfflineOnlyIfRaced NewestKept
PROPERTIES DeadHostGoesOffline LiveHostComesBack StatusFollowsUse
