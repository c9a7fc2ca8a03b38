SPECIFICATION Spec
CONSTANTS
    MaxRetainedEvents = 3
    ChannelCapacity = 2
    DefaultLimit = 2
    MaxPerBlock = 4
    MaxSequence = 6
    MaxCrashes = 1
INVARIANTS
    LinksShowGaps
    PublishedAfterCommit
PROPERTY SubscriberCatchesUp
