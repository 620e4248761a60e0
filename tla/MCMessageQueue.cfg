CONSTANTS
    p1 = p1
    p2 = p2
    p3 = p3
    Producers <- TwoProducers
    MaxQueueSize = 2
    BulkMax = 2
    DequeueMax = 3
    Skew = 1
    OfferBound = 4
SPECIFICATION MCSpec
INVARIANTS TypeOK OvershootBound LossAccounting
PROPERTIES ImplementsBoundedBuffer ImplementsQueueLoad GetsInOrIsOvertaken
CHECK_DEADLOCK FALSE
