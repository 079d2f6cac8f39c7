SPECIFICATION FairSpec
CONSTANTS
    PublisherCapacity = 2
    ChannelCapacity = 2
    MaxMessages = 6
INVARIANTS TypeOK EndsDrained
PROPERTIES ImplementsPipe AllEnd ReadIsReported
CHECK_DEADLOCK FALSE
