SPECIFICATION RuntimeSpec
CONSTANTS
    chain = chain
    propagation = propagation
    connection = connection
    Follower = chain
    Producers <- MCProducers
    Blocking <- MCBlocking
    Workers = 1
    ChannelCapacity = 2
    MaxBatchSize = 2
    MaxQueries = 2
    MaxCrashes = 1
INVARIANTS TypeOK BatchBounded ProducerOrder RuntimeTypeOK
PROPERTIES FlowOnlyGrows ImplementsLog WriterIsScheduled NothingLeftBehind
CHECK_DEADLOCK FALSE
