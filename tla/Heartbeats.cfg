CONSTANTS
    Peers = {p1, p2, p3}
    Handlers = {Sync, Relay}
    HEARTBEAT_INTERVAL = 2
    Soon = 1
    MaxPanics = 1
SPECIFICATION FairSpec
INVARIANTS
    TypeOK
    FollowedOnce
    
PROPERTIES
    ReportsAreSpaced
    LateByOneInterval
    EveryPeerBeats
