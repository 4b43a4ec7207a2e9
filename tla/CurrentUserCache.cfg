SPECIFICATION FairSpec
CONSTANTS
    Replicas = {1}
    Callers = {1, 2}
    ReplicaOf <- SameReplica
    LoadTimeout = 1
    WireDelay = 1
    DataTTL = 1
    MarkerTTL = 3
    MaxWrites = 2
    MaxInvalidations = 1
    MaxLateSets = 1
    MaxEvictions = 1
INVARIANTS
    FenceHolds
    StalenessBounded
PROPERTIES
    WaitersAnswered
    CacheConverges
