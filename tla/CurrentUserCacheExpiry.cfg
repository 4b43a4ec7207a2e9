SPECIFICATION Spec
CONSTANTS
    Replicas = {1}
    Callers = {1}
    ReplicaOf <- OnePerReplica
    LoadTimeout = 1
    WireDelay = 0
    DataTTL = 1
    MarkerTTL = 2
    MaxWrites = 2
    MaxInvalidations = 2
    MaxLateSets = 1
    MaxEvictions = 0
INVARIANTS
    NeverBehindInvalidation
