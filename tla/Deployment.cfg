SPECIFICATION FairSpec
CONSTANTS
    Requests = {r1, r2}
    Unset = Unset
    Malformed = Malformed
    Instances <- MCInstances
    Step = 1000
    Skew = 2
    Retry = 2
    Margin = 1
    Fresh = 2
    MaxFetch = 1
    MaxLife = 3
INVARIANTS
    TokensOutliveTheirUse
    ShutdownKeepsWork
    GatewayWaitsLongEnough
PROPERTIES
    GatewayRecovers
    ProcessStops
    AcceptedWorkEnds
