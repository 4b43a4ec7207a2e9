SPECIFICATION FairSpec
CONSTANTS
    Users <- MCUsers
    Emails <- MCEmails
    NoEmail = NoEmail
    Events <- MCEvents
    Workers = {w1, w2}
    IdUsers = {i1, i2}
    NoId = NoId
    NoEvent = NoEvent
    MaxIdUserAttempts = 2
    MaxFaults = 1
INVARIANTS
    ShowsNewestEvent
    ArrivalOrderIrrelevant
    AcknowledgedIsRecorded
    StaleCacheIsOwed
PROPERTIES
    NeverReenabled
    PublicIdPermanent
    ImplementsProjection
    EveryEventAcknowledged
