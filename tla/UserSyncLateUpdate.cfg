SPECIFICATION Spec
CONSTANTS
    Users <- MCUsers
    Emails <- MCEmails
    NoEmail = NoEmail
    Events <- MCLateUpdate
    Workers = {w1, w2}
    IdUsers = {i1, i2}
    NoId = NoId
    NoEvent = NoEvent
    MaxIdUserAttempts = 2
    MaxFaults = 0
INVARIANTS
    ArrivalOrderIrrelevant
