CONSTANTS
    s1 = s1  s2 = s2
    Organizations = {1, 2}
    PendingBefore = {2}
    Sessions = {s1, s2}
    Walks = {w}
    Reviewing = Reviewing
    EventIds <- MCEventIds
    Idle = Idle
    MaxLimit = 2
    Skew = 0
    MaxTime = 1
SPECIFICATION Spec
INVARIANTS
    WalkComplete
    PagesInOrder
    LongerWaitingFirst
PROPERTY RequestsAreListed
