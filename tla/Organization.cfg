CONSTANTS
    ann = ann  bob = bob  ma = ma  mb = mb  mc = mc  i1 = i1
    Users = {ann, bob}
    Memberships = {ma, mb, mc}
    UserOf <- MCUserOf
    Invitations = {i1}
    Org = Org
    None = None
    Events <- MemberEvents
    Workers = {w1}
    Sessions = {s1, s2}
    Maintenance = maintenance
    Nobody = Nobody
    NoRequest = NoRequest
    NoTables = NoTables
    MaxCommands = 3
    MaxFaults = 1
SPECIFICATION Spec
INVARIANTS
    EventsReflected
    DecisionsStillHold
    InvitationConsumed
    ProjectionFollowsClerk
    RemovalsAccounted
PROPERTIES
    LastOwnerKept
    OwnersMakeOwners
    ImplementsMembers
