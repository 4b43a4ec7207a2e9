CONSTANTS
    ann = ann  bob = bob  ma = ma  mb = mb  mc = mc  i1 = i1
    Users = {ann, bob}
    Memberships = {ma, mb}
    UserOf <- MCUserOf
    Invitations = {i1}
    Org = Org
    None = None
    Events <- UpdateEvents
    Workers = {w1}
    Sessions = {s1}
    Maintenance = maintenance
    Nobody = Nobody
    NoRequest = NoRequest
    NoTables = NoTables
    MaxCommands = 2
    MaxFaults = 1
SPECIFICATION Spec
INVARIANT InvitationConsumed
