CONSTANTS
    ann = ann  bob = bob  ma = ma  mb = mb  mc = mc  i1 = i1
    Users = {ann, bob}
    Memberships = {ma, mb}
    UserOf <- MCUserOf
    Invitations = {}
    Org = Org
    None = None
    Events <- RemovalEvents
    Workers = {w1}
    Sessions = {s1}
    Maintenance = maintenance
    Nobody = Nobody
    NoRequest = NoRequest
    NoTables = NoTables
    MaxCommands = 2
    MaxFaults = 2
SPECIFICATION Spec
PROPERTY UnansweredRemovalStaysReserved
