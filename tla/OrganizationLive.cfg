CONSTANTS
    ann = ann  bob = bob  ma = ma  mb = mb  mc = mc  i1 = i1
    Users = {ann, bob}
    Memberships = {ma, mb, mc}
    UserOf <- MCUserOf
    Invitations = {}
    Org = Org
    None = None
    Events <- ReturnEvents
    Workers = {w1}
    Sessions = {s1}
    Maintenance = maintenance
    Nobody = Nobody
    NoRequest = NoRequest
    NoTables = NoTables
    MaxCommands = 1
    MaxFaults = 1
SPECIFICATION ServiceSpec
PROPERTIES
    RemovalsFinalized
    EveryEventRecorded
