CONSTANTS
    name = name  site = site
    Sessions = {s1, s2}
    Members = {m1}
    Accounts = {a1}
    Fields = {name, site}
    Values = {0, 1}
    Unset = 0
    Patches <- MCPatches
    Nobody = Nobody
    NoRequest = NoRequest
    NoRow = NoRow
    MaxRequests = 3
    MaxChanges = 2
SPECIFICATION FairSpec
INVARIANTS
    TypeOK
    TrailAccounts
    AnswersStand
    AuthorizedDuringRequest
    ProofAccounted
PROPERTIES
    ImplementsLifecycle
    ProofByAdministrator
    RequestsEnd
