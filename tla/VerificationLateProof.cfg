CONSTANTS
    name = name  site = site
    Sessions = {s1, s2}
    Members = {m1}
    Accounts = {a1}
    Fields = {name, site}
    Values = {0, 1}
    Unset = 0
    Patches <- MCPatches
    Nobody = Nobody
    NoRequest = NoRequest
    NoRow = NoRow
    MaxRequests = 1
    MaxChanges = 1
SPECIFICATION Spec
INVARIANTS
    EveryProofStored
