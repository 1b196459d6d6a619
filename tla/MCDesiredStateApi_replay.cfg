SPECIFICATION Spec
CONSTANTS
    k1 = k1
    a1 = a1
    a2 = a2
    b = b
    dup = dup
    da = da
    db = db
    c1 = c1
    c2 = c2
    Keys = {k1}
    Payloads = {a1, a2}
    Digests = {da, db}
    NoDigest = NoDigest
    DigestOf <- MCDigestOf
    Callers <- CallIds
    Revisions = {0, 1, 2, 3, 4, 5}
    MaxRevision = 5
    Clients = {c1, c2}
    Strays = {}
    KeyOf <- MCKeyOf
    BodyOf <- MCBodyOf
    NotJson = NotJson
    StrayHeaders <- MCStrayHeaders
    MaxPuts = 5
    MaxFaults = 1
    MaxRestarts = 1
INVARIANTS
    ReplayReturnsOriginalResult
CHECK_DEADLOCK FALSE
