SPECIFICATION Spec
CONSTANTS
    k1 = k1
    a1 = a1
    a2 = a2
    b = b
    dup = dup
    da = da
    db = db
    c1 = c1
    c2 = c2
    Keys = {k1}
    Payloads = {a1, b, dup}
    Digests = {da, db}
    NoDigest = NoDigest
    DigestOf <- MCDigestOf
    Callers <- CallIds
    Revisions = {0, 1, 2, 3, 4}
    MaxRevision = 4
    Clients = {c1}
    Strays = {s1, s2}
    KeyOf <- MCKeyOf
    BodyOf <- MCBodyOf
    NotJson = NotJson
    StrayHeaders <- MCStrayHeaders
    MaxPuts = 2
    MaxFaults = 0
    MaxRestarts = 1
INVARIANTS
    AnswersAreTruthful
CHECK_DEADLOCK FALSE
PROPERTIES
    ImplementsConditionalRegister
