SPECIFICATION MCSpec
CONSTANTS
    t1 = t1
    t2 = t2
    rA = rA
    rB = rB
    b1 = b1
    b2 = b2
    a1 = a1
    a2 = a2
    a3 = a3
    a4 = a4
    Targets = {t1, t2}
    Releases = {rA, rB}
    Bindings = {b1, b2}
    Attempts = {a1, a2, a3, a4}
    TargetOf <- MCTargetOf
    IdentityOf <- MCIdentityOf
    MaxSwitches = 4
    d1 = d1
    d2 = d2
    d3 = d3
    k1 = k1
    k2 = k2
    x = x
    y = y
    p1 = p1
    p2 = p2
    p3 = p3
    w1 = w1
    w2 = w2
    w3 = w3
    r1 = r1
    Deliveries = {d1, d2, d3}
    DeliveryIds = {k1, k2}
    PayloadDigests = {x, y}
    DeliveryIdOf <- MCDeliveryIdOf
    PayloadDigestOf <- MCPayloadDigestOf
    MaxCopies = 2
    MaxFaults = 2
    MaxRestarts = 1
    Processes = {p1, p2, p3}
    EntryOf <- MCEntryOf
    UniqueFields = {"requestId", "nonce"}
    NoFile = NoFile
    Mixed = Mixed
    Parts = 2
    Capacity = 2
    MaxFiles = 2
    MaxRotations = 1
    MaxLedgerOutages = 1
    Writers = {w1, w2, w3}
    Absent = {w2, w3}
    Readers = {r1}
    Blocks = 2
    Nothing = Nothing
    Edited = Edited
    MaxEdits = 1
    MaxCrashes = 2
INVARIANTS
    OnlyLatestSwitchFails
    NoRepeatedSwitch
    OnePayloadPerDelivery
    OncePerEra
    AcceptedIsRecorded
    PathIsWhole
    ReportsStayTrue
    ReadsAreSnapshots
CHECK_DEADLOCK FALSE
