SPECIFICATION MCSpec
CONSTANTS
    a = a
    dup = dup
    da = da
    p1 = p1
    p2 = p2
    u1 = u1
    h1 = h1
    n1 = n1
    n2 = n2
    f1 = f1
    f2 = f2
    None = None
    Keys = {k1}
    Payloads = {a, dup}
    Digests = {da}
    NoDigest = NoDigest
    DigestOf <- MCDigestOf
    Callers <- MCCallers
    Revisions = {0, 1, 2, 3, 4, 5}
    MaxRevision = 5
    Promoters = {p1, p2}
    Unclassified = {u1}
    ApiClients = {h1}
    Proposals <- MCProposals
    MaxAttempts = 2
    Plans = {n1, n2}
    Facts = {f1, f2}
    Signers <- MCSigners
    Expectations <- MCExpectations
    Certified = {n1}
    MaxWindow = 2
    MaxTime = 1
    MaxDispatches = 2
    MaxDocuments = 5
    MaxSlips = 1
SYMMETRY MCSymmetry
INVARIANTS
    OnlyCompatibleOrApproved
    VerdictStillApplies
    VersionsFormAChain
    PromotionIsProven
CHECK_DEADLOCK FALSE
