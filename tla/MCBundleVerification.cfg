SPECIFICATION Spec
CONSTANTS
    v1 = v1
    v2 = v2
    l1 = l1
    l2 = l2
    i1 = i1
    i2 = i2
    None = None
    EvidenceIds <- MCEvidenceIds
    Verifiers = {v1, v2}
    Keys <- MCKeys
    Ledgers = {l1, l2}
    Archives <- MCArchives
    Evaluations <- MCEvaluations
    Revoked <- MCRevoked
    MaxChanges = 2
SYMMETRY Alike
INVARIANTS
    VouchedIsSigned
    EvidenceIsOfTheBundle
    OutputsAreSpent
    OutputsAreOneVerification
CHECK_DEADLOCK FALSE
