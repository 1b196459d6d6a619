SPECIFICATION MCSpec
CONSTANTS
    pa = pa
    pA = pA
    pax = pax
    pb = pb
    pbad = pbad
    fa = fa
    fax = fax
    fb = fb
    fbad = fbad
    r1 = r1
    r2 = r2
    r3 = r3
    d1 = d1
    d2 = d2
    s1 = s1
    s2 = s2
    e1 = e1
    e2 = e2
    Paths = {pa, pA, pax, pb, pbad}
    Portable = {pa, pA, pax, pb}
    Folded = {fa, fax, fb, fbad}
    Fold <- MCFold
    Below <- MCBelow
    Records = {r1, r2, r3}
    BadRecord = BadRecord
    NoRecord = NoRecord
    Digests = {d1, d2}
    NoDigest = NoDigest
    DigestOf <- MCDigestOf
    MaxOperations = 3
    Packages = {pdf, mail, invalid}
    Identifiers = {pdf, mail}
    Descriptors = {s1, s2}
    BadDescriptor = BadDescriptor
    NoDescriptor = NoDescriptor
    SkillDigests = {e1, e2}
    NoSkillDigest = NoSkillDigest
    SkillDigestOf <- MCSkillDigestOf
    MaxSkillOperations = 3
INVARIANTS
    IndexIsCurrent
    TreesStayFit
    DeltaIsAboutTheInput
PROPERTIES
    DeltaIsAtomic
    ImplementsFileOperations
