SPECIFICATION Spec
CONSTANTS
    t1 = t1
    t2 = t2
    rA = rA
    rB = rB
    b1 = b1
    b2 = b2
    a1 = a1
    a2 = a2
    a3 = a3
    a4 = a4
    Targets = {t1, t2}
    Releases = {rA, rB}
    Bindings = {b1, b2}
    Attempts = {a1, a2, a3, a4}
    TargetOf <- MCTargetOf
    IdentityOf <- MCIdentityOf
    MaxSwitches = 4
PROPERTIES
    NeverReactivatesFailedRelease
