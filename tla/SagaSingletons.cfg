SPECIFICATION Spec
CONSTANTS
    s = s
    t = t
    f = f
    k1 = k1
    k2 = k2
    l1 = l1
    Messages = {s, t, f}
    Keys = {k1}
    LockIds = {l1}
    Leases <- MCDeliveries
    NoRow = NoRow
    Absent = Absent
    Free = Free
    Starting = {s, t}
    Correlated = {s, t, f}
    Finishing = {f}
    Throwing = {t, f}
    KeyOf <- MCOneSaga
    LockOf <- MCSameName
    LockSagas = TRUE
    MaxDequeueCount = 2
    Mishaps = {"crash", "fault"}
    MaxMishaps = 1
INVARIANTS
    IndInv
PROPERTIES
    OnlyInsertLeaks
    RegisterSpec
