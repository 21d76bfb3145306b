SPECIFICATION Spec
CONSTANTS
    s = s
    a = a
    f = f
    k1 = k1
    k2 = k2
    l1 = l1
    Messages = {s, a, f}
    Keys = {k1}
    LockIds = {l1}
    Leases <- MCDeliveries
    NoRow = NoRow
    Absent = Absent
    Free = Free
    Starting = {s}
    Correlated = {s, a, f}
    Finishing = {f}
    Throwing = {}
    KeyOf <- MCOneSaga
    LockOf <- MCSameName
    LockSagas = FALSE
    MaxDequeueCount = 3
    Mishaps = {"crash", "fault", "redeliver"}
    MaxMishaps = 2
INVARIANTS
    TypeOK
    CommittedOnce
    ConsumedMeansCommitted
PROPERTIES
    RegisterSpec
