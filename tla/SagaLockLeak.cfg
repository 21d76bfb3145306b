SPECIFICATION Spec
CONSTANTS
    s = s
    t = t
    k1 = k1
    k2 = k2
    l1 = l1
    Messages = {s, t}
    Keys = {k1}
    LockIds = {l1}
    Leases <- MCDeliveries
    NoRow = NoRow
    Absent = Absent
    Free = Free
    Starting = {s, t}
    Correlated = {}
    Finishing = {}
    Throwing = {}
    KeyOf <- MCOneSaga
    LockOf <- MCSameName
    LockSagas = TRUE
    MaxDequeueCount = 2
    Mishaps = {}
    MaxMishaps = 0
INVARIANTS
    LockFreed
