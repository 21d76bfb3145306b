SPECIFICATION Spec
CONSTANTS
    s = s
    a = a
    t = t
    k1 = k1
    k2 = k2
    l1 = l1
    Messages = {s, a, t}
    Keys = {k1, k2}
    LockIds = {l1}
    Leases <- MCDeliveries
    NoRow = NoRow
    Absent = Absent
    Free = Free
    Starting = {s, t}
    Correlated = {a, t}
    Finishing = {}
    Throwing = {a}
    KeyOf <- MCTwoSagas
    LockOf <- MCSameName
    LockSagas = TRUE
    MaxDequeueCount = 3
    Mishaps = {"crash", "fault", "redeliver"}
    MaxMishaps = 1
INVARIANTS
    LockProtects
    HandledOnce
    ConsumedMeansCommitted
    LockFreed
