SPECIFICATION FairSpec
CONSTANTS
    s = s
    a = a
    f = f
    k1 = k1
    k2 = k2
    l1 = l1
    Messages = {s, a, f}
    Keys = {k1}
    LockIds = {l1}
    Leases <- MCDeliveries
    NoRow = NoRow
    Absent = Absent
    Free = Free
    Starting = {s}
    Correlated = {a, f}
    Finishing = {f}
    Throwing = {f}
    KeyOf <- MCOneSaga
    LockOf <- MCSameName
    LockSagas = TRUE
    MaxDequeueCount = 2
    Mishaps = {"crash", "fault", "redeliver", "slow"}
    MaxMishaps = 1
PROPERTIES
    RegisterSpec
    EverySettles
    LeasesEnd
