SPECIFICATION Spec
CONSTANTS
    k1 = k1
    k2 = k2
    l1 = l1
    l2 = l2
    e1 = e1
    s2 = s2
    e2 = e2
    s1 = s1
    f = f
    Messages = {e1, e2, s1, s2, f}
    Events = {e1, e2}
    Commands = {s1, s2, f}
    Keys = {k1, k2}
    LockIds = {l1, l2}
    Leases = {e1, e2}
    NoRow = NoRow
    Absent = Absent
    Free = Free
    Starting = {s1, s2}
    Finishing = {f}
    Closing = {e2}
    Throwing <- MCSecondThrows
    KeyOf <- MCKeyOf
    LockOf <- MCOwnLock
    KeyOrder <- MCTwoKeys
    LockSagas = TRUE
    MaxTries = 2
    Mishaps = {"crash", "fault"}
    MaxMishaps = 1
INVARIANTS
    TypeOK
    LockProtects
    NoSagaMissed
    LockFreed
PROPERTIES
    SnapshotSpec
