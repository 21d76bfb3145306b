SPECIFICATION Spec
CONSTANTS
    k1 = k1
    k2 = k2
    l1 = l1
    l2 = l2
    e1 = e1
    s2 = s2
    e2 = e2
    s1 = s1
    Messages = {e1, e2, s1}
    Events = {e1, e2}
    Commands = {s1}
    Keys = {k1}
    LockIds = {l1}
    Leases = {e1, e2}
    NoRow = NoRow
    Absent = Absent
    Free = Free
    Starting = {s1}
    Finishing = {}
    Closing = {}
    Throwing = {}
    KeyOf <- MCKeyOf
    LockOf <- MCOwnLock
    KeyOrder <- MCOneKey
    LockSagas = TRUE
    MaxTries = 2
    Mishaps = {}
    MaxMishaps = 0
INVARIANTS
    NoUpdateLost
