SPECIFICATION Spec
CONSTANTS
    k1 = k1
    k2 = k2
    l1 = l1
    l2 = l2
    e1 = e1
    s2 = s2
    s1 = s1
    Messages = {e1, s1, s2}
    Events = {e1}
    Commands = {s1, s2}
    Keys = {k1, k2}
    LockIds = {l1, l2}
    Leases = {e1}
    NoRow = NoRow
    Absent = Absent
    Free = Free
    Starting = {s1, s2}
    Finishing = {}
    Closing = {}
    Throwing <- MCFirstThrows
    KeyOf <- MCKeyOf
    LockOf <- MCOwnLock
    KeyOrder <- MCTwoKeys
    LockSagas = TRUE
    MaxTries = 2
    Mishaps = {}
    MaxMishaps = 0
INVARIANTS
    IndependentSagas
