SPECIFICATION FairSpec
CONSTANTS
    k1 = k1
    k2 = k2
    l1 = l1
    l2 = l2
    e1 = e1
    s2 = s2
    e2 = e2
    s1 = s1
    u = u
    Messages = {e1, e2, s1, u}
    Events = {e1, e2}
    Commands = {s1, u}
    Keys = {k1}
    LockIds = {l1}
    Leases = {e1, e2}
    NoRow = NoRow
    Absent = Absent
    Free = Free
    Starting = {s1}
    Finishing = {}
    Closing = {}
    Throwing = {}
    KeyOf <- MCKeyOf
    LockOf <- MCOwnLock
    KeyOrder <- MCOneKey
    LockSagas = TRUE
    MaxTries = 2
    Mishaps = {"crash", "fault", "slow"}
    MaxMishaps = 2
PROPERTIES
    LossNeedsOverlap
    EventsSettle
