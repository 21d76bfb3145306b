SPECIFICATION Spec
CONSTANTS
    m1 = m1
    Messages = {m1}
    Delays <- MCDelays
    None = None
    MaxDelay = 2
    Slack = 1
    MaxSkew = 1
    MaxDequeueCount = 2
    Mishaps = {"crash", "fault", "throw", "redeliver"}
    MaxMishaps = 2
    MaxTime = 3
    MaxCopies = 4
INVARIANTS
    TypeOK
    NoMessageVanishes
    OncePerMishap
    PoisonedForCause
    FilesFreed
PROPERTIES
    NeverEarly
    EverySettles
    MailboxSpec
\* The queue runs empty.
CHECK_DEADLOCK FALSE
