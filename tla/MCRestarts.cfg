CONSTANTS
    Calls = {c1, c2}
    Targets = {t1, t2}
    Attempts = 2
    NoTenant = NoTenant
    Capacity = 1
    IdleTTL = 0
    MaxOperations = 2
    MaxTime = 1
SPECIFICATION FairSpec
INVARIANTS
    AnswerAgreesWithStatus
    StatusFollowsTheWork
PROPERTIES
    ImplementsPromise
    EveryRestartEnds
