CONSTANTS
    Calls = {c1, c2}
    Targets = {t1, t2}
    Attempts = 2
    NoTenant = NoTenant
    Capacity = 1
    IdleTTL = 0
    MaxOperations = 3
    MaxTime = 0
SPECIFICATION Spec
INVARIANTS
    RequestFailedMeansNoRestart
