CONSTANTS
    Tenants = {t1, t2}
    NoTenant = NoTenant
    Capacity = 4
    IdleTTL = 1
    MaxOperations = 4
    MaxTime = 4
SPECIFICATION Spec
INVARIANT NotFoundMeansNoRecord
