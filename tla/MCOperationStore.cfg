CONSTANTS
    Tenants = {t1, t2}
    NoTenant = NoTenant
    Capacity = 2
    IdleTTL = 1
    MaxOperations = 5
    MaxTime = 4
SPECIFICATION Spec
SYMMETRY TenantSymmetry
INVARIANTS
    OpenIsTracked
    LatestIsNewest
PROPERTIES
    BeginRespectsCapacity
    KeptUnlessFull
