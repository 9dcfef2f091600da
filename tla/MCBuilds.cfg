CONSTANTS
    Calls = {c1, c2}
    Names = {n1, n2}
    Targets = {t1}
    NoTarget = NoTarget
    NoTenant = NoTenant
    Capacity = 1
    IdleTTL = 0
    MaxOperations = 2
    MaxTime = 1
    MaxEdits = 1
SPECIFICATION ReducedSpec
INVARIANTS
    PollFindsTheCompile
    OneBuildWhileSettingsStay
    ReservationsAreHeld
PROPERTIES
    ImplementsBoard
    EveryBuildEnds
