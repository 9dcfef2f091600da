CONSTANTS
    r1 = r1
    r2 = r2
    entity = entity
    Records = {r1, r2}
    Entities = {entity}
    EntityOf <- MCEntityOf
    Refers <- MCRefers
    Worlds <- MCWorlds
    Newer <- MCNewer
    None = None
    MaxFaults = 1
SPECIFICATION FairSpec
INVARIANTS
    NotLaunchedIsFinal
    StatusIsTheRuns
    CleansOnlyTheRuns
    AtMostOneAfterCallerLeft
    CleanupIsThorough
PROPERTIES
    DeletesInTime
    ImplementsPromise
    EveryRunIsAnswered
