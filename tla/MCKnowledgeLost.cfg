CONSTANTS
    Ops = {o1, o2}
    Digests = {"a", "b"}
    Bundles <- MCBundles
    None = None
    MaxFaults = 1
    MaxDamage = 0
SPECIFICATION Spec
INVARIANTS
    ConflictIsReconcilable
