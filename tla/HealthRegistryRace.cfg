SPECIFICATION Spec
CONSTANTS
    Subsystem = {"storage", "worker"}
    Reporter = {"supervisor", "storage"}
INVARIANT
    WorstNotMasked
