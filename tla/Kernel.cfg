SPECIFICATION FairSpec
CONSTANTS
    Runner = {"r1", "r2"}
    Snapshotter = {"m1"}
    Size = 3
    NoThread = "none"
INVARIANTS
    LoadedOnLoaded
    NothingLeftLoaded
    SnapshotCoherent
    HooksOnceInOrder
PROPERTIES
    SignalEndsRun
