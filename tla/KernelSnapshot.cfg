SPECIFICATION FairSpec
CONSTANTS
    Runner = {"r1"}
    Snapshotter = {"m1"}
    Size = 2
    NoThread = "none"
PROPERTIES
    RunObservesSignal
CHECK_DEADLOCK FALSE
