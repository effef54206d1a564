SPECIFICATION Spec
CONSTANTS
    Subsystem = {"kernel", "storage", "worker"}
    Reporter = {"supervisor"}
INVARIANTS
    AggregateCallsForAttention
    SubscribersUpToDate
PROPERTY
    RefinesHealthSpec
