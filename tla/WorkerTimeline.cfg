SPECIFICATION TimelineFairSpec
CONSTANTS
    Caller = {"supervisor"}
    Threshold = 2
    Window = 2
    OpenDuration = 2
    MaxTime = 5
    Restarting = {"Never", "OnFailure", "Always", "MaxRetries"}
    Retries = 2
    FailureWindow = 3
    Base = 1
    Cap = 3
    HeartbeatEvery = 1
INVARIANTS
    BurstTrips
    RetriesBounded
    TrialWaitsOut
    EventsTellAll
PROPERTIES
    RefinesCircuitSpec
    SilenceNoticed
CHECK_DEADLOCK FALSE
