SPECIFICATION DrainFairSpec
CONSTANTS
    Hook = {"flush", "listeners"}
    Caller = {"kernel", "other"}
    Grace = 2
    DrainHook = "listeners"
    Task = {"task", "blocking"}
    Blocking = {"blocking"}
    DrainGrace = 1
INVARIANTS
    HooksRunOnce
    ReportAddsUp
    EarlyHooksReported
    DrainAddsUp
PROPERTY
    ShutdownEnds
