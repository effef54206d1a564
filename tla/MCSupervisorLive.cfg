SPECIFICATION FairSpec
CONSTANTS
    w1 = w1
    w2 = w2
    t1 = t1
    t2 = t2
    NoWorker = NoWorker
    Worker = {w1, w2}
    TaskId = {t1, t2}
    Cancellable = {}
    MaxFailures = 1
    WorkerSpec <- MCLiveSpecs
PROPERTIES
    ShutdownCompletes
    OutcomeHandled
    OpenBreakerIsTried
