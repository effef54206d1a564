SPECIFICATION Spec
CONSTANTS
    w1 = w1
    w2 = w2
    t1 = t1
    t2 = t2
    t3 = t3
    NoWorker = NoWorker
    Worker = {w1, w2}
    TaskId = {t1, t2, t3}
    Cancellable = {w1, w2}
    MaxFailures = 2
    WorkerSpec <- MCSpecs
SYMMETRY MCSymmetry
INVARIANTS
    AtMostOneTask
    TaskMapExact
    OpenMeansIdle
    HandleMatchesTask
    FailureEscalates
