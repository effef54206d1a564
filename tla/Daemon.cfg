CONSTANTS
    Process = {p1, p2, p3}
    MaxDaemonize = 2
SPECIFICATION DaemonSpec
INVARIANTS
    StaleFileHasCause
    RunnerOwnsFile
CHECK_DEADLOCK FALSE
