SPECIFICATION ControllerSpec
CONSTANTS
    c1 = c1
    c2 = c2
    e1 = e1
    e2 = e2
    Topic <- MCTopic
    Client = {c1, c2}
    Emitter = {e1, e2}
    MaxId = 2
    NoTopic = NoTopic
    Start = {"Loading"}
    Wirings <- MCWirings
    Published <- MCPublished
    MaxTransitions = 2
SYMMETRY Threads
INVARIANTS
    TablesAgree
    EmitReachesSubscribers
    EntryIsHeard
    CountersExact
    GaugeTruthful
