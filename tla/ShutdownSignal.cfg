SPECIFICATION FairSpec
CONSTANTS
    Signaller = {"s1", "s2"}
    Waiter = {"kernel", "watcher", "timed"}
    TimedWaiter = {"timed"}
    NoThread = "none"
INVARIANT
    NoLostWakeup
PROPERTIES
    RefinesLatch
    SignalWakesAll
    TimedWaitEnds
