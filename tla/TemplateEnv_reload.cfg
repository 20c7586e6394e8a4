SPECIFICATION FairSpec
CONSTANTS
    t1 = t1
    t2 = t2
    a = a
    Threads <- TwoThreads
    Names <- OneName
    HandlerCount = 2
    RealHandlers = {2}
    Served <- ServeAll
    AutoReloads = {TRUE, FALSE}
    CacheSizes = {0, 1}
    Broken <- SecondBroken
    MaxVersion = 3
    MaxClock = 3
INVARIANTS
    StaleOnlyIfEarly
PROPERTIES
    ImplementsLoader
    EveryLoadReturns
