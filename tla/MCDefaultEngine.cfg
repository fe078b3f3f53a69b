SPECIFICATION FairSpec
CONSTANTS
    t1 = t1
    t2 = t2
    t3 = t3
    w1 = w1
    w2 = w2
    w3 = w3
    None = None
    Threads <- TwoThreads
    Workers <- ThreeWorkers
INVARIANTS
    TypeOK
    OneDefaultEngine
    InstanceHasItsWorker
    SlotWorkerAlive
    TornDownByItsWorker
PROPERTIES
    EveryCallEnds
