SPECIFICATION FullSpec
CONSTANTS
    t1 = t1
    t2 = t2
    o1 = o1
    o2 = o2
    o3 = o3
    s1 = s1
    s2 = s2
    Null = Null
    NoPtr = NoPtr
    NoLimit = NoLimit
    Threads <- TwoThreads
    Owners <- ThreeOwners
    Slots <- OneSlot
    DeviceLimit = NoLimit
    MaxOps = 2
PROPERTIES
    EveryOperationEnds
CHECK_DEADLOCK FALSE
