SPECIFICATION Spec
CONSTANTS
    t1 = t1
    t2 = t2
    o1 = o1
    o2 = o2
    o3 = o3
    s1 = s1
    s2 = s2
    Null = Null
    NoPtr = NoPtr
    NoLimit = NoLimit
    Threads <- OneThread
    Owners <- ThreeOwners
    Slots <- TwoSlots
    DeviceLimit = 0
    MaxOps = 7
SYMMETRY Symmetry
INVARIANTS
    LimitKept
    LeastRecentlyUsedFirst
