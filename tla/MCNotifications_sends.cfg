SPECIFICATION Spec
CONSTANTS
    k1 = k1
    k2 = k2
    k3 = k3
    t1 = t1
    t2 = t2
    Keys <- ThreeKeys
    Kind <- KindOfKey
    Callers <- TwoCallers
CHECK_DEADLOCK FALSE
INVARIANT DeliveredAsRecorded
PROPERTY RecordedIsNotResent
