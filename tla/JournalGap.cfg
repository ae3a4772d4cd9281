SPECIFICATION Spec
CONSTANTS
    w1 = w1  w2 = w2  f1 = f1  k1 = k1  k2 = k2  k3 = k3  c1 = c1
    Writers = {w1}
    Followers = {f1}
    Scanners = {}
    Keys = {k1, k2, k3}
    None = None
    Retention = 2
    Capacity = 2
    Limit = 1
    MaxClock = 3
    MaxSequence = 4
    MaxDrops = 1
INVARIANTS NoSilentGap
SYMMETRY Interchangeable
CHECK_DEADLOCK FALSE
