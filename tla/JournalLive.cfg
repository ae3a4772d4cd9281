SPECIFICATION LiveSpec
CONSTANTS
    w1 = w1  w2 = w2  f1 = f1  k1 = k1  k2 = k2  k3 = k3  c1 = c1
    Writers = {w1}
    Followers = {f1}
    Scanners = {}
    Keys = {k1, k2, k3}
    None = None
    Retention = 1
    Capacity = 3
    Limit = 2
    MaxClock = 2
    MaxSequence = 4
    MaxDrops = 2
PROPERTIES Delivered
CHECK_DEADLOCK FALSE
