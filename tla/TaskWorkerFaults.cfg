SPECIFICATION LiveSpec
CONSTANTS
    s1 = s1  s2 = s2  s3 = s3  p1 = p1  p2 = p2
    t1 = t1  c1 = c1  c2 = c2  w1 = w1  w2 = w2
    None = None
    Tasks = {t1}
    Slots = {s1, s2, s3}
    Processes = {p1, p2}
    ProcessOf <- TrioProcess
    Serves <- ServesAll
    ChildrenOf <- NoChildren
    MaxAttempts = 2
    LeaseFor = 2
    MaxDelay = 1
    Stoppable = {t1}
    MaxFaults = 3
INVARIANTS TypeOK WaitingHasBudget FailsOnlyExhausted OneExecution
PROPERTIES StartsOwnedAndInformed FencedReports StopIsKept ImplementsLifecycle EventuallySettled
CHECK_DEADLOCK FALSE
