SPECIFICATION Spec
CONSTANTS
    r1 = r1  r2 = r2  api1 = api1  api2 = api2
    Requests = {r1, r2}
    ApiOf <- OneApi
    MaxMessages = 2
    MaxRetries = 1
    MaxAttempts = 1
    Yields <- Talk
    Faults = {}
    MaxFaults = 0
INVARIANTS OneActiveReply
PROPERTIES ImplementsReply
SYMMETRY Interchangeable
CHECK_DEADLOCK FALSE
