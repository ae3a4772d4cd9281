SPECIFICATION Spec
CONSTANTS
    r1 = r1  r2 = r2  api1 = api1  api2 = api2
    Requests = {r1}
    ApiOf <- OneApi
    MaxMessages = 1
    MaxRetries = 1
    MaxAttempts = 2
    Yields <- AllYields
    Faults = {"crash"}
    MaxFaults = 1
INVARIANTS CompletedIsWhole
CHECK_DEADLOCK FALSE
