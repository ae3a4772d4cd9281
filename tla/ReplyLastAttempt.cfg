SPECIFICATION Spec
CONSTANTS
    r1 = r1  r2 = r2  api1 = api1  api2 = api2
    Requests = {r1}
    ApiOf <- OneApi
    MaxMessages = 1
    MaxRetries = 0
    MaxAttempts = 1
    Yields <- AllYields
    Faults = {"raise"}
    MaxFaults = 1
INVARIANTS MessageSettledWithTask
CHECK_DEADLOCK FALSE
