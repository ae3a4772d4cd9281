SPECIFICATION LiveSpec
CONSTANTS
    r1 = r1  r2 = r2  api1 = api1  api2 = api2
    Requests = {r1}
    ApiOf <- OneApi
    MaxMessages = 1
    MaxRetries = 0
    MaxAttempts = 2
    Yields <- AllYields
    Faults = {"crash"}
    MaxFaults = 2
INVARIANTS MessageSettledWithTask EndIsAnnounced
PROPERTIES RepliesEnd
CHECK_DEADLOCK FALSE
