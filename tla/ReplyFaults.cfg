SPECIFICATION Spec
CONSTANTS
    r1 = r1  r2 = r2  api1 = api1  api2 = api2
    Requests = {r1, r2}
    ApiOf <- TwoApis
    MaxMessages = 1
    MaxRetries = 0
    MaxAttempts = 2
    Yields <- AllYields
    Faults = {"crash", "raise"}
    MaxFaults = 3
INVARIANTS TypeOK CompletedIsWhole ToolsRunOnce OutcomeAgrees
CHECK_DEADLOCK FALSE
