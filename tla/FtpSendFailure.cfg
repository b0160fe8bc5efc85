SPECIFICATION Spec
CONSTANTS
    MaxOps = 2
    MaxKeepalives = 1
    Modes = {"passive", "active", "proxy"}
    AllowFallback = TRUE
    SendFailures = TRUE
    EarlyFailures = FALSE
INVARIANT WaitsForSomething
CHECK_DEADLOCK FALSE
