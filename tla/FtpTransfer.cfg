SPECIFICATION Spec
CONSTANTS
    MaxOps = 3
    MaxKeepalives = 1
    Modes = {"passive", "active", "proxy"}
    AllowFallback = TRUE
    SendFailures = TRUE
    EarlyFailures = TRUE
INVARIANTS RepliesReachTheirCommand SuccessIsReal TransferredAsAsked WaitsHaveAReason
PROPERTY OperationsEnd
CHECK_DEADLOCK FALSE
