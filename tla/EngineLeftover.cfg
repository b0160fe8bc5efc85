SPECIFICATION Spec
CONSTANTS
    ReconnectCount = 2
    MaxCommands = 4
    MaxCancels = 0
    MaxRequests = 0
    MaxSubs = 0
    MaxDelays = 0
INVARIANT AlreadyConnectedOnlyIfConnected
CHECK_DEADLOCK FALSE
