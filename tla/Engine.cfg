SPECIFICATION Spec
CONSTANTS
    ReconnectCount = 2
    MaxCommands = 3
    MaxCancels = 2
    MaxRequests = 2
    MaxSubs = 1
    MaxDelays = 1
INVARIANTS OneReplyPerCommand RetryTimerHasConnect
PROPERTIES AllAttemptsMade AnswersReachTheirRequest ImplementsCommands
CHECK_DEADLOCK FALSE
