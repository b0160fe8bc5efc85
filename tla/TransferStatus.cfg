SPECIFICATION Spec
CONSTANTS
    Kinds <- AllKinds
    MaxUpdates = 3
    MaxInits = 3
INVARIANTS EverythingCounted CounterIsWatched NotificationsFetched
PROPERTIES FtpChangedIfUpdated ShownCatchesUp
CHECK_DEADLOCK FALSE
