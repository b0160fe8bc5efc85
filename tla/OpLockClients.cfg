SPECIFICATION ClientSpec
CONSTANTS
    s1 = s1
    s2 = s2
    s3 = s3
    a = a
    dir = dir
    other = other
    list = list
    mkdir = mkdir
    NoSocket = NoSocket
    Sockets <- MCSockets
    Servers <- MCServers
    ServerOf <- MCServerOf
    Paths <- MCPaths
    ParentOf <- MCParentOf
    Reasons <- MCReasons
    MaxLocks = 4
INVARIANTS MutualExclusion HandlesMatchLocks NoLostWakeup NoHoldAndWait
PROPERTY WaitingEnds
CHECK_DEADLOCK FALSE
