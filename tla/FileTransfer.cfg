CONSTANTS
    Names <- MCNames
    FirstName = "f"
    Servers <- MCServers
    MaxSize = 4
    GB2 = 2
    GB4 = 3
    OtherNames = {"f"}
    OtherSizes = {1, 4}
    MaxChanges = 1
    MaxEvents = 2
SPECIFICATION Spec
INVARIANTS ResumedFileIsRight
PROPERTIES NoSilentOverwrite TransfersEnd
CHECK_DEADLOCK FALSE
