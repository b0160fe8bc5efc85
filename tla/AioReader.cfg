SPECIFICATION Spec
CONSTANTS
    buffer_count = 2
    buffer_size_ = 2
    FileSize = 5
    MaxSeeks = 1
INVARIANTS BuffersDisjoint DeliveredInOrder EofIsComplete NoLostWakeup
PROPERTY CallsEnd
CHECK_DEADLOCK FALSE
