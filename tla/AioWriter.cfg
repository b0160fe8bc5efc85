SPECIFICATION Spec
CONSTANTS
    buffer_count = 3
    buffer_size_ = 2
    MaxData = 5
INVARIANTS BuffersDisjoint FileIsPrefix FinalizedIsComplete NoLostWakeup
PROPERTY CallsEnd
CHECK_DEADLOCK FALSE
