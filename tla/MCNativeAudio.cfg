SPECIFICATION Spec
CONSTANTS
    Capacity = 4
    Chunk = 1
    Chunks = 3
    Asked = 2
INVARIANT WaitPlaysAll
CHECK_DEADLOCK FALSE
