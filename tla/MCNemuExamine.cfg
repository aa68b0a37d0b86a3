SPECIFICATION Spec
CONSTANTS
    KeyQueueLen = 3
    AmKey = {"A", "B"}
    NoKey = "none"
    Verdict = {TRUE, FALSE}
    Examinable = {"pmem", "keyboard", "device", "hole"}
    MaxSi = 2
    MaxEvents = 3
INVARIANT
    SkipsOnlyItself
CHECK_DEADLOCK FALSE
