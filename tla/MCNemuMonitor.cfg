SPECIFICATION Spec
CONSTANTS
    KeyQueueLen = 3
    AmKey = {"A", "B"}
    NoKey = "none"
    Verdict = {TRUE, FALSE}
    Examinable = {"pmem", "hole"}
    MaxSi = 2
    MaxEvents = 3
INVARIANTS
    MonitorTypeOK
    QuitRunsOneMore
    BatchSuccess
    SkipsOnlyItself
    KeysInOrder
PROPERTIES
    VerdictStands
    BatchQuits
CHECK_DEADLOCK FALSE
