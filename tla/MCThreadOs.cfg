SPECIFICATION Spec
CONSTANTS
    NCpu = 2
    NrTask = 3
INVARIANTS
    ThreadTypeOK
    StackExclusive
    MutualExclusion
    EntryNeverReturns
PROPERTIES
    ImplementsLockedTasks
    LockReleased
    EveryTaskRuns
