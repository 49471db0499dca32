SPECIFICATION Spec
CONSTANTS
    Callers = {c1, c2}
    LoopThread = lt
    Tasks = {t1, t2, t3}
    TaskCapacity = 2
    PipeCapacity = 4
    ReadChunk = 2
    MaxCalls = 4
INVARIANTS NoLostWakeup OwedTasksRun
PROPERTIES ImplementsExecutor ExitReturns
CHECK_DEADLOCK FALSE
