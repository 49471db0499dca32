\* Three threads and a client; a list of two, so that a task is refused.
CONSTANTS
    N = 3
    Clients = {c}
    Tasks = {t1, t2, t3}
    Capacity = 2
SPECIFICATION Spec
INVARIANTS NoLostNotification AtMostOneLate
PROPERTIES ImplementsExecutor ExitJoins
CHECK_DEADLOCK FALSE
