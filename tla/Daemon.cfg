SPECIFICATION Spec
CONSTANTS
    Pids = {p1, p2}
    Operators = {o1, o2}
    Tries = 1
INVARIANTS OneDaemon FileNamesDaemon
PROPERTIES StopIsHonest CommandsEnd
