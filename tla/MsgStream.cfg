SPECIFICATION Spec
CONSTANTS
    Exp = 8
    HeadLen = 2
    Bodies = {0, 2, 3}
    Replies = {5}
    MaxBody = 2
    MaxMsgs = 2
    MaxOut = 8
    MaxConns = 2
INVARIANTS InputKept OutputKept WholeMessages NoneLeft
CHECK_DEADLOCK FALSE
