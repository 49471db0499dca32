SPECIFICATION Spec
CONSTANTS
    N = 2
    Conns = {c1, c2, c3}
    Idles = {2}
INVARIANT NodesHeld
PROPERTIES TickFindsIdle SilentIsClosed
