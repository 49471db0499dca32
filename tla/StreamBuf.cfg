SPECIFICATION BufSpec
CONSTANTS
    BufSize = 12
    LoWater = 4
    PacketSize = 5
    LenSpace = 8
    Word = 32
INVARIANTS ReadsBack SmallFits
CHECK_DEADLOCK FALSE
