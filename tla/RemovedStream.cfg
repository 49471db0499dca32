SPECIFICATION SafeSpec
CONSTANTS
    s1 = s1
    s2 = s2
    mon = mon
    tue = tue
    first = first
    last = last
    Streams <- TwoStreams
    Days <- TwoDays
    Hours <- TwoHours
    Clock <- Midnight
    Plans <- TwoPlans
    MaxSes = 2
    MaxFd = 2
    MaxStoreConn = 2
    PortBase = 1
    PortInterval = 2
    PortSpace = 4
PROPERTY RemovedStreamsStop
CHECK_DEADLOCK FALSE
