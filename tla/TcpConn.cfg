SPECIFICATION Spec
CONSTANTS
    MaxAttempts = 2
    MaxCloses = 1
    MaxSends = 1
INVARIANTS EventsLeadToChannel TimeoutIsOwn NeverStranded OutputIsWatched
PROPERTIES LostIsRetried HandshakeEnds
CHECK_DEADLOCK FALSE
