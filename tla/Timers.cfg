SPECIFICATION Spec
CONSTANTS
    Times = {1, 2, 6}
    Intervals = {2}
    MaxWait = 2
    IntSpan = 4
    MaxTime = 3
    MaxCalls = 3
INVARIANTS RepsPaired NoOversleep
PROPERTIES CancelledStaysSilent DueIsServed
CHECK_DEADLOCK FALSE
