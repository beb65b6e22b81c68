\* A report is submitted while the device is being stopped.
SPECIFICATION Spec
CONSTANTS
    p1 = p1 p2 = p2 s1 = s1 s2 = s2 e1 = e1 n1 = n1
    Pollers = {}
    Submitters = {s1}
    Ready = {n1}
    Other = {}
    EventSize <- Sizes
    NoEvent = NoEvent
    QuietStop = FALSE
    Faults = FALSE
PROPERTIES StartAndStopReturn
\* The state in which everything has stopped is the one the property is about.
CHECK_DEADLOCK FALSE
