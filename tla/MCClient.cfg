\* The client submits nothing once it stops the device; every call may fail.
SPECIFICATION Spec
CONSTANTS
    p1 = p1 p2 = p2 s1 = s1 s2 = s2 e1 = e1 n1 = n1
    Pollers = {p1, p2}
    Submitters = {s1, s2}
    Ready = {n1}
    Other = {e1}
    EventSize <- Sizes
    NoEvent = NoEvent
    QuietStop = TRUE
    Faults = TRUE
INVARIANTS TypeOK SignalMeansPending EventInOneHand StopLeavesNoWaiter
PROPERTIES HintOnlyGrows HandOversArePaced StartAndStopReturn StopEndsPolls PendingIsHandedOver
