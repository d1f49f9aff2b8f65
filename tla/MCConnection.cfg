CONSTANTS
    Scripts <- MCScripts
    RequestLen = 2
    SendRoom = 1
    CtlMayFail = TRUE
SPECIFICATION Spec
INVARIANTS WakesUpForWork NoRequestStranded RepliesInOrder ClosesAfterLastReply
PROPERTIES EveryRequestAnswered GoneIsNoticed
CHECK_DEADLOCK FALSE
