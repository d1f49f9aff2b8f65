CONSTANTS
    Peers = {p1, p2}
    Fds = {1, 2}
    OthersTakeFds = FALSE
    MayRunOut = TRUE
    None = None
SPECIFICATION Spec
INVARIANT PauseStopsRetrying
CHECK_DEADLOCK FALSE
