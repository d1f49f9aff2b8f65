CONSTANTS
    Peers = {p1, p2, p3}
    Fds = {1, 2}
    OthersTakeFds = TRUE
    MayRunOut = TRUE
    None = None
SPECIFICATION Spec
INVARIANTS NoDanglingEvent RegistriesExact NoAcceptSpin
PROPERTIES BacklogServed StopStops
CHECK_DEADLOCK FALSE
