\* Two ports, two masters, one of them reachable over both ports.
SPECIFICATION Spec
CONSTANTS
    N = 2
    ThisClock = 2
    SystemPr = 2
    NotGmCapable = 9
    MaxPath = 3
    MaxSteps = 255
    BmcsQuickUpdate = TRUE
    SendMayFail = FALSE
    Announces <- TwoPortAnnounces
INVARIANTS TypeOK OneSlave GmIsBest MineIsCurrent
PROPERTIES AnnounceIsOwn GmLostOnlyByPort TimeoutRepairs HandlerReturns
