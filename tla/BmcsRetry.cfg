\* One port, transmissions that fail, paths at the limit, a degrading master.
SPECIFICATION Spec
CONSTANTS
    N = 1
    ThisClock = 2
    SystemPr = 2
    NotGmCapable = 9
    MaxPath = 3
    MaxSteps = 255
    BmcsQuickUpdate = FALSE
    SendMayFail = TRUE
    Announces <- OnePortAnnounces
INVARIANTS PathTraceSound
PROPERTIES SendsOnlyCapable
