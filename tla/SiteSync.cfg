\* Two ports and the clock master; the intervals 2 and 3 are the same as that
\* of the clock master and longer; a Sync is lost after three of them.
SPECIFICATION Spec
CONSTANTS
    Ports = {1, 2}
    Intervals = {2, 3}
    ClockInterval = 2
    SyncReceiptTimeout = 3
    MaxTime = 10
    MaxSync = 3
    MaxChange = 2
CHECK_DEADLOCK FALSE
INVARIANTS NoEcho NothingExpired LossIsBridged
