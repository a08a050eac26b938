\* Two ports, two better clocks.
SPECIFICATION Spec
CONSTANTS
    N = 2
    ThisClock = 3
    Clocks <- ThreeClocks
    QuickSync = TRUE
INVARIANTS GmIsSynced ChangeNotForgotten
PROPERTIES TimeoutSettles
