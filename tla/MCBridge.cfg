\* Three requests and a close, every failure, pipes and events in any order.
SPECIFICATION BridgeFairSpec
CONSTANTS
    Requests = {1, 2, 3}
    Closes = {k1}
    NoProc = NoProc
    NoLine = NoLine
    Junk = Junk
    Timeouts = TRUE
    Deaths = TRUE
    TornLines = TRUE
    SlowStart = FALSE
INVARIANTS BridgeTypeOK NobodyLeftBehind 
PROPERTIES ExitFailsItsOwnUnclosed SettlesUnlessTorn PromisesKept
CHECK_DEADLOCK FALSE
