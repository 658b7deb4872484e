\* Three tool calls, every failure, resets, both kinds of idle time.
SPECIFICATION FairSpec
CONSTANTS
    Calls = {c1, c2, c3}
    NoEngine = NoEngine
    IdleTimes = {"zero", "positive"}
    Failures = TRUE
    Resets = TRUE
    Leaks = TRUE
INVARIANTS TypeOK CacheTended HoldersExact
PROPERTIES SparesUnlessStale AcquireSettles IdleShutdown
CHECK_DEADLOCK FALSE
