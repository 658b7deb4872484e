\* Two first calls at once.
SPECIFICATION Spec
CONSTANTS
    Calls = {c1, c2}
    NoEngine = NoEngine
    IdleTimes = {"positive"}
    Failures = FALSE
    Resets = FALSE
    Leaks = FALSE

INVARIANTS NoOrphanHelper
CHECK_DEADLOCK FALSE
