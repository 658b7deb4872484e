\* The same job_id called again while the first call still runs.
SPECIFICATION Spec
CONSTANTS
    MaxRuns = 2
    long = long
    short = short
    Books = {long, short}
    asked = asked
    other = other
    Queries = {asked, other}
    Found <- MCFound
    MaxKey = 3
    PageSize = 1
    Concurrency = 2
    MaxVersion = 1
    None = None
    Torn = Torn
    Overlap = TRUE
INVARIANTS ResultsWhole
CHECK_DEADLOCK FALSE
