\* Three calls for one job, killed anywhere, with failing books and a moving index.
SPECIFICATION FairSpec
CONSTANTS
    MaxRuns = 3
    long = long
    short = short
    Books = {long, short}
    asked = asked
    other = other
    Queries = {asked, other}
    Found <- MCFound
    MaxKey = 3
    PageSize = 1
    Concurrency = 2
    MaxVersion = 2
    None = None
    Torn = Torn
    Overlap = FALSE
INVARIANTS TypeOK ShardsWhole ResultsHonest ResultsUnmixed
PROPERTIES CheckpointGrows RunEnds
CHECK_DEADLOCK FALSE
