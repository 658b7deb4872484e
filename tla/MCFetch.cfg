SPECIFICATION Spec
CONSTANTS
    Catalogues <- MCCatalogues
    PagesOf <- MCPagesOf
    Shaky <- MCShaky
    Documents <- MCDocuments
    Requests <- MCRequests
    Seeds <- MCSeeds
    Cap = 2
    MissCap = 6
    CallMax = 3
CHECK_DEADLOCK FALSE
INVARIANTS
    TypeOK
    WalkWhole
    BatchKept
