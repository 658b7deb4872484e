SPECIFICATION Spec
CONSTANTS
    hanafi = hanafi
    shafii = shafii
    comparative = comparative
    fiqh = fiqh
    of_hanafi = of_hanafi
    of_shafii = of_shafii
    of_both = of_both
    NoCategory = NoCategory
    Unreadable = Unreadable
    Core <- MCCore
    Rules <- MCRules
    Parts <- MCParts
    Editions <- MCEditions
    Matching <- MCMatching
    Filters <- MCFilters
    Requests <- MCRequests
INVARIANTS
    EvidenceShown
