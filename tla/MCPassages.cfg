\* All texts and tables of contents of a few pieces.
SPECIFICATION Spec
CONSTANTS
    Pieces = 3
    Radius = 2
    Files <- MCFiles
    Cases <- MCCases
CHECK_DEADLOCK FALSE
INVARIANTS
    TypeOK
    PathByRule
    FormsAgree
    QuoteWhole
