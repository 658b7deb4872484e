SPECIFICATION Spec
CONSTANTS
    Queries <- MCQueries
    Index <- MCIndex
    Pushed <- MCPushed
    WalkLimit = 5
    Calls <- MCCalls
    Unreadable <- MCUnreadable
    Requests <- MCRequests
    AtOnce = 2
CHECK_DEADLOCK FALSE
INVARIANT
    ExactTotal
