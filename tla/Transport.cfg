SPECIFICATION Spec
CONSTANTS
    MaxRetries = 1
    Length = 2
    Page = Page
    MaxChanges = 1
    MaxCalls = 3
CHECK_DEADLOCK FALSE
INVARIANTS
    FetchIsRight
    OnDiskIsPrefix
