\* The process, and walks over the orders while they change.
SPECIFICATION ServerSpec
CONSTANTS
    None = None
    Missing = Missing
    MaxOrders = 3
    Width = 4
    DefaultLimit = 2
    MaxLimit = 2
    Listers = {l1}
    Pages = {0, 3, 7}
    Limits = {Missing, 1, 7}
    Filters = {Missing, "OPEN"}
    Tokens <- MCTokens
CHECK_DEADLOCK FALSE
INVARIANTS
    WalkComplete
    TotalsHold
    AudienceIsKnown
    CreatedByWriter
