\* Two clients on the order and its items, a sync client and a worker.
SPECIFICATION OverlapSpec
CONSTANTS
    o1 = o1
    i1 = i1
    i2 = i2
    t1 = t1
    t2 = t2
    d1 = d1
    d2 = d2
    Order = {o1}
    Item = {i1, i2}
    OrderOf <- MCOrderOf
    Description = {t1}
    DeliveryDate = {d1}
    None = None
    MaxEntries = 1
    MaxAttempts = 2
    SeedOrder <- EmptyOrders
    SeedItem <- EmptyItems
    SeedText <- FirstText
    OrderClients = {c1, c2}
    OrderOps = {"create", "status", "add", "edit"}
    Edits <- WholeEdits
    SyncClients = {s1}
    SyncOps = {"enqueue", "status"}
    Workers = {w1}
    BatchSize = 1
    Faults = TRUE
SYMMETRY ClientsAndWorkers
INVARIANTS
    TypeOK
    NonOpenOrderHasItems
    PendingItemUntouched
    TerminalItemHasEvidence
    FinishedStatusHasLog
    ClosedOrderSettled
    OpenOrderIsEmpty
PROPERTY LegalOrderSteps
