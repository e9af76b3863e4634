\* Every entry comes to an end; the transactions behave as one step each.
SPECIFICATION TxFairSpec
CONSTANTS
    o1 = o1
    i1 = i1
    i2 = i2
    t1 = t1
    t2 = t2
    d1 = d1
    d2 = d2
    Order = {o1}
    Item = {i1}
    OrderOf <- MCOrderOf
    Description = {t1}
    DeliveryDate = {d1}
    None = None
    MaxEntries = 2
    MaxAttempts = 2
    SeedOrder <- StartedOrders
    SeedItem <- UpdatedItems
    SeedText <- FirstText
    OrderClients = {}
    OrderOps = {}
    Edits <- WholeEdits
    SyncClients = {s1, s2}
    SyncOps = {"enqueue", "cancel"}
    Workers = {w1}
    BatchSize = 1
    Faults = TRUE
INVARIANTS
    TxTypeOK
    NoWaitCycle
    RefusedWasTaken
PROPERTIES
    ImplementsBackend
    EventuallySettled
