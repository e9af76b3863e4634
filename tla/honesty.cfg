\* Edits against a sync that is retried and cancelled: what SYNCED and the text are worth.
SPECIFICATION HonestySpec
CONSTANTS
    o1 = o1
    i1 = i1
    i2 = i2
    t1 = t1
    t2 = t2
    d1 = d1
    d2 = d2
    Order = {o1}
    Item = {i1}
    OrderOf <- MCOrderOf
    Description = {t1, t2}
    DeliveryDate = {d1}
    None = None
    MaxEntries = 1
    MaxAttempts = 2
    SeedOrder <- StartedOrders
    SeedItem <- UpdatedItems
    SeedText <- FirstText
    OrderClients = {c1, c2}
    OrderOps = {"edit"}
    Edits <- FieldEdits
    SyncClients = {s1}
    SyncOps = {"enqueue", "cancel"}
    Workers = {w1}
    BatchSize = 1
    Faults = TRUE
SYMMETRY ClientsAndWorkers
INVARIANTS
    SyncedIsSent
    EditsAddUp
