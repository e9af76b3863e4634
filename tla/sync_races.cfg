\* Two clients, two workers and every fault around the outbox of one item.
SPECIFICATION OverlapSpec
CONSTANTS
    o1 = o1
    i1 = i1
    i2 = i2
    t1 = t1
    t2 = t2
    d1 = d1
    d2 = d2
    Order = {o1}
    Item = {i1}
    OrderOf <- MCOrderOf
    Description = {t1}
    DeliveryDate = {d1}
    None = None
    MaxEntries = 3
    MaxAttempts = 2
    SeedOrder <- StartedOrders
    SeedItem <- UpdatedItems
    SeedText <- FirstText
    OrderClients = {}
    OrderOps = {}
    Edits <- WholeEdits
    SyncClients = {c1, c2}
    SyncOps = {"enqueue", "cancel"}
    Workers = {w1, w2}
    BatchSize = 2
    Faults = TRUE
SYMMETRY ClientsAndWorkers
INVARIANTS
    PendingIsClaimable
    ClaimExclusive
    AuditComplete
    CallsWithinAttempts
    OneActiveUnlessRaced
PROPERTIES
    TerminalEntriesFinal
    NoSilentReset
    ImplementsContract
    DeliveriesInOrder
