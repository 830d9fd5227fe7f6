SPECIFICATION SSpec
CONSTANTS
    c1 = c1
    c2 = c2
    Customers = {c1, c2}
    Serial = {}
    Tasks = {t1, t2}
    Skus <- MCSkus
    Graph <- MCGraph
    ListPrices <- MCListPrices
    Seed <- MCSeed
    NewPrices <- MCNewPrices
    Terms = {24}
    Requests <- MCRequests
    Clients = {"purchase-agent", "catalogue-admin"}
    MaxIntents = 2
    AuditMax = 1
    FaultKinds = {}
    MaxFaults = 0
CHECK_DEADLOCK FALSE
PROPERTIES
CancellationsKept
