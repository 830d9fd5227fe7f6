SPECIFICATION JSpec
CONSTANTS
    c1 = c1
    c2 = c2
    Customers = {c1, c2}
    Serial = {}
    Tasks = {t1, t2, t3}
    Skus <- MCSkus
    Graph <- MCGraph
    ListPrices <- MCListPrices
    Seed <- MCSeed
    NewPrices <- MCNewPrices
    Terms = {}
    Requests <- MCRequests
    Clients = {"purchase-agent", "catalogue-admin", "system-admin"}
    MaxIntents = 0
    AuditMax = 2
    Catalogue <- MCCatalogue
    TermsOf <- MCTermsOf
    Scenarios = {{"purchase"}}
    ScriptClients = {"purchase-agent", "catalogue-admin"}
    Buyer = c1
    PricedSku = "TV"
    PricedAt = 3999
    FaultKinds = {}
    MaxFaults = 0
CHECK_DEADLOCK FALSE
INVARIANTS
    ChargesRestored
