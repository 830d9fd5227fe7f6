SPECIFICATION JFairSpec
CONSTANTS
    c1 = c1
    c2 = c2
    Customers = {c1, c2}
    Serial = {}
    Tasks = {t1, t2, t3}
    Skus <- MCSkus
    Graph <- MCGraph
    ListPrices <- MCListPrices
    Seed <- MCSeed
    NewPrices <- MCNewPrices
    Terms = {}
    Requests <- MCRequests
    Clients = {"purchase-agent", "catalogue-admin", "system-admin"}
    MaxIntents = 0
    AuditMax = 2
    Catalogue <- MCCatalogue
    TermsOf <- MCTermsOf
    Scenarios = {{"purchase"}, {"pricing"}}
    ScriptClients = {"purchase-agent", "catalogue-admin"}
    Buyer = c1
    PricedSku = "TV"
    PricedAt = 3999
    FaultKinds = {"opa_down", "catalogue_down", "cdc_down", "broker_timeout", "client_timeout", "acg_down"}
    MaxFaults = 2
CHECK_DEADLOCK FALSE
INVARIANTS
    JTypeOK
PROPERTIES
    IntentsEnd
    JourneysEnd
