SPECIFICATION SSpec
CONSTANTS
    c1 = c1
    c2 = c2
    Customers = {c1, c2}
    Serial = {c1}
    Tasks = {t1, t2}
    Skus <- MCSkus
    Graph <- MCGraph
    ListPrices <- MCListPrices
    Seed <- MCSeed
    NewPrices <- MCNewPrices
    Terms = {24}
    Requests <- MCRequests
    Clients = {"purchase-agent", "catalogue-admin"}
    MaxIntents = 3
    AuditMax = 1
    FaultKinds = {"opa_down", "catalogue_down", "cdc_down", "broker_timeout"}
    MaxFaults = 1
SYMMETRY TaskSymmetry
CHECK_DEADLOCK FALSE
INVARIANTS
TypeOK
OneLinePerSku
AuditTruthful
OnlyPermittedWrites
PROPERTIES
WritesAudited
AdditionsValid
SerialChangesKept
ChargesFollowPolicies
