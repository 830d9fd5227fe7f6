SPECIFICATION Spec
CONSTANTS
    Customers = {c1}
    Tasks = {t1, t2}
    MaxRev = 2
    MaxPrice = 1
    MaxRecaptures = 0
    Timely = TRUE
    SerialClients = TRUE
    FaultKinds = {}
    MaxFaults = 0
CHECK_DEADLOCK FALSE
INVARIANT CommercialStateKept
