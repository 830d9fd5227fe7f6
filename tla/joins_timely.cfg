SPECIFICATION Spec
CONSTANTS
    Customers = {c1}
    Tasks = {t1, t2, t3}
    MaxRev = 2
    MaxPrice = 1
    MaxRecaptures = 0
    Timely = TRUE
    SerialClients = FALSE
    FaultKinds = {"post_lost", "post_timeout", "cache_reply_lost", "catalogue_down"}
    MaxFaults = 1
CHECK_DEADLOCK FALSE
SYMMETRY Symmetry
INVARIANTS
RecordsComplete
AckedDomainsHeld
