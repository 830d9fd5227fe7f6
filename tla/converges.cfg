SPECIFICATION RFairSpec
CONSTANTS
    Customers = {c1}
    Tasks = {t1, t2, t3}
    MaxRev = 1
    MaxPrice = 2
    MaxRecaptures = 0
    Timely = FALSE
    SerialClients = FALSE
    FaultKinds = {"post_lost", "post_timeout", "cache_call_fails", "cdc_restart"}
    MaxFaults = 1
    Plans = {}
CHECK_DEADLOCK FALSE
PROPERTIES
    StartupConvergesUndisturbed
    JoinsEnd
    TasksEnd
