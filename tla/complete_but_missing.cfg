SPECIFICATION RSpec
CONSTANTS
    Customers = {c1}
    Tasks = {t1, t2}
    MaxRev = 1
    MaxPrice = 1
    MaxRecaptures = 0
    Timely = FALSE
    SerialClients = TRUE
    FaultKinds = {}
    MaxFaults = 0
    Plans = {"customer_context", "compatible_offers"}
CHECK_DEADLOCK FALSE
INVARIANTS
    CompleteIsWhole
