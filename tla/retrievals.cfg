SPECIFICATION RSpec
CONSTANTS
    Customers = {c1}
    Tasks = {t1, t2}
    MaxRev = 1
    MaxPrice = 1
    MaxRecaptures = 1
    Timely = FALSE
    SerialClients = FALSE
    FaultKinds = {"post_lost", "cache_call_fails"}
    MaxFaults = 1
    Plans = {"customer_context", "compatible_offers"}
CHECK_DEADLOCK FALSE
INVARIANTS
    AnswersWhole
PROPERTIES
    ReadsAdvance
    FoundOnceAcked
