SPECIFICATION Spec
CONSTANTS
    Customers = {c1}
    Tasks = {t1, t2, t3}
    MaxRev = 2
    MaxPrice = 2
    MaxRecaptures = 1
    Timely = TRUE
    SerialClients = TRUE
    FaultKinds = {"post_lost", "catalogue_down"}
    MaxFaults = 1
CHECK_DEADLOCK FALSE
SYMMETRY Symmetry
INVARIANT ProfileKept
PROPERTY ProfileImplementsLastKnown
