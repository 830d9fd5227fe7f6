SPECIFICATION Spec
CONSTANTS
    Customers = {c1, c2}
    Tasks = {t1, t2}
    MaxRev = 1
    MaxPrice = 1
    MaxRecaptures = 0
    Timely = FALSE
    SerialClients = FALSE
    FaultKinds = {"post_lost", "cache_call_fails", "cache_reply_lost", "catalogue_down", "cache_restart", "cdc_restart"}
    MaxFaults = 1
CHECK_DEADLOCK FALSE
SYMMETRY Symmetry
INVARIANTS
TypeOK
PendingIsPartial
AssemblyHasOneOwner
DeclaredBodies
TiersAgree
PROPERTY
VersionAdvances
