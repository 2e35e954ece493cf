SPECIFICATION Spec
CONSTANTS
    PesSizes = {1, 16}
    PtsValues = {1, 2}
    Flags = {TRUE, FALSE}
    Headers = {TRUE, FALSE}
    MaxBurst = 14
    MaxFaults = 2
    MaxPes = 3
INVARIANTS
    BuilderTypeOK
    DeliveredWhole
PROPERTIES
    WholePesIsDelivered
CHECK_DEADLOCK FALSE
