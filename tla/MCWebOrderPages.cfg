CONSTANTS
    Requests = {r1, r2}
    Price = 144
    Plans = {12}
    Modes = {"scriptless", "single", "monthly"}
    Statuses = {2}
    MaxCustomers = 2
    MaxSubscriptions = 2
    MaxFaults = 1
SPECIFICATION OrderSpec
SYMMETRY Symmetry
INVARIANTS OrderTypeOK ThankedMeansRecorded NoOrphanWhenSerial OneAccountWhenSerial
PROPERTY ImplementsEnrolment
CHECK_DEADLOCK FALSE
