CONSTANTS
    Kinds = {"properties"}
    Values = {"a", "b"}
    Refused = {}
    MaxRecords = 2
    MaxRequests = 3
    MaxInFlight = 1
    MaxFaults = 1
SPECIFICATION Spec
INVARIANT NoRecordTwice
CHECK_DEADLOCK FALSE
