CONSTANTS
    Kinds = {"properties", "notes", "claims", "cards"}
    Values = {"a", "b"}
    Refused = {"b"}
    MaxRecords = 2
    MaxRequests = 3
    MaxInFlight = 1
    MaxFaults = 1
SPECIFICATION Spec
INVARIANTS TypeOK SaveTargetsOpened RowsWereServed BusyMeansWaiting QuietTableIsFresh
CHECK_DEADLOCK FALSE
