CONSTANTS
    Claims = {1, 2}
    Known = 1
    MaxNew = 1
    MaxRequests = 4
    MaxInFlight = 1
    MaxFaults = 1
SPECIFICATION FairSpec
INVARIANTS TypeOK EnabledMeansSelected QuietTableShowsAssignments
PROPERTIES RequestsRunOut AssignSettles AssignEnds
CHECK_DEADLOCK FALSE
