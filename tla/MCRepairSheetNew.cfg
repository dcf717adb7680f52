CONSTANTS
    Claims = {1, 2}
    Known = 1
    MaxNew = 1
    MaxRequests = 4
    MaxInFlight = 1
    MaxFaults = 1
SPECIFICATION Spec
INVARIANT AssignedToThisClaim
CHECK_DEADLOCK FALSE
