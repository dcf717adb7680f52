CONSTANTS
    Requests = {r1}
    Price = 144
    Plans = {1, 12}
    Modes = {"single", "monthly"}
    Statuses = {4}
    MaxCustomers = 1
    MaxSubscriptions = 1
    MaxFaults = 0
SPECIFICATION OrderSpec
INVARIANT ChargedAsShown
CHECK_DEADLOCK FALSE
