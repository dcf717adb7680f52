CONSTANTS
    Requests = {r1}
    Price = 144
    Plans = {12}
    Modes = {"monthly"}
    Statuses = {2}
    MaxCustomers = 2
    MaxSubscriptions = 1
    MaxFaults = 1
    EmailKnown = TRUE
    MaxLedger = 2
    MaxNotes = 1
SPECIFICATION Spec
INVARIANTS TypeOK ApprovedMatchesGateway BilledIsOnTheBooks
PROPERTY PaymentsReachOwner
CHECK_DEADLOCK FALSE
