CONSTANTS
    Requests    = {r1}
    Handlers    = {"amount"}
    Settlements = {0}
    Amounts     = {0, 50, 500}
    Contractors = {c1}
    Codes       = {0, 1, 2}
    ActiveCodes = {0, 2}
    FirstActive = 0
    Statuses    = {"Received"}
    Dates       <- NoDates
    Misread     <- Unread
    MaxRequests = 2
SPECIFICATION Spec
INVARIANTS
    AuthorizedWithinLimit
