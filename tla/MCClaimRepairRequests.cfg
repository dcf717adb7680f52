CONSTANTS
    Requests    = {r1, r2}
    Handlers    = {"form", "release", "amount", "blank_amount", "assign", "status_code", "invoice_status", "async_receive", "receive", "clear_receive", "toggle_status", "toggle_authorization", "complete", "unassign"}
    Settlements = {0, 10}
    Amounts     = {0, 50}
    Contractors = {c1}
    Codes       = {0, 1, 2}
    ActiveCodes = {0, 2}
    FirstActive = 0
    Statuses    = {"Received", "Paid"}
    Dates       <- ThreeDates
    Misread     <- Swapped
    MaxRequests = 3
SPECIFICATION Spec
SYMMETRY Symmetry
INVARIANTS
    TypeOK OneSettlement FormTakesEffect
PROPERTY
    ZeroIsNeverAuthorizedAfresh
