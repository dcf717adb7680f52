CONSTANTS
    Requests = {r1, r2, r3}
    Amounts = {0, 1, 2}
    MinBilling = 1
    LocalDates = {"today", "other"}
SPECIFICATION Spec
CONSTRAINT OneSale
SYMMETRY Symmetry
INVARIANTS
    TypeOK
    NoteTellsTruth
    CaptureIsRecorded
    RefundNeverOverstated
    RefundExactWhenSerial
    CancelledMeansDeleted
    DeletedMeansCancelled
    OnlyTodayIsStopped
PROPERTIES
    ImplementsBooks
