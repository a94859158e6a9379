SPECIFICATION InventorySpec
CHECK_DEADLOCK FALSE
CONSTANTS
    h1 = h1
    MaxRows = 3
    ServiceId = {n1, n2}
    ScanJob = {j1}
    Handler = {r1, r2}
    Batch <- MCBatch
    Listening <- MCListening
    Nothing = Nothing
INVARIANTS ServicesUpserted
