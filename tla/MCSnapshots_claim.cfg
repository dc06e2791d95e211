\* A snapshot that resets the log arrives while two batches are in flight.
SPECIFICATION Spec
CONSTANT Settings <- OnlyAmongBatches
PROPERTY ClaimSurvives
CHECK_DEADLOCK FALSE
