\* A crash tears writes, with two batches in flight: the newer hard-state write
\* goes to the slot that is still the only confirmed one.
SPECIFICATION Spec
CONSTANTS
    Candidate = {a}
    None = None
    LeaderLog <- Leaders
    StartFile <- File
    Devices <- OnlyTearing
    MaxTerm = 4
PROPERTIES
    HardStateSurvives
\* The bounds on terms and crashes stop the node.
CHECK_DEADLOCK FALSE
