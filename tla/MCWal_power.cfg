SPECIFICATION Spec
CONSTANTS
    Candidate = {a}
    None = None
    LeaderLog <- Leaders
    StartFile <- File
    Devices <- AllButTearing
    MaxTerm = 4
INVARIANT NoSplice
PROPERTIES
    HardStateSurvives
    ClaimSurvives
\* The bounds on terms and crashes stop the node.
CHECK_DEADLOCK FALSE
