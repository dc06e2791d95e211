\* No deadlock check: the bounds on terms, entries and reads end the run.
SPECIFICATION ReadSpec
SYMMETRY Alike
CONSTANTS
    s1 = s1
    s2 = s2
    s3 = s3
    s4 = s4
    Nobody = Nobody
    Settings <- AllSettings
INVARIANTS
    OneLeaderPerTerm
    CommitsAgree
    ReadsAreFresh
    DeposedAnswerNothing
CHECK_DEADLOCK FALSE
