\* No deadlock check: the bounds on batches, snapshots and crashes end the run.
SPECIFICATION Spec
CONSTANT Settings <- Both
INVARIANTS
    CommitIsInTheLog
    CompactedIsCovered
    ClaimCatchesUp
PROPERTY ClaimSurvives
CHECK_DEADLOCK FALSE
