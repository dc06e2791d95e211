\* A majority commits while the third node, whose log is stale, catches up; the
\* leader and its follower may crash.  No deadlock check: the bounds end the run.
SPECIFICATION Spec
CONSTANTS
    s1 = s1
    s2 = s2
    s3 = s3
    Server = {s1, s2, s3}
    None = None
    Cmd = {}
    Noop = Noop
    PreVoteEnabled = FALSE
    LeaderStickiness = FALSE
    MaxBatch = 1
    StartDisks <- MajorityDisks
    Links <- StarLinks
    MaxTerm <- N300
    MaxLog = 3
    MaxInFlight <- N121
    MaxRestarts <- N101
INVARIANTS
    VotesAreDurable
    TermsAreDurable
    DurableClaimIsTrue
    AcksAreBacked
    CommittedIsDurable
    StateMachineSafety
CHECK_DEADLOCK FALSE
