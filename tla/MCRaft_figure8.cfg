\* Two leaders that cannot see one another overwrite a third node in turn.
SPECIFICATION Spec
CONSTANTS
    s1 = s1
    s2 = s2
    s3 = s3
    Server = {s1, s2, s3}
    None = None
    Cmd = {}
    Noop = Noop
    PreVoteEnabled = FALSE
    LeaderStickiness = FALSE
    MaxBatch = 1
    StartDisks <- RivalDisks
    Links <- BridgeLinks
    MaxTerm <- N450
    MaxLog = 2
    MaxInFlight <- N111
    MaxRestarts <- N000
INVARIANTS
    TypeOK
    ElectionSafety
    LogMatching
    LeaderCompleteness
PROPERTIES
    NoCommittedTruncation
    ImplementsAgreedLog
