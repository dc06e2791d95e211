\* Two nodes with conflicting logs converge, while the third is cut off.
SPECIFICATION FairSpec
CONSTANTS
    s1 = s1
    s2 = s2
    s3 = s3
    Server = {s1, s2, s3}
    None = None
    Cmd = {c1}
    Noop = Noop
    PreVoteEnabled = TRUE
    LeaderStickiness = TRUE
    MaxBatch = 1
    StartDisks <- TailDisks
    Links <- PairLinks
    MaxTerm <- N400
    MaxLog = 4
    MaxInFlight <- N111
    MaxRestarts <- N000
INVARIANT ElectionsAreWarranted
PROPERTY Converges

