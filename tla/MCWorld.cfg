SPECIFICATION Spec
VIEW Ranked
CONSTANTS
    s1 = s1
    s2 = s2
    s3 = s3
    s4 = s4
    k1 = k1
    Unset = Unset
    Settings <- AllSettings
INVARIANTS
    QueueMatchesServers
    NobodyIsForgotten
    QuietTail
    RunEndsHealed
