CONSTANTS
    s1 = s1
    s2 = s2
    Session = {s1, s2}
    NoSession = NoSession
    Permits = 1
    AudioCap = 1
    MaxChunks <- MCMaxChunks
    MaxFinals <- MCMaxFinals
SPECIFICATION Spec
INVARIANTS AudioInOrder IdleTimerIsLive LeasesExact
PROPERTIES OneTurnAtATime NobodyLeftWaiting
CHECK_DEADLOCK FALSE
