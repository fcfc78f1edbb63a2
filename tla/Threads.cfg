\* Five combinations of modes; four samples, of which a call of dds_take returns one and
\* two fill the data reader, but not the pong reader; two signals; bursts of two samples every two ticks.
CONSTANTS
    Config <- MCConfig
    MaxTake <- MCMaxTake
    Limit <- MCLimit
    Peers = 1
    MaxArrivals = 4
    MaxSignals = 2
    BurstSize = 2
    Period = 2
    Limited = TRUE
    Slack = 1
    WriteTime = {0, 2}
    BlockingTime = 4
    NapTime = {1}
    MaxInterval = 3
    Quick = 0
    Slow = 2
    VerySlow = 3
    MaxTime = 8
    MaxWritten = 6
SPECIFICATION Spec
INVARIANTS TypeOK NothingUsedAfterDelete OwnSignalHarmless BlockingShows
PROPERTIES DataAllRead ProcessEnds
