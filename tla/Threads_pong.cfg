\* Three pongs arrive, two fill rd_pong.  The process may stop for ever in dds_delete.
CONSTANTS
    Config <- PongConfig
    MaxTake <- MCMaxTake
    Limit <- PongLimit
    Peers = 1
    MaxArrivals = 3
    MaxSignals = 0
    BurstSize = 2
    Period = 2
    Limited = TRUE
    Slack = 1
    WriteTime = {0, 2}
    BlockingTime = 4
    NapTime = {1}
    MaxInterval = 3
    Quick = 0
    Slow = 2
    VerySlow = 3
    MaxTime = 8
    MaxWritten = 6
SPECIFICATION Spec
PROPERTIES ProcessEnds
CHECK_DEADLOCK FALSE
