\* The main thread and two others; an array of three entries; snapshots after every second
\* sample.
CONSTANTS
    Tid = {main, t1, t2}
    MainTid = main
    MaxThreads = 3
    MaxTicks = 1
    RunTime = TRUE
    Monitor = TRUE
    Every = 2
SPECIFICATION Spec
INVARIANTS TypeOK UsageExact
PROPERTIES EndsWhenTold
