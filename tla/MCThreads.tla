----------------------------- MODULE MCThreads ------------------------------
(***************************************************************************)
(* Threads for TLC.                                                        *)
(***************************************************************************)
EXTENDS Threads

Mode(pub, sub, pingpong, fed, asks) ==
    [pub |-> pub, sub |-> sub, pingpong |-> pingpong, fed |-> fed, asks |-> asks]

\* The publisher alone, each way to process data, pings and pongs on listeners and waitsets.
MCConfig ==
    {Mode(TRUE, "none", "listener", {}, {}),
     Mode(FALSE, "waitset", "listener", {"data"}, {}),
     Mode(FALSE, "polling", "listener", {"data"}, {}),
     Mode(FALSE, "listener", "listener", {"data"}, {"ping"}),
     Mode(FALSE, "none", "waitset", {"ping"}, {"ping"})}

\* A publisher whose samples are flagged as pings.
PongConfig == {Mode(TRUE, "none", "listener", {}, {"data"})}

MCMaxTake == [data |-> 1, ping |-> 1, pong |-> 1]

\* Fewer pongs arrive than rd_pong has room for.
MCLimit == [data |-> 2, pong |-> 5]

\* rd_pong gets full.
PongLimit == [data |-> 2, pong |-> 2]
=============================================================================
