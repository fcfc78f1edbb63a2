-------------------------------- MODULE Bcli --------------------------------
(***************************************************************************)
(* The publisher of bcli (utils/bcli/bcli_main.cpp) with its transport     *)
(* (adapters/adapter_cyclonedds.cpp) and its monitor (BcliMonitor): a loop *)
(* that writes numbered samples and now and then takes a snapshot, until a *)
(* signal arrives or the time is over.                                     *)
(*                                                                         *)
(* The signal handler clears g_running at any moment.  The rate and the    *)
(* size of the command line are never read: `rate` is always 0, so that    *)
(* the loop never sleeps.                                                  *)
(***************************************************************************)
EXTENDS BcliMonitor

CONSTANTS
    RunTime,        \* opts.run_time > 0
    Monitor,        \* opts.monitor
    Every           \* a snapshot is taken after each 100 samples

ASSUME PublisherAssumption ==
    /\ {RunTime, Monitor} \subseteq BOOLEAN
    /\ Every \in Nat \ {0}

VARIABLES
    cmd,            \* what parse_args makes of the command line
    pc,             \* where the main thread is
    g_running,
    expired,        \* external: run_time seconds have passed since the loop began
    writer_created, \* impl_ exists and its writer may be used
    seq,            \* number of the last sample, modulo Every
    status          \* exit status, or "none"

mainVars == <<cmd, pc, writer_created, seq, status>>
signalVars == <<g_running, expired>>
vars == <<procVars, monitorVars, mainVars, signalVars>>

TypeOK ==
    /\ MonitorTypeOK
    /\ cmd \in {"bad", "pub", "other"}
    /\ pc \in {"start", "topic", "writer", "test", "write", "sample", "snapshot", "clock", "end"}
    /\ {g_running, expired, writer_created} \subseteq BOOLEAN
    /\ seq \in 0 .. Every - 1
    /\ status \in {"none", "0", "1", "abort"}

Init ==
    /\ MonitorInit
    /\ cmd \in {"bad", "pub", "other"}
    /\ pc = "start" /\ g_running = TRUE /\ expired = FALSE
    /\ writer_created = FALSE /\ seq = 0 /\ status = "none"

Goes(from, to) == pc = from /\ pc' = to

----------------------------------------------------------------------------
(* main and run_publisher.                                                 *)

\* A bad command line ends with status 1; sub, ping and pong are not implemented.
Start ==
    /\ pc = "start"
    /\ IF cmd = "pub" THEN pc' = "topic" /\ UNCHANGED status
       ELSE pc' = "end" /\ status' = IF cmd = "bad" THEN "1" ELSE "0"
    /\ UNCHANGED <<procVars, monitorVars, signalVars, cmd, writer_created, seq>>

\* create_topic builds all entities; their constructors may throw, and nothing catches it.
CreateTopic ==
    /\ pc = "topic"
    /\ \/ pc' = "writer" /\ UNCHANGED status
       \/ pc' = "end" /\ status' = "abort"
    /\ UNCHANGED <<procVars, monitorVars, signalVars, cmd, writer_created, seq>>

\* create_writer, and the wait of half a second.
CreateWriter ==
    /\ Goes("writer", "test")
    /\ writer_created' = TRUE
    /\ UNCHANGED <<procVars, monitorVars, signalVars, cmd, seq, status>>

\* g_running.load (), once per round.
GoesOn == g_running

TestRunning ==
    /\ pc = "test"
    /\ IF GoesOn THEN pc' = "write" /\ UNCHANGED status ELSE pc' = "end" /\ status' = "0"
    /\ UNCHANGED <<procVars, monitorVars, signalVars, cmd, writer_created, seq>>

\* ++seq and write, whose result is ignored.
WriteSample ==
    /\ Goes("write", "sample")
    /\ seq' = (seq + 1) % Every
    /\ UNCHANGED <<procVars, monitorVars, signalVars, cmd, writer_created, status>>

\* monitor && seq % 100 == 0.
SnapshotDue == Monitor /\ seq = 0

StartSnapshot ==
    /\ pc = "sample"
    /\ IF SnapshotDue THEN pc' = "snapshot" /\ mpc' = "list" ELSE pc' = "clock" /\ UNCHANGED mpc
    /\ UNCHANGED <<procVars, tids, current, usage, prevVars, readVars, signalVars, cmd,
                   writer_created, seq, status>>

TakeSnapshot ==
    /\ pc = "snapshot"
    /\ Snapshot
    /\ pc' = IF mpc' = "idle" THEN "clock" ELSE pc
    /\ UNCHANGED <<signalVars, cmd, writer_created, seq, status>>

\* Mutant: the time is looked at only in the branch for a rate, which is never taken.
TimeIsUpRated == FALSE

TimeIsUp == RunTime /\ expired

CheckClock ==
    /\ pc = "clock"
    /\ IF TimeIsUp THEN pc' = "end" /\ status' = "0" ELSE pc' = "test" /\ UNCHANGED status
    /\ UNCHANGED <<procVars, monitorVars, signalVars, cmd, writer_created, seq>>

MainStep ==
    \/ Start \/ CreateTopic \/ CreateWriter
    \/ TestRunning \/ WriteSample \/ StartSnapshot \/ TakeSnapshot \/ CheckClock

----------------------------------------------------------------------------
(* The signal handler, the clock, the other threads.                       *)

Signal ==
    /\ pc \notin {"start", "end"}
    /\ g_running
    /\ g_running' = FALSE
    /\ UNCHANGED <<procVars, monitorVars, mainVars, expired>>

TimePasses ==
    /\ pc \in {"test", "write", "sample", "snapshot", "clock"}
    /\ ~expired
    /\ expired' = TRUE
    /\ UNCHANGED <<procVars, monitorVars, mainVars, g_running>>

\* Other threads exist once the entities of the DDS library do.
OtherThreads ==
    /\ pc \notin {"start", "topic", "end"}
    /\ Process
    /\ UNCHANGED <<mainVars, signalVars>>

Ended == pc = "end" /\ UNCHANGED vars

Next == MainStep \/ Signal \/ TimePasses \/ OtherThreads \/ Ended

\* The main thread runs (a write blocks for a bounded time only) and time passes.
Fairness == WF_vars(MainStep) /\ WF_vars(TimePasses)

Spec == Init /\ [][Next]_vars /\ Fairness

----------------------------------------------------------------------------
(* Properties.                                                             *)

\* A signal ends the program, and so does the time limit if there is one, also in the
\* middle of a snapshot and whatever the other threads do.
EndsWhenTold == (~g_running \/ (RunTime /\ expired)) ~> (status # "none")
=============================================================================
