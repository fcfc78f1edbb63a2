---------------------------- MODULE BcliMonitor ----------------------------
(***************************************************************************)
(* The CPU monitor of bcli (utils/bcli/bcli_cputime.cpp): a snapshot lists *)
(* the threads of the process, reads the CPU time of each, and reports for *)
(* each the difference to the previous snapshot.                           *)
(*                                                                         *)
(* The threads of the DDS library come, work and go meanwhile, also        *)
(* between the listing and the reading.  The previous values are kept in   *)
(* an array that is searched by thread id and overwritten, entry by entry, *)
(* in the same loop.  Differences are not divided by the time passed, and  *)
(* user and system time are one.                                           *)
(***************************************************************************)
EXTENDS Integers, Sequences, FiniteSets, SequencesExt

CONSTANTS
    Tid,            \* thread ids; none is given out twice
    MainTid,        \* the thread that takes the snapshots
    MaxThreads,     \* BCLI_MAX_THREADS
    MaxTicks        \* bound: CPU time that each thread uses

ASSUME MonitorAssumption ==
    /\ IsFiniteSet(Tid) /\ MainTid \in Tid
    /\ MaxThreads \in Nat \ {0} /\ MaxTicks \in Nat

VARIABLES
    fresh,              \* external: thread ids not given out yet
    threads,            \* external: the threads of the process, in the order they started
    ticks,              \* external: the CPU time each thread has used
    mpc,                \* where snapshot is
    tids,               \* the listed threads whose CPU time has not been read
    current,            \* the local array of the listed threads and their CPU time
    prev_threads,       \* the array of the previous snapshot
    prev_thread_count,
    usage,              \* out.threads[]: the differences of the entries compared so far
    reading, earlier    \* history: the CPU time read by this and the previous snapshot

procVars == <<fresh, threads, ticks>>
prevVars == <<prev_threads, prev_thread_count>>
readVars == <<reading, earlier>>
snapVars == <<mpc, tids, current, usage>>
monitorVars == <<snapVars, prevVars, readVars>>

Stat == [tid : Tid, used : Nat]
NoStat == <<>>
Unread == -1

MonitorTypeOK ==
    /\ fresh \subseteq Tid /\ threads \in Seq(Tid) /\ ticks \in [Tid -> 0 .. MaxTicks]
    /\ mpc \in {"idle", "list", "read", "compare"}
    /\ tids \in Seq(Tid) /\ current \in Seq(Stat) /\ usage \in Seq(Int)
    /\ prev_threads \in [1 .. MaxThreads -> Stat \cup {NoStat}]
    /\ prev_thread_count \in 0 .. MaxThreads
    /\ {reading, earlier} \subseteq [Tid -> Nat \cup {Unread}]

MonitorInit ==
    /\ fresh = Tid \ {MainTid} /\ threads = <<MainTid>> /\ ticks = [t \in Tid |-> 0]
    /\ mpc = "idle" /\ tids = <<>> /\ current = <<>> /\ usage = <<>>
    /\ prev_threads = [j \in 1 .. MaxThreads |-> NoStat] /\ prev_thread_count = 0
    /\ reading = [t \in Tid |-> Unread] /\ earlier = [t \in Tid |-> Unread]

----------------------------------------------------------------------------
(* The threads of the process.                                             *)

ThreadStarts(t) ==
    /\ t \in fresh
    /\ fresh' = fresh \ {t}
    /\ threads' = Append(threads, t)
    /\ UNCHANGED <<ticks, monitorVars>>

ThreadWorks(t) ==
    /\ Contains(threads, t)
    /\ ticks[t] < MaxTicks
    /\ ticks' = [ticks EXCEPT ![t] = @ + 1]
    /\ UNCHANGED <<fresh, threads, monitorVars>>

ThreadExits(t) ==
    /\ t # MainTid
    /\ \E j \in DOMAIN threads : threads[j] = t /\ threads' = RemoveAt(threads, j)
    /\ UNCHANGED <<fresh, ticks, monitorVars>>

Process == \E t \in Tid : ThreadStarts(t) \/ ThreadWorks(t) \/ ThreadExits(t)

----------------------------------------------------------------------------
(* snapshot.                                                               *)

\* get_thread_tids: /proc/self/task lists the threads in the order they started; the
\* listing ends early when the thread it is at exits, or when the array is full.
Listed(n) == SubSeq(threads, 1, IF n < MaxThreads THEN n ELSE MaxThreads)

ListThreads ==
    /\ mpc = "list"
    /\ \E n \in 1 .. Len(threads) : tids' = Listed(n)
    /\ current' = <<>> /\ usage' = <<>>
    /\ mpc' = "read"
    /\ UNCHANGED <<procVars, prevVars, readVars>>

\* Mutant: the entry of a thread that has exited is left as it is.
TicksReadUnset(t) == IF Contains(threads, t) THEN ticks[t] ELSE Unread

\* read_thread_stat: 0 for a thread that has exited since it was listed.
TicksRead(t) == IF Contains(threads, t) THEN ticks[t] ELSE 0

ReadThread ==
    LET t == Head(tids)
    IN  /\ mpc = "read"
        /\ tids # <<>>
        /\ tids' = Tail(tids)
        /\ current' = Append(current, [tid |-> t, used |-> TicksRead(t)])
        /\ reading' = [reading EXCEPT ![t] = IF Contains(threads, t) THEN ticks[t] ELSE Unread]
        /\ UNCHANGED <<procVars, mpc, usage, prevVars, earlier>>

AllRead ==
    /\ mpc = "read"
    /\ tids = <<>>
    /\ mpc' = "compare"
    /\ UNCHANGED <<procVars, tids, current, usage, prevVars, readVars>>

\* Mutant: the previous entry is the one at the same index.
PreviousAtIndex(t) == {Len(usage) + 1} \cap 1 .. prev_thread_count

\* The entries of the previous snapshot for t; those at lower indices than the current
\* entry are already overwritten.
Previous(t) == {j \in 1 .. prev_thread_count : prev_threads[j].tid = t}

Difference(c) ==
    IF Previous(c.tid) = {} THEN 0
    ELSE c.used - prev_threads[CHOOSE j \in Previous(c.tid) : \A h \in Previous(c.tid) : j <= h].used

\* One round of the loop: report the difference, then keep the value for the next snapshot.
CompareThread ==
    LET k == Len(usage) + 1
    IN  /\ mpc = "compare"
        /\ k <= Len(current)
        /\ usage' = Append(usage, Difference(current[k]))
        /\ prev_threads' = [prev_threads EXCEPT ![k] = current[k]]
        /\ UNCHANGED <<procVars, mpc, tids, current, prev_thread_count, readVars>>

\* The snapshot is returned; the caller prints it.
Compared ==
    /\ mpc = "compare"
    /\ Len(usage) = Len(current)
    /\ prev_thread_count' = Len(current)
    /\ earlier' = reading
    /\ reading' = [t \in Tid |-> Unread]
    /\ current' = <<>> /\ usage' = <<>>
    /\ mpc' = "idle"
    /\ UNCHANGED <<procVars, tids, prev_threads>>

Snapshot == ListThreads \/ ReadThread \/ AllRead \/ CompareThread \/ Compared

----------------------------------------------------------------------------
(* Properties.                                                             *)

\* What is reported for a thread is the CPU time it used between the two readings of its
\* own clock, however the threads move in the array that is overwritten in place; for a
\* thread without two readings, new or exited, nothing positive is reported.
UsageExact ==
    \A j \in DOMAIN usage :
        LET t == current[j].tid
        IN  IF reading[t] # Unread /\ earlier[t] # Unread
            THEN usage[j] = reading[t] - earlier[t]
            ELSE usage[j] <= 0
=============================================================================
