----------------------------- MODULE PubThread ------------------------------
(***************************************************************************)
(* The publishing thread of ddsperf (pubthread in docs/ref/ddsperf.c): it  *)
(* writes samples until termflag is set, tries again when a write times    *)
(* out, reads the clock only now and then, records how long the writes     *)
(* take, and after each burst sleeps until the average rate is not above   *)
(* the one that was asked for.                                             *)
(*                                                                         *)
(* The numbering of the samples is in SeqTracking.  Threads composes this  *)
(* thread with the others.                                                 *)
(***************************************************************************)
EXTENDS Integers

CONSTANTS
    BurstSize,      \* burstsize
    Period,         \* time per burst, the inverse of pub_rate
    Limited,        \* pub_rate < HUGE_VAL
    Slack,          \* the 5 ms that the rate control adds to the time that has passed
    WriteTime,      \* how long a call of dds_write_ts may take
    BlockingTime,   \* how long one takes that times out
    NapTime,        \* how long a sleep of 1 ms may take
    MaxInterval,    \* the clock is read at least every MaxInterval-th sample: 10
    Quick, Slow, VerySlow,  \* 1, 5 and 10 us
    MaxTime,        \* bound: no write and no sleep starts later
    MaxWritten      \* bound: samples

ASSUME PubAssumption ==
    /\ {BurstSize, Period, MaxInterval} \subseteq Nat \ {0}
    /\ {Slack, BlockingTime, Quick, Slow, VerySlow, MaxTime, MaxWritten} \subseteq Nat
    /\ Quick < Slow /\ Slow < VerySlow
    /\ WriteTime \subseteq 0 .. BlockingTime - 1 /\ NapTime \subseteq Nat \ {0}
    /\ Limited \in BOOLEAN

VARIABLES
    termflag,       \* set by the signal handler
    ppc,            \* where the thread is
    clock,          \* dds_time (), from tfirst on
    t_write,        \* the timestamp of the next sample
    time_interval,  \* the clock is read once for this many samples
    time_counter,   \* samples that still use t_write
    batch_counter,  \* samples of the current burst
    ntot,           \* samples written
    pending_since,  \* history: when the write of the current sample was first tried
    hidden          \* history: a write that timed out took longer than what was recorded

pubVars == <<ppc, clock, t_write, time_interval, time_counter, batch_counter, ntot,
             pending_since, hidden>>

None == -1

PubTypeOK ==
    /\ termflag \in BOOLEAN
    /\ ppc \in {"absent", "register", "check", "write", "limit", "done", "exit"}
    /\ clock \in Nat /\ t_write \in 0 .. clock
    /\ time_interval \in 1 .. MaxInterval /\ time_counter \in 1 .. time_interval
    /\ batch_counter \in 0 .. BurstSize /\ ntot \in Nat
    /\ pending_since \in Nat \cup {None} /\ hidden \in BOOLEAN

PubInit ==
    /\ ppc = "absent"
    /\ clock = 0 /\ t_write = 0
    /\ time_interval = 1 /\ time_counter = 1
    /\ batch_counter = 0 /\ ntot = 0
    /\ pending_since = None /\ hidden = FALSE

\* dds_register_instance for each key; when it fails the process exits.
RegisterInstances ==
    /\ ppc = "register"
    /\ ppc' \in {"check", "exit"}
    /\ UNCHANGED <<clock, t_write, time_interval, time_counter, batch_counter, ntot,
                   pending_since, hidden>>

\* The condition of the main loop.
CheckTerm ==
    /\ ppc = "check"
    /\ IF termflag
         THEN ppc' = "done" /\ UNCHANGED pending_since
         ELSE /\ clock <= MaxTime /\ ntot < MaxWritten
              /\ ppc' = "write"
              /\ pending_since' = IF pending_since = None THEN clock ELSE pending_since
    /\ UNCHANGED <<clock, t_write, time_interval, time_counter, batch_counter, ntot, hidden>>

\* Mutant: the timestamp of the sample after the one that was tried again is not forced.
CountersAfterTimeoutKept == time_interval' = time_interval /\ time_counter' = time_counter

CountersAfterTimeout == time_interval' = 1 /\ time_counter' = 1

\* DDS_RETCODE_TIMEOUT: the same sample is tried again with the same timestamp.
WriteTimesOut ==
    /\ ppc = "write"
    /\ clock' = clock + BlockingTime
    /\ CountersAfterTimeout
    /\ ppc' = "check"
    /\ UNCHANGED <<t_write, batch_counter, ntot, pending_since, hidden>>

\* Any other error ends the process.
WriteFails ==
    /\ ppc = "write"
    /\ ppc' = "exit"
    /\ UNCHANGED <<clock, t_write, time_interval, time_counter, batch_counter, ntot,
                   pending_since, hidden>>

\* time_interval once the clock has been read and dt has passed since the last reading.
Interval(dt) ==
    CASE dt < Slow /\ time_interval < MaxInterval -> time_interval + 1
      [] ~(dt < Slow /\ time_interval < MaxInterval) /\ dt > Quick /\ time_interval > 1 ->
            IF dt > VerySlow THEN 1 ELSE time_interval - 1
      [] OTHER -> time_interval

\* The sample is written: the histogram records dt, which is 0 unless the clock is read.
Written ==
    /\ ppc = "write"
    /\ \E d \in WriteTime : clock' = clock + d
    /\ LET readClock == time_counter = 1
           dt == IF readClock THEN clock' - t_write ELSE 0
           blocked == clock' - pending_since >= BlockingTime
       IN  /\ t_write' = t_write + dt
           /\ time_interval' = IF readClock THEN Interval(dt) ELSE time_interval
           /\ time_counter' = IF readClock THEN time_interval' ELSE time_counter - 1
           /\ hidden' = (hidden \/ (blocked /\ dt < clock' - pending_since))
    /\ pending_since' = None
    /\ ntot' = ntot + 1
    /\ batch_counter' = IF Limited THEN batch_counter + 1 ELSE batch_counter
    /\ ppc' = IF batch_counter' = BurstSize THEN "limit" ELSE "check"

\* The average rate since the start is above pub_rate.
TooFast == (ntot \div BurstSize) * Period > t_write + Slack

\* dds_sleepfor (DDS_MSECS (1)), then the clock is read.
Nap ==
    /\ ppc = "limit"
    /\ TooFast /\ ~termflag
    /\ clock <= MaxTime
    /\ \E d \in NapTime : clock' = clock + d
    /\ t_write' = clock'
    /\ time_interval' = 1 /\ time_counter' = 1
    /\ UNCHANGED <<ppc, batch_counter, ntot, pending_since, hidden>>

\* Mutant: the next burst is not counted from 0.
BatchAfterBurstKept == batch_counter

BatchAfterBurst == 0

BurstEnds ==
    /\ ppc = "limit"
    /\ ~TooFast \/ termflag
    /\ batch_counter' = BatchAfterBurst
    /\ ppc' = "check"
    /\ UNCHANGED <<clock, t_write, time_interval, time_counter, ntot, pending_since, hidden>>

PubStep ==
    \/ RegisterInstances \/ CheckTerm \/ WriteTimesOut \/ WriteFails \/ Written
    \/ Nap \/ BurstEnds

----------------------------------------------------------------------------
(* Property.                                                               *)

\* ddsperf.c:676-678: the retry with the original timestamp is "a way of reporting blocking
\* for an exceedingly long time": the time a sample was blocked is recorded with it, whether
\* or not the clock would have been read for that sample.
BlockingShows == ~hidden
=============================================================================
