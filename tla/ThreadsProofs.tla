--------------------------- MODULE ThreadsProofs ----------------------------
(***************************************************************************)
(* Safety of the threads of ddsperf for any combination of modes, any      *)
(* numbers of samples and signals, and any limits and times.               *)
(***************************************************************************)
EXTENDS Threads, TLAPS

----------------------------------------------------------------------------
(* The publishing thread.                                                  *)

\* A burst that is not complete is shorter than BurstSize.
BurstInv == ppc \in {"absent", "register", "check", "write"} => batch_counter < BurstSize

\* The sample that is being tried carries a timestamp not later than its first try; unless the
\* clock is read for it, this is its first try.
PendingInv ==
    /\ ppc = "write" => pending_since # None
    /\ ppc \in {"absent", "register", "limit"} => pending_since = None
    /\ pending_since # None =>
          /\ t_write <= pending_since /\ pending_since <= clock
          /\ time_counter # 1 => pending_since = clock

PubInv == PubTypeOK /\ BurstInv /\ PendingInv /\ BlockingShows

----------------------------------------------------------------------------
(* The other threads.                                                      *)

Unmasked == {"restore", "join_pub", "join_data", "join_ping", "join_pong", "unlisten",
             "delete_data", "free", "delete", "return"}

Joining == {"join_pub", "join_data", "join_ping", "join_pong"}

\* The thread of the data reader does not wait for samples that are there, even when one call
\* took a part of them and no more arrive.
DataNoticed == tpc["data"] = "wait" /\ samples["data"] > 0 => available["data"]

\* No wait that the end of the process depends on is for ever: sigthread is told or has ended
\* when main joins it; when main joins the others the flag and the guard condition are set that
\* end their loops and waits; the receive thread is not left stuck in the data reader.
WaitsEnd ==
    /\ mpc = "join_sig" => spc # "absent" /\ (spc = "sigwait" => pending # {})
    /\ mpc \in Joining => termflag /\ termcond
    /\ mpc \in {"free", "delete"} /\ recv = Stuck("data") => "data" \notin exists

\* The readers that main creates.
Created == IF config.sub = "none" THEN Reader \ {"data"} ELSE Reader

\* No thread runs before main creates them.
CreateInv == mpc = "create" => ppc = "absent"

\* What main has already taken apart at each of its steps.
EntitiesInv ==
    /\ mpc \notin {"free", "delete", "return"} => exists = Created
    /\ mpc \notin {"delete", "return"} => buffers = Reader

\* A thread of a reader runs from create to the join only, and only when its mode asks for it.
ReaderThreadsInv ==
    \A r \in Reader :
        tpc[r] \notin {"absent", "done"} =>
            /\ HasThread(r)
            /\ mpc \notin {"create", "unlisten", "delete_data", "free", "delete", "return"}
            /\ r = "data" => mpc \notin {"join_ping", "join_pong"}
            /\ r = "ping" => mpc # "join_pong"

\* A listener is called only while it is set, which it is not when readers are deleted.
ListenerInv ==
    /\ \A r \in Reader : recv = Calling(r) => r \in listener
    /\ \A r \in listener : ModeOf(r) = "listener"
    /\ mpc \in {"create", "delete_data", "free", "delete", "return"} => listener = {}

\* Signals reach the main thread before sigthread exists, or when SIGTERM is ignored.
SignalInv ==
    /\ mpc \in {"create", "mask"} => ~masked
    /\ ~masked => spc = "absent" \/ "TERM" \in ignored
    /\ mpc = "unmask" => "TERM" \in ignored
    /\ mpc \in Unmasked => spc = "absent" \/ "TERM" \in ignored

\* Who waits for whom at the end: from its creation sigthread runs until main has joined it,
\* and once it has ended termflag and termcond are set.
EndInv ==
    /\ mpc \in {"run", "kill", "join_sig"} => spc # "absent"
    /\ mpc = "join_sig" /\ spc = "sigwait" => pending # {}
    /\ spc = "cond" => termflag
    /\ spc = "done" => termflag /\ termcond
    /\ mpc \in {"ignore", "unmask", "restore"} \cup Joining => spc = "done"
    /\ mpc \in {"free", "delete"} => "data" \notin exists

\* The inductive invariant.
IInv ==
    /\ TypeOK
    /\ PubInv
    /\ CreateInv
    /\ EntitiesInv
    /\ ReaderThreadsInv
    /\ ListenerInv
    /\ SignalInv
    /\ NothingUsedAfterDelete
    /\ OwnSignalHarmless
    /\ EndInv
    /\ DataNoticed

----------------------------------------------------------------------------
(* The publishing thread keeps its invariant.                              *)

LEMMA InitPub == Init => PubInv
<1> SUFFICES ASSUME Init PROVE PubInv
  OBVIOUS
<1>1. {BurstSize, MaxInterval} \subseteq Nat \ {0}
  BY PubAssumption
<1>2. /\ ppc = "absent" /\ clock = 0 /\ t_write = 0 /\ time_interval = 1 /\ time_counter = 1
      /\ batch_counter = 0 /\ ntot = 0 /\ pending_since = None
  BY DEF Init, PubInit
<1>3. termflag = FALSE /\ hidden = FALSE
  BY DEF Init, PubInit
<1>4. /\ clock \in Nat /\ t_write \in 0 .. clock /\ time_interval \in 1 .. MaxInterval
      /\ time_counter \in 1 .. time_interval /\ batch_counter \in 0 .. BurstSize
      /\ ntot \in Nat /\ batch_counter < BurstSize
  BY <1>1, <1>2
<1> QED
  BY <1>2, <1>3, <1>4 DEF PubInv, PubTypeOK, BurstInv, PendingInv, BlockingShows

\* The interval between two readings of the clock stays between 1 and MaxInterval samples.
LEMMA IntervalBounded ==
  ASSUME PubTypeOK, NEW dt \in Nat
  PROVE  Interval(dt) \in 1 .. MaxInterval
  BY PubAssumption DEF Interval, PubTypeOK

\* The time between two readings of the clock.
LEMMA DurationBetween ==
  ASSUME NEW a \in Nat, NEW b \in Nat, a <= b
  PROVE  b - a \in Nat /\ a + (b - a) \in 0 .. b
<1>1. b - a \in Nat
  OBVIOUS
<1>2. a + (b - a) = b
  OBVIOUS
<1> QED
  BY <1>1, <1>2

LEMMA WrittenStep == PubInv /\ Written /\ UNCHANGED termflag => PubInv'
<1> SUFFICES ASSUME PubInv, Written, UNCHANGED termflag PROVE PubInv'
  OBVIOUS
<1> DEFINE readClock == time_counter = 1
           dt == IF readClock THEN clock' - t_write ELSE 0
           blocked == clock' - pending_since >= BlockingTime
<1>0. /\ {BurstSize, MaxInterval} \subseteq Nat \ {0} /\ BlockingTime \in Nat
      /\ WriteTime \subseteq 0 .. BlockingTime - 1
  BY PubAssumption
<1>1. /\ clock \in Nat /\ t_write \in 0 .. clock
      /\ time_interval \in 1 .. MaxInterval /\ time_counter \in 1 .. time_interval
      /\ batch_counter \in 0 .. BurstSize - 1 /\ ntot \in Nat
      /\ pending_since \in 0 .. clock /\ t_write <= pending_since
      /\ time_counter # 1 => pending_since = clock
      /\ hidden = FALSE
  BY <1>0 DEF PubInv, PubTypeOK, BurstInv, PendingInv, BlockingShows, Written
<1>2. PICK d \in WriteTime : clock' = clock + d
  BY DEF Written
<1>3. d \in 0 .. BlockingTime - 1 /\ clock' \in Nat /\ clock <= clock'
  BY <1>0, <1>1, <1>2
<1>4. dt \in Nat /\ t_write + dt \in 0 .. clock'
  <2>1. CASE readClock
    <3>1. dt = clock' - t_write
      BY <2>1
    <3>2. t_write \in Nat /\ t_write <= clock' /\ clock' \in Nat
      BY <1>1, <1>3
    <3>3. clock' - t_write \in Nat /\ t_write + (clock' - t_write) \in 0 .. clock'
      BY <3>2, DurationBetween
    <3> QED
      BY <3>1, <3>3
  <2>2. CASE ~readClock
    <3>1. dt = 0
      BY <2>2
    <3>2. t_write \in Nat /\ t_write <= clock'
      BY <1>1, <1>3
    <3> HIDE DEF dt
    <3> QED
      BY <1>3, <3>1, <3>2
  <2> QED
    BY <2>1, <2>2
<1>5. blocked => ~(dt < clock' - pending_since)
  BY <1>0, <1>1, <1>2, <1>3
<1>6. /\ t_write' = t_write + dt
      /\ time_interval' = IF readClock THEN Interval(dt) ELSE time_interval
      /\ time_counter' = IF readClock THEN time_interval' ELSE time_counter - 1
      /\ hidden' = (hidden \/ (blocked /\ dt < clock' - pending_since))
      /\ pending_since' = None /\ ntot' = ntot + 1
      /\ batch_counter' = IF Limited THEN batch_counter + 1 ELSE batch_counter
      /\ ppc' = IF batch_counter' = BurstSize THEN "limit" ELSE "check"
  BY DEF Written
<1> HIDE DEF readClock, dt, blocked
<1>7. Interval(dt) \in 1 .. MaxInterval
  BY <1>4, IntervalBounded DEF PubInv
<1>8. time_interval' \in 1 .. MaxInterval /\ time_counter' \in 1 .. time_interval'
  BY <1>0, <1>1, <1>6, <1>7 DEF readClock
<1>9. batch_counter' \in 0 .. BurstSize /\ ntot' \in Nat
      /\ ppc' \in {"limit", "check"} /\ (ppc' # "limit" => batch_counter' < BurstSize)
  BY <1>0, <1>1, <1>6
<1>10. hidden' = FALSE
  BY <1>1, <1>5, <1>6
<1> QED
  BY <1>3, <1>4, <1>6, <1>8, <1>9, <1>10
     DEF PubInv, PubTypeOK, BurstInv, PendingInv, BlockingShows

LEMMA PubStepInv == PubInv /\ PubStep /\ UNCHANGED termflag => PubInv'
<1> SUFFICES ASSUME PubInv, PubStep, UNCHANGED termflag PROVE PubInv'
  OBVIOUS
<1>0. /\ {BurstSize, MaxInterval} \subseteq Nat \ {0} /\ BlockingTime \in Nat
      /\ NapTime \subseteq Nat
  BY PubAssumption
<1> USE <1>0 DEF PubInv, PubTypeOK, BurstInv, PendingInv, BlockingShows, None
<1>1. CASE RegisterInstances
  BY <1>1 DEF RegisterInstances
<1>2. CASE CheckTerm
  BY <1>2 DEF CheckTerm
<1>3. CASE WriteTimesOut
  BY <1>3 DEF WriteTimesOut, CountersAfterTimeout
<1>4. CASE WriteFails
  BY <1>4 DEF WriteFails
<1>5. CASE Written
  BY <1>5, WrittenStep
<1>6. CASE Nap
  BY <1>6 DEF Nap
<1>7. CASE BurstEnds
  BY <1>7 DEF BurstEnds, BatchAfterBurst
<1> QED
  BY <1>1, <1>2, <1>3, <1>4, <1>5, <1>6, <1>7 DEF PubStep

----------------------------------------------------------------------------
(* The process.                                                            *)

\* The receive thread does one thing at a time.
LEMMA RecvDistinct ==
  \A r, q \in Reader : /\ Calling(r) = Calling(q) => r = q
                       /\ Calling(r) # Stuck(q)
                       /\ Calling(r) # Idle /\ Stuck(r) # Idle
  BY DEF Calling, Stuck, Idle, Reader

LEMMA InitIInv == Init => IInv
<1> SUFFICES ASSUME Init PROVE IInv
  OBVIOUS
<1>1. TypeOK
  <2>1. PubTypeOK
    BY InitPub DEF PubInv
  <2>2. /\ samples \in [Reader -> Nat]
        /\ \A r \in DOMAIN Limit : samples[r] <= Limit[r]
    BY ThreadsAssumption DEF Init, Reader
  <2>3. /\ config \in Config /\ mpc = "create" /\ spc = "absent"
        /\ tpc \in [Reader -> {"absent"}] /\ available \in [Reader -> BOOLEAN]
        /\ listener = {} /\ recv = Idle /\ exists \subseteq Reader /\ buffers \subseteq Reader
        /\ pending = {} /\ ignored = {} /\ status = "running"
    BY DEF Init
  <2>4. termcond = FALSE /\ masked = FALSE /\ early = FALSE /\ owed \in Nat
    BY DEF Init
  <2> QED
    BY <2>1, <2>2, <2>3, <2>4 DEF TypeOK
<1>2. EntitiesInv /\ ReaderThreadsInv /\ ListenerInv /\ SignalInv
  BY RecvDistinct DEF Init, EntitiesInv, ReaderThreadsInv, ListenerInv, SignalInv, Created, Unmasked
<1>3. CreateInv /\ NothingUsedAfterDelete /\ OwnSignalHarmless
  BY DEF Init, PubInit, CreateInv, NothingUsedAfterDelete, OwnSignalHarmless
<1>4. EndInv /\ DataNoticed
  BY DEF Init, EndInv, DataNoticed, Joining, Reader
<1> QED
  BY <1>1, <1>2, <1>3, <1>4, InitPub DEF IInv

\* Only pubthread changes its variables, but for its creation and for termflag.
LEMMA PubFrame ==
  ASSUME [Next]_vars
  PROVE  \/ Pub /\ UNCHANGED <<termflag, mpc>>
         \/ UNCHANGED pubVars /\ (termflag' = termflag \/ termflag' = TRUE)
         \/ CreateThreads
  BY DEF Next, Main, SeeTermflag, MaskSignals, KillSelf, IgnoreSignals, UnmaskSignals,
         RestoreHandlers, JoinThread, RemoveListeners, DeleteDataReader, FreeBuffers,
         DeleteParticipant, Return, SendPing, TimeIsUp, GiveUp, Sig, SigWait, SetTermflag, SetTermcond,
         Pub, Receive, Unstick, CallListener, ReaderThread, Loop, ProcessOnThread, WaitReturns,
         SleepReturns, Arrive, Send, Ended, vars

LEMMA PubInvStep == IInv /\ [Next]_vars => PubInv'
<1> SUFFICES ASSUME IInv, [Next]_vars PROVE PubInv'
  OBVIOUS
<1>1. CASE Pub /\ UNCHANGED <<termflag, mpc>>
  BY <1>1, PubStepInv DEF Pub, IInv
<1>2. CASE UNCHANGED pubVars /\ (termflag' = termflag \/ termflag' = TRUE)
  BY <1>2 DEF pubVars, IInv, PubInv, PubTypeOK, BurstInv, PendingInv, BlockingShows
<1>3. CASE CreateThreads
  BY <1>3 DEF CreateThreads, MainGoes, IInv, CreateInv, PubInv, PubTypeOK, BurstInv, PendingInv,
     BlockingShows
<1> QED
  BY <1>1, <1>2, <1>3, PubFrame

\* The pongs that may still arrive can be counted.
LEMMA AskCounts == ASSUME owed \in Nat, NEW k, Ask(k) PROVE owed' \in Nat
  BY ThreadsAssumption DEF Ask

\* The variables other than those of pubthread keep their types.
LEMMA TypeStep == IInv /\ [Next]_vars => TypeOK'
<1> SUFFICES ASSUME IInv, [Next]_vars PROVE TypeOK'
  OBVIOUS
<1>0. PubTypeOK' /\ TypeOK
  BY PubInvStep DEF IInv, PubInv
<1>1. /\ DOMAIN Limit = {"data", "pong"} /\ \A r \in DOMAIN Limit : Limit[r] \in Nat /\ r \in Reader
      /\ \A r \in Reader : MaxTake[r] \in Nat \ {0}
  BY ThreadsAssumption DEF Reader
<1>2. \A r \in Reader : Calling(r) \in {Calling(q) : q \in Reader}
  OBVIOUS
<1>3. ASSUME NEW r \in Reader, Process(r)
      PROVE  /\ samples' \in [Reader -> Nat] /\ \A q \in DOMAIN Limit : samples'[q] <= Limit[q]
             /\ available' \in [Reader -> BOOLEAN] /\ status' \in {"running", "2", "crash"}
             /\ owed' \in Nat
  <2>1. samples[r] \in Nat /\ Taken(r) \in 0 .. samples[r]
    BY <1>0, <1>1 DEF TypeOK, Taken
  <2>2. /\ samples' \in [Reader -> Nat] /\ \A q \in DOMAIN Limit : samples'[q] <= Limit[q]
    BY <1>0, <1>1, <1>3, <2>1 DEF TypeOK, Process
  <2>3. owed' \in Nat
    BY <1>0, <1>3, AskCounts DEF TypeOK, Process
  <2> QED
    BY <1>0, <1>3, <2>2, <2>3 DEF TypeOK, Process, StatusAfterTake
<1>4. ASSUME NEW r \in Reader, Store(r), ~Full(r)
      PROVE  /\ samples' \in [Reader -> Nat] /\ \A q \in DOMAIN Limit : samples'[q] <= Limit[q]
             /\ available' \in [Reader -> BOOLEAN] /\ recv' \in {Idle, Calling(r)}
  <2>1. r \in DOMAIN Limit => samples[r] + 1 <= Limit[r] /\ r # "ping"
    BY <1>0, <1>1, <1>4 DEF TypeOK, Full
  <2>2. /\ samples' \in [Reader -> Nat] /\ \A q \in DOMAIN Limit : samples'[q] <= Limit[q]
    BY <1>0, <1>1, <1>4, <2>1 DEF TypeOK, Store
  <2> QED
    BY <1>0, <1>4, <2>2 DEF TypeOK, Store
<1> USE <1>0 DEF TypeOK, readerVars, entityVars, signalVars
<1>5. ASSUME NEW r \in Reader, Arrive(r) PROVE TypeOK'
  <2>0. owed' \in Nat
    BY <1>5 DEF Arrive
  <2>1. CASE Full(r)
    BY <1>5, <2>0, <2>1 DEF Arrive, Full
  <2>2. CASE ~Full(r)
    BY <1>4, <1>5, <2>0, <2>2 DEF Arrive
  <2> QED
    BY <2>1, <2>2
<1>6. CASE Receive
  <2>1. CASE Unstick
    <3>1. ASSUME NEW r \in DOMAIN Limit, ~Full(r), Store(r)
          PROVE  /\ samples' \in [Reader -> Nat]
                 /\ \A q \in DOMAIN Limit : samples'[q] <= Limit[q]
                 /\ available' \in [Reader -> BOOLEAN]
                 /\ recv' = Idle \/ \E q \in Reader : recv' = Calling(q)
      BY <1>1, <1>4, <3>1
    <3>2. /\ samples' \in [Reader -> Nat]
          /\ \A q \in DOMAIN Limit : samples'[q] <= Limit[q]
          /\ available' \in [Reader -> BOOLEAN]
          /\ recv' = Idle \/ \E q \in Reader : recv' = Calling(q)
      BY <2>1, <3>1 DEF Unstick
    <3> QED
      BY <2>1, <3>2 DEF Unstick
  <2>2. CASE CallListener
    <3>1. PICK r \in Reader : Process(r)
      BY <2>2 DEF CallListener
    <3> QED
      BY <1>3, <2>2, <3>1 DEF CallListener
  <2> QED
    BY <1>6, <2>1, <2>2 DEF Receive
<1>7. ASSUME NEW r \in Reader, ReaderThread(r) PROVE TypeOK'
  <2>1. CASE Loop(r)
    BY <2>1 DEF Loop, ThreadGoes
  <2>2. CASE ProcessOnThread(r)
    BY <1>3, <2>2 DEF ProcessOnThread, ThreadGoes, AfterProcess
  <2>3. CASE WaitReturns(r) \/ SleepReturns(r)
    BY <2>3 DEF WaitReturns, SleepReturns, ThreadGoes
  <2> QED
    BY <1>7, <2>1, <2>2, <2>3 DEF ReaderThread
<1>8. CASE Pub \/ SendPing
  <2>1. owed' \in Nat
    BY <1>8, AskCounts DEF Pub, SendPing
  <2> QED
    BY <1>8, <2>1 DEF Pub, SendPing
<1>9. CASE Sig
  BY <1>9 DEF Sig, SigWait, SetTermflag, SetTermcond, TermcondSet
<1>10. ASSUME NEW s \in Signal, Send(s) PROVE TypeOK'
  <2>1. pending' \subseteq Signal /\ status' \in {status} \cup Signal
    BY <1>10 DEF Send
  <2>2. early' \in BOOLEAN
    BY <1>10 DEF Send
  <2> QED
    BY <1>10, <2>1, <2>2 DEF Send
<1>11. CASE CreateThreads
  <2>1. tpc' \in [Reader -> {"absent", "check"}] /\ listener' \subseteq Reader
    BY <1>11 DEF CreateThreads
  <2> QED
    BY <1>11, <2>1 DEF CreateThreads, MainGoes
<1>12. CASE MaskSignals \/ SeeTermflag \/ TimeIsUp \/ GiveUp \/ JoinThread
  BY <1>12 DEF MaskSignals, SeeTermflag, TimeIsUp, GiveUp, JoinThread, MainGoes
<1>13. CASE KillSelf \/ IgnoreSignals \/ UnmaskSignals \/ RestoreHandlers
  <2>1. CASE KillSelf
    <3>1. pending' \subseteq Signal
      BY <2>1 DEF KillSelf, Signal
    <3> QED
      BY <2>1, <3>1 DEF KillSelf, MainGoes
  <2>2. CASE IgnoreSignals
    <3>1. pending' \subseteq Signal /\ ignored' \subseteq Signal
      BY <2>2 DEF IgnoreSignals, IgnoredAtEnd, Signal
    <3> QED
      BY <2>2, <3>1 DEF IgnoreSignals, MainGoes
  <2>3. CASE UnmaskSignals
    BY <2>3 DEF UnmaskSignals, MainGoes
  <2>4. CASE RestoreHandlers
    BY <2>4 DEF RestoreHandlers, MainGoes
  <2> QED
    BY <1>13, <2>1, <2>2, <2>3, <2>4
<1>14. CASE RemoveListeners \/ DeleteDataReader \/ FreeBuffers \/ DeleteParticipant \/ Return
  BY <1>14 DEF RemoveListeners, DeleteDataReader, FreeBuffers, DeleteParticipant, Return, MainGoes
<1>15. CASE UNCHANGED vars
  BY <1>15 DEF vars
<1> QED
  BY <1>5, <1>6, <1>7, <1>8, <1>9, <1>10, <1>11, <1>12, <1>13, <1>14, <1>15
     DEF Next, Main, Ended

\* What main takes apart, and when.
LEMMA EntitiesStep == IInv /\ [Next]_vars => (EntitiesInv /\ CreateInv)'
<1> SUFFICES ASSUME IInv, [Next]_vars PROVE (EntitiesInv /\ CreateInv)'
  OBVIOUS
<1> USE DEF IInv, EntitiesInv, CreateInv, Created
<1>1. CASE UNCHANGED <<config, mpc, exists, buffers>> /\ (mpc = "create" => ppc' = ppc)
  BY <1>1
<1>2. CASE DeleteDataReader
  BY <1>2 DEF DeleteDataReader, MainGoes
<1>3. CASE FreeBuffers \/ DeleteParticipant
  BY <1>3 DEF FreeBuffers, DeleteParticipant, MainGoes
<1>4. CASE CreateThreads \/ GiveUp \/ MaskSignals \/ SeeTermflag \/ TimeIsUp \/ KillSelf
  BY <1>4 DEF CreateThreads, GiveUp, MaskSignals, SeeTermflag, TimeIsUp, KillSelf, MainGoes,
     entityVars
<1>5. CASE IgnoreSignals \/ UnmaskSignals \/ RestoreHandlers \/ JoinThread \/ RemoveListeners
  BY <1>5 DEF IgnoreSignals, UnmaskSignals, RestoreHandlers, JoinThread, RemoveListeners,
     MainGoes, entityVars
<1>6. CASE Pub
  BY <1>6 DEF Pub, PubStep, RegisterInstances, CheckTerm, WriteTimesOut, WriteFails, Written, Nap,
     BurstEnds, entityVars
<1> QED
  BY <1>1, <1>2, <1>3, <1>4, <1>5, <1>6
     DEF Next, Main, Return, SendPing, Sig, SigWait, SetTermflag, SetTermcond, Receive, Unstick,
         CallListener, ReaderThread, Loop, ProcessOnThread, WaitReturns, SleepReturns, Arrive,
         Send, Ended, vars, pubVars, entityVars

\* The threads of the readers end before main goes on, the listeners are not called after.
LEMMA ReadersStep == IInv /\ [Next]_vars => (ReaderThreadsInv /\ ListenerInv)'
<1> SUFFICES ASSUME IInv, [Next]_vars PROVE (ReaderThreadsInv /\ ListenerInv)'
  OBVIOUS
<1>0. tpc \in [Reader -> {"absent", "check", "process", "wait", "sleep", "done"}]
  BY DEF IInv, TypeOK
<1> USE DEF IInv, ReaderThreadsInv, ListenerInv, HasThread, ModeOf, readerVars
<1>1. CASE UNCHANGED <<config, mpc, tpc, listener, recv>>
  BY <1>1
<1>2. ASSUME NEW r \in Reader, ReaderThread(r) PROVE (ReaderThreadsInv /\ ListenerInv)'
  <2>1. /\ tpc[r] \notin {"absent", "done"} /\ \A q \in Reader \ {r} : tpc'[q] = tpc[q]
        /\ UNCHANGED <<config, mpc, listener, recv>>
    BY <1>0, <1>2 DEF ReaderThread, Loop, ProcessOnThread, WaitReturns, SleepReturns, ThreadGoes
  <2> QED
    BY <2>1
<1>3. ASSUME NEW r \in Reader, Arrive(r) \/ (Store(r) /\ UNCHANGED <<config, mpc, tpc, listener>>)
      PROVE (ReaderThreadsInv /\ ListenerInv)'
  BY <1>3, RecvDistinct DEF Arrive, Store
<1>4. CASE Receive
  <2>1. CASE Unstick
    <3>1. PICK r \in DOMAIN Limit :
             \/ r \in exists /\ ~Full(r) /\ Store(r)
             \/ r \notin exists /\ recv' = Idle /\ UNCHANGED <<samples, available>>
      BY <2>1 DEF Unstick
    <3>2. r \in Reader /\ UNCHANGED <<config, mpc, tpc, listener>>
      BY <2>1, ThreadsAssumption DEF Unstick, Reader
    <3>3. CASE Store(r)
      BY <1>3, <3>2, <3>3
    <3>4. CASE recv' = Idle
      BY <3>2, <3>4, RecvDistinct
    <3> QED
      BY <3>1, <3>3, <3>4
  <2>2. CASE CallListener
    BY <2>2, RecvDistinct DEF CallListener
  <2> QED
    BY <1>4, <2>1, <2>2 DEF Receive
<1>5. CASE CreateThreads
  BY <1>5, RecvDistinct DEF CreateThreads, MainGoes
<1>6. CASE GiveUp \/ MaskSignals \/ SeeTermflag \/ TimeIsUp \/ KillSelf \/ IgnoreSignals
  BY <1>6 DEF GiveUp, MaskSignals, SeeTermflag, TimeIsUp, KillSelf, IgnoreSignals, MainGoes
<1>7. CASE UnmaskSignals \/ RestoreHandlers \/ JoinThread
  BY <1>7 DEF UnmaskSignals, RestoreHandlers, JoinThread, Joined, MainGoes, Reader
<1>8. CASE RemoveListeners \/ DeleteDataReader \/ FreeBuffers \/ DeleteParticipant
  BY <1>8 DEF RemoveListeners, DeleteDataReader, FreeBuffers, DeleteParticipant, MainGoes
<1> QED
  BY <1>1, <1>2, <1>3, <1>4, <1>5, <1>6, <1>7, <1>8
     DEF Next, Main, Return, SendPing, Sig, SigWait, SetTermflag, SetTermcond, Pub, Send, Ended,
         vars

\* SIGTERM is blocked or ignored from the moment sigthread exists.
LEMMA SignalStep == IInv /\ [Next]_vars => (SignalInv /\ OwnSignalHarmless)'
<1> SUFFICES ASSUME IInv, [Next]_vars PROVE (SignalInv /\ OwnSignalHarmless)'
  OBVIOUS
<1> USE DEF IInv, SignalInv, OwnSignalHarmless, Unmasked, signalVars
<1>1. CASE UNCHANGED <<mpc, signalVars>> /\ (status' = status \/ status' # "TERM")
  BY <1>1
<1>2. CASE Running /\ Sig
  BY <1>2 DEF Sig, SigWait, SetTermflag, SetTermcond
<1>3. ASSUME Running, NEW s \in Signal, Send(s) PROVE (SignalInv /\ OwnSignalHarmless)'
  BY <1>3 DEF Send, Running
<1>4. CASE MaskSignals \/ SeeTermflag \/ TimeIsUp \/ KillSelf
  BY <1>4 DEF MaskSignals, SeeTermflag, TimeIsUp, KillSelf, MainGoes
<1>5. CASE CreateThreads \/ GiveUp
  BY <1>5 DEF CreateThreads, GiveUp, MainGoes
<1>6. CASE IgnoreSignals \/ UnmaskSignals \/ RestoreHandlers
  BY <1>6 DEF IgnoreSignals, IgnoredAtEnd, UnmaskSignals, RestoreHandlers, MainGoes
<1>7. CASE JoinThread \/ RemoveListeners \/ DeleteDataReader \/ FreeBuffers \/ DeleteParticipant
  BY <1>7 DEF JoinThread, RemoveListeners, DeleteDataReader, FreeBuffers, DeleteParticipant,
     MainGoes
<1>8. ASSUME NEW r \in Reader, Process(r) PROVE status' # "TERM"
  BY <1>8 DEF Process, StatusAfterTake
<1> QED
  BY <1>1, <1>2, <1>3, <1>4, <1>5, <1>6, <1>7, <1>8
     DEF Next, Main, Return, SendPing, Pub, Receive, Unstick, CallListener, ReaderThread, Loop,
         ProcessOnThread, WaitReturns, SleepReturns, Arrive, Ended, vars

\* Whoever processes samples of a reader finds the reader and its buffers.
LEMMA ProcessSafe ==
  ASSUME IInv, NEW r \in Reader, tpc[r] = "process" \/ recv = Calling(r)
  PROVE  StatusAfterTake(r) = "running"
<1>1. ModeOf(r) \in {"waitset", "polling", "listener"}
  BY DEF IInv, ReaderThreadsInv, ListenerInv, HasThread
<1>2. mpc \notin {"free", "delete", "return"}
  BY DEF IInv, ReaderThreadsInv, ListenerInv
<1>3. r \in Created
  BY <1>1 DEF Created, ModeOf
<1> QED
  BY <1>2, <1>3 DEF IInv, EntitiesInv, StatusAfterTake

LEMMA StatusStep == IInv /\ [Next]_vars => NothingUsedAfterDelete'
<1> SUFFICES ASSUME IInv, [Next]_vars PROVE NothingUsedAfterDelete'
  OBVIOUS
<1> USE DEF NothingUsedAfterDelete, IInv
<1>1. CASE UNCHANGED vars
  BY <1>1 DEF vars, pubVars
<1>2. ASSUME Running, NEW r \in Reader, ProcessOnThread(r) PROVE status' = "running"
  BY <1>2, ProcessSafe DEF ProcessOnThread, ThreadGoes, Process
<1>3. ASSUME Running, CallListener PROVE status' = "running"
  BY <1>3, ProcessSafe DEF CallListener, Process
<1>4. CASE Running /\ Pub
  BY <1>4 DEF Pub, Running
<1>5. ASSUME Running, UNCHANGED status PROVE status' = "running"
  BY <1>5 DEF Running
<1>6. CASE status' = "running"
  BY <1>6
<1>7. ASSUME Running, NEW s \in Signal, Send(s) PROVE status' \in {"running"} \cup Signal
  BY <1>7 DEF Send, Running
<1>8. CASE Running /\ (UnmaskSignals \/ Return)
  BY <1>8 DEF UnmaskSignals, Return, Running, TypeOK, Signal
<1> QED
  BY <1>1, <1>2, <1>3, <1>4, <1>5, <1>6, <1>7, <1>8
     DEF Next, Main, CreateThreads, MaskSignals, SendPing, SeeTermflag, TimeIsUp, GiveUp, KillSelf,
         IgnoreSignals, RestoreHandlers, JoinThread, RemoveListeners, DeleteDataReader,
         FreeBuffers, DeleteParticipant, Sig, SigWait, SetTermflag, SetTermcond, Receive, Unstick,
         ReaderThread, Loop, WaitReturns, SleepReturns, Arrive, Ended, signalVars, Signal

\* How main and sigthread tell the others to end.
LEMMA EndStep == IInv /\ [Next]_vars => EndInv'
<1> SUFFICES ASSUME IInv, [Next]_vars PROVE EndInv'
  OBVIOUS
<1>0. termflag' = termflag \/ termflag' = TRUE
  <2>1. CASE CreateThreads
    BY <2>1 DEF CreateThreads
  <2> QED
    BY <2>1, PubFrame
<1> USE <1>0 DEF IInv, EndInv, Joining, signalVars
<1>1. CASE UNCHANGED <<mpc, spc, pending, termcond, exists>>
  BY <1>1
<1>2. CASE Sig
  BY <1>2 DEF Sig, SigWait, SetTermflag, SetTermcond, TermcondSet, entityVars
<1>3. ASSUME NEW s \in Signal, Send(s) PROVE EndInv'
  BY <1>3 DEF Send, entityVars
<1>4. CASE CreateThreads \/ GiveUp \/ MaskSignals
  BY <1>4 DEF CreateThreads, GiveUp, MaskSignals, MainGoes, entityVars
<1>5. CASE SeeTermflag \/ TimeIsUp \/ KillSelf
  BY <1>5 DEF SeeTermflag, TimeIsUp, KillSelf, MainGoes, entityVars
<1>6. CASE IgnoreSignals \/ UnmaskSignals \/ RestoreHandlers
  BY <1>6 DEF IgnoreSignals, UnmaskSignals, RestoreHandlers, MainGoes, entityVars
<1>7. CASE JoinThread \/ RemoveListeners
  BY <1>7 DEF JoinThread, RemoveListeners, MainGoes, entityVars
<1>8. CASE DeleteDataReader \/ FreeBuffers \/ DeleteParticipant
  BY <1>8 DEF DeleteDataReader, DeletedEarly, FreeBuffers, DeleteParticipant, MainGoes
<1> QED
  BY <1>1, <1>2, <1>3, <1>4, <1>5, <1>6, <1>7, <1>8
     DEF Next, Main, Return, SendPing, Pub, Receive, Unstick, CallListener, ReaderThread, Loop,
         ProcessOnThread, WaitReturns, SleepReturns, Arrive, Ended, vars, entityVars

\* Samples that arrive while the thread of the data reader waits raise DATA_AVAILABLE, which
\* nobody else lowers.
LEMMA NoticedStep == IInv /\ [Next]_vars => DataNoticed'
<1> SUFFICES ASSUME IInv, [Next]_vars PROVE DataNoticed'
  OBVIOUS
<1>0. /\ tpc \in [Reader -> {"absent", "check", "process", "wait", "sleep", "done"}]
      /\ samples \in [Reader -> Nat] /\ available \in [Reader -> BOOLEAN]
      /\ MaxTake["data"] \in Nat \ {0} /\ "data" \in Reader
  BY ThreadsAssumption DEF IInv, TypeOK, Reader
<1> USE <1>0 DEF DataNoticed, readerVars
<1>1. CASE UNCHANGED <<tpc, samples, available>>
  BY <1>1 DEF IInv
<1>2. tpc["data"] = "wait" => "data" \notin listener /\ recv # Calling("data")
  BY DEF IInv, ReaderThreadsInv, ListenerInv, HasThread
<1>3. ASSUME NEW r \in Reader, Store(r), UNCHANGED tpc PROVE DataNoticed'
  <2>1. CASE r = "data"
    BY <1>2, <1>3, <2>1 DEF Store
  <2>2. CASE r # "data"
    BY <1>3, <2>2 DEF Store, IInv
  <2> QED
    BY <2>1, <2>2
<1>4. ASSUME NEW r \in Reader, Arrive(r) PROVE DataNoticed'
  BY <1>1, <1>3, <1>4 DEF Arrive
<1>5. CASE Unstick
  <2>1. PICK r \in DOMAIN Limit : Store(r) \/ UNCHANGED <<samples, available>>
    BY <1>5 DEF Unstick
  <2>2. r \in Reader /\ UNCHANGED tpc
    BY <1>5, ThreadsAssumption DEF Unstick, Reader
  <2> QED
    BY <1>1, <1>3, <2>1, <2>2
<1>6. CASE CallListener
  <2>1. PICK r \in Reader : recv = Calling(r) /\ Process(r)
    BY <1>6 DEF CallListener
  <2>2. UNCHANGED tpc
    BY <1>6 DEF CallListener
  <2>3. CASE r = "data"
    BY <1>2, <2>1, <2>2, <2>3
  <2>4. CASE r # "data"
    BY <2>1, <2>2, <2>4 DEF Process, IInv
  <2> QED
    BY <2>3, <2>4
<1>7. ASSUME NEW r \in Reader, ReaderThread(r) PROVE DataNoticed'
  <2>1. CASE Loop(r) \/ WaitReturns(r) \/ SleepReturns(r)
    <3>1. UNCHANGED <<samples, available>> /\ (tpc'["data"] = "wait" => tpc["data"] = "wait")
      BY <2>1 DEF Loop, WaitReturns, SleepReturns, ThreadGoes
    <3> QED
      BY <3>1 DEF IInv
  <2>2. CASE ProcessOnThread(r)
    <3>1. tpc' = [tpc EXCEPT ![r] = AfterProcess(r)] /\ Process(r)
      BY <2>2 DEF ProcessOnThread, ThreadGoes
    <3>2. CASE r = "data"
      <4>1. tpc'["data"] = "wait" => samples["data"] = 0
        BY <3>1, <3>2 DEF AfterProcess
      <4>2. samples["data"] = 0 => samples'["data"] = 0
        BY <3>1, <3>2 DEF Process, Taken
      <4> QED
        BY <4>1, <4>2
    <3>3. CASE r # "data"
      BY <3>1, <3>3 DEF Process, IInv
    <3> QED
      BY <3>2, <3>3
  <2> QED
    BY <1>7, <2>1, <2>2 DEF ReaderThread
<1>8. CASE CreateThreads
  <2>1. tpc'["data"] # "wait"
    BY <1>8 DEF CreateThreads
  <2> QED
    BY <2>1
<1> QED
  BY <1>1, <1>4, <1>5, <1>6, <1>7, <1>8
     DEF Next, Main, MaskSignals, SendPing, SeeTermflag, TimeIsUp, GiveUp, KillSelf, IgnoreSignals,
         UnmaskSignals, RestoreHandlers, JoinThread, RemoveListeners, DeleteDataReader,
         FreeBuffers, DeleteParticipant, Return, Sig, SigWait, SetTermflag, SetTermcond, Pub,
         Receive, Send, Ended, vars

\* Every step preserves the inductive invariant.
LEMMA SpecIInv == Spec => []IInv
<1>1. IInv /\ [Next]_vars => IInv'
  BY PubInvStep, TypeStep, EntitiesStep, ReadersStep, SignalStep, StatusStep,
     EndStep, NoticedStep DEF IInv
<1> QED
  BY <1>1, InitIInv, PTL DEF Spec

\* Every variable keeps its type: no reader holds more samples than its limit, the counters of
\* the rate control stay in their ranges.
THEOREM TypeCorrect == Spec => []TypeOK
  BY SpecIInv, PTL DEF IInv

\* Neither a thread nor a listener uses a reader or a buffer that main has taken apart, in
\* every combination of modes, however late it sees termflag.
THEOREM DeletedUnused == Spec => []NothingUsedAfterDelete
  BY SpecIInv, PTL DEF IInv

\* The SIGTERM that main sends to itself never kills the process.
THEOREM SigtermHarmless == Spec => []OwnSignalHarmless
  BY SpecIInv, PTL DEF IInv

\* The time a sample was blocked is recorded with it, whatever the write times and the limits
\* between which the clock is read.
THEOREM BlockingRecorded == Spec => []BlockingShows
  BY SpecIInv, PTL DEF IInv, PubInv

\* What DataAllRead needs of each state: the thread of the data reader is never asleep while
\* there are samples that it has not been told of.
THEOREM SamplesNoticed == Spec => []DataNoticed
  BY SpecIInv, PTL DEF IInv

\* What ProcessEnds needs of each state: main waits for no thread that nobody will wake, whenever
\* signals come, and whichever thread is first to see termflag.
THEOREM WaitsCanEnd == Spec => []WaitsEnd
<1>1. IInv => WaitsEnd
  BY DEF IInv, EndInv, WaitsEnd
<1> QED
  BY <1>1, SpecIInv, PTL
=============================================================================
