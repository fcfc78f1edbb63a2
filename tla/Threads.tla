------------------------------ MODULE Threads -------------------------------
(***************************************************************************)
(* The threads of ddsperf (docs/ref/ddsperf.c) from their creation to the  *)
(* exit of the process: main, sigthread, pubthread (PubThread), and for    *)
(* the readers of data, pings and pongs a thread that waits for samples on *)
(* a waitset, a thread that polls, or a listener that the receive thread   *)
(* of the DDS library calls.                                               *)
(*                                                                         *)
(* termflag and the guard condition termcond tell the threads to end.  A   *)
(* reader raises DATA_AVAILABLE when a sample arrives and lowers it when   *)
(* somebody takes samples, so that samples which one call of dds_take      *)
(* leaves behind do not raise it again.                                    *)
(***************************************************************************)
EXTENDS PubThread, FiniteSets

CONSTANTS
    Config,         \* the combinations of modes that are checked
    MaxTake,        \* subthread_arg.max_samples of each reader: 1000, 100 and 100
    Limit,          \* resource limit of the data and pong readers: 10000 samples
    Peers,          \* peers that answer a sample that asks for a pong
    MaxArrivals,    \* bound: samples that arrive, and pongs that are asked for
    MaxSignals      \* bound: signals from outside

Reader == {"data", "ping", "pong"}
Signal == {"HUP", "INT", "TERM"}
ConfigType == [pub : BOOLEAN, sub : {"none", "waitset", "polling", "listener"},
               pingpong : {"waitset", "listener"}, fed : SUBSET {"data", "ping"},
               asks : SUBSET {"data", "ping"}]

ASSUME ThreadsAssumption ==
    /\ Config \subseteq ConfigType
    /\ MaxTake \in [Reader -> Nat \ {0}]
    /\ Limit \in [{"data", "pong"} -> Nat \ {0}]
    /\ {Peers, MaxArrivals, MaxSignals} \subseteq Nat

VARIABLES
    config,         \* pub_rate > 0, submode, pingpong_waitset; the readers that peers write to
                    \* (fed); whether data samples, pings ask for pongs: ping_frac, ping_intv (asks)
    mpc,            \* the main thread
    termcond,       \* the guard condition
    spc,            \* sigthread
    tpc,            \* the thread of each reader
    samples,        \* samples in each reader
    available,      \* DATA_AVAILABLE of each reader
    listener,       \* readers that have a data_available listener
    recv,           \* the receive thread: what it does to which reader, or Idle
    owed,           \* external: pongs that were asked for and may still arrive
    exists,         \* readers not yet deleted
    buffers,        \* subthread_arg of the readers not yet freed
    pending,        \* signals that wait to be delivered
    masked,         \* the signals are blocked in the main thread
    ignored,        \* signals whose disposition is SIG_IGN
    status,         \* "running", exit status "0", "2" or "crash", or the signal that killed the process
    early,          \* history: the process was killed before it handled signals
    arrivals, sent  \* counters of the bounds

Idle == <<>>
Calling(r) == <<"listener", r>>     \* in the data_available listener of r
Stuck(r) == <<"stuck", r>>          \* waiting for room in r

readerVars == <<tpc, samples, available, listener, recv, owed>>
entityVars == <<exists, buffers>>
signalVars == <<spc, pending, masked, ignored, early>>
bounds == <<arrivals, sent>>
vars == <<config, mpc, termflag, termcond, pubVars, readerVars, entityVars, signalVars, status,
          bounds>>

TypeOK ==
    /\ PubTypeOK
    /\ config \in Config
    /\ mpc \in {"create", "mask", "run", "kill", "join_sig", "ignore", "unmask", "restore",
                "join_pub", "join_data", "join_ping", "join_pong", "unlisten", "delete_data",
                "free", "delete", "return"}
    /\ termcond \in BOOLEAN
    /\ spc \in {"absent", "sigwait", "flag", "cond", "done"}
    /\ tpc \in [Reader -> {"absent", "check", "process", "wait", "sleep", "done"}]
    /\ samples \in [Reader -> Nat] /\ \A r \in DOMAIN Limit : samples[r] <= Limit[r]
    /\ available \in [Reader -> BOOLEAN]
    /\ listener \subseteq Reader /\ recv \in {Idle} \cup {Calling(r) : r \in Reader} \cup {Stuck(r) : r \in DOMAIN Limit}
    /\ owed \in Nat
    /\ exists \subseteq Reader /\ buffers \subseteq Reader
    /\ pending \subseteq Signal /\ masked \in BOOLEAN /\ ignored \subseteq Signal
    /\ status \in {"running", "0", "2", "crash"} \cup Signal
    /\ early \in BOOLEAN

\* main has created the readers, the guard condition and the buffers of the threads.
Init ==
    /\ config \in Config
    /\ mpc = "create" /\ termflag = FALSE /\ termcond = FALSE
    /\ PubInit
    /\ spc = "absent"
    /\ tpc = [r \in Reader |-> "absent"]
    /\ samples = [r \in Reader |-> 0] /\ available = [r \in Reader |-> FALSE]
    /\ listener = {} /\ recv = Idle /\ owed = 0
    /\ exists = IF config.sub = "none" THEN Reader \ {"data"} ELSE Reader
    /\ buffers = Reader
    /\ pending = {} /\ masked = FALSE /\ ignored = {} /\ early = FALSE
    /\ status = "running"
    /\ arrivals = 0 /\ sent = 0

Running == status = "running"

\* How the samples of r are processed.
ModeOf(r) == IF r = "data" THEN config.sub ELSE config.pingpong

HasThread(r) == ModeOf(r) \in {"waitset", "polling"}

----------------------------------------------------------------------------
(* process_data, process_ping and process_pong.                            *)

\* A sample is written that may ask the peers for a pong: rd_pong is in the partition of this
\* participant, and nothing else arrives there.
Ask(k) ==
    owed' \in {owed} \cup (IF k \in config.asks /\ arrivals + owed + Peers <= MaxArrivals
                          THEN {owed + Peers} ELSE {})

\* dds_take on a reader that is gone fails and error2 exits with status 2; buffers that have
\* been freed are undefined behaviour.
StatusAfterTake(r) ==
    IF r \notin exists THEN "2" ELSE IF r \notin buffers THEN "crash" ELSE "running"

Taken(r) == IF samples[r] <= MaxTake[r] THEN samples[r] ELSE MaxTake[r]

\* In continuous mode the last pong of a round starts the next round (PingPong).
Process(r) ==
    /\ IF r = "pong" /\ samples[r] > 0 THEN Ask("ping") ELSE UNCHANGED owed
    /\ samples' = [samples EXCEPT ![r] = @ - Taken(r)]
    /\ available' = [available EXCEPT ![r] = FALSE]
    /\ status' = StatusAfterTake(r)

----------------------------------------------------------------------------
(* The receive thread of the DDS library.                                  *)

\* The sample of r is stored: ping readers keep the last one only.
Store(r) ==
    /\ samples' = [samples EXCEPT ![r] = IF r = "ping" THEN 1 ELSE @ + 1]
    /\ available' = [available EXCEPT ![r] = r \notin listener]
    /\ recv' = IF r \in listener THEN Calling(r) ELSE Idle

\* rd_pong is created with the resource limits of rd_data.
Full(r) == r \in DOMAIN Limit /\ samples[r] = Limit[r]

\* A sample of a peer or the answer to one of ours arrives; the thread waits when the reader
\* has reached its limit.
Arrive(r) ==
    /\ recv = Idle /\ r \in exists
    /\ IF r = "pong" THEN owed > 0 /\ owed' = owed - 1
                     ELSE r \in config.fed /\ UNCHANGED owed
    /\ arrivals < MaxArrivals
    /\ arrivals' = arrivals + 1
    /\ IF Full(r) THEN recv' = Stuck(r) /\ UNCHANGED <<samples, available>>
                  ELSE Store(r)
    /\ UNCHANGED <<config, mpc, termflag, termcond, pubVars, tpc, listener, entityVars,
                   signalVars, status, sent>>

\* There is room again, or the reader has been deleted.
Unstick ==
    /\ \E r \in DOMAIN Limit :
          /\ recv = Stuck(r)
          /\ \/ r \in exists /\ ~Full(r) /\ Store(r)
             \/ r \notin exists /\ recv' = Idle /\ UNCHANGED <<samples, available>>
    /\ UNCHANGED <<config, mpc, termflag, termcond, pubVars, tpc, listener, owed, entityVars,
                   signalVars, status, bounds>>

\* data_available_listener, ping_available_listener, pong_available_listener.
CallListener ==
    /\ \E r \in Reader : recv = Calling(r) /\ Process(r)
    /\ recv' = Idle
    /\ UNCHANGED <<config, mpc, termflag, termcond, pubVars, tpc, listener, entityVars,
                   signalVars, bounds>>

Receive == Unstick \/ CallListener

----------------------------------------------------------------------------
(* The threads of the readers.                                             *)

ThreadGoes(r, from, to) == tpc[r] = from /\ tpc' = [tpc EXCEPT ![r] = to]

\* subthread_waitset and subthread_polling process before they wait, the threads of pings
\* and pongs wait before they process.
Loop(r) ==
    /\ ThreadGoes(r, "check", IF termflag THEN "done" ELSE IF r = "data" THEN "process" ELSE "wait")
    /\ UNCHANGED <<config, mpc, termflag, termcond, pubVars, samples, available, listener, recv,
                   owed, entityVars, signalVars, status, bounds>>

\* Mutant: one call of process_data, then wait, as for the pongs.
AfterProcessWaits(r) == IF r = "data" THEN "wait" ELSE "check"

\* Only when nothing was taken does the thread of the data reader wait or sleep.
AfterProcess(r) ==
    IF r = "data" /\ samples[r] = 0
    THEN IF config.sub = "waitset" THEN "wait" ELSE "sleep"
    ELSE "check"

ProcessOnThread(r) ==
    /\ ThreadGoes(r, "process", AfterProcess(r))
    /\ Process(r)
    /\ UNCHANGED <<config, mpc, termflag, termcond, pubVars, listener, recv, entityVars,
                   signalVars, bounds>>

\* dds_waitset_wait returns when termcond is set or the reader has data available.
WaitReturns(r) ==
    /\ termcond \/ available[r]
    /\ ThreadGoes(r, "wait", IF r = "data" THEN "check" ELSE "process")
    /\ UNCHANGED <<config, mpc, termflag, termcond, pubVars, samples, available, listener, recv,
                   owed, entityVars, signalVars, status, bounds>>

\* dds_sleepfor (DDS_MSECS (1)).
SleepReturns(r) ==
    /\ ThreadGoes(r, "sleep", "check")
    /\ UNCHANGED <<config, mpc, termflag, termcond, pubVars, samples, available, listener, recv,
                   owed, entityVars, signalVars, status, bounds>>

ReaderThread(r) == Loop(r) \/ ProcessOnThread(r) \/ WaitReturns(r) \/ SleepReturns(r)

\* Each sample that is written is flagged as a ping or not.
Pub ==
    /\ PubStep
    /\ IF ntot' # ntot THEN Ask("data") ELSE UNCHANGED owed
    /\ status' = IF ppc' = "exit" THEN "2" ELSE status
    /\ UNCHANGED <<config, mpc, termflag, termcond, tpc, samples, available, listener, recv,
                   entityVars, signalVars, bounds>>

----------------------------------------------------------------------------
(* Signals.                                                                *)

\* External: somebody sends a signal.  The library blocks all signals in its threads, so that
\* only the main thread and sigthread matter.
Send(s) ==
    /\ sent < MaxSignals
    /\ sent' = sent + 1
    /\ IF masked THEN pending' = pending \cup {s} /\ UNCHANGED <<status, early>>
       ELSE /\ status' = IF s \in ignored THEN status ELSE s
            /\ early' = (status' # "running" /\ spc = "absent")
            /\ UNCHANGED pending
    /\ UNCHANGED <<config, mpc, termflag, termcond, pubVars, readerVars, entityVars, spc, masked,
                   ignored, arrivals>>

SigWait ==
    /\ spc = "sigwait"
    /\ \E s \in pending : pending' = pending \ {s}
    /\ spc' = "flag"
    /\ UNCHANGED <<config, mpc, termflag, termcond, pubVars, readerVars, entityVars, masked,
                   ignored, early, status, bounds>>

\* signal_handler sets termflag, then the guard condition.
SetTermflag ==
    /\ spc = "flag"
    /\ termflag' = TRUE
    /\ spc' = "cond"
    /\ UNCHANGED <<config, mpc, termcond, pubVars, readerVars, entityVars, pending, masked,
                   ignored, early, status, bounds>>

\* Mutant: the flag is set, but nobody that waits is woken.
TermcondSetNot == FALSE

TermcondSet == TRUE

SetTermcond ==
    /\ spc = "cond"
    /\ termcond' = TermcondSet
    /\ spc' = "done"
    /\ UNCHANGED <<config, mpc, termflag, pubVars, readerVars, entityVars, pending, masked,
                   ignored, early, status, bounds>>

Sig == SigWait \/ SetTermflag \/ SetTermcond

----------------------------------------------------------------------------
(* The main thread.                                                        *)

MainGoes(from, to) == mpc = from /\ mpc' = to

\* The threads and listeners that the modes ask for; samples may have arrived before.
CreateThreads ==
    /\ MainGoes("create", "mask")
    /\ ppc' = IF config.pub THEN "register" ELSE ppc
    /\ tpc' = [r \in Reader |->
                  IF ~HasThread(r) THEN "absent" ELSE "check"]
    /\ listener' = {r \in Reader : ModeOf(r) = "listener"}
    /\ UNCHANGED <<config, termflag, termcond, clock, t_write, time_interval, time_counter,
                   batch_counter, ntot, pending_since, hidden, samples, available, recv,
                   owed, entityVars, signalVars, status, bounds>>

\* Too few peers have matched in the initial wait: no thread is created.
GiveUp ==
    /\ MainGoes("create", "unlisten")
    /\ UNCHANGED <<config, termflag, termcond, pubVars, readerVars, entityVars, signalVars,
                   status, bounds>>

\* sigprocmask (SIG_BLOCK), then sigthread.
MaskSignals ==
    /\ MainGoes("mask", "run")
    /\ masked' = TRUE
    /\ spc' = "sigwait"
    /\ UNCHANGED <<config, termflag, termcond, pubVars, readerVars, entityVars, pending, ignored,
                   early, status, bounds>>

\* maybe_send_new_ping in the main loop; that the write succeeds is assumed.
SendPing ==
    /\ mpc = "run"
    /\ "ping" \in config.asks
    /\ Ask("ping")
    /\ UNCHANGED <<config, mpc, termflag, termcond, pubVars, tpc, samples, available, listener, recv,
                   entityVars, signalVars, status, bounds>>

\* The main loop wakes up at least once per second and sees termflag.
SeeTermflag ==
    /\ termflag
    /\ MainGoes("run", "kill")
    /\ UNCHANGED <<config, termflag, termcond, pubVars, readerVars, entityVars, signalVars,
                   status, bounds>>

\* The time is up, or too few peers have matched.
TimeIsUp ==
    /\ MainGoes("run", "kill")
    /\ UNCHANGED <<config, termflag, termcond, pubVars, readerVars, entityVars, signalVars,
                   status, bounds>>

\* kill (getpid (), SIGTERM) gets the attention of sigthread.
KillSelf ==
    /\ MainGoes("kill", "join_sig")
    /\ pending' = pending \cup {"TERM"}
    /\ UNCHANGED <<config, termflag, termcond, pubVars, readerVars, entityVars, spc, masked,
                   ignored, early, status, bounds>>

\* Mutant: only SIGINT is ignored before the mask is restored.
IgnoredAtEndInt == {"INT"}

IgnoredAtEnd == {"INT", "TERM"}

\* Ignoring a signal discards it when it is pending.
IgnoreSignals ==
    /\ MainGoes("ignore", "unmask")
    /\ ignored' = IgnoredAtEnd
    /\ pending' = pending \ IgnoredAtEnd
    /\ UNCHANGED <<config, termflag, termcond, pubVars, readerVars, entityVars, spc, masked,
                   early, status, bounds>>

\* sigprocmask (SIG_SETMASK, &osigset): what is pending and not ignored is delivered.
UnmaskSignals ==
    /\ MainGoes("unmask", "restore")
    /\ masked' = FALSE
    /\ pending' = {}
    /\ \/ pending \subseteq ignored /\ UNCHANGED status
       \/ \E s \in pending \ ignored : status' = s
    /\ UNCHANGED <<config, termflag, termcond, pubVars, readerVars, entityVars, spc, ignored,
                   early, bounds>>

\* signal (SIGINT, osigint); signal (SIGINT, osigterm): SIGTERM stays ignored.
RestoreHandlers ==
    /\ MainGoes("restore", "join_pub")
    /\ ignored' = ignored \ {"INT"}
    /\ UNCHANGED <<config, termflag, termcond, pubVars, readerVars, entityVars, spc, pending,
                   masked, early, status, bounds>>

\* Mutant: the thread of the data reader is not waited for.
JoinedNot(t) == t = "data" \/ tpc[t] \in {"absent", "done"}

Joined(t) == tpc[t] \in {"absent", "done"}

\* sigthread, pubthread, and the threads of the readers, one after the other.
JoinThread ==
    /\ \/ spc = "done" /\ MainGoes("join_sig", "ignore")
       \/ ppc \in {"absent", "done"} /\ MainGoes("join_pub", "join_data")
       \/ Joined("data") /\ MainGoes("join_data", "join_ping")
       \/ Joined("ping") /\ MainGoes("join_ping", "join_pong")
       \/ Joined("pong") /\ MainGoes("join_pong", "unlisten")
    /\ UNCHANGED <<config, termflag, termcond, pubVars, readerVars, entityVars, signalVars,
                   status, bounds>>

\* dds_set_listener (rd, NULL) for each reader; it returns when no listener is being called.
RemoveListeners ==
    /\ MainGoes("unlisten", "delete_data")
    /\ \A r \in Reader : recv # Calling(r)
    /\ listener' = {}
    /\ UNCHANGED <<config, termflag, termcond, pubVars, tpc, samples, available, recv, owed,
                   entityVars, signalVars, status, bounds>>

\* Mutant: the data reader is deleted together with everything else.
DeletedEarlyNone == {}

DeletedEarly == {"data"}

\* dds_delete (rd_data) gets the receive thread out of rd_data; one that is stuck elsewhere
\* keeps the garbage collector of the library, and with it the deletion, from finishing.
DeleteDataReader ==
    /\ MainGoes("delete_data", "free")
    /\ "data" \in exists \cap DeletedEarly => recv # Stuck("pong")
    /\ exists' = exists \ DeletedEarly
    /\ UNCHANGED <<config, termflag, termcond, pubVars, readerVars, buffers, signalVars, status,
                   bounds>>

\* fini_eseq_admin, subthread_arg_fini.
FreeBuffers ==
    /\ MainGoes("free", "delete")
    /\ buffers' = {}
    /\ UNCHANGED <<config, termflag, termcond, pubVars, readerVars, exists, signalVars, status,
                   bounds>>

\* dds_delete (dp) waits for the readers and writers that it deletes one after the other.
DeleteParticipant ==
    /\ MainGoes("delete", "return")
    /\ \A r \in DOMAIN Limit : recv # Stuck(r)
    /\ exists' = {}
    /\ UNCHANGED <<config, termflag, termcond, pubVars, readerVars, buffers, signalVars, status,
                   bounds>>

\* The return of main; the exit status is in Discovery, SeqTracking and StatsPrinter.
Return ==
    /\ mpc = "return"
    /\ status' = "0"
    /\ UNCHANGED <<config, mpc, termflag, termcond, pubVars, readerVars, entityVars, signalVars,
                   bounds>>

Main ==
    \/ CreateThreads \/ MaskSignals \/ SeeTermflag \/ KillSelf \/ IgnoreSignals \/ UnmaskSignals
    \/ RestoreHandlers \/ JoinThread \/ RemoveListeners \/ DeleteDataReader \/ FreeBuffers
    \/ DeleteParticipant \/ Return

Ended == ~Running /\ UNCHANGED vars

Next ==
    \/ Running /\ \/ Main \/ SendPing \/ TimeIsUp \/ GiveUp
                  \/ Sig \/ Pub \/ Receive
                  \/ \E r \in Reader : ReaderThread(r) \/ Arrive(r)
                  \/ \E s \in Signal : Send(s)
    \/ Ended

\* Every thread of the process and of the library runs.  Nothing makes samples or signals
\* arrive, and the run may have no time limit.
Fairness ==
    /\ WF_vars(Running /\ Main) /\ WF_vars(Running /\ Sig) /\ WF_vars(Running /\ Pub)
    /\ WF_vars(Running /\ Receive)
    /\ \A r \in Reader : WF_vars(Running /\ ReaderThread(r))

Spec == Init /\ [][Next]_vars /\ Fairness

----------------------------------------------------------------------------
(* Properties.                                                             *)

\* Neither a thread nor a listener uses a reader that has been deleted or a buffer that has
\* been freed, however late it sees termflag (ddsperf.c:2676-2678): status 2 comes from the
\* writes of pubthread only.
NothingUsedAfterDelete == status = "crash" \/ status = "2" => ppc = "exit"

\* The SIGTERM that main sends to itself never kills the process, whether sigthread takes it
\* or has ended before on another signal: a run that has started ends with its exit status.
OwnSignalHarmless == status = "TERM" => early

Ending == mpc \notin {"create", "mask", "run"} \/ termflag \/ ~Running

\* ddsperf.c:1203-1204: with DATA_AVAILABLE "we must read until nothing remains": the
\* samples of a data reader whose thread waits or polls are all processed, even when more
\* arrive at once than one call takes and none thereafter.
DataAllRead ==
    (samples["data"] > 0 /\ HasThread("data")) ~> (samples["data"] = 0 \/ Ending)

\* Whoever asks for the end, a signal, the time limit or a failed wait for peers, the process
\* ends: no thread misses it while it waits, sleeps, is blocked in a write or in its rate
\* control, and no join, no removal of a listener and no deletion waits for ever, even when
\* the receive thread is stuck in a full reader.
ProcessEnds == (termflag \/ mpc \in {"kill", "unlisten"}) ~> ~Running
=============================================================================
