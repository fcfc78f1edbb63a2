# Verification of dds_benchmark

The repository holds two benchmark programs for DDS: `ddsperf` (`docs/ref/`, C, about 3300
lines, the reference tool with all of the concurrent logic) and `bcli` (`utils/bcli/`, C++,
about 800 lines, a client under development that copies parts of it), next to two example
programs, generated message types and a vendored DDS library. This directory models the two
programs in TLA+, checks the models with TLC and proves their safety with TLAPS.

Paths below are relative to the repository root; `ddsperf.c` is `docs/ref/ddsperf.c`.

## 1. Inventory

### 1.1 ddsperf: threads and shared state

| thread | runs | takes |
|---|---|---|
| main | options, creation of entities, the loop once per second (`print_stats`, deadlines, `maybe_send_new_ping`), closing, exit status | `disc_lock`, `pongwr_lock`, `pongstat_lock`, lock of `eseq_admin` |
| al | `async_listener_thread`: the discovery handlers, one at a time | lock of the queue; `disc_lock`, `pongwr_lock` in handlers |
| DDS receive threads | the listeners: post discovery events; with `-L`, also `process_data`, `process_ping`, `process_pong` | lock of the queue; as the reader threads |
| reader threads | waitset or polling loops around `process_data`, `process_ping`, `process_pong` | lock of `eseq_admin`, `pongwr_lock`, `pongstat_lock` |
| pubthread | writes numbered data samples | none (atomics, histogram of its own) |
| sigthread | sets `termflag` | none |

### 1.2 Components

| component | state | operations | hard behaviour | what makes it correct |
|---|---|---|---|---|
| async event queue (`async_listener.c`) | mutex, condition, `stop`, linked list | new, start, enqueue of 3 kinds, thread loop, stop, free | wakeups, spurious returns, dangling `latest`, reuse of blocks, stop while handlers enqueue | every event handled once and in order; stop drains and returns; no use after free |
| round-trip measurement (`ddsperf.c` 931-965, 1067-1180) | `cur_ping_seq`, `n_pong_seen`, `n_pong_expected` | start a ping by the timer, by the last pong; answer pings; count pongs | two threads start rounds; check and count under different mutexes; lost and late pongs | a round ends only when answered; pinging goes on |
| discovery and exit status (`ddsperf.c` 1267-1550, 2300-2776) | participants tree, heap of deadlines, table of pong writers, counters | coming and going, matches, deadlines, waits, close | the handler runs on two threads; events outlive their entities; unsigned deltas | tables agree with the peers that run; counts add up; failure is final |
| sequence tracking (`ddsperf.c` 600-736, 824-928, 2698-2776) | numbers per writer; expected number per publication and key | write, take, check, exit | wrap-around, first sample in mid-cycle, several publications | a loss is reported exactly when there was one |
| statistics and printer (`ddsperf.c` 757-822, 876-964, 1572-1662, 2726-2734) | counts, rings of references, latency buffers of data and pongs | record, sum up, swap, print, check the roundtrips | printing without the lock, growing arrays, memory that is not set | every latency is in one report; buffers have one owner |
| publishing thread (`ddsperf.c` 619-736) | clock, timestamp, burst and rate state | write, retry, read the clock, sleep | timeouts of reliable writes, clock read for some samples only | time blocked in a write is recorded; the thread ends when told |
| table of pong writers (`ddsperf.c` 966-1016, 1267-1324) | entries of participant, publication and writer | create, look up and add, delete | readers add entries while discovery deletes those of peers that went | entries agree with the peers that run |
| reader threads and the end of the process (`ddsperf.c` 1018-1127, 1181-1265, 1711-1752, 2364-2776) | `termflag`, `termcond`, waitsets, listeners, signal mask | wait, take, signal, join, remove listeners, delete | signals at any point, status of a reader against its contents, full readers, order of deletion | all samples are taken; nothing deleted is used; the process ends when told |
| command line (`ddsperf.c` 1775-2236) | global options | parsing | none: sequential | its results are CONSTANTS |
| CPU and network load (`cputime.c`, `netload.c`) | previous counters | difference and print | threads that come and go | as the monitor of bcli |
| bcli publisher (`bcli_main.cpp`, `adapter_cyclonedds.*`) | `g_running`, `seq`, entities | create, write loop, snapshot, end | signal at any point; errors ignored | ends when told |
| bcli monitor (`bcli_cputime.cpp`) | previous thread times in an array | list, read, compare in place | threads that start and exit meanwhile | each usage is that thread's own |
| bcli latency and throughput (`bcli_netload.cpp`) | samples, expected number | add, compute | none: no command calls them | their results |

How they interact: DDS listeners *post* to the event queue; its thread *runs* the discovery
handlers; these change `n_pong_expected`, which the handler of pongs compares with
`n_pong_seen` to start the next ping; the tables of the discovery and the statistics of the
readers are read by main, which prints them and computes the exit status from them; closing
deletes the participant first, then stops the queue.

## 2. Modules

| module | models | checked by |
|---|---|---|
| `EventQueue` | abstract: what the event queue promises (a FIFO with one server, close, stop when drained) | property of `AsyncListener` |
| `AsyncListener` | `async_listener.c` at the grain of mutex, condition variable and pointers | run `AsyncListener` |
| `AsyncListenerProofs`, `PingPongProofs`, `DiscoveryProofs`, `SeqTrackingProofs`, `StatsPrinterProofs`, `ThreadsProofs`, `BcliProofs` | the inductive invariants and theorems of the modules they are named after (`ThreadsProofs` and `BcliProofs` also of `PubThread` and `BcliMonitor`) | tlapm |
| `SumTheorems` | lemmas on sums over finite sets, for `StatsPrinterProofs` | tlapm |
| `PingPong` | round-trip measurement of one process with its peers | `PingPong` |
| `Discovery` (`MCDiscovery`) | discovery, matching, the table of pong writers, waits, closing, exit status | `Discovery`, `Discovery_matchcount`, `Discovery_deleted` |
| `SeqTracking` (`MCSeqTracking`) | numbering, loss detection, exit status | `SeqTracking` |
| `StatsPrinter` (`MCStatsPrinter`) | statistics of data and pongs swapped and printed while samples arrive, check of the roundtrips | `StatsPrinter`, `StatsPrinter_freed`, `StatsPrinter_roundtrips` |
| `PubThread` | the publishing thread: writes, timeouts, clock, bursts, rate control | through `Threads` |
| `Threads` (`MCThreads`) | all threads from creation to exit, signals, composed with `PubThread` (EXTENDS) | `Threads`, `Threads_pong` |
| `BcliMonitor` | snapshots of the threads' CPU time | through `Bcli` |
| `Bcli` | the publisher of bcli, composed with `BcliMonitor` (EXTENDS) | `Bcli` |

The MC modules only add symmetry sets and values of constants that a .cfg cannot express.
Definitions that begin with "Mutant:" in their comment are variants with a plausible bug; no
specification uses them. Each is exchanged for the definition after it to see that a property
notices.

### 2.1 How state and actions correspond to the code

**AsyncListener.** `lock`, `stop`, `oldest`, `latest` are the fields of the same name; `event`,
`next` and `allocated` are the heap, whose blocks are reused; `alpc`, `epc`, `mainpc` are
program counters. An action is the code between two points where another thread can be
seen: `EnqueueAlloc` (malloc and copy, no lock), `EnqueueLock`, `EnqueueAppend` (append,
signal, unlock); `AlLock`, `AlWait`, `AlSpuriousWakeup`, `AlTake` (pop, unlock), `AlHandled`
(the handler returns, free), `AlExit`; `Start`, `DeleteParticipant`, `StopLock`,
`StopSignal`, `Join` of main. The three kinds of events differ only in payload, so that one
enqueue stands for the three callers. `fifo`, `posted` and `handled` are auxiliary; no guard
depends on the first, and `posted` only makes events unique.

**PingPong.** `TakePong`, `Compare`, `Count`, `Again`, `HandlerWrite` are the steps of
`process_pong` and `update_roundtrip` between their two mutexes; `TimeOut` and `MainWrite`
are `maybe_send_new_ping`. Peers answer with `PeerPong` (`process_ping`) and `PeerDataPong`
(`process_data` with a flagged sample). Clock and interval are one boolean `elapsed`.
`n_pong_expected` follows the peers through `Forget` and `Discover`, whose detail is in
`Discovery`.

**Discovery.** Both threads that run `async_participant_data_listener` have a program
counter, a sample and a delta. `Gone`, `Add`, `Create`, `Apply` are its parts between
`disc_lock` and `pongwr_lock`; `EndpointMatched` is the rest of the matched handlers; the queue
is that of `EventQueue`, which `AsyncListener` implements. Main goes through its phases
`start`, `sync` (the synchronous call of the handler), `endpoints`, `initwait`, `run`, `close`,
`deleted`, `stopped`, `exited`. `GetPongWriter` is the lookup of the readers, which gives the
entry of a participant the handle of the publication that asked, or adds one for its second
publication. The heap of deadlines is a set: its order only decides which
overdue entry is treated first. `Create` reads `pp->handle` without a lock (`HandleRead`): when
the other thread has freed the struct, the memory may hold the old handle, that of a participant
whose struct was allocated in the same place since, the own one included, or anything else
(`Junk`), so that every handle can be read. An entry of the table of pong writers carries the
handle of its participant, that of its publication (`NoPublication` at first), and the writer,
which is named after the participant in whose partition it writes: the partition comes from the
sample, not from the struct.

**SeqTracking.** The reader of the DDS library (external) keeps samples by instance and
returns them instance by instance. `CheckEseq` is `check_eseq`; `Exit` the part of main's
exit status that depends on it. Numbers are computed modulo `Modulus` where the code uses
`uint32_t`.

**StatsPrinter.** `CheckEseq` and `UpdateRoundtrip` record a sample or a pong (`Update`) or enter
a new publication (`Enter`); `Totals`, `Swap`, `PrintLatencies`, `PrintPongs`, `PrintEnds` are
`print_stats` between its critical sections, first over the publications of data (`table` =
"sublat"), then over those of pongs. `xfreed` says that realloc has moved the array that the
printer points into. A latency is the ordinal of its sample, so that one can see which were
printed. `totcnt` of a new peer starts with one of the values `Unset`, since neither realloc nor
`latencystat_init` sets it; in the passing run `Unset` is {0}.

**PubThread, Threads.** `CheckTerm`, `WriteTimesOut`, `WriteFails`, `Written`, `Nap`, `BurstEnds`
are the ways round the loop of `pubthread`; its clock is a number, a call takes one of the
durations `WriteTime`. In `Threads` the thread of a reader goes through `check` (`Loop`),
`process` (`ProcessOnThread`), `wait` or `sleep`; `CallListener` is the same work on the receive
thread. `SigWait`, `SetTermflag`, `SetTermcond` are `sigthread`; `KillSelf` to `RestoreHandlers`
what main does with signals at the end, then `JoinThread`, `RemoveListeners`, `DeleteDataReader`,
`FreeBuffers`, `DeleteParticipant`, `Return`. Of a sample only its number in the reader is kept.
A pong arrives only when one is `owed`: `rd_pong` is in the partition of this participant, and
peers write there to answer a sample of `pubthread` that is flagged as a ping (`Pub`), a ping of
the timer (`SendPing`) or one that follows the last pong of a round (`Process`). Each of these may
be answered by `Peers` peers or by nobody (`Ask`); `config.asks` says which are written at all.
External, from the way ddsperf relies on it: DATA_AVAILABLE is raised by an arrival (unless a
listener consumes it) and lowered by a take; a reader at its resource limit stops the receive
thread, a deleted reader lets it go; a deletion waits for the receive thread (the comment at
2686-2697); removing a listener waits until it is not being called; the threads that the library
creates block signals.

**Bcli, BcliMonitor.** `ListThreads`, `ReadThread`, `AllRead`, `CompareThread`, `Compared` are
`snapshot`; threads start, work and exit between them. `TestRunning`, `WriteSample`,
`StartSnapshot`, `TakeSnapshot`, `CheckClock` are the loop of `run_publisher`; `Signal` is the
handler. `seq` is kept modulo `Every`, which is all that the loop looks at.

## 3. Runs

| run | bounds | what it shows |
|---|---|---|
| `AsyncListener` | 3 callers (one of them al), 3 events, 3 blocks | the list is a FIFO, blocks have one owner, events are handled once and in order, no wakeup is lost, the assertions hold, stop drains and returns, every event is handled, and the queue implements `EventQueue` |
| `PingPong` | 2 peers, one departure or return, 3 rounds, 1 pong of a peer in flight, 1 flagged data sample | at most one stale pong per round; a round ends only when answered but for that one; no round waits for answers that have been given; the timer gets pinging to the last round whatever is lost |
| `Discovery` | the process and 1 peer, 2 kinds of endpoints, both waits, no data reader, two publications of the peer that ask for pongs | no participant that runs and no pong writer of a peer is missing from the tables, whatever handle was read from a freed struct; heap and counters agree; nothing is lost; closing ends |
| `Discovery_matchcount` | violation | a participant is counted twice in `matchcount` |
| `Discovery_deleted` | violation | a handler uses a deleted reader, and the process ends with status 2 |
| `SeqTracking` | 2 writers, 2 keys, 6 samples each, numbers modulo 3, losses | `nlost` is the number of keys for each sample lost, and nothing else; the exit status tells of a loss |
| `StatsPrinter` | 2 publications of data with 3 samples each and 1 of pongs with 2, buffers of 2, rings of 2, 3 calls | buffers have one owner; what is printed is the interval copied; every latency is in one report; the sums over one and `RefSize` calls are exact |
| `StatsPrinter_freed` | violation | the printer reads an array that realloc has freed |
| `StatsPrinter_roundtrips` | violation | too few roundtrips pass the check |
| `Threads` | 5 combinations of modes, 4 samples with takes of 1, 2 signals, bursts of 2 | nothing deleted or freed is used; the process does not kill itself; time blocked in a write is recorded; data readers are drained; the process ends once told to |
| `Threads_pong` | violation: a publisher whose samples are flagged, 3 pongs to them, `rd_pong` holds 2 | the pongs arrive after `pubthread` was joined and the listener removed, and `dds_delete (dp)` waits for ever |
| `Bcli` | 3 threads, an array of 3, a tick of CPU time each, a snapshot every 2 samples | usages are exact; the program ends when told |

Why the bounds are enough. The safety properties are proved for all bounds (section 4), so that the
bounds matter for the liveness properties and for noticing the variants with a bug.
*AsyncListener*: three events on three blocks let a block be freed and handed out again while
`latest` points to it and another caller is inserting. *PingPong*: three rounds let the main thread
start one between the comparison and the count of the handler and let the handler set
`cur_ping_seq` back; two peers let a count be reached by the wrong pongs. *Discovery*: one peer and
the process itself (which counts as a participant too when local ones are not ignored) give both
threads a sample to handle at the same time; the two kinds are one that follows the pong writer and
one that depends on the user data. The counter has 256 values, so that only wrap-around makes
negative deltas right. *SeqTracking*: numbers wrap at 3, so six samples of two keys wrap with
either phase of the key, and four samples lost in a row after the first are more than the code can
tell from the numbers: the premise `GapsShort` excepts this and no more than this. *StatsPrinter*:
a publication can overflow a buffer of two, and the calls wrap a ring of two. *Threads*: four
samples are more than the data reader holds (2) and more than one take returns (1), so that the
receive thread gets stuck and a waitset is entered with samples left; `rd_pong` holds 5 in the
passing run, more than arrive: this is the case that `Threads_pong` shows to go wrong. One peer
answers; pings are sent in the modes with a listener for all readers and with the waitsets of pings
and pongs, flagged samples in `Threads_pong` only, since together with the clock of `pubthread`
they multiply the states: with room for their pongs that configuration has all the properties of
`Threads`, too. Two signals let one end `sigthread` before main sends its own and another come at
the end. The modes are those that create different threads: publisher alone, data on a waitset, by
polling or on a listener, pings and pongs on waitsets. *Bcli*: three entries are the fewest in
which an exit moves a thread to a lower index; the limit of 64 threads (`bcli_cputime.cpp:45`) is
scaled to the number of threads and never cuts a list off.

Symmetry is used for the writers in `SeqTracking` and in the runs of `StatsPrinter`, none of
which checks a liveness property. Deadlock is checked except in `PingPong`, whose bound on ping
numbers stops it, and in the violation run `Threads_pong`, where the process does stop.

### 3.1 Fairness

* *AsyncListener*: weak fairness of the steps of each thread that need no lock, strong fairness
  of those that take the mutex: other threads may overtake a thread any number of times, but a
  pthread mutex does not starve one for ever. No fairness of enqueueing, of spurious wakeups, or of
  the end of the run.
* *PingPong*: both threads run, peers that run answer, time passes, departures are noticed.
  Loss has no fairness either way: `PingingGoesOn` holds if every message is lost.
* *Discovery*: main, the al thread and the deadlines. Peers need not come, match or go; the run
  need not end. That handlers return rests on their code, which is modelled, and on calls of the
  DDS library that do not block for ever.
* *Threads*: every thread of the process runs, and so does the receive thread, unless it waits.
  Nothing makes samples or signals arrive, no run time need end.
* *Bcli*: the main thread (a write blocks for a bounded time) and the clock. Other threads need do
  nothing.
* *SeqTracking*, *StatsPrinter*: safety only.

## 4. Proofs

TLC checks small instances; the theorems hold for every value of the constants that satisfies the
ASSUMEs of the modules. These say no more than the options of the programs do: sets that are
finite where they are counted, sizes and counts that are positive where the code divides by them
or indexes with them, special values that are none of the ordinary ones, fewer participants than
a 32-bit counter can count. The bounds of the runs (`MaxSeq`, `MaxWrites`, `MaxPrints` and so on)
are arbitrary numbers for the proofs, which therefore cover runs of any length.

| module | theorem | property |
|---|---|---|
| `AsyncListenerProofs` | `TypeCorrect` | `TypeOK` |
| | `Exclusion` | `MutualExclusion` (proved only: no run checks it, its violation shows in the other properties) |
| | `ListCorrect` | `ListIsFifo` |
| | `OwnedOnce` | `NodesOwnedOnce` |
| | `OnceInOrder` | `ExactlyOnceInOrder` |
| | `WakeupNeverLost` | `NoLostWakeup` |
| | `AssertionsNeverFail` | `AssertionsHold`, the two assertions of `async_listener.c` |
| | `StopDrains` | `DrainedWhenJoined` |
| | `QueueImplemented` | the safety half of `ImplementsEventQueue` |
| `PingPongProofs` | `TypeCorrect` | `TypeOK` |
| | `StaleBounded` | `AtMostOneStalePong` |
| | `RoundsAnswered` | `NextRoundAnswered`, a property of steps |
| | `PingPongGoesOn` | `NeverSilent`, if there is a peer at all |
| `DiscoveryProofs` | `TypeCorrect` | `TypeOK` |
| | `PongsExpected` | `ExpectedAddsUp` |
| | `HeapCorrect` | `HeapHoldsDeadlines` |
| | `NoSampleForgotten` | `SamplesHandled` |
| | `TablesFollow` | `TablesCurrent` |
| | `MatchesHandled` | `NoMatchLost` |
| | `MatchCount` | `MatchCountExact`, in a process without a data reader |
| `SeqTrackingProofs` | `TypeCorrect` | `TypeOK` |
| | `LossesExact` | `LossDetected` |
| | `ExitCorrect` | `ExitTellsLoss` |
| `StatsPrinterProofs` | `TypeCorrect` | `TypeOK` |
| | `BuffersOwned` | `BuffersOwnedOnce` |
| | `PrintedInterval` | `PrintedIsInterval` |
| | `LatenciesReported` | `EveryLatencyReported` |
| | `WindowsCorrect` | `WindowsExact` |
| `ThreadsProofs` | `TypeCorrect` | `TypeOK` |
| | `DeletedUnused` | `NothingUsedAfterDelete` |
| | `SigtermHarmless` | `OwnSignalHarmless` |
| | `BlockingRecorded` | `BlockingShows` |
| | `SamplesNoticed` | `DataNoticed`, the safety under `DataAllRead` |
| | `WaitsCanEnd` | `WaitsEnd`, the safety under `ProcessEnds` |
| `BcliProofs` | `TypeCorrect` | `TypeOK` |
| | `UsageCorrect` | `UsageExact` |

Each module states an inductive invariant `IInv`, which TLC has checked before it was proved, and
shows that Init implies it, that every action keeps it, part by part, and that it implies the
properties.

### 4.1 The inductive invariants

**AsyncListener.** `IInv` is the conjunction of the state properties (without the two assertions
and `DrainedWhenJoined`, which follow) with three more. `ControlInv` ties the program counters to
each other, to the mutex and to `stop`: who holds the mutex is inside a critical section, an
enqueue on the al thread happens only inside a handler, once the participant is gone no caller is
inserting, the al thread is done only with `stop` set and the list empty. It is needed because,
for instance, that nothing is enqueued after stop depends on the order in which main deletes and
stops. `NoLeak` says that whatever is allocated is linked, in its handler or being inserted:
without it nothing follows about freed memory when the queue has drained. `EventsDistinct` says
that no two calls carry the same event, which the abstract queue demands of a post. `ListIsFifo`
alone is not inductive: an append writes through `latest`, and that this changes no other link
needs `NodesOwnedOnce`; this in turn needs that the popped block is no longer linked.

*Refinement.* `Pending` (the events of the linked nodes), `Running` and `Phase` map the state to
that of `EventQueue`. `QueueInit` maps the initial states; `QueueStep` maps each step under
`IInv`: an append is a `Post`, `AlTake` is `Dispatch`, `AlHandled` is `Finish`, the
deletion of the participant is `Close`, `Join` is `Stop`; whatever only moves the mutex, the
condition variable or a program counter is a stutter.

**PingPong.** A pong is compared under one mutex and counted under another. `HeldPong` is what is
true in between: a pong of the current ping that the handler holds is not counted yet, and if the
round has changed since the comparison then nothing has been counted in the new one. `BitTellsPing`
says that the answers to pings and only they are counted, `CountsOK` that the expected number is
that of the known peers. `NeverSilent` needs a second invariant, `RoundInv`, for runs in which the
timer fires once and nothing is disturbed: the ping to be written, the answers under way, the pong
in the handler and those counted together are as many as the peers.

**Discovery.** `OnceInv` says that the sample with which a participant comes is in the reader or
with one thread; `TablesInv` and `MatchInv` say, for each gap between table and peers, in whose
hands the sample or in which place of the queue the event is that will close it; `SamplesInv` is
the same for the reader as a whole. `TablesInv` holds of the entries of pong writers, by the writer
they hold, because the handle in one may be wrong: a peer in the table that `Create` has served has
an entry with its handle and its own writer, the lookup of the readers keeps the writers of the
entries it changes, and only the going of a peer removes entries with its handle. What
`TablesFollow` says of participants that run has therefore no exception; the entries that a misread
handle leaves behind hold writers of participants whose going overtook their coming. `ControlInv`
says which thread may run the handler in which phase. `ExpectedAddsUp` and `HeapHoldsDeadlines` are
inductive with these. `MatchCount` adds `CountInv`: without a data reader, whoever matches is
waited for, once. The theorem has that hypothesis because the general statement is false: it is the
finding of `Discovery_matchcount`.

**SeqTracking.** `EseqInv` names the ordinal that each expected number stands for: `NKeys` after
the last sample of the key that was processed, or one in the first cycle after the first of all;
`InOrder` says that of the samples in the history, in the batch and in the reader those of one
publication and key are in the order they were written. With both, the difference of two numbers
of limited width is the distance between two ordinals less a multiple of `Modulus`, and
`GapsShort` makes that multiple 0. The lemmas on remainders (`Congruent`, `RemainderOfDistance`,
`CongruentApart`, `Progression`) carry the modular arithmetic.

**StatsPrinter.** `OwnersInv` gives each entry a buffer of its own, `ContentInv` says of every
buffer which latencies it holds, `EntriesInv` that arrays and publications correspond, `RingsInv`
that the k-th last reference of all rings together is the total at the k-th last call, from
which `WindowsExact` follows although rings start at different calls. The sums over the
publications are those of `SumTheorems`.

**Threads, PubThread.** The invariants say what the phase of main tells about the other threads:
`ReaderThreadsInv` until when a thread of a reader may run, `ListenerInv` until when a listener may
be called, `EntitiesInv` what has been taken apart, `SignalInv` which signals can reach main.
Two theorems are about single states that liveness depends on, and stated in `ThreadsProofs` only:
`DataNoticed` (nobody waits for samples that are there) and `WaitsEnd` (nothing that main waits for
waits in turn for something that does not come), which follows from `EndInv`: sigthread ends only
after both the flag and the guard condition are set.
`PendingInv` of `PubThread` says that a sample that is being tried again still has the timestamp
of its first try.

**Bcli, BcliMonitor.** `OrderInv`: threads only move to the front of the list, as older ones exit,
so that the entry searched for is never at an index that was overwritten; `TidsInv`: no thread
occurs twice; `ReadingInv` and `EarlierInv`: what the entries of both snapshots hold.

### 4.2 Where induction was needed

The provers have no induction of their own. Where a proof needs one, it goes by the smallest
counterexample, which `WFMin` of the library gives: for numbers (`SmallestNumber` in
`SeqTrackingProofs`, positions in a sequence in `BcliProofs`) and for finite sets
(`SmallestSubset` in `SumTheorems`). In this way
`SumTheorems` shows that `SumFunctionOnSet` of the community modules exists, is unique and adds,
and `SeqTrackingProofs` that `FlattenSeq` keeps an order that holds within and between the
sequences it joins.

### 4.3 Only model-checked

* Liveness: `EventuallyHandled`, `StopReturns`, `PingingGoesOn`, `CloseEnds`, `DataAllRead`,
  `ProcessEnds`, `EndsWhenTold`, and the fairness half of `ImplementsEventQueue`. Liveness under
  fairness and ENABLED are beyond the provers.
* The violation runs, whose properties are false of the code.

## 5. Where the code and its documentation disagree

The violation runs show five, each with the comment it contradicts (PROJECT.json, "findings"):
`matchcount` counting a participant twice (`ddsperf.c:1468`, against 125-128); handlers that use
the participant after it was deleted, because removing the listeners leaves their events in the
queue (2712, against 2676-2678); arrays used after the lock was released, while realloc may move
them (1640, against 1635-1636); a count of roundtrips that starts with what the memory holds
(757, against 175-176); a reader of pongs that can fill up and keep the process from ending
(2403, against 2686-2690 and 1797-1798).

Seen while modelling, without a run:

* A pong to an older ping may be counted for the current one (935), although `n_pong_seen` is "the
  number of pongs received for that sequence number" (267-273): the comparison and the count are
  under different mutexes. `AtMostOneStalePong` and `NextRoundAnswered` say how far that goes.
* A lost sample counts once per key (889, 892), although main prints the sum as "samples lost"
  (2758): `LossDetected` states the number exactly.
* The pong thread, unlike that of the data (1203-1204), waits after every take of 100 samples, and
  listeners take once per arrival: what is left stays until the next sample arrives.
* `signal (SIGINT, osigterm)` (2661) restores SIGINT twice, and SIGTERM stays ignored to the end.
* Both threads write their ping after unlocking, so that the ping written last need not carry
  `cur_ping_seq` (against 267-268); the round is then incomplete until the timer fires.
* "all known nodes have responded" (1113) compares counts only: a stale pong, or one of a peer
  that has gone, may stand for another's.
* `matchtimeout` (131-133, 2590) is counted and never read: a peer that fails to match in time
  is no error unless it is still unmatched at the end.
* `pp->handle` is read after the lock was released (1416): when the other thread has handled the
  going of the participant meanwhile, the handle may be that of any participant or of none. The
  entry then stays for ever, or is found for another participant, whose pongs go to the one that
  went. `TablesCurrent` says that nothing else goes wrong.
* main returns the loan of the data reader (2709) after it has deleted that reader (2698), so that
  the call fails, unnoticed. `NothingUsedAfterDelete` is about the threads and the listeners, not
  about main itself.
* `delete_pong_writer` (1306-1324) always returns 0, so that the writer is not deleted.
* With several publications on a reader, `dds_take` may return a younger sample of a publication
  first; its table of expected numbers is then too high for the other keys, and old samples count
  as about 2^32 lost. `LossDetected` and `ExitTellsLoss` except this case (`FirstIsOldest`). They
  also except gaps as long as the range of the numbers (`GapsShort`), as a reader of 32-bit
  numbers cannot see them.
* bcli: `read_status` compares the pattern up to its colon and reads the number from the colon on,
  so that both counters of context switches are always 0 (`bcli_cputime.cpp:29-32`); rate and
  size of the command line are never parsed; the result of a write is ignored, and the exit status
  is 0 or 1 where `docs/benchmark_client_spec.md` 9.1 wants 2 for a failed operation and 3 for
  wrong arguments; exceptions of the DDS constructors are not caught in `create_topic`, so that
  the checks for `HANDLE_INVALID` in `run_publisher` never fire; P50 is the 51st of 100 values
  (`bcli_netload.cpp:28`), where 3.4 of that document says the 50th.

## 6. Not modelled, and why

* Parsing of the command lines, formatting and printing: sequential, no property depends on
  them. Host names, user data and QoS are reduced to the sets and options of the CONSTANTS.
* The DDS library: external. The models hold what the programs rely on (best-effort loss,
  keep-last histories, listeners that do not run any more once the participant is deleted) and
  nothing more.
* Generated message types, examples, build files: no behaviour of interest.
* Failing writes of pings and pongs end the process with status 2 (`error2`); only those of
  `pubthread` are modelled.
* Clocks: a deadline, an interval or a run time passes at any moment.
* `cputime.c`, `netload.c`: the same differences of counters as the monitor of bcli, called by main
  only.
* The SIGXFSZ handler (1755-1768) calls `print_stats` in a signal and may wait for a lock of the
  thread it interrupts; a model of it needs every lock and output of `print_stats` as a step.
* `bcli_netload.cpp`: calculators that no command calls. Pure functions, without any state that
  other code sees.
* Percentiles and the histogram of the writes: sorting and arithmetic on what `StatsPrinter` shows
  to be the right latencies; the histogram is recorded and reset under its lock.
* Context switches and memory in the monitor of bcli (`read_status`): parsing of a file.

## 7. Plan

The components that carry the program's logic are modelled, and every safety property that a
passing run checks is proved, `MatchCountExact` in a process without a data reader. What could be
added: a proof of what `EventQueue` promises as an abstract specification (nothing lost or
repeated between `pending`, `running` and `done`), so that its users need the refinement only; and
for `AsyncListener` and `Discovery` the states that their liveness depends on, as `WaitsEnd` states
them for `Threads`.
