------------------------------ MODULE PingPong ------------------------------
(***************************************************************************)
(* Round-trip measurement of docs/ref/ddsperf.c, seen from one process     *)
(* that sends pings (mode "ping") while its peers answer with pongs.       *)
(*                                                                         *)
(* Two threads of the process start a new ping: the main thread, when a    *)
(* second has passed since the last one (maybe_send_new_ping), and in      *)
(* continuous mode (ping_intv = 0) the handler of the pong reader, when    *)
(* the pong it processes is the last one expected (process_pong).  They    *)
(* share cur_ping_seq, n_pong_seen and n_pong_expected; the handler        *)
(* compares the number of the pong under another mutex than the one it     *)
(* counts it under, and both threads write the ping after unlocking.       *)
(* The DDS library calls the handler of one reader by one thread at a time *)
(* (it uses one buffer of samples); print_stats only reads pongstat.       *)
(***************************************************************************)
EXTENDS Integers, Sequences, FiniteSets

CONSTANTS
    Peer,           \* the other participants
    Continuous,     \* ping_intv = 0: ping again as soon as everybody has answered
    MaxSeq,         \* bound: pings are numbered up to MaxSeq
    MaxChange,      \* bound: how many times a peer goes
    MaxData,        \* bound: how many data samples are flagged as a ping
    MaxInFlight     \* bound: pongs of one peer that wait in the reader

ASSUME ConstantsAssumption ==
    /\ IsFiniteSet(Peer)
    /\ Continuous \in BOOLEAN
    /\ {MaxSeq, MaxChange, MaxData, MaxInFlight} \subseteq Nat

VARIABLES
    cur_ping_seq,       \* number of the latest ping
    n_pong_seen,        \* pongs counted since then
    n_pong_expected,    \* participants that are expected to answer
    elapsed,            \* the ping interval has passed since cur_ping_time
    hpc, hseq,          \* the pong handler: where it is, the number in its sample
    mpc, mseq,          \* the main thread: where it is, the number in its sample
    inbox,              \* ping in the keep-last-1 reader of each peer (0: none)
    pongs,              \* pongs of each peer not yet taken, oldest first
    alive,              \* the peers that run
    known,              \* the peers that n_pong_expected counts
    taken,              \* history: how often a pong to ping s was taken, for each s
    lost,               \* history: a ping or a pong was lost
    timeouts,           \* history: rounds started by the main thread, 2 for more than one
    changes, data       \* counters of the bounds

pingVars == <<cur_ping_seq, n_pong_seen, elapsed>>
handlerVars == <<hpc, hseq>>
mainVars == <<mpc, mseq>>
netVars == <<inbox, pongs>>
peerVars == <<alive, known, n_pong_expected>>
history == <<taken, lost, timeouts>>
bounds == <<changes, data>>
vars == <<pingVars, handlerVars, mainVars, netVars, peerVars, history, bounds>>

PingSeq == 0 .. MaxSeq
Pong == [seq : PingSeq, lsb : {0, 1}, origin : {"ping", "data"}]

TypeOK ==
    /\ cur_ping_seq \in PingSeq
    /\ n_pong_seen \in Nat
    /\ n_pong_expected \in 0 .. Cardinality(Peer)
    /\ elapsed \in BOOLEAN
    /\ hpc \in {"idle", "compare", "count", "again", "write"} /\ hseq \in PingSeq
    /\ mpc \in {"idle", "write"} /\ mseq \in PingSeq
    /\ inbox \in [Peer -> PingSeq]
    /\ pongs \in [Peer -> Seq(Pong)]
    /\ alive \subseteq Peer /\ known \subseteq Peer
    /\ taken \in [PingSeq -> Nat]
    /\ lost \in BOOLEAN /\ timeouts \in 0 .. 2

\* The main thread has found its peers; the first ping is due one second later.
Init ==
    /\ cur_ping_seq = 0 /\ n_pong_seen = 0 /\ elapsed = FALSE
    /\ hpc = "idle" /\ hseq = 0 /\ mpc = "idle" /\ mseq = 0
    /\ inbox = [p \in Peer |-> 0]
    /\ pongs = [p \in Peer |-> <<>>]
    /\ alive = Peer /\ known = Peer /\ n_pong_expected = Cardinality(Peer)
    /\ taken = [s \in PingSeq |-> 0] /\ lost = FALSE /\ timeouts = 0 /\ changes = 0 /\ data = 0

----------------------------------------------------------------------------
(* Samples.  The least significant bit of the source timestamp tells what  *)
(* a sample is for: a ping carries 1; a data sample carries 1 when it asks *)
(* for a pong; a pong carries 1 when it answers a ping.                    *)

\* dds_write_ts (wr_ping, ..., dds_time () | 1): the readers of the peers keep the last.
WritePing(s) == inbox' = [p \in Peer |-> IF p \in alive THEN s ELSE inbox[p]]

\* Mutant: the answer to a data sample keeps the timestamp of the sample.
DataPongBitKept == 1

\* process_data answers with source_timestamp - 1, process_ping with source_timestamp | 1.
DataPongBit == 1 - 1
PingPongBit == 1

SendPong(p, s, bit, from) ==
    /\ Len(pongs[p]) < MaxInFlight
    /\ pongs' = [pongs EXCEPT ![p] = Append(@, [seq |-> s, lsb |-> bit, origin |-> from])]

----------------------------------------------------------------------------
(* The peers.                                                              *)

\* process_ping: take the ping, answer it on the pong writer of its participant.
PeerPong(p) ==
    /\ p \in alive
    /\ inbox[p] # 0
    /\ SendPong(p, inbox[p], PingPongBit, "ping")
    /\ inbox' = [inbox EXCEPT ![p] = 0]
    /\ UNCHANGED <<pingVars, handlerVars, mainVars, peerVars, history, bounds>>

\* process_data: a data sample with lsb 1 is answered as well; its number is any.
PeerDataPong(p, s) ==
    /\ p \in alive
    /\ data < MaxData
    /\ data' = data + 1
    /\ SendPong(p, s, DataPongBit, "data")
    /\ UNCHANGED <<pingVars, handlerVars, mainVars, inbox, peerVars, history, changes>>

\* Best-effort topics lose samples, and so do the keep-last-1 histories when overwhelmed.
Lose(p) ==
    /\ \/ inbox[p] # 0 /\ inbox' = [inbox EXCEPT ![p] = 0] /\ UNCHANGED pongs
       \/ pongs[p] # <<>> /\ pongs' = [pongs EXCEPT ![p] = Tail(@)] /\ UNCHANGED inbox
    /\ lost' = TRUE
    /\ UNCHANGED <<pingVars, handlerVars, mainVars, peerVars, taken, timeouts,
                   bounds>>

\* A peer stops; the process learns it later.
Leave(p) ==
    /\ p \in alive
    /\ changes < MaxChange
    /\ changes' = changes + 1
    /\ alive' = alive \ {p}
    /\ inbox' = [inbox EXCEPT ![p] = 0]
    /\ UNCHANGED <<pingVars, handlerVars, mainVars, pongs, known, n_pong_expected,
                   history, data>>

\* Mutant: a participant that goes is still expected to answer.
WithoutItKept == n_pong_expected

WithoutIt == n_pong_expected - 1

\* async_participant_data_listener adds its delta to n_pong_expected under pongwr_lock.
Forget(p) ==
    /\ p \in known \ alive
    /\ known' = known \ {p}
    /\ n_pong_expected' = WithoutIt
    /\ UNCHANGED <<pingVars, handlerVars, mainVars, netVars, alive, history, bounds>>

Discover(p) ==
    /\ p \notin known
    /\ alive' = alive \cup {p}
    /\ known' = known \cup {p}
    /\ n_pong_expected' = n_pong_expected + 1
    /\ UNCHANGED <<pingVars, handlerVars, mainVars, netVars, history, bounds>>

----------------------------------------------------------------------------
(* The handler of the pong reader: process_pong, update_roundtrip.         *)

IsPing(m) == m.lsb = 1

\* dds_take; a pong to a data sample only updates the statistics of its writer.
TakePong(p) ==
    /\ hpc = "idle"
    /\ pongs[p] # <<>>
    /\ LET m == Head(pongs[p])
       IN  /\ hseq' = m.seq
           /\ hpc' = IF IsPing(m) THEN "compare" ELSE "idle"
           /\ taken' = IF m.origin = "ping" THEN [taken EXCEPT ![m.seq] = @ + 1] ELSE taken
    /\ pongs' = [pongs EXCEPT ![p] = Tail(@)]
    /\ UNCHANGED <<pingVars, mainVars, inbox, peerVars, lost, timeouts,
                   bounds>>

\* Mutant: every pong to a ping counts, however old.
MatchesAny == TRUE

\* seq == cur_ping_seq, under pongstat_lock but not under pongwr_lock.
Matches == hseq = cur_ping_seq

Compare ==
    /\ hpc = "compare"
    /\ hpc' = IF Matches THEN "count" ELSE "idle"
    /\ UNCHANGED <<pingVars, hseq, mainVars, netVars, peerVars, history, bounds>>

AllSeen == n_pong_seen + 1 = n_pong_expected

\* ++n_pong_seen under pongwr_lock, then the statistics and the return to process_pong.
Count ==
    /\ hpc = "count"
    /\ n_pong_seen' = n_pong_seen + 1
    /\ hpc' = IF AllSeen /\ Continuous THEN "again" ELSE "idle"
    /\ UNCHANGED <<cur_ping_seq, elapsed, hseq, mainVars, netVars, peerVars, history,
                   bounds>>

\* Mutant: the pongs of the new round are added to those of the old one.
SeenKept == n_pong_seen

SeenReset == 0

\* ++(*seq): the successor of the number in the sample.
NextFromPong == hseq + 1

\* Start the next round under pongwr_lock.
Again ==
    /\ hpc = "again"
    /\ NextFromPong <= MaxSeq
    /\ n_pong_seen' = SeenReset
    /\ elapsed' = FALSE
    /\ cur_ping_seq' = NextFromPong
    /\ hseq' = NextFromPong
    /\ hpc' = "write"
    /\ UNCHANGED <<mainVars, netVars, peerVars, history, bounds>>

HandlerWrite ==
    /\ hpc = "write"
    /\ WritePing(hseq)
    /\ hpc' = "idle"
    /\ UNCHANGED <<pingVars, hseq, mainVars, pongs, peerVars, history, bounds>>

HandlerStep == (\E p \in Peer : TakePong(p)) \/ Compare \/ Count \/ Again \/ HandlerWrite

----------------------------------------------------------------------------
(* The main thread: maybe_send_new_ping.                                   *)

\* The ping interval passes.
Tick ==
    /\ ~elapsed
    /\ elapsed' = TRUE
    /\ UNCHANGED <<cur_ping_seq, n_pong_seen, handlerVars, mainVars, netVars, peerVars,
                   history, bounds>>

\* Mutant: a ping is sent again only when the last one has been answered.
MayTimeOutAnswered == elapsed /\ n_pong_seen >= n_pong_expected

\* tnow >= cur_ping_time + ping_intv (one second in continuous mode).
MayTimeOut == elapsed

\* Under pongwr_lock: start a new round whether or not the last one is complete.
TimeOut ==
    /\ mpc = "idle"
    /\ MayTimeOut
    /\ cur_ping_seq < MaxSeq
    /\ n_pong_seen' = SeenReset
    /\ elapsed' = FALSE
    /\ cur_ping_seq' = cur_ping_seq + 1
    /\ mseq' = cur_ping_seq + 1
    /\ mpc' = "write"
    /\ timeouts' = IF timeouts = 0 THEN 1 ELSE 2
    /\ UNCHANGED <<handlerVars, netVars, peerVars, taken, lost, bounds>>

MainWrite ==
    /\ mpc = "write"
    /\ WritePing(mseq)
    /\ mpc' = "idle"
    /\ UNCHANGED <<pingVars, handlerVars, mseq, pongs, peerVars, history, bounds>>

Next ==
    \/ \E p \in Peer : \/ PeerPong(p) \/ Lose(p) \/ Leave(p) \/ Forget(p) \/ Discover(p)
                       \/ \E s \in PingSeq \ {0} : PeerDataPong(p, s)
    \/ HandlerStep
    \/ Tick \/ TimeOut \/ MainWrite

\* The threads of the process run, peers that run answer, time passes.
Fairness ==
    /\ WF_vars(HandlerStep) /\ WF_vars(MainWrite) /\ WF_vars(TimeOut) /\ WF_vars(Tick)
    /\ \A p \in Peer : WF_vars(PeerPong(p)) /\ WF_vars(Forget(p))

Spec == Init /\ [][Next]_vars /\ Fairness

----------------------------------------------------------------------------
(* Properties.                                                             *)

\* The race between the comparison and the count costs at most one pong per round: the
\* number of pongs seen exceeds those taken for the current ping by one at most, pongs to
\* data samples and pongs taken for older pings are never counted otherwise.
AtMostOneStalePong == n_pong_seen <= taken[cur_ping_seq] + 1

\* The handler starts the next round only when as many pongs were taken for the current
\* ping as are expected, but for the one stale pong that the race may count.
NextRoundAnswered ==
    [][hpc = "count" /\ hpc' = "again" => taken[cur_ping_seq] + 1 >= n_pong_expected]_vars

\* Whatever is lost and whoever comes or goes, the timer starts ping after ping.
PingingGoesOn == <>(cur_ping_seq = MaxSeq)

\* Nothing is under way: no ping, no pong, no step of the two threads.
Silent ==
    /\ hpc = "idle" /\ mpc = "idle"
    /\ \A p \in Peer : inbox[p] = 0 /\ pongs[p] = <<>>

\* In continuous mode one ping of the timer is enough: when nothing is lost and nobody comes
\* or goes, every round completes and starts the next one, and pinging never falls silent.
NeverSilent ==
    Continuous /\ timeouts = 1 /\ ~lost /\ changes = 0 /\ Silent => cur_ping_seq = MaxSeq
=============================================================================
