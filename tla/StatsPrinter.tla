---------------------------- MODULE StatsPrinter ----------------------------
(***************************************************************************)
(* The statistics of ddsperf (docs/ref/ddsperf.c) and the thread that      *)
(* prints them: check_eseq counts the samples of each publication of data, *)
(* update_roundtrip the pongs of each publication of pongs, and both keep  *)
(* the latencies in a buffer; once per second print_stats sums up the      *)
(* counts over rings of references and swaps the buffer of each entry of   *)
(* both tables for an empty one, which it prints after unlocking the table.*)
(*                                                                         *)
(* Both tables are arrays that grow by realloc, which may move them; of    *)
(* the pongs nothing is read after unlocking.                              *)
(***************************************************************************)
EXTENDS Integers, Sequences, FiniteSets, Functions

CONSTANTS
    Writer,         \* publication handles of data
    PongWriter,     \* publication handles of pongs
    Buffer,         \* heap blocks of PINGPONG_RAWSIZE latencies
    NoBuffer,       \* no block
    RawSize,        \* PINGPONG_RAWSIZE
    RefSize,        \* length of eseq_stat.ref
    MinRoundtrips,  \* min_roundtrips: option "roundtrips:N"
    Unset,          \* what memory may hold that was never set
    MaxSamples,     \* bound: samples of each publication
    MaxPongs,       \* bound: pongs of each publication
    MaxPrints       \* bound: calls of print_stats

ASSUME ConstantsAssumption ==
    /\ IsFiniteSet(Writer) /\ IsFiniteSet(PongWriter) /\ Writer \cap PongWriter = {}
    /\ IsFiniteSet(Buffer)
    /\ Cardinality(Buffer) > Cardinality(Writer) + Cardinality(PongWriter)
    /\ NoBuffer \notin Buffer
    /\ RawSize \in Nat \ {0} /\ RefSize \in Nat \ {0, 1}
    /\ Unset \subseteq Nat /\ Unset # {}
    /\ {MinRoundtrips, MaxSamples, MaxPongs, MaxPrints} \subseteq Nat

VARIABLES
    ph,             \* eseq_admin.ph: the publications of data, in the order they came
    pongstat,       \* pongstat[].pubhandle: those of pongs
    nrecv,          \* stats[].nrecv; history for the pongs
    totcnt,         \* pongstat[].info.totcnt
    ref, refidx,    \* stats[].ref[].nrecv and stats[].refidx
    raw, cnt,       \* info.raw and .cnt of each entry
    mem,            \* the content of each buffer: ordinals of samples for their latencies
    allocated,      \* the buffers that malloc has given out
    pc, table, i,   \* print_stats: where it is, the table and the entry it works on
    newraw,         \* its empty buffer
    y,              \* its copy of the latencies of entry i
    xfreed,         \* x, its pointer to entry i, points into an array that has been freed
    closed,         \* the reader and the statistics are gone
    roundtrips_ok,  \* then: no peer has answered too rarely
    reported,       \* history: latencies printed, for each publication
    totals,         \* history: samples received at each call of print_stats
    shown           \* history: the samples of the last second and of the last RefSize seconds

tableVars == <<ph, pongstat, nrecv, totcnt, ref, refidx>>
latencyVars == <<raw, cnt, mem, allocated>>
printVars == <<pc, table, i, newraw, y, xfreed>>
endVars == <<closed, roundtrips_ok>>
history == <<reported, totals, shown>>
vars == <<tableVars, latencyVars, printVars, endVars, history>>

Slot == 0 .. RawSize - 1
Ref == 0 .. RefSize - 1
Publication == Writer \cup PongWriter
Known == {ph[j] : j \in DOMAIN ph}
Entered == Known \cup {pongstat[j] : j \in DOMAIN pongstat}

TypeOK ==
    /\ ph \in Seq(Writer) /\ Len(ph) <= Cardinality(Writer)
    /\ pongstat \in Seq(PongWriter) /\ Len(pongstat) <= Cardinality(PongWriter)
    /\ nrecv \in [Publication -> Nat] /\ totcnt \in [PongWriter -> Nat]
    /\ ref \in [Writer -> [Ref -> Nat]] /\ refidx \in [Writer -> Ref]
    /\ raw \in [Publication -> Buffer \cup {NoBuffer}] /\ cnt \in [Publication -> Nat]
    /\ mem \in [Buffer -> [Slot -> Nat]]
    /\ allocated \subseteq Buffer
    /\ pc \in {"idle", "loop", "print"} /\ table \in {"sublat", "pong"}
    /\ i \in 1 .. Cardinality(Publication) + 1
    /\ newraw \in Buffer \cup {NoBuffer}
    /\ y \in [w : Publication, raw : Buffer, cnt : Nat, from : Nat] \cup {<<>>}
    /\ xfreed \in BOOLEAN /\ closed \in BOOLEAN /\ roundtrips_ok \in BOOLEAN
    /\ reported \in [Publication -> Nat] /\ totals \in Seq(Nat)
    /\ shown \in [second : Nat, window : Nat]

Init ==
    /\ ph = <<>>
    /\ pongstat = <<>>
    /\ nrecv = [w \in Publication |-> 0] /\ totcnt = [w \in PongWriter |-> 0]
    /\ ref = [w \in Writer |-> [r \in Ref |-> 0]] /\ refidx = [w \in Writer |-> 0]
    /\ raw = [w \in Publication |-> NoBuffer] /\ cnt = [w \in Publication |-> 0]
    /\ mem = [b \in Buffer |-> [s \in Slot |-> 0]]
    /\ allocated = {}
    /\ pc = "idle" /\ table = "sublat" /\ i = 1 /\ newraw = NoBuffer /\ y = <<>> /\ xfreed = FALSE
    /\ closed = FALSE /\ roundtrips_ok = TRUE
    /\ reported = [w \in Publication |-> 0] /\ totals = <<>>
    /\ shown = [second |-> 0, window |-> 0]

----------------------------------------------------------------------------
(* The readers of data and of pongs: check_eseq, update_roundtrip.         *)

\* latencystat_update: latencies beyond the buffer are counted and not kept.
Recorded(b, n, ordinal) == IF n < RawSize THEN [mem EXCEPT ![b][n] = ordinal] ELSE mem

\* One more sample of a publication that has an entry.
Update(w) ==
    /\ ~closed
    /\ nrecv' = [nrecv EXCEPT ![w] = @ + 1]
    /\ mem' = Recorded(raw[w], cnt[w], nrecv[w] + 1)
    /\ cnt' = [cnt EXCEPT ![w] = @ + 1]
    /\ UNCHANGED <<ref, refidx, raw, allocated, endVars, history>>

\* The first sample of a publication: the new entry gets a buffer.
Enter(w) ==
    /\ ~closed
    /\ nrecv' = [nrecv EXCEPT ![w] = 1]
    /\ \E b \in Buffer \ allocated :
         /\ allocated' = allocated \cup {b}
         /\ raw' = [raw EXCEPT ![w] = b]
         /\ mem' = Recorded(b, 0, 1)
    /\ cnt' = [cnt EXCEPT ![w] = 1]
    /\ UNCHANGED <<ref, refidx, endVars, history>>

\* check_eseq, under the lock of eseq_admin.  realloc makes room at the end of the array, in
\* place or elsewhere; the entry is zeroed.
CheckEseq(w) ==
    /\ UNCHANGED <<totcnt, pongstat, pc, table, i, newraw, y>>
    /\ \/ /\ w \in Known /\ nrecv[w] < MaxSamples /\ Update(w)
          /\ UNCHANGED <<ph, xfreed>>
       \/ /\ w \notin Known /\ Enter(w)
          /\ ph' = Append(ph, w)
          /\ \E moves \in BOOLEAN :
               xfreed' = (xfreed \/ (moves /\ pc = "print" /\ table = "sublat"))

\* update_roundtrip, under pongstat_lock; its comparison of numbers is in PingPong.  The memory
\* of a new entry is not zeroed, and latencystat_init leaves totcnt out.
UpdateRoundtrip(p) ==
    /\ UNCHANGED <<ph, printVars>>
    /\ \/ /\ p \in Entered /\ nrecv[p] < MaxPongs /\ Update(p)
          /\ totcnt' = [totcnt EXCEPT ![p] = @ + 1]
          /\ UNCHANGED pongstat
       \/ /\ p \notin Entered /\ Enter(p)
          /\ pongstat' = Append(pongstat, p)
          /\ \E n \in Unset : totcnt' = [totcnt EXCEPT ![p] = n + 1]

----------------------------------------------------------------------------
(* The main thread: print_stats, once per second.                          *)

\* Mutant: the newest reference is looked up where the next one goes.
NewestRefAtIndex(w) == refidx[w]

\* refidx1s: the reference written last.
NewestRef(w) == IF refidx[w] = 0 THEN RefSize - 1 ELSE refidx[w] - 1

\* refidx10s: the reference that is overwritten next.
OldestRef(w) == refidx[w]

\* Mutant: the index is not wrapped.
NextRefUnwrapped(w) == refidx[w] + 1

NextRef(w) == IF refidx[w] + 1 = RefSize THEN 0 ELSE refidx[w] + 1

\* malloc of newraw, then the totals of all entries under the lock.
Totals ==
    /\ pc = "idle"
    /\ ~closed
    /\ Len(totals) < MaxPrints
    /\ \E b \in Buffer \ allocated : newraw' = b /\ allocated' = allocated \cup {b}
    /\ shown' = [second |-> SumFunctionOnSet([w \in Writer |-> nrecv[w] - ref[w][NewestRef(w)]], Known),
                 window |-> SumFunctionOnSet([w \in Writer |-> nrecv[w] - ref[w][OldestRef(w)]], Known)]
    /\ totals' = Append(totals, SumFunctionOnSet(nrecv, Known))
    /\ ref' = [w \in Writer |-> IF w \in Known THEN [ref[w] EXCEPT ![refidx[w]] = nrecv[w]] ELSE ref[w]]
    /\ refidx' = [w \in Writer |-> IF w \in Known THEN NextRef(w) ELSE refidx[w]]
    /\ pc' = "loop" /\ table' = "sublat" /\ i' = 1
    /\ UNCHANGED <<ph, pongstat, nrecv, totcnt, raw, cnt, mem, y, xfreed, endVars, reported>>

\* Mutant: the entry is reset before it is copied.
CopiedCountAfterReset(w) == 0

CopiedCount(w) == cnt[w]

\* Mutant: the entry keeps its buffer.
RawAfterResetKept(w) == raw[w]

RawAfterReset(w) == newraw

\* The entries that the loop goes through.
Entries == IF table = "sublat" THEN ph ELSE pongstat

\* Under the lock of the table: copy the latencies of entry i and reset them.  For the data x
\* points into the array, for the pongs the whole entry is copied.
Swap ==
    /\ pc = "loop"
    /\ i <= Len(Entries)
    /\ LET w == Entries[i]
       IN  /\ y' = [w |-> w, raw |-> raw[w], cnt |-> CopiedCount(w), from |-> nrecv[w] - cnt[w]]
           /\ raw' = [raw EXCEPT ![w] = RawAfterReset(w)]
           /\ cnt' = [cnt EXCEPT ![w] = 0]
    /\ pc' = "print"
    /\ UNCHANGED <<tableVars, mem, allocated, table, i, newraw, xfreed, endVars, history>>

\* Mutant: the buffer that latencystat_print returns is dropped.
ReturnedRawDropped == newraw

\* latencystat_print returns the buffer it has printed, for the next entry.
ReturnedRaw == y.raw

\* After unlocking: for the data x->last_size, ea->ph[i] and ea->pph[i] are read from the
\* arrays; the percentiles are printed (sorting y.raw moves its latencies only).
PrintLatencies ==
    /\ pc = "print"
    /\ reported' = [reported EXCEPT ![y.w] = @ + y.cnt]
    /\ newraw' = ReturnedRaw
    /\ y' = <<>> /\ xfreed' = FALSE
    /\ i' = i + 1
    /\ pc' = "loop"
    /\ UNCHANGED <<tableVars, latencyVars, table, endVars, totals, shown>>

\* Entries that came during the loop have been printed too; the pongs follow.
PrintPongs ==
    /\ pc = "loop" /\ table = "sublat"
    /\ i > Len(ph)
    /\ table' = "pong" /\ i' = 1
    /\ UNCHANGED <<tableVars, latencyVars, pc, newraw, y, xfreed, endVars, history>>

\* The buffer that is left is freed.
PrintEnds ==
    /\ pc = "loop" /\ table = "pong"
    /\ i > Len(pongstat)
    /\ allocated' = allocated \ {newraw}
    /\ newraw' = NoBuffer
    /\ pc' = "idle" /\ table' = "sublat" /\ i' = 1
    /\ UNCHANGED <<tableVars, raw, cnt, mem, y, xfreed, endVars, history>>

\* The end of main, the readers being gone: fini_eseq_admin and latencystat_fini free the
\* buffers, the counts of pongs are part of the exit status.
Fini ==
    /\ pc = "idle"
    /\ ~closed
    /\ closed' = TRUE
    /\ roundtrips_ok' = \A j \in DOMAIN pongstat : totcnt[pongstat[j]] >= MinRoundtrips
    /\ allocated' = allocated \ {raw[w] : w \in Entered}
    /\ UNCHANGED <<tableVars, raw, cnt, mem, printVars, history>>

Closed == closed /\ UNCHANGED vars

Next ==
    \/ \E w \in Writer : CheckEseq(w)
    \/ \E p \in PongWriter : UpdateRoundtrip(p)
    \/ Totals \/ Swap \/ PrintLatencies \/ PrintPongs \/ PrintEnds
    \/ Fini \/ Closed

Spec == Init /\ [][Next]_vars

----------------------------------------------------------------------------
(* Properties.                                                             *)

\* The buffers held by the entries of the table and by the printer.
Held == IF pc = "print" THEN {y.raw} ELSE IF pc = "loop" THEN {newraw} ELSE {}
Owned == IF closed THEN {} ELSE {raw[w] : w \in Entered}

\* However the swaps and new publications interleave, every buffer has one owner, an entry
\* of a table or the printer, and those that are allocated are the ones owned: none is
\* used by both threads, freed twice or leaked.
BuffersOwnedOnce ==
    /\ allocated = Owned \cup Held
    /\ Owned \cap Held = {}
    /\ ~closed => Cardinality(Owned) = Cardinality(Entered)

\* What is printed after unlocking are the latencies of the interval that ended with the
\* copy, in spite of the samples that arrive meanwhile.
PrintedIsInterval ==
    pc = "print" =>
        LET kept == IF y.cnt < RawSize THEN y.cnt ELSE RawSize
        IN  {mem[y.raw][s] : s \in 0 .. kept - 1} = y.from + 1 .. y.from + kept

\* Every latency is in one report: those printed, those being printed and those counted
\* since add up to the samples received.
EveryLatencyReported ==
    \A w \in Publication :
        nrecv[w] = reported[w] + cnt[w] + (IF pc = "print" /\ y.w = w THEN y.cnt ELSE 0)

\* The rings of references give the samples since the last call of print_stats and since
\* the call RefSize before it, also for publications that came in between.
WindowsExact ==
    LET n == Len(totals)
        Before(k) == IF n > k THEN totals[n - k] ELSE 0
    IN  n > 0 => shown = [second |-> totals[n] - Before(1), window |-> totals[n] - Before(RefSize)]

\* ddsperf.c:1635-1636: "entries get added at the end, npongwr only grows: so can safely
\* unlock the stats in between nodes": nothing that was freed is read after unlocking.
NoFreedRead == pc = "print" => ~xfreed

\* ddsperf.c:175-176: the minimum number of roundtrips "to declare the run a success": the
\* check fails exactly when a peer that has answered has done so too rarely.
RoundtripsChecked ==
    closed =>
        (roundtrips_ok <=> \A j \in DOMAIN pongstat : nrecv[pongstat[j]] >= MinRoundtrips)
=============================================================================
