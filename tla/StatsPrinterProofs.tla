------------------------- MODULE StatsPrinterProofs --------------------------
(***************************************************************************)
(* Safety of the statistics for any publications, buffers, sizes of        *)
(* buffers and rings, and any number of samples and reports.               *)
(***************************************************************************)
EXTENDS StatsPrinter, SumTheorems, SequenceTheorems, FiniteSetTheorems, TLAPS

PongKnown == {pongstat[j] : j \in DOMAIN pongstat}

\* The arrays have one entry for each publication; there is nothing of those without entry.
EntriesInv ==
    /\ Len(ph) = Cardinality(Known) /\ Len(pongstat) = Cardinality(PongKnown)
    /\ \A w \in Publication \ Entered : nrecv[w] = 0 /\ cnt[w] = 0
    /\ \A w \in Publication : cnt[w] <= nrecv[w]

\* Where the printer is.
PrinterInv ==
    /\ pc # "idle" => ~closed
    /\ pc = "loop" => newraw \in Buffer
    /\ pc = "print" => y # <<>> /\ y.w \in Entered /\ i <= Len(Entries)

\* Each entry has a buffer of its own.
OwnersInv ==
    ~closed => /\ \A w \in Entered : raw[w] \in Buffer
               /\ \A v, w \in Entered : raw[v] = raw[w] => v = w

\* Of n latencies the first RawSize are kept, and they are those after the sample `from`.
Holds(b, n, from) == \A s \in Slot : s < n => mem[b][s] = from + s + 1

ContentInv ==
    /\ ~closed => \A w \in Entered : Holds(raw[w], cnt[w], nrecv[w] - cnt[w])
    /\ pc = "print" => Holds(y.raw, y.cnt, y.from)

\* The reference of w that was written k calls of print_stats ago, and the total of that call.
SlotAgo(w, k) == IF refidx[w] >= k THEN refidx[w] - k ELSE refidx[w] - k + RefSize
RefAgo(w, k) == ref[w][SlotAgo(w, k)]
TotalAgo(k) == IF Len(totals) >= k THEN totals[Len(totals) - k + 1] ELSE 0
RefsAgo(k) == [w \in Writer |-> RefAgo(w, k)]

\* The rings hold the totals of the last RefSize calls, split up among the publications.
RingsInv ==
    /\ \A w \in Writer, r \in Ref : ref[w][r] <= nrecv[w]
    /\ \A k \in 1 .. RefSize : SumFunctionOnSet(RefsAgo(k), Known) = TotalAgo(k)

\* The inductive invariant.
IInv ==
    /\ TypeOK
    /\ EntriesInv
    /\ PrinterInv
    /\ OwnersInv
    /\ BuffersOwnedOnce
    /\ ContentInv
    /\ EveryLatencyReported
    /\ RingsInv
    /\ WindowsExact

----------------------------------------------------------------------------
(* Sets of publications, arrays and records.                               *)

LEMMA SizeFacts ==
  /\ RawSize \in Nat \ {0} /\ RefSize \in Nat \ {0, 1}
  /\ 0 \in Slot /\ 0 \in Ref /\ RefSize - 1 \in Ref
  /\ \A r \in Ref : r + 1 # RefSize => r + 1 \in Ref
  /\ \A r \in Ref : r # 0 => r - 1 \in Ref
<1>1. RawSize \in Nat \ {0} /\ RefSize \in Nat \ {0, 1}
  BY ConstantsAssumption
<1> QED
  BY <1>1 DEF Slot, Ref

LEMMA PublicationsFinite ==
  /\ IsFiniteSet(Publication) /\ Cardinality(Publication) \in Nat
  /\ \A P \in SUBSET Publication : IsFiniteSet(P) /\ Cardinality(P) \in Nat
                                   /\ Cardinality(P) <= Cardinality(Publication)
                                   /\ \A w \in Publication \ P : Cardinality(P \cup {w}) = Cardinality(P) + 1
<1>1. IsFiniteSet(Publication)
  BY ConstantsAssumption, FS_Union DEF Publication
<1>2. ASSUME NEW P \in SUBSET Publication
      PROVE  IsFiniteSet(P) /\ Cardinality(P) \in Nat /\ Cardinality(P) <= Cardinality(Publication)
  BY <1>1, FS_Subset, FS_CardinalityType
<1>3. ASSUME NEW P \in SUBSET Publication, NEW w \in Publication \ P
      PROVE  Cardinality(P \cup {w}) = Cardinality(P) + 1
  BY <1>2, FS_AddElement
<1> QED
  BY <1>1, <1>2, <1>3, FS_CardinalityType

LEMMA EntrySets ==
  ASSUME TypeOK
  PROVE  /\ Known \subseteq Writer /\ PongKnown \subseteq PongWriter /\ Known \cap PongKnown = {}
         /\ Entered = Known \cup PongKnown /\ Entered \subseteq Publication
         /\ \A w \in Writer : w \in Known <=> w \in Entered
<1>1. Known \subseteq Writer /\ PongKnown \subseteq PongWriter
  BY ElementOfSeq, LenProperties DEF TypeOK, Known, PongKnown
<1> QED
  BY <1>1, ConstantsAssumption DEF Entered, PongKnown, Publication

\* An array with one entry more.
LEMMA RangeAppended ==
  ASSUME NEW S, NEW s \in Seq(S), NEW e \in S
  PROVE  /\ Append(s, e) \in Seq(S) /\ Len(Append(s, e)) = Len(s) + 1
         /\ {Append(s, e)[j] : j \in DOMAIN Append(s, e)} = {s[j] : j \in DOMAIN s} \cup {e}
<1> DEFINE r == Append(s, e)
<1>1. /\ r \in Seq(S) /\ Len(r) = Len(s) + 1 /\ Len(s) \in Nat
      /\ DOMAIN r = 1 .. Len(s) + 1 /\ DOMAIN s = 1 .. Len(s)
      /\ \A j \in 1 .. Len(s) : r[j] = s[j]
      /\ r[Len(s) + 1] = e
  BY AppendProperties, LenProperties
<1>2. \A j \in DOMAIN r : j \in DOMAIN s \/ j = Len(s) + 1
  BY <1>1
<1>3. DOMAIN s \subseteq DOMAIN r /\ Len(s) + 1 \in DOMAIN r
  BY <1>1
<1> HIDE DEF r
<1>4. {r[j] : j \in DOMAIN r} = {s[j] : j \in DOMAIN s} \cup {e}
  BY <1>1, <1>2, <1>3
<1> QED
  BY <1>1, <1>4 DEF r

\* The fields of what the printer has copied.
LEMMA CopyFields ==
  ASSUME TypeOK, y # <<>>
  PROVE  y.w \in Publication /\ y.raw \in Buffer /\ y.cnt \in Nat /\ y.from \in Nat
  BY DEF TypeOK

LEMMA InjectionCardinality ==
  ASSUME NEW E, IsFiniteSet(E), NEW f, \A v, w \in E : f[v] = f[w] => v = w
  PROVE  Cardinality({f[w] : w \in E}) = Cardinality(E)
<1> DEFINE g == [w \in E |-> f[w]]
           T == {f[w] : w \in E}
<1>1. g \in Bijection(E, T)
  BY DEF Bijection, Injection, Surjection, IsInjective
<1>2. ExistsBijection(E, T)
  BY <1>1 DEF ExistsBijection
<1> QED
  BY <1>2, FS_Bijection

----------------------------------------------------------------------------
(* The steps.                                                              *)

\* A sample of a publication that has an entry.
Counting(w) ==
    /\ w \in Entered /\ Update(w)
    /\ totcnt' \in [PongWriter -> Nat]
    /\ UNCHANGED <<ph, pongstat, printVars>>

\* The first sample of a publication.
Entering(w) ==
    /\ w \in Publication \ Entered /\ Enter(w)
    /\ \/ w \in Writer /\ ph' = Append(ph, w) /\ UNCHANGED pongstat
       \/ w \in PongWriter /\ pongstat' = Append(pongstat, w) /\ UNCHANGED ph
    /\ totcnt' \in [PongWriter -> Nat] /\ xfreed' \in BOOLEAN
    /\ UNCHANGED <<pc, table, i, newraw, y>>

LEMMA Steps ==
  ASSUME TypeOK, [Next]_vars
  PROVE  \/ \E w \in Publication : Counting(w) \/ Entering(w)
         \/ Totals \/ Swap \/ PrintLatencies \/ PrintPongs \/ PrintEnds \/ Fini
         \/ UNCHANGED vars
<1>1. ASSUME NEW w \in Writer, CheckEseq(w) PROVE Counting(w) \/ Entering(w)
  BY <1>1, EntrySets DEF CheckEseq, Counting, Entering, printVars, TypeOK, Publication
<1>2. ASSUME NEW p \in PongWriter, UpdateRoundtrip(p) PROVE Counting(p) \/ Entering(p)
  <2>1. CASE p \in Entered
    <3>1. totcnt' = [totcnt EXCEPT ![p] = totcnt[p] + 1] /\ totcnt[p] + 1 \in Nat
      BY <1>2, <2>1 DEF UpdateRoundtrip, TypeOK
    <3>2. totcnt' \in [PongWriter -> Nat]
      BY <3>1 DEF TypeOK
    <3> QED
      BY <1>2, <2>1, <3>2 DEF UpdateRoundtrip, Counting
  <2>2. CASE p \notin Entered
    <3>1. PICK n \in Unset : totcnt' = [totcnt EXCEPT ![p] = n + 1]
      BY <1>2, <2>2 DEF UpdateRoundtrip
    <3>2. n + 1 \in Nat
      BY ConstantsAssumption
    <3>3. totcnt' \in [PongWriter -> Nat]
      BY <3>1, <3>2 DEF TypeOK
    <3> QED
      BY <1>2, <2>2, <3>3 DEF UpdateRoundtrip, Entering, printVars, Publication, TypeOK
  <2> QED
    BY <2>1, <2>2
<1> QED
  BY <1>1, <1>2 DEF Next, Closed, Publication

\* What a new entry does to the sets of entries.
LEMMA EnteringSets ==
  ASSUME TypeOK, NEW w \in Publication, Entering(w)
  PROVE  /\ ph' \in Seq(Writer) /\ pongstat' \in Seq(PongWriter)
         /\ Entered' = Entered \cup {w}
         /\ \/ /\ w \in Writer /\ Known' = Known \cup {w} /\ PongKnown' = PongKnown
               /\ Len(ph') = Len(ph) + 1 /\ pongstat' = pongstat
            \/ /\ w \in PongWriter /\ Known' = Known /\ PongKnown' = PongKnown \cup {w}
               /\ Len(pongstat') = Len(pongstat) + 1 /\ ph' = ph
<1>0. ph \in Seq(Writer) /\ pongstat \in Seq(PongWriter)
  BY DEF TypeOK
<1>1. CASE w \in Writer /\ ph' = Append(ph, w) /\ UNCHANGED pongstat
  <2>1. ph' \in Seq(Writer) /\ Len(ph') = Len(ph) + 1 /\ Known' = Known \cup {w}
    BY <1>0, <1>1, RangeAppended DEF Known
  <2>2. PongKnown' = PongKnown
    BY <1>1 DEF PongKnown
  <2>3. Entered' = Entered \cup {w}
    BY <2>1, <2>2 DEF Entered, PongKnown
  <2> QED
    BY <1>0, <1>1, <2>1, <2>2, <2>3
<1>2. CASE w \in PongWriter /\ pongstat' = Append(pongstat, w) /\ UNCHANGED ph
  <2>1. /\ pongstat' \in Seq(PongWriter) /\ Len(pongstat') = Len(pongstat) + 1
        /\ PongKnown' = PongKnown \cup {w}
    BY <1>0, <1>2, RangeAppended DEF PongKnown
  <2>2. Known' = Known
    BY <1>2 DEF Known
  <2>3. Entered' = Entered \cup {w}
    BY <2>1, <2>2 DEF Entered, PongKnown
  <2> QED
    BY <1>0, <1>2, <2>1, <2>2, <2>3
<1> QED
  BY <1>1, <1>2 DEF Entering

----------------------------------------------------------------------------
(* Types, arrays and the place of the printer.                             *)

\* mem with one more latency.
LEMMA RecordedType ==
  ASSUME TypeOK, NEW b \in Buffer, NEW n \in Nat, NEW ordinal \in Nat
  PROVE  Recorded(b, n, ordinal) \in [Buffer -> [Slot -> Nat]]
<1>1. CASE n < RawSize
  <2>1. n \in Slot
    BY <1>1, SizeFacts DEF Slot
  <2>2. Recorded(b, n, ordinal) = [mem EXCEPT ![b] = [mem[b] EXCEPT ![n] = ordinal]]
    BY <1>1 DEF Recorded
  <2> QED
    BY <2>1, <2>2 DEF TypeOK
<1>2. CASE ~(n < RawSize)
  BY <1>2 DEF Recorded, TypeOK
<1> QED
  BY <1>1, <1>2

LEMMA EntryIndex ==
  ASSUME TypeOK, i <= Len(Entries), pc # "idle"
  PROVE  /\ Entries[i] \in Entered
         /\ i + 1 \in 1 .. Cardinality(Publication) + 1
<1>1. Len(ph) \in Nat /\ Len(pongstat) \in Nat /\ i \in Nat \ {0}
  BY LenProperties DEF TypeOK
<1>2. Entries[i] \in Entered
  <2>1. CASE table = "sublat"
    BY <1>1, <2>1, LenProperties DEF Entries, Entered, Known, TypeOK
  <2>2. CASE table = "pong"
    BY <1>1, <2>2, LenProperties DEF Entries, Entered, Known, TypeOK
  <2> QED
    BY <2>1, <2>2 DEF TypeOK
<1>3. Len(Entries) <= Cardinality(Publication)
  <2>1. /\ Cardinality(Writer) <= Cardinality(Publication) /\ Cardinality(Writer) \in Nat
        /\ Cardinality(PongWriter) <= Cardinality(Publication) /\ Cardinality(PongWriter) \in Nat
        /\ Cardinality(Publication) \in Nat
    BY PublicationsFinite DEF Publication
  <2>2. Len(ph) <= Cardinality(Writer) /\ Len(pongstat) <= Cardinality(PongWriter)
    BY DEF TypeOK
  <2> QED
    BY <1>1, <2>1, <2>2 DEF Entries
<1> QED
  BY <1>1, <1>2, <1>3, PublicationsFinite DEF Entries, TypeOK

LEMMA InitType == Init => TypeOK /\ EntriesInv /\ PrinterInv
<1> SUFFICES ASSUME Init PROVE TypeOK /\ EntriesInv /\ PrinterInv
  OBVIOUS
<1> USE DEF Init
<1>1. Cardinality(Writer) \in Nat /\ Cardinality(PongWriter) \in Nat /\ Cardinality(Publication) \in Nat
  BY PublicationsFinite DEF Publication
<1>2. /\ ph \in Seq(Writer) /\ Len(ph) = 0 /\ pongstat \in Seq(PongWriter) /\ Len(pongstat) = 0
      /\ totals \in Seq(Nat)
  BY EmptySeq
<1>3. Known = {} /\ PongKnown = {} /\ Entered = {}
  BY DEF Known, PongKnown, Entered
<1>4. /\ ref \in [Writer -> [Ref -> Nat]] /\ refidx \in [Writer -> Ref]
      /\ mem \in [Buffer -> [Slot -> Nat]]
  BY SizeFacts
<1>5. TypeOK
  <2>1. i \in 1 .. Cardinality(Publication) + 1
    BY <1>1
  <2>2. Len(ph) <= Cardinality(Writer) /\ Len(pongstat) <= Cardinality(PongWriter)
    BY <1>1, <1>2
  <2>3. /\ nrecv \in [Publication -> Nat] /\ totcnt \in [PongWriter -> Nat]
        /\ cnt \in [Publication -> Nat] /\ reported \in [Publication -> Nat]
        /\ raw \in [Publication -> Buffer \cup {NoBuffer}]
        /\ shown \in [second : Nat, window : Nat]
    OBVIOUS
  <2>4. /\ allocated \subseteq Buffer /\ newraw \in Buffer \cup {NoBuffer}
        /\ y \in [w : Publication, raw : Buffer, cnt : Nat, from : Nat] \cup {<<>>}
        /\ pc \in {"idle", "loop", "print"} /\ table \in {"sublat", "pong"}
        /\ xfreed \in BOOLEAN /\ closed \in BOOLEAN /\ roundtrips_ok \in BOOLEAN
    OBVIOUS
  <2> QED
    BY <1>2, <1>4, <2>1, <2>2, <2>3, <2>4 DEF TypeOK
<1>6. EntriesInv
  BY <1>2, <1>3, FS_EmptySet DEF EntriesInv
<1> QED
  BY <1>5, <1>6 DEF PrinterInv

LEMMA PrinterStep == TypeOK /\ PrinterInv /\ [Next]_vars => PrinterInv'
<1> SUFFICES ASSUME TypeOK, PrinterInv, [Next]_vars PROVE PrinterInv'
  OBVIOUS
<1> USE DEF PrinterInv, printVars
<1>1. ASSUME NEW w \in Publication, Counting(w) PROVE PrinterInv'
  BY <1>1 DEF Counting, Update, endVars, Entries, Entered, Known
<1>2. ASSUME NEW w \in Publication, Entering(w) PROVE PrinterInv'
  <2>1. UNCHANGED <<pc, table, i, newraw, y, closed>> /\ ~closed
    BY <1>2 DEF Entering, Enter, endVars
  <2>2. Entered \subseteq Entered' /\ (i <= Len(Entries) => i <= Len(Entries'))
    <3>1. Len(ph) \in Nat /\ Len(pongstat) \in Nat /\ i \in Nat
      BY LenProperties DEF TypeOK
    <3> QED
      BY <1>2, <2>1, <3>1, EnteringSets DEF Entries
  <2> QED
    BY <2>1, <2>2
<1>3. CASE Totals
  BY <1>3 DEF Totals, endVars
<1>4. CASE Swap
  <2>1. Entries[i] \in Entered /\ i <= Len(Entries) /\ pc = "loop"
    BY <1>4, EntryIndex DEF Swap
  <2>2. /\ UNCHANGED <<ph, pongstat, closed, table, i>> /\ pc' = "print"
        /\ y' # <<>> /\ y'.w = Entries[i]
    BY <1>4 DEF Swap, tableVars, endVars
  <2> QED
    BY <2>1, <2>2 DEF Entries, Entered, Known
<1>5. CASE PrintLatencies
  BY <1>5, CopyFields DEF PrintLatencies, ReturnedRaw, endVars
<1>6. CASE PrintPongs
  BY <1>6 DEF PrintPongs, endVars
<1>8. CASE PrintEnds
  BY <1>8 DEF PrintEnds, endVars
<1>9. CASE Fini
  BY <1>9 DEF Fini
<1>7. CASE UNCHANGED vars
  BY <1>7 DEF vars, tableVars, endVars, Entries, Entered, Known
<1> QED
  BY <1>1, <1>2, <1>3, <1>4, <1>5, <1>6, <1>7, <1>8, <1>9, Steps

LEMMA EntriesStep == TypeOK /\ EntriesInv /\ [Next]_vars => EntriesInv'
<1> SUFFICES ASSUME TypeOK, EntriesInv, [Next]_vars PROVE EntriesInv'
  OBVIOUS
<1>0. nrecv \in [Publication -> Nat] /\ cnt \in [Publication -> Nat]
  BY DEF TypeOK
<1> USE <1>0 DEF EntriesInv
<1>1. CASE UNCHANGED <<ph, pongstat, nrecv, cnt>>
  BY <1>1 DEF Known, PongKnown, Entered
<1>2. ASSUME NEW w \in Publication, Counting(w) PROVE EntriesInv'
  <2>1. /\ UNCHANGED <<ph, pongstat>> /\ w \in Entered
        /\ nrecv' = [nrecv EXCEPT ![w] = nrecv[w] + 1] /\ cnt' = [cnt EXCEPT ![w] = cnt[w] + 1]
    BY <1>2 DEF Counting, Update
  <2>2. Entered' = Entered /\ Known' = Known /\ PongKnown' = PongKnown
    BY <2>1 DEF Known, PongKnown, Entered
  <2> QED
    BY <2>1, <2>2
<1>3. ASSUME NEW w \in Publication, Entering(w) PROVE EntriesInv'
  <2>1. nrecv' = [nrecv EXCEPT ![w] = 1] /\ cnt' = [cnt EXCEPT ![w] = 1] /\ w \notin Entered
    BY <1>3 DEF Entering, Enter
  <2>2. Entered' = Entered \cup {w}
    BY <1>3, EnteringSets
  <2>3. Len(ph') = Cardinality(Known') /\ Len(pongstat') = Cardinality(PongKnown')
    <3>1. /\ Known \subseteq Publication /\ w \notin Known
          /\ PongKnown \subseteq Publication /\ w \notin PongKnown
      BY <2>1, EntrySets DEF Publication
    <3>2. /\ Cardinality(Known \cup {w}) = Cardinality(Known) + 1
          /\ Cardinality(PongKnown \cup {w}) = Cardinality(PongKnown) + 1
      BY <3>1, PublicationsFinite
    <3> QED
      BY <1>3, <3>2, EnteringSets
  <2> QED
    BY <2>1, <2>2, <2>3
<1>4. CASE Swap
  <2>1. /\ UNCHANGED <<ph, pongstat, nrecv>>
        /\ cnt' = [cnt EXCEPT ![Entries[i]] = 0]
    BY <1>4 DEF Swap, tableVars
  <2>2. Entered' = Entered /\ Known' = Known /\ PongKnown' = PongKnown
    BY <2>1 DEF Known, PongKnown, Entered
  <2>3. \A w \in Publication : cnt'[w] = cnt[w] \/ cnt'[w] = 0
    BY <2>1
  <2> QED
    BY <2>1, <2>2, <2>3
<1>5. CASE Totals \/ PrintLatencies \/ PrintPongs \/ PrintEnds \/ Fini \/ UNCHANGED vars
  BY <1>1, <1>5 DEF Totals, PrintLatencies, PrintPongs, PrintEnds, Fini, vars, tableVars, latencyVars
<1> QED
  BY <1>2, <1>3, <1>4, <1>5, Steps

\* What a call of print_stats adds up.
LEMMA SummableFacts ==
  ASSUME TypeOK
  PROVE  /\ IsFiniteSet(Known) /\ Known \subseteq Writer
         /\ \A f \in [Writer -> Int] : Summable(f, Known)
         /\ Summable(nrecv, Known)
         /\ \A k \in 1 .. RefSize : Summable(RefsAgo(k), Known)
<1>1. IsFiniteSet(Known) /\ Known \subseteq Writer
  BY EntrySets, PublicationsFinite DEF Publication
<1>2. \A f \in [Writer -> Int] : Summable(f, Known)
  BY <1>1 DEF Summable
<1>3. Summable(nrecv, Known)
  BY <1>1 DEF Summable, TypeOK, Publication
<1>4. ASSUME NEW k \in 1 .. RefSize PROVE Summable(RefsAgo(k), Known)
  <2>1. ASSUME NEW w \in Writer PROVE RefAgo(w, k) \in Int
    <3>1. refidx[w] \in 0 .. RefSize - 1 /\ RefSize \in Nat /\ k \in Int
      BY SizeFacts DEF TypeOK, Ref
    <3>2. SlotAgo(w, k) \in Ref
      BY <3>1 DEF Ref, SlotAgo
    <3> QED
      BY <3>2 DEF RefAgo, TypeOK
  <2> QED
    BY <1>1, <2>1 DEF Summable, RefsAgo
<1> QED
  BY <1>1, <1>2, <1>3, <1>4

\* The numbers that print_stats shows are not negative.
LEMMA TotalsType ==
  ASSUME TypeOK, RingsInv, Totals
  PROVE  /\ shown' \in [second : Nat, window : Nat]
         /\ totals' \in Seq(Nat)
         /\ ref' \in [Writer -> [Ref -> Nat]] /\ refidx' \in [Writer -> Ref]
<1> DEFINE second == [w \in Writer |-> nrecv[w] - ref[w][NewestRef(w)]]
           window == [w \in Writer |-> nrecv[w] - ref[w][OldestRef(w)]]
<1>0. \A w \in Writer : /\ refidx[w] \in Ref /\ NewestRef(w) \in Ref /\ OldestRef(w) \in Ref
                        /\ NextRef(w) \in Ref /\ nrecv[w] \in Nat
                        /\ \A r \in Ref : ref[w][r] \in Nat /\ ref[w][r] <= nrecv[w]
  BY SizeFacts DEF TypeOK, RingsInv, NewestRef, OldestRef, NextRef, Publication
<1>1. second \in [Writer -> Nat] /\ window \in [Writer -> Nat]
  <2>1. \A w \in Writer : nrecv[w] - ref[w][NewestRef(w)] \in Nat
                         /\ nrecv[w] - ref[w][OldestRef(w)] \in Nat
    BY <1>0
  <2> QED
    BY <2>1
<1>2. Known \subseteq Writer
  BY SummableFacts
<1>3. SumFunctionOnSet(second, Known) \in Nat /\ SumFunctionOnSet(window, Known) \in Nat
  <2> HIDE DEF second, window
  <2>1. second \in [Writer -> Int] /\ window \in [Writer -> Int]
    BY <1>1
  <2>2. Summable(second, Known) /\ Summable(window, Known)
    BY <2>1, SummableFacts
  <2>3. \A w \in Known : second[w] \in Nat /\ window[w] \in Nat
    BY <1>1, <1>2
  <2> QED
    BY <2>2, <2>3, SumNatural
<1>4. SumFunctionOnSet(nrecv, Known) \in Nat
  <2>1. Summable(nrecv, Known) /\ \A w \in Known : nrecv[w] \in Nat
    BY <1>0, <1>2, SummableFacts
  <2> QED
    BY <2>1, SumNatural
<1>5. shown' = [second |-> SumFunctionOnSet(second, Known), window |-> SumFunctionOnSet(window, Known)]
  BY DEF Totals
<1>6. totals' \in Seq(Nat)
  BY <1>4, AppendProperties DEF Totals, TypeOK
<1>7. refidx' \in [Writer -> Ref]
  BY <1>0 DEF Totals
<1>8. ref' \in [Writer -> [Ref -> Nat]]
  <2>1. \A w \in Writer : [ref[w] EXCEPT ![refidx[w]] = nrecv[w]] \in [Ref -> Nat]
    BY <1>0 DEF TypeOK
  <2> QED
    BY <2>1 DEF Totals, TypeOK
<1> HIDE DEF second, window
<1> QED
  BY <1>3, <1>5, <1>6, <1>7, <1>8

LEMMA TypeStep ==
  TypeOK /\ EntriesInv /\ PrinterInv /\ OwnersInv /\ RingsInv /\ [Next]_vars => TypeOK'
<1> SUFFICES ASSUME TypeOK, EntriesInv, PrinterInv, OwnersInv, RingsInv, [Next]_vars
             PROVE  TypeOK'
  OBVIOUS
<1>0. /\ nrecv \in [Publication -> Nat] /\ cnt \in [Publication -> Nat]
      /\ raw \in [Publication -> Buffer \cup {NoBuffer}]
  BY DEF TypeOK
<1>1. ASSUME NEW w \in Publication, Counting(w) PROVE TypeOK'
  <2>1. /\ nrecv' = [nrecv EXCEPT ![w] = nrecv[w] + 1]
        /\ cnt' = [cnt EXCEPT ![w] = cnt[w] + 1]
        /\ mem' = Recorded(raw[w], cnt[w], nrecv[w] + 1)
        /\ raw[w] \in Buffer /\ totcnt' \in [PongWriter -> Nat]
        /\ UNCHANGED <<ph, pongstat, printVars, ref, refidx, raw, allocated, endVars, history>>
    BY <1>1 DEF Counting, Update, OwnersInv
  <2>2. nrecv' \in [Publication -> Nat] /\ cnt' \in [Publication -> Nat]
    BY <1>0, <2>1
  <2>3. cnt[w] \in Nat /\ nrecv[w] + 1 \in Nat
    BY <1>0
  <2>4. mem' \in [Buffer -> [Slot -> Nat]]
    BY <2>1, <2>3, RecordedType
  <2> QED
    BY <2>1, <2>2, <2>4 DEF TypeOK, printVars, endVars, history
<1>2. ASSUME NEW w \in Publication, Entering(w) PROVE TypeOK'
  <2>1. PICK b \in Buffer \ allocated :
            allocated' = allocated \cup {b} /\ raw' = [raw EXCEPT ![w] = b] /\ mem' = Recorded(b, 0, 1)
    BY <1>2 DEF Entering, Enter
  <2>2. /\ nrecv' = [nrecv EXCEPT ![w] = 1] /\ cnt' = [cnt EXCEPT ![w] = 1]
        /\ totcnt' \in [PongWriter -> Nat] /\ xfreed' \in BOOLEAN
        /\ UNCHANGED <<pc, table, i, newraw, y, ref, refidx, endVars, history>>
    BY <1>2 DEF Entering, Enter
  <2>3. mem' \in [Buffer -> [Slot -> Nat]]
    BY <2>1, RecordedType
  <2>4. /\ nrecv' \in [Publication -> Nat] /\ cnt' \in [Publication -> Nat]
        /\ raw' \in [Publication -> Buffer \cup {NoBuffer}] /\ allocated' \subseteq Buffer
    BY <1>0, <2>1, <2>2 DEF TypeOK
  <2>5. /\ ph' \in Seq(Writer) /\ Len(ph') <= Cardinality(Writer)
        /\ pongstat' \in Seq(PongWriter) /\ Len(pongstat') <= Cardinality(PongWriter)
    <3>1. /\ Known \subseteq Publication /\ w \notin Known /\ Known \subseteq Writer
          /\ PongKnown \subseteq Publication /\ w \notin PongKnown /\ PongKnown \subseteq PongWriter
      BY <1>2, EntrySets DEF Entering, Publication
    <3>2. /\ Cardinality(Known \cup {w}) = Cardinality(Known) + 1
          /\ Cardinality(PongKnown \cup {w}) = Cardinality(PongKnown) + 1
      BY <3>1, PublicationsFinite
    <3>3. IsFiniteSet(Writer) /\ IsFiniteSet(PongWriter)
      BY ConstantsAssumption
    <3>4. w \in Writer => Cardinality(Known \cup {w}) <= Cardinality(Writer)
      BY <3>1, <3>3, FS_Subset
    <3>5. w \in PongWriter => Cardinality(PongKnown \cup {w}) <= Cardinality(PongWriter)
      BY <3>1, <3>3, FS_Subset
    <3> QED
      BY <1>2, <3>2, <3>4, <3>5, EnteringSets DEF EntriesInv, TypeOK
  <2> QED
    BY <2>2, <2>3, <2>4, <2>5 DEF TypeOK, endVars, history
<1>3. CASE Totals
  <2>1. i' \in 1 .. Cardinality(Publication) + 1
    BY <1>3, PublicationsFinite DEF Totals
  <2>2. newraw' \in Buffer \cup {NoBuffer} /\ allocated' \subseteq Buffer
    BY <1>3 DEF Totals, TypeOK
  <2> QED
    BY <1>3, <2>1, <2>2, TotalsType DEF Totals, TypeOK, endVars
<1>4. CASE Swap
  <2>1. Entries[i] \in Entered /\ newraw \in Buffer /\ Entries[i] \in Publication
    BY <1>4, EntryIndex, EntrySets DEF Swap, PrinterInv
  <2>2. raw[Entries[i]] \in Buffer
    BY <1>4, <2>1 DEF Swap, PrinterInv, OwnersInv
  <2>3. cnt[Entries[i]] \in Nat /\ nrecv[Entries[i]] - cnt[Entries[i]] \in Nat
    BY <1>0, <2>1 DEF EntriesInv
  <2>4. PICK w \in Publication : w = Entries[i]
    BY <2>1
  <2>5. /\ y' = [w |-> w, raw |-> raw[w], cnt |-> cnt[w], from |-> nrecv[w] - cnt[w]]
        /\ raw' = [raw EXCEPT ![w] = newraw] /\ cnt' = [cnt EXCEPT ![w] = 0] /\ pc' = "print"
        /\ UNCHANGED <<tableVars, mem, allocated, table, i, newraw, xfreed, endVars, history>>
    BY <1>4, <2>4 DEF Swap, CopiedCount, RawAfterReset
  <2>6. y' \in [w : Publication, raw : Buffer, cnt : Nat, from : Nat]
    BY <2>2, <2>3, <2>4, <2>5
  <2>7. raw' \in [Publication -> Buffer \cup {NoBuffer}] /\ cnt' \in [Publication -> Nat]
    BY <1>0, <2>1, <2>5
  <2> QED
    BY <2>5, <2>6, <2>7 DEF TypeOK, tableVars, endVars, history
<1>5. CASE PrintLatencies
  <2>1. y.w \in Publication /\ y.raw \in Buffer /\ y.cnt \in Nat
    BY <1>5, CopyFields DEF PrintLatencies, PrinterInv
  <2>2. i + 1 \in 1 .. Cardinality(Publication) + 1
    BY <1>5, EntryIndex DEF PrintLatencies, PrinterInv
  <2>3. reported' = [reported EXCEPT ![y.w] = reported[y.w] + y.cnt]
    BY <1>5 DEF PrintLatencies
  <2>4. reported' \in [Publication -> Nat]
    BY <2>1, <2>3 DEF TypeOK
  <2>5. /\ newraw' = y.raw /\ y' = <<>> /\ xfreed' = FALSE /\ i' = i + 1 /\ pc' = "loop"
        /\ UNCHANGED <<tableVars, latencyVars, table, endVars, totals, shown>>
    BY <1>5 DEF PrintLatencies, ReturnedRaw
  <2> QED
    BY <2>1, <2>2, <2>4, <2>5 DEF TypeOK, tableVars, latencyVars, endVars
<1>6. CASE PrintPongs
  <2>1. i' \in 1 .. Cardinality(Publication) + 1
    BY <1>6, PublicationsFinite DEF PrintPongs
  <2> QED
    BY <1>6, <2>1 DEF PrintPongs, TypeOK, tableVars, latencyVars, endVars, history
<1>7. CASE PrintEnds
  <2>1. i' \in 1 .. Cardinality(Publication) + 1
    BY <1>7, PublicationsFinite DEF PrintEnds
  <2> QED
    BY <1>7, <2>1 DEF PrintEnds, TypeOK, tableVars, endVars, history
<1>8. CASE Fini
  <2>1. roundtrips_ok' \in BOOLEAN
    BY <1>8 DEF Fini
  <2> QED
    BY <1>8, <2>1 DEF Fini, TypeOK, tableVars, printVars, history
<1>9. CASE UNCHANGED vars
  BY <1>9 DEF vars, tableVars, latencyVars, printVars, endVars, history, TypeOK
<1> QED
  BY <1>1, <1>2, <1>3, <1>4, <1>5, <1>6, <1>7, <1>8, <1>9, Steps

----------------------------------------------------------------------------
(* The owners of the buffers.                                              *)

LEMMA InitOwners == Init => OwnersInv /\ BuffersOwnedOnce
<1> SUFFICES ASSUME Init PROVE OwnersInv /\ BuffersOwnedOnce
  OBVIOUS
<1>1. Entered = {} /\ ~closed /\ pc = "idle" /\ allocated = {}
  BY DEF Init, Entered, Known
<1>2. Owned = {} /\ Held = {}
  BY <1>1 DEF Owned, Held
<1> QED
  BY <1>1, <1>2 DEF OwnersInv, BuffersOwnedOnce

\* Who owns which buffer, but for the number of buffers.
Shared == allocated = Owned \cup Held /\ Owned \cap Held = {}

LEMMA OwnersStep ==
  TypeOK /\ PrinterInv /\ OwnersInv /\ Shared /\ [Next]_vars => OwnersInv' /\ Shared'
<1> SUFFICES ASSUME TypeOK, PrinterInv, OwnersInv, Shared, [Next]_vars
             PROVE  OwnersInv' /\ Shared'
  OBVIOUS
<1>0. raw \in [Publication -> Buffer \cup {NoBuffer}] /\ Entered \subseteq Publication
  BY EntrySets DEF TypeOK
<1>1. CASE UNCHANGED <<ph, pongstat, raw, closed, allocated, pc, newraw, y>>
  <2>1. Entered' = Entered /\ Owned' = Owned /\ Held' = Held
    BY <1>1 DEF Entered, Known, Owned, Held
  <2> QED
    BY <1>1, <2>1 DEF OwnersInv, Shared
<1>2. ASSUME NEW w \in Publication, Entering(w) PROVE OwnersInv' /\ Shared'
  <2>1. PICK b \in Buffer \ allocated :
            allocated' = allocated \cup {b} /\ raw' = [raw EXCEPT ![w] = b]
    BY <1>2 DEF Entering, Enter
  <2>2. w \notin Entered /\ ~closed /\ closed' = closed /\ UNCHANGED <<pc, y, newraw>>
    BY <1>2 DEF Entering, Enter, endVars
  <2>3. Entered' = Entered \cup {w}
    BY <1>2, EnteringSets
  <2>4. raw'[w] = b /\ \A v \in Entered : raw'[v] = raw[v] /\ raw[v] # b
    BY <1>0, <2>1, <2>2 DEF Shared, Owned
  <2>5. OwnersInv'
    BY <2>1, <2>2, <2>3, <2>4 DEF OwnersInv
  <2>6. Owned' = Owned \cup {b} /\ Held' = Held
    BY <2>2, <2>3, <2>4 DEF Owned, Held
  <2> QED
    BY <2>1, <2>5, <2>6 DEF Shared
<1>3. CASE Totals
  <2>1. PICK b \in Buffer \ allocated : newraw' = b /\ allocated' = allocated \cup {b}
    BY <1>3 DEF Totals
  <2>2. pc = "idle" /\ pc' = "loop" /\ UNCHANGED <<ph, pongstat, raw, closed>>
    BY <1>3 DEF Totals, endVars
  <2>3. Entered' = Entered /\ Owned' = Owned /\ Held = {} /\ Held' = {b}
    BY <2>1, <2>2 DEF Entered, Known, Owned, Held
  <2> QED
    BY <2>1, <2>2, <2>3 DEF OwnersInv, Shared
<1>4. CASE Swap
  <2>1. PICK w \in Entered : w = Entries[i]
    BY <1>4, EntryIndex DEF Swap
  <2>2. /\ y'.raw = raw[w] /\ raw' = [raw EXCEPT ![w] = newraw] /\ pc' = "print"
        /\ UNCHANGED <<ph, pongstat, closed, allocated>>
    BY <1>4, <2>1 DEF Swap, RawAfterReset, tableVars, endVars
  <2>3. pc = "loop" /\ ~closed /\ newraw \in Buffer
    BY <1>4 DEF Swap, PrinterInv
  <2>4. Entered' = Entered /\ Held = {newraw} /\ Held' = {raw[w]}
    BY <2>2, <2>3 DEF Entered, Known, Held
  <2>5. raw'[w] = newraw /\ \A v \in Entered : v # w => raw'[v] = raw[v] /\ raw[v] # raw[w]
    BY <1>0, <2>1, <2>2, <2>3 DEF OwnersInv
  <2>6. \A v \in Entered : raw[v] # newraw
    BY <2>3, <2>4 DEF Shared, Owned
  <2>7. OwnersInv'
    BY <2>2, <2>3, <2>4, <2>5, <2>6 DEF OwnersInv
  <2>8. Owned = {raw[v] : v \in Entered} /\ Owned' = {raw'[v] : v \in Entered}
    BY <2>2, <2>3, <2>4 DEF Owned
  <2>9. Owned' = (Owned \ {raw[w]}) \cup {newraw}
    BY <2>1, <2>5, <2>8
  <2>10. raw[w] \in Owned /\ newraw \notin Owned
    BY <2>1, <2>6, <2>8
  <2> QED
    BY <2>2, <2>4, <2>7, <2>9, <2>10 DEF Shared
<1>5. CASE PrintLatencies
  <2>1. /\ pc = "print" /\ pc' = "loop" /\ newraw' = y.raw
        /\ UNCHANGED <<ph, pongstat, closed, raw, allocated>>
    BY <1>5 DEF PrintLatencies, ReturnedRaw, tableVars, latencyVars, endVars
  <2>2. Entered' = Entered /\ Owned' = Owned /\ Held' = Held
    BY <2>1 DEF Entered, Known, Owned, Held
  <2> QED
    BY <2>1, <2>2 DEF OwnersInv, Shared
<1>6. CASE PrintEnds
  <2>1. /\ pc = "loop" /\ pc' = "idle" /\ allocated' = allocated \ {newraw}
        /\ UNCHANGED <<ph, pongstat, closed, raw>>
    BY <1>6 DEF PrintEnds, tableVars, endVars
  <2>2. Entered' = Entered /\ Owned' = Owned /\ Held = {newraw} /\ Held' = {}
    BY <2>1 DEF Entered, Known, Owned, Held
  <2> QED
    BY <2>1, <2>2 DEF OwnersInv, Shared
<1>7. CASE Fini
  <2>1. /\ pc = "idle" /\ pc' = pc /\ ~closed /\ closed' = TRUE
        /\ allocated' = allocated \ {raw[w] : w \in Entered}
    BY <1>7 DEF Fini, printVars
  <2>2. Owned' = {} /\ Held = {} /\ Held' = {} /\ Owned = {raw[w] : w \in Entered}
    BY <2>1 DEF Owned, Held
  <2> QED
    BY <2>1, <2>2 DEF OwnersInv, Shared
<1>8. ASSUME NEW w \in Publication, Counting(w) PROVE OwnersInv' /\ Shared'
  BY <1>1, <1>8 DEF Counting, Update, printVars, endVars
<1>9. CASE PrintPongs \/ UNCHANGED vars
  BY <1>1, <1>9 DEF PrintPongs, vars, tableVars, latencyVars, printVars, endVars
<1> QED
  BY <1>2, <1>3, <1>4, <1>5, <1>6, <1>7, <1>8, <1>9, Steps

\* The number of buffers that are owned is that of the entries, since no two share one.
LEMMA OwnedCounted == TypeOK' /\ OwnersInv' /\ Shared' => BuffersOwnedOnce'
<1> SUFFICES ASSUME TypeOK', OwnersInv', Shared' PROVE BuffersOwnedOnce'
  OBVIOUS
<1>1. Entered' \subseteq Publication
  <2>1. ph' \in Seq(Writer) /\ pongstat' \in Seq(PongWriter)
    BY DEF TypeOK
  <2>2. Known' \subseteq Writer /\ {pongstat'[j] : j \in DOMAIN pongstat'} \subseteq PongWriter
    BY <2>1, ElementOfSeq, LenProperties DEF Known
  <2> QED
    BY <2>2 DEF Entered, Publication
<1>2. IsFiniteSet(Entered')
  BY <1>1, PublicationsFinite
<1>3. ~closed' => Cardinality(Owned') = Cardinality(Entered')
  <2>1. SUFFICES ASSUME ~closed' PROVE Cardinality(Owned') = Cardinality(Entered')
    OBVIOUS
  <2>2. \A v, w \in Entered' : raw'[v] = raw'[w] => v = w
    BY <2>1 DEF OwnersInv
  <2>3. Owned' = {raw'[w] : w \in Entered'}
    BY <2>1 DEF Owned
  <2>4. Cardinality({raw'[w] : w \in Entered'}) = Cardinality(Entered')
    BY <1>2, <2>2, InjectionCardinality
  <2> QED
    BY <2>3, <2>4
<1> QED
  BY <1>3 DEF BuffersOwnedOnce, Shared

----------------------------------------------------------------------------
(* The content of the buffers, and the latencies that are printed.         *)

LEMMA RecordedContent ==
  ASSUME TypeOK, NEW b \in Buffer, NEW n \in Nat, NEW ordinal \in Nat,
         NEW c \in Buffer, NEW s \in Slot
  PROVE  Recorded(b, n, ordinal)[c][s] = IF c = b /\ s = n THEN ordinal ELSE mem[c][s]
<1>1. CASE n < RawSize
  <2>1. n \in Slot
    BY <1>1, SizeFacts DEF Slot
  <2>2. Recorded(b, n, ordinal) = [mem EXCEPT ![b] = [mem[b] EXCEPT ![n] = ordinal]]
    BY <1>1 DEF Recorded
  <2> QED
    BY <2>1, <2>2 DEF TypeOK
<1>2. CASE ~(n < RawSize)
  <2>1. s # n
    BY <1>2, SizeFacts DEF Slot
  <2> QED
    BY <1>2, <2>1 DEF Recorded
<1> QED
  BY <1>1, <1>2

LEMMA ContentStep ==
  TypeOK /\ EntriesInv /\ PrinterInv /\ OwnersInv /\ Shared /\ ContentInv /\ [Next]_vars
  => ContentInv'
<1> SUFFICES ASSUME TypeOK, EntriesInv, PrinterInv, OwnersInv, Shared, ContentInv, [Next]_vars
             PROVE  ContentInv'
  OBVIOUS
<1>0. /\ raw \in [Publication -> Buffer \cup {NoBuffer}] /\ Entered \subseteq Publication
      /\ nrecv \in [Publication -> Nat] /\ cnt \in [Publication -> Nat]
      /\ Slot \subseteq Nat
  BY EntrySets, SizeFacts DEF TypeOK, Slot
<1>1. ASSUME NEW w \in Publication, Counting(w) PROVE ContentInv'
  <2>1. /\ UNCHANGED <<ph, pongstat, pc, y, raw, closed>> /\ ~closed /\ w \in Entered
        /\ mem' = Recorded(raw[w], cnt[w], nrecv[w] + 1)
        /\ nrecv' = [nrecv EXCEPT ![w] = nrecv[w] + 1] /\ cnt' = [cnt EXCEPT ![w] = cnt[w] + 1]
    BY <1>1 DEF Counting, Update, printVars, endVars
  <2>2. Entered' = Entered
    BY <2>1 DEF Entered, Known
  <2>3. raw[w] \in Buffer /\ cnt[w] \in Nat /\ nrecv[w] + 1 \in Nat /\ nrecv[w] \in Nat
    BY <1>0, <2>1 DEF OwnersInv
  <2>4. \A c \in Buffer, s \in Slot :
            mem'[c][s] = IF c = raw[w] /\ s = cnt[w] THEN nrecv[w] + 1 ELSE mem[c][s]
    BY <2>1, <2>3, RecordedContent
  <2>5. ASSUME NEW v \in Entered, NEW s \in Slot, s < cnt'[v]
        PROVE  mem'[raw[v]][s] = nrecv'[v] - cnt'[v] + s + 1
    <3>0. raw[v] \in Buffer /\ v \in Publication /\ nrecv[v] \in Nat /\ cnt[v] \in Nat /\ s \in Nat
      BY <1>0, <2>1 DEF OwnersInv
    <3>1. s < cnt[v] => mem[raw[v]][s] = nrecv[v] - cnt[v] + s + 1
      BY <2>1 DEF ContentInv, Holds
    <3>2. CASE v = w
      <4>1. cnt'[v] = cnt[v] + 1 /\ nrecv'[v] = nrecv[v] + 1
        BY <1>0, <2>1, <3>2
      <4>2. mem'[raw[v]][s] = IF s = cnt[v] THEN nrecv[v] + 1 ELSE mem[raw[v]][s]
        BY <2>4, <3>0, <3>2
      <4>3. nrecv'[v] - cnt'[v] + s + 1 = nrecv[v] - cnt[v] + s + 1
        BY <3>0, <4>1
      <4>4. s < cnt[v] \/ s = cnt[v]
        BY <2>5, <3>0, <4>1
      <4>5. s = cnt[v] => nrecv[v] - cnt[v] + s + 1 = nrecv[v] + 1
        BY <3>0
      <4> QED
        BY <3>0, <3>1, <4>2, <4>3, <4>4, <4>5
    <3>3. CASE v # w
      <4>1. cnt'[v] = cnt[v] /\ nrecv'[v] = nrecv[v]
        BY <1>0, <2>1, <3>0, <3>3
      <4>2. raw[v] # raw[w]
        BY <2>1, <3>3 DEF OwnersInv
      <4> QED
        BY <2>4, <2>5, <3>0, <3>1, <4>1, <4>2
    <3> QED
      BY <3>2, <3>3
  <2>6. ASSUME pc' = "print" PROVE Holds(y.raw, y.cnt, y.from)'
    <3>1. y.raw \in Buffer /\ y.raw # raw[w]
      BY <2>1, <2>6, CopyFields DEF PrinterInv, Shared, Held, Owned
    <3>2. Holds(y.raw, y.cnt, y.from)
      BY <2>1, <2>6 DEF ContentInv
    <3> QED
      BY <2>1, <2>4, <3>1, <3>2 DEF Holds
  <2> QED
    BY <2>1, <2>2, <2>5, <2>6 DEF ContentInv, Holds
<1>2. ASSUME NEW w \in Publication, Entering(w) PROVE ContentInv'
  <2>1. PICK b \in Buffer \ allocated :
            raw' = [raw EXCEPT ![w] = b] /\ mem' = Recorded(b, 0, 1)
    BY <1>2 DEF Entering, Enter
  <2>2. /\ w \notin Entered /\ ~closed /\ closed' = closed /\ UNCHANGED <<pc, y>>
        /\ nrecv' = [nrecv EXCEPT ![w] = 1] /\ cnt' = [cnt EXCEPT ![w] = 1]
    BY <1>2 DEF Entering, Enter, endVars
  <2>3. Entered' = Entered \cup {w}
    BY <1>2, EnteringSets
  <2>4. \A c \in Buffer, s \in Slot : mem'[c][s] = IF c = b /\ s = 0 THEN 1 ELSE mem[c][s]
    BY <2>1, RecordedContent
  <2>5. ASSUME NEW v \in Entered', NEW s \in Slot, s < cnt'[v]
        PROVE  mem'[raw'[v]][s] = nrecv'[v] - cnt'[v] + s + 1
    <3>1. CASE v = w
      <4>1. cnt'[v] = 1 /\ nrecv'[v] = 1 /\ raw'[v] = b
        BY <1>0, <2>1, <2>2, <3>1
      <4>2. s = 0
        BY <1>0, <2>5, <4>1
      <4>3. mem'[b][s] = 1
        BY <2>4, <4>2
      <4> QED
        BY <4>1, <4>2, <4>3
    <3>2. CASE v # w
      <4>0. v \in Entered /\ raw[v] \in Buffer
        BY <2>2, <2>3, <3>2 DEF OwnersInv
      <4>1. cnt'[v] = cnt[v] /\ nrecv'[v] = nrecv[v] /\ raw'[v] = raw[v]
        BY <1>0, <2>1, <2>2, <3>2, <4>0
      <4>2. raw[v] # b
        BY <2>1, <2>2, <4>0 DEF Shared, Owned
      <4>3. mem'[raw[v]][s] = mem[raw[v]][s]
        BY <2>4, <4>0, <4>2
      <4>4. mem[raw[v]][s] = nrecv[v] - cnt[v] + s + 1
        BY <2>2, <2>5, <4>0, <4>1 DEF ContentInv, Holds
      <4> QED
        BY <4>1, <4>3, <4>4
    <3> QED
      BY <3>1, <3>2
  <2>6. ASSUME pc' = "print" PROVE Holds(y.raw, y.cnt, y.from)'
    <3>1. y.raw \in Buffer /\ y.raw # b
      BY <2>1, <2>2, <2>6, CopyFields DEF PrinterInv, Shared, Held
    <3>2. Holds(y.raw, y.cnt, y.from)
      BY <2>2, <2>6 DEF ContentInv
    <3> QED
      BY <2>2, <2>4, <3>1, <3>2 DEF Holds
  <2> QED
    BY <2>5, <2>6 DEF ContentInv, Holds
<1>3. CASE Swap
  <2>1. PICK w \in Entered : w = Entries[i]
    BY <1>3, EntryIndex DEF Swap
  <2>2. /\ y' = [w |-> w, raw |-> raw[w], cnt |-> cnt[w], from |-> nrecv[w] - cnt[w]]
        /\ raw' = [raw EXCEPT ![w] = newraw] /\ cnt' = [cnt EXCEPT ![w] = 0]
        /\ UNCHANGED <<ph, pongstat, closed, nrecv, mem>>
    BY <1>3, <2>1 DEF Swap, CopiedCount, RawAfterReset, tableVars, endVars
  <2>3. ~closed /\ Entered' = Entered
    BY <1>3, <2>2 DEF Swap, PrinterInv, Entered, Known
  <2>4. y'.raw = raw[w] /\ y'.cnt = cnt[w] /\ y'.from = nrecv[w] - cnt[w]
    BY <2>2
  <2>5. Holds(y.raw, y.cnt, y.from)'
    BY <2>1, <2>2, <2>3, <2>4 DEF ContentInv, Holds
  <2>6. ASSUME NEW v \in Entered, NEW s \in Slot, s < cnt'[v]
        PROVE  mem'[raw'[v]][s] = nrecv'[v] - cnt'[v] + s + 1
    <3>1. v # w
      BY <1>0, <2>1, <2>2, <2>6
    <3>2. cnt'[v] = cnt[v] /\ raw'[v] = raw[v]
      BY <1>0, <2>2, <3>1
    <3> QED
      BY <2>2, <2>3, <2>6, <3>2 DEF ContentInv, Holds
  <2> QED
    BY <2>3, <2>5, <2>6 DEF ContentInv, Holds
<1>4. CASE PrintLatencies
  <2>1. pc' = "loop" /\ UNCHANGED <<ph, pongstat, closed, nrecv, cnt, raw, mem>>
    BY <1>4 DEF PrintLatencies, tableVars, latencyVars, endVars
  <2> QED
    BY <2>1 DEF ContentInv, Holds, Entered, Known
<1>5. CASE Totals
  <2>1. pc' = "loop" /\ UNCHANGED <<ph, pongstat, closed, nrecv, cnt, raw, mem>>
    BY <1>5 DEF Totals, endVars
  <2> QED
    BY <2>1 DEF ContentInv, Holds, Entered, Known
<1>6. CASE PrintPongs \/ UNCHANGED vars
  <2>1. UNCHANGED <<pc, y, ph, pongstat, closed, nrecv, cnt, raw, mem>>
    BY <1>6 DEF PrintPongs, vars, tableVars, latencyVars, printVars, endVars
  <2> QED
    BY <2>1 DEF ContentInv, Holds, Entered, Known
<1>7. CASE PrintEnds
  <2>1. pc' = "idle" /\ UNCHANGED <<ph, pongstat, closed, nrecv, cnt, raw, mem>>
    BY <1>7 DEF PrintEnds, tableVars, endVars
  <2> QED
    BY <2>1 DEF ContentInv, Holds, Entered, Known
<1>8. CASE Fini
  <2>1. pc' = "idle" /\ closed' = TRUE
    BY <1>8 DEF Fini, printVars
  <2> QED
    BY <2>1 DEF ContentInv
<1> QED
  BY <1>1, <1>2, <1>3, <1>4, <1>5, <1>6, <1>7, <1>8, Steps

\* What is printed, from the content of its buffer.
LEMMA ContentPrinted == TypeOK /\ PrinterInv /\ ContentInv => PrintedIsInterval
<1> SUFFICES ASSUME TypeOK, PrinterInv, ContentInv, pc = "print"
             PROVE  PrintedIsInterval
  BY DEF PrintedIsInterval
<1>1. y.raw \in Buffer /\ y.cnt \in Nat /\ y.from \in Nat
  BY CopyFields DEF PrinterInv
<1>2. PICK kept \in Nat : kept = IF y.cnt < RawSize THEN y.cnt ELSE RawSize
  BY <1>1, SizeFacts
<1>3. \A s \in 0 .. kept - 1 : mem[y.raw][s] = y.from + s + 1
  <2> SUFFICES ASSUME NEW s \in 0 .. kept - 1 PROVE mem[y.raw][s] = y.from + s + 1
    OBVIOUS
  <2>1. s \in Slot /\ s < y.cnt
    BY <1>1, <1>2, SizeFacts DEF Slot
  <2> QED
    BY <2>1 DEF ContentInv, Holds
<1>4. \A ordinal \in y.from + 1 .. y.from + kept :
          /\ ordinal - y.from - 1 \in 0 .. kept - 1
          /\ ordinal = y.from + (ordinal - y.from - 1) + 1
  BY <1>1, <1>2
<1>5. \A s \in 0 .. kept - 1 : y.from + s + 1 \in y.from + 1 .. y.from + kept
  BY <1>1, <1>2
<1>6. {mem[y.raw][s] : s \in 0 .. kept - 1} = y.from + 1 .. y.from + kept
  BY <1>3, <1>4, <1>5
<1> QED
  BY <1>2, <1>6 DEF PrintedIsInterval

\* The latencies of w that are being printed.
Printing(w) == IF pc = "print" /\ y.w = w THEN y.cnt ELSE 0

LEMMA LatencyStep ==
  TypeOK /\ EntriesInv /\ PrinterInv /\ EveryLatencyReported /\ [Next]_vars
  => EveryLatencyReported'
<1> SUFFICES ASSUME TypeOK, EntriesInv, PrinterInv, EveryLatencyReported, [Next]_vars,
                    NEW v \in Publication
             PROVE  nrecv'[v] = reported'[v] + cnt'[v] + Printing(v)'
  BY DEF EveryLatencyReported, Printing
<1>0. /\ nrecv[v] \in Nat /\ reported[v] \in Nat /\ cnt[v] \in Nat /\ Printing(v) \in Nat
      /\ nrecv[v] = reported[v] + cnt[v] + Printing(v)
  <2>1. nrecv[v] \in Nat /\ reported[v] \in Nat /\ cnt[v] \in Nat
    BY DEF TypeOK
  <2>2. Printing(v) \in Nat
    BY CopyFields DEF PrinterInv, Printing
  <2> QED
    BY <2>1, <2>2 DEF EveryLatencyReported, Printing
<1>1. ASSUME NEW w \in Publication, Counting(w)
      PROVE  nrecv'[v] = reported'[v] + cnt'[v] + Printing(v)'
  <2>1. /\ nrecv' = [nrecv EXCEPT ![w] = nrecv[w] + 1] /\ cnt' = [cnt EXCEPT ![w] = cnt[w] + 1]
        /\ reported' = reported /\ pc' = pc /\ y' = y
    BY <1>1 DEF Counting, Update, printVars, history
  <2>2. Printing(v)' = Printing(v)
    BY <2>1 DEF Printing
  <2>3. \/ w = v /\ nrecv'[v] = nrecv[v] + 1 /\ cnt'[v] = cnt[v] + 1
        \/ nrecv'[v] = nrecv[v] /\ cnt'[v] = cnt[v]
    BY <2>1 DEF TypeOK
  <2> QED
    BY <1>0, <2>1, <2>2, <2>3
<1>2. ASSUME NEW w \in Publication, Entering(w)
      PROVE  nrecv'[v] = reported'[v] + cnt'[v] + Printing(v)'
  <2>1. /\ nrecv' = [nrecv EXCEPT ![w] = 1] /\ cnt' = [cnt EXCEPT ![w] = 1]
        /\ reported' = reported /\ pc' = pc /\ y' = y /\ w \notin Entered
    BY <1>2 DEF Entering, Enter, history
  <2>2. Printing(v)' = Printing(v)
    BY <2>1 DEF Printing
  <2>3. \/ w = v /\ nrecv'[v] = 1 /\ cnt'[v] = 1 /\ nrecv[v] = 0 /\ cnt[v] = 0
        \/ nrecv'[v] = nrecv[v] /\ cnt'[v] = cnt[v]
    BY <2>1 DEF TypeOK, EntriesInv
  <2> QED
    BY <1>0, <2>1, <2>2, <2>3
<1>3. CASE Swap
  <2>1. PICK w \in Entered : w = Entries[i]
    BY <1>3, EntryIndex DEF Swap
  <2>2. /\ y'.w = w /\ y'.cnt = cnt[w] /\ cnt' = [cnt EXCEPT ![w] = 0]
        /\ pc = "loop" /\ pc' = "print" /\ UNCHANGED <<nrecv, reported>>
    BY <1>3, <2>1 DEF Swap, CopiedCount, tableVars, history
  <2>3. Printing(v) = 0 /\ Printing(v)' = IF w = v THEN cnt[v] ELSE 0
    BY <2>2 DEF Printing
  <2>4. cnt'[v] = IF w = v THEN 0 ELSE cnt[v]
    BY <2>2 DEF TypeOK
  <2> QED
    BY <1>0, <2>2, <2>3, <2>4
<1>4. CASE PrintLatencies
  <2>1. /\ pc = "print" /\ pc' = "loop" /\ reported' = [reported EXCEPT ![y.w] = reported[y.w] + y.cnt]
        /\ UNCHANGED <<nrecv, cnt>>
    BY <1>4 DEF PrintLatencies, tableVars, latencyVars
  <2>2. Printing(v)' = 0 /\ Printing(v) = IF y.w = v THEN y.cnt ELSE 0
    BY <2>1 DEF Printing
  <2>3. reported'[v] = IF y.w = v THEN reported[v] + y.cnt ELSE reported[v]
    BY <2>1 DEF TypeOK
  <2> QED
    BY <1>0, <2>1, <2>2, <2>3
<1>5. CASE Totals \/ PrintPongs \/ PrintEnds \/ Fini \/ UNCHANGED vars
  <2>1. /\ UNCHANGED <<nrecv, cnt, reported>>
        /\ (pc # "print" /\ pc' # "print") \/ (pc' = pc /\ y' = y)
    BY <1>5 DEF Totals, PrintPongs, PrintEnds, Fini, vars, tableVars, latencyVars, printVars, history
  <2>2. Printing(v)' = Printing(v)
    BY <2>1 DEF Printing
  <2> QED
    BY <1>0, <2>1, <2>2
<1> QED
  BY <1>1, <1>2, <1>3, <1>4, <1>5, Steps

----------------------------------------------------------------------------
(* The rings of references.                                                *)

\* The slots of a ring by age, before and after the next reference is written.
LEMMA RingSlots ==
  ASSUME TypeOK, NEW w \in Writer
  PROVE  /\ \A k \in 1 .. RefSize : SlotAgo(w, k) \in Ref
         /\ SlotAgo(w, 1) = NewestRef(w) /\ SlotAgo(w, RefSize) = OldestRef(w)
         /\ refidx'[w] = NextRef(w) =>
              /\ SlotAgo(w, 1)' = refidx[w]
              /\ \A k \in 1 .. RefSize - 1 : /\ SlotAgo(w, k + 1)' = SlotAgo(w, k)
                                             /\ SlotAgo(w, k) # refidx[w]
<1>1. refidx[w] \in 0 .. RefSize - 1 /\ RefSize \in Nat /\ RefSize > 1
  BY SizeFacts DEF TypeOK, Ref
<1>2. \A k \in 1 .. RefSize : SlotAgo(w, k) \in Ref
  BY <1>1 DEF SlotAgo, Ref
<1>3. SlotAgo(w, 1) = NewestRef(w) /\ SlotAgo(w, RefSize) = OldestRef(w)
  BY <1>1 DEF SlotAgo, NewestRef, OldestRef
<1>4. ASSUME refidx'[w] = NextRef(w)
      PROVE  /\ SlotAgo(w, 1)' = refidx[w]
             /\ \A k \in 1 .. RefSize - 1 : /\ SlotAgo(w, k + 1)' = SlotAgo(w, k)
                                            /\ SlotAgo(w, k) # refidx[w]
  <2>1. refidx'[w] = IF refidx[w] + 1 = RefSize THEN 0 ELSE refidx[w] + 1
    BY <1>4 DEF NextRef
  <2>2. SlotAgo(w, 1)' = refidx[w]
    BY <1>1, <2>1 DEF SlotAgo
  <2>3. ASSUME NEW k \in 1 .. RefSize - 1
        PROVE  SlotAgo(w, k + 1)' = SlotAgo(w, k) /\ SlotAgo(w, k) # refidx[w]
    BY <1>1, <2>1 DEF SlotAgo
  <2> QED
    BY <2>2, <2>3
<1> QED
  BY <1>2, <1>3, <1>4

\* The totals by age, before and after the next call.
LEMMA TotalsByAge ==
  ASSUME TypeOK, NEW total \in Nat, totals' = Append(totals, total)
  PROVE  /\ Len(totals) \in Nat /\ Len(totals') = Len(totals) + 1
         /\ totals'[Len(totals) + 1] = total
         /\ TotalAgo(1)' = total
         /\ \A k \in Nat \ {0} : /\ TotalAgo(k + 1)' = TotalAgo(k)
                                /\ TotalAgo(k) = IF Len(totals) + 1 > k
                                                  THEN totals'[Len(totals) + 1 - k] ELSE 0
<1>1. /\ Len(totals) \in Nat /\ Len(totals') = Len(totals) + 1
      /\ totals'[Len(totals) + 1] = total
      /\ \A j \in 1 .. Len(totals) : totals'[j] = totals[j]
  BY AppendProperties, LenProperties DEF TypeOK
<1>2. TotalAgo(1)' = total
  BY <1>1 DEF TotalAgo
<1>3. ASSUME NEW k \in Nat \ {0}
      PROVE  /\ TotalAgo(k + 1)' = TotalAgo(k)
             /\ TotalAgo(k) = IF Len(totals) + 1 > k THEN totals'[Len(totals) + 1 - k] ELSE 0
  <2>1. CASE Len(totals) >= k
    <3>1. /\ Len(totals) - k + 1 \in 1 .. Len(totals)
          /\ Len(totals') - (k + 1) + 1 = Len(totals) - k + 1
          /\ Len(totals) + 1 - k = Len(totals) - k + 1
          /\ Len(totals') >= k + 1 /\ Len(totals) + 1 > k
      BY <1>1, <2>1
    <3>2. TotalAgo(k) = totals[Len(totals) - k + 1]
      BY <2>1 DEF TotalAgo
    <3>3. TotalAgo(k + 1)' = totals'[Len(totals) - k + 1]
      BY <3>1 DEF TotalAgo
    <3> QED
      BY <1>1, <3>1, <3>2, <3>3
  <2>2. CASE ~(Len(totals) >= k)
    <3>1. ~(Len(totals') >= k + 1) /\ ~(Len(totals) + 1 > k)
      BY <1>1, <2>2
    <3> QED
      BY <2>2, <3>1 DEF TotalAgo
  <2> QED
    BY <2>1, <2>2
<1> QED
  BY <1>1, <1>2, <1>3

LEMMA InitRings == Init => RingsInv /\ WindowsExact /\ EveryLatencyReported /\ ContentInv
<1> SUFFICES ASSUME Init PROVE RingsInv /\ WindowsExact /\ EveryLatencyReported /\ ContentInv
  OBVIOUS
<1>0. Known = {} /\ Entered = {} /\ TypeOK /\ totals = <<>> /\ Len(totals) = 0 /\ pc = "idle"
  BY InitType, EmptySeq DEF Init, Known, Entered
<1>1. ASSUME NEW k \in 1 .. RefSize PROVE SumFunctionOnSet(RefsAgo(k), Known) = TotalAgo(k)
  <2>1. SumFunctionOnSet(RefsAgo(k), Known) = 0
    BY <1>0, SummableFacts, SumFirst
  <2>2. TotalAgo(k) = 0
    BY <1>0, SizeFacts DEF TotalAgo
  <2> QED
    BY <2>1, <2>2
<1>2. \A w \in Writer, r \in Ref : ref[w][r] <= nrecv[w]
  BY DEF Init, Publication
<1>3. WindowsExact
  BY <1>0 DEF WindowsExact
<1>4. EveryLatencyReported
  BY DEF Init, EveryLatencyReported
<1>5. ContentInv
  BY <1>0 DEF ContentInv
<1> QED
  BY <1>1, <1>2, <1>3, <1>4, <1>5 DEF RingsInv

LEMMA RingsStep ==
  TypeOK /\ TypeOK' /\ EntriesInv /\ RingsInv /\ [Next]_vars => RingsInv'
<1> SUFFICES ASSUME TypeOK, TypeOK', EntriesInv, RingsInv, [Next]_vars PROVE RingsInv'
  OBVIOUS
<1>0. \A w \in Writer : /\ w \in Publication /\ nrecv[w] \in Nat /\ nrecv'[w] \in Nat
                        /\ \A r \in Ref : ref[w][r] \in Nat /\ ref'[w][r] \in Nat
  BY DEF TypeOK, Publication
<1>1. CASE UNCHANGED <<ph, nrecv, ref, refidx, totals>>
  BY <1>1 DEF RingsInv, RefsAgo, RefAgo, SlotAgo, TotalAgo, Known
<1>2. ASSUME NEW w \in Publication, Counting(w) PROVE RingsInv'
  <2>1. /\ nrecv' = [nrecv EXCEPT ![w] = nrecv[w] + 1]
        /\ UNCHANGED <<ph, ref, refidx, totals>>
    BY <1>2 DEF Counting, Update, history
  <2>2. \A v \in Writer, r \in Ref : ref'[v][r] <= nrecv'[v]
    <3>1. \A v \in Writer : nrecv'[v] = nrecv[v] \/ nrecv'[v] = nrecv[v] + 1
      BY <2>1 DEF TypeOK
    <3>2. \A v \in Writer, r \in Ref : ref[v][r] <= nrecv[v] /\ ref'[v][r] = ref[v][r]
      BY <2>1 DEF RingsInv
    <3> QED
      BY <1>0, <3>1, <3>2
  <2>3. \A k \in 1 .. RefSize : SumFunctionOnSet(RefsAgo(k), Known)' = TotalAgo(k)'
    BY <2>1 DEF RingsInv, RefsAgo, RefAgo, SlotAgo, TotalAgo, Known
  <2> QED
    BY <2>2, <2>3 DEF RingsInv
<1>3. ASSUME NEW w \in Publication, Entering(w) PROVE RingsInv'
  <2>1. /\ nrecv' = [nrecv EXCEPT ![w] = 1] /\ w \notin Entered
        /\ UNCHANGED <<ref, refidx, totals>>
    BY <1>3 DEF Entering, Enter, history
  <2>2. nrecv[w] = 0 /\ nrecv \in [Publication -> Nat]
    BY <2>1 DEF EntriesInv, TypeOK
  <2>3. \A v \in Writer, r \in Ref : ref'[v][r] <= nrecv'[v]
    <3>1. \A v \in Writer : nrecv'[v] = nrecv[v] \/ (v = w /\ nrecv[v] = 0 /\ nrecv'[v] = 1)
      BY <2>1, <2>2
    <3>2. \A v \in Writer, r \in Ref : ref[v][r] <= nrecv[v] /\ ref'[v][r] = ref[v][r]
      BY <2>1 DEF RingsInv
    <3> QED
      BY <1>0, <3>1, <3>2
  <2>4. ASSUME NEW k \in 1 .. RefSize
        PROVE  SumFunctionOnSet(RefsAgo(k), Known') = SumFunctionOnSet(RefsAgo(k), Known)
    <3>1. CASE Known' = Known
      BY <3>1
    <3>2. CASE w \in Writer /\ Known' = Known \cup {w}
      <4>1. w \notin Known
        BY <2>1, EntrySets
      <4>2. RefsAgo(k)[w] = 0
        <5>1. SlotAgo(w, k) \in Ref
          BY <3>2, RingSlots
        <5>2. ref[w][SlotAgo(w, k)] <= 0 /\ ref[w][SlotAgo(w, k)] \in Nat
          BY <1>0, <2>2, <3>2, <5>1 DEF RingsInv
        <5> QED
          BY <3>2, <5>2 DEF RefsAgo, RefAgo
      <4>3. Summable(RefsAgo(k), Known) /\ Summable(RefsAgo(k), Known \cup {w})
        <5>1. Summable(RefsAgo(k), Known)
          BY SummableFacts
        <5>2. IsFiniteSet(Known \cup {w})
          BY FS_AddElement, SummableFacts
        <5>3. w \in DOMAIN RefsAgo(k)
          BY <3>2 DEF RefsAgo
        <5> QED
          BY <4>2, <5>1, <5>2, <5>3 DEF Summable
      <4>4. SumFunctionOnSet(RefsAgo(k), Known \cup {w})
              = SumFunctionOnSet(RefsAgo(k), Known) + RefsAgo(k)[w]
        BY <4>1, <4>3, SumAdd
      <4>5. SumFunctionOnSet(RefsAgo(k), Known) \in Int
        BY <4>3, SumFirst
      <4> QED
        BY <3>2, <4>2, <4>4, <4>5
    <3> QED
      BY <1>3, <3>1, <3>2, EnteringSets
  <2>5. ASSUME NEW k \in 1 .. RefSize
        PROVE  SumFunctionOnSet(RefsAgo(k), Known)' = TotalAgo(k)'
    <3>1. RefsAgo(k)' = RefsAgo(k) /\ TotalAgo(k)' = TotalAgo(k)
      BY <2>1 DEF RefsAgo, RefAgo, SlotAgo, TotalAgo
    <3>2. SumFunctionOnSet(RefsAgo(k), Known) = TotalAgo(k)
      BY DEF RingsInv
    <3> QED
      BY <2>4, <3>1, <3>2
  <2> QED
    BY <2>3, <2>5 DEF RingsInv
<1>4. CASE Totals
  <2>1. /\ ref' = [w \in Writer |-> IF w \in Known THEN [ref[w] EXCEPT ![refidx[w]] = nrecv[w]]
                                    ELSE ref[w]]
        /\ \A w \in Known : refidx'[w] = NextRef(w)
        /\ UNCHANGED <<ph, nrecv>> /\ Known' = Known /\ Known \subseteq Writer
    BY <1>4, SummableFacts DEF Totals, Known
  <2>2. PICK total \in Nat : /\ total = SumFunctionOnSet(nrecv, Known)
                            /\ totals' = Append(totals, total)
    <3>1. SumFunctionOnSet(nrecv, Known) \in Nat
      BY <1>0, <2>1, SummableFacts, SumNatural
    <3> QED
      BY <1>4, <3>1 DEF Totals
  <2>3. \A w \in Writer, r \in Ref : ref'[w][r] <= nrecv'[w]
    <3>1. \A w \in Writer, r \in Ref : ref[w][r] <= nrecv[w]
      BY DEF RingsInv
    <3>2. \A w \in Writer, r \in Ref : ref'[w][r] = ref[w][r] \/ ref'[w][r] = nrecv[w]
      BY <2>1 DEF TypeOK
    <3> QED
      BY <1>0, <2>1, <3>1, <3>2
  <2>4. \A k \in 1 .. RefSize : Summable(RefsAgo(k), Known) /\ Summable(RefsAgo(k)', Known)
    <3>1. \A k \in 1 .. RefSize : Summable(RefsAgo(k), Known)
      BY SummableFacts
    <3>2. ASSUME NEW k \in 1 .. RefSize PROVE Summable(RefsAgo(k)', Known)
      <4>1. ASSUME NEW w \in Writer PROVE RefAgo(w, k)' \in Nat
        <5>1. refidx'[w] \in 0 .. RefSize - 1 /\ RefSize \in Nat
          BY SizeFacts DEF TypeOK, Ref
        <5>2. SlotAgo(w, k)' \in Ref
          BY <5>1 DEF SlotAgo, Ref
        <5> QED
          BY <1>0, <5>2 DEF RefAgo
      <4>2. DOMAIN RefsAgo(k)' = Writer /\ \A w \in Writer : RefsAgo(k)'[w] \in Int
        BY <4>1 DEF RefsAgo
      <4> QED
        BY <2>1, <4>2, SummableFacts DEF Summable
    <3> QED
      BY <3>1, <3>2
  <2>5. SumFunctionOnSet(RefsAgo(1)', Known) = TotalAgo(1)'
    <3>1. ASSUME NEW w \in Known PROVE RefsAgo(1)'[w] = nrecv[w]
      <4>1. SlotAgo(w, 1)' = refidx[w]
        BY <2>1, RingSlots
      <4>2. ref'[w][refidx[w]] = nrecv[w]
        BY <2>1 DEF TypeOK
      <4> QED
        BY <2>1, <4>1, <4>2 DEF RefsAgo, RefAgo
    <3>2. 1 \in 1 .. RefSize
      BY SizeFacts
    <3>3. SumFunctionOnSet(RefsAgo(1)', Known) = SumFunctionOnSet(nrecv, Known)
      BY <2>4, <3>1, <3>2, SummableFacts, SumEqual
    <3> QED
      BY <2>2, <3>3, TotalsByAge
  <2>6. ASSUME NEW k \in 1 .. RefSize - 1
        PROVE  SumFunctionOnSet(RefsAgo(k + 1)', Known) = TotalAgo(k + 1)'
    <3>0. k \in 1 .. RefSize /\ k + 1 \in 1 .. RefSize /\ k \in Nat \ {0}
      BY SizeFacts
    <3>1. ASSUME NEW w \in Known PROVE RefsAgo(k + 1)'[w] = RefsAgo(k)[w]
      <4>1. SlotAgo(w, k + 1)' = SlotAgo(w, k) /\ SlotAgo(w, k) # refidx[w] /\ SlotAgo(w, k) \in Ref
        BY <2>1, <3>0, RingSlots
      <4>2. ref'[w][SlotAgo(w, k)] = ref[w][SlotAgo(w, k)]
        BY <2>1, <4>1 DEF TypeOK
      <4> QED
        BY <2>1, <4>1, <4>2 DEF RefsAgo, RefAgo
    <3>2. SumFunctionOnSet(RefsAgo(k + 1)', Known) = SumFunctionOnSet(RefsAgo(k), Known)
      BY <2>4, <3>0, <3>1, SumEqual
    <3>3. SumFunctionOnSet(RefsAgo(k), Known) = TotalAgo(k)
      BY <3>0 DEF RingsInv
    <3> QED
      BY <2>2, <3>0, <3>2, <3>3, TotalsByAge
  <2>7. ASSUME NEW k \in 1 .. RefSize
        PROVE  SumFunctionOnSet(RefsAgo(k), Known)' = TotalAgo(k)'
    <3>1. CASE k = 1
      BY <2>1, <2>5, <3>1
    <3>2. CASE k # 1
      <4>1. k - 1 \in 1 .. RefSize - 1 /\ (k - 1) + 1 = k
        BY <3>2, SizeFacts
      <4>2. SumFunctionOnSet(RefsAgo((k - 1) + 1)', Known) = TotalAgo((k - 1) + 1)'
        BY <2>6, <4>1
      <4> QED
        BY <2>1, <4>1, <4>2
    <3> QED
      BY <3>1, <3>2
  <2> QED
    BY <2>3, <2>7 DEF RingsInv
<1>5. CASE Swap \/ PrintLatencies \/ PrintPongs \/ PrintEnds \/ Fini \/ UNCHANGED vars
  BY <1>1, <1>5 DEF Swap, PrintLatencies, PrintPongs, PrintEnds, Fini, vars, tableVars, history
<1> QED
  BY <1>2, <1>3, <1>4, <1>5, Steps

LEMMA WindowsStep == TypeOK /\ RingsInv /\ WindowsExact /\ [Next]_vars => WindowsExact'
<1> SUFFICES ASSUME TypeOK, RingsInv, WindowsExact, [Next]_vars PROVE WindowsExact'
  OBVIOUS
<1>1. CASE Totals
  <2> DEFINE second == [w \in Writer |-> nrecv[w] - ref[w][NewestRef(w)]]
             window == [w \in Writer |-> nrecv[w] - ref[w][OldestRef(w)]]
  <2>1. Known \subseteq Writer /\ Summable(nrecv, Known)
    BY SummableFacts
  <2>2. 1 \in 1 .. RefSize /\ RefSize \in 1 .. RefSize /\ RefSize \in Nat \ {0}
    BY SizeFacts
  <2>3. Summable(RefsAgo(1), Known) /\ Summable(RefsAgo(RefSize), Known)
    BY <2>2, SummableFacts
  <2>4. \A w \in Known : /\ second[w] = nrecv[w] - RefsAgo(1)[w]
                         /\ window[w] = nrecv[w] - RefsAgo(RefSize)[w]
    BY <2>1, RingSlots DEF RefsAgo, RefAgo
  <2>5. Summable(second, Known) /\ Summable(window, Known)
    <3>1. \A w \in Known : nrecv[w] \in Int /\ RefsAgo(1)[w] \in Int /\ RefsAgo(RefSize)[w] \in Int
      BY <2>1, <2>3 DEF Summable
    <3>3. DOMAIN second = Writer /\ DOMAIN window = Writer
      OBVIOUS
    <3> HIDE DEF second, window
    <3>2. ASSUME NEW w \in Known PROVE second[w] \in Int /\ window[w] \in Int
      BY <2>4, <3>1
    <3> QED
      BY <2>1, <3>2, <3>3 DEF Summable
  <2>6. shown' = [second |-> SumFunctionOnSet(second, Known), window |-> SumFunctionOnSet(window, Known)]
    BY <1>1 DEF Totals
  <2> HIDE DEF second, window
  <2>7. PICK total \in Nat : total = SumFunctionOnSet(nrecv, Known) /\ totals' = Append(totals, total)
    <3>1. SumFunctionOnSet(nrecv, Known) \in Nat
      BY <2>1, SumNatural DEF TypeOK, Publication
    <3> QED
      BY <1>1, <3>1 DEF Totals
  <2>8. /\ SumFunctionOnSet(second, Known) = total - TotalAgo(1)
        /\ SumFunctionOnSet(window, Known) = total - TotalAgo(RefSize)
    <3>1. /\ SumFunctionOnSet(second, Known) = total - SumFunctionOnSet(RefsAgo(1), Known)
          /\ SumFunctionOnSet(window, Known) = total - SumFunctionOnSet(RefsAgo(RefSize), Known)
      BY <2>1, <2>3, <2>4, <2>5, <2>7, SumDifference
    <3> QED
      BY <2>2, <3>1 DEF RingsInv
  <2>9. /\ Len(totals') = Len(totals) + 1 /\ totals'[Len(totals')] = total
        /\ TotalAgo(1) = IF Len(totals') > 1 THEN totals'[Len(totals') - 1] ELSE 0
        /\ TotalAgo(RefSize) = IF Len(totals') > RefSize THEN totals'[Len(totals') - RefSize] ELSE 0
    <3>1. /\ Len(totals') = Len(totals) + 1 /\ totals'[Len(totals) + 1] = total
          /\ \A k \in Nat \ {0} : TotalAgo(k) = IF Len(totals) + 1 > k
                                                THEN totals'[Len(totals) + 1 - k] ELSE 0
      BY <2>7, TotalsByAge
    <3> QED
      BY <2>2, <3>1
  <2> QED
    BY <2>6, <2>8, <2>9 DEF WindowsExact
<1>2. CASE UNCHANGED <<shown, totals>>
  BY <1>2 DEF WindowsExact
<1>3. ASSUME NEW w \in Publication, Counting(w) \/ Entering(w) PROVE WindowsExact'
  BY <1>2, <1>3 DEF Counting, Entering, Update, Enter, history
<1>4. CASE Swap \/ PrintLatencies \/ PrintPongs \/ PrintEnds \/ Fini \/ UNCHANGED vars
  BY <1>2, <1>4 DEF Swap, PrintLatencies, PrintPongs, PrintEnds, Fini, vars, history
<1> QED
  BY <1>1, <1>3, <1>4, Steps

----------------------------------------------------------------------------
(* The theorems.                                                           *)

LEMMA Inductive == Spec => []IInv
<1>1. Init => IInv
  BY InitType, InitOwners, InitRings DEF IInv
<1>2. IInv /\ [Next]_vars => IInv'
  <2> SUFFICES ASSUME IInv, [Next]_vars PROVE IInv'
    OBVIOUS
  <2> USE DEF IInv
  <2>0. Shared
    BY DEF BuffersOwnedOnce, Shared
  <2>1. EntriesInv' /\ PrinterInv' /\ TypeOK'
    BY EntriesStep, PrinterStep, TypeStep
  <2>2. OwnersInv' /\ Shared'
    BY <2>0, OwnersStep
  <2>3. BuffersOwnedOnce'
    BY <2>1, <2>2, OwnedCounted
  <2>4. ContentInv'
    BY <2>0, ContentStep
  <2>5. EveryLatencyReported'
    BY LatencyStep
  <2>6. RingsInv'
    BY <2>1, RingsStep
  <2>7. WindowsExact'
    BY WindowsStep
  <2> QED
    BY <2>1, <2>2, <2>3, <2>4, <2>5, <2>6, <2>7
<1> QED
  BY <1>1, <1>2, PTL DEF Spec

\* The variables of StatsPrinter keep their types: in particular the numbers that print_stats
\* shows are never negative, and the entry it works on is within the array.
THEOREM TypeCorrect == Spec => []TypeOK
<1>1. IInv => TypeOK
  BY DEF IInv
<1> QED
  BY <1>1, Inductive, PTL

\* Whatever is received while print_stats swaps and prints, an allocated buffer has one owner
\* and nothing is leaked (check_eseq, update_roundtrip, print_stats, fini_eseq_admin).
THEOREM BuffersOwned == Spec => []BuffersOwnedOnce
<1>1. IInv => BuffersOwnedOnce
  BY DEF IInv
<1> QED
  BY <1>1, Inductive, PTL

\* The latencies printed after unlocking are those of the interval that ended with the copy
\* (latencystat_update, print_stats).
THEOREM PrintedInterval == Spec => []PrintedIsInterval
<1>1. IInv => PrintedIsInterval
  BY ContentPrinted DEF IInv
<1> QED
  BY <1>1, Inductive, PTL

\* No latency is left out of the reports or reported twice (latencystat_update, print_stats).
THEOREM LatenciesReported == Spec => []EveryLatencyReported
<1>1. IInv => EveryLatencyReported
  BY DEF IInv
<1> QED
  BY <1>1, Inductive, PTL

\* The rings of references give the samples of the last second and of the last RefSize seconds,
\* whenever the publications came (the totals of print_stats).
THEOREM WindowsCorrect == Spec => []WindowsExact
<1>1. IInv => WindowsExact
  BY DEF IInv
<1> QED
  BY <1>1, Inductive, PTL
=============================================================================
