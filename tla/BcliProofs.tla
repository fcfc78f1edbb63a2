----------------------------- MODULE BcliProofs -----------------------------
(***************************************************************************)
(* Safety of the CPU monitor of bcli, for any number of threads and any    *)
(* size of its array, as the publisher uses it.                            *)
(***************************************************************************)
EXTENDS Bcli, SequenceTheorems, FiniteSetTheorems, WellFoundedInduction, TLAPS

\* The threads of the current snapshot, whether their CPU time has been read or not.
Size == Len(current) + Len(tids)
Member(k) == IF k <= Len(current) THEN current[k].tid ELSE tids[k - Len(current)]
Snapped == [k \in 1 .. Size |-> Member(k)]

\* The entries of the previous snapshot, and those of them that are not yet overwritten.
Old == 1 .. prev_thread_count
Intact == {p \in Old : p > Len(usage)}

\* Where the snapshot is, and what is in its arrays.
PlaceInv ==
    /\ pc # "snapshot" => mpc = "idle"
    /\ mpc # "read" => tids = <<>>
    /\ mpc \notin {"read", "compare"} => current = <<>>
    /\ mpc # "compare" => usage = <<>>
    /\ Size <= MaxThreads /\ Len(usage) <= Len(current)

ArraysInv ==
    /\ \A p \in Old : prev_threads[p] \in Stat
    /\ \A k \in 1 .. Len(usage) : prev_threads[k] = current[k]

\* Thread ids are given out once, so that no array holds one twice or one not given out.
TidsInv ==
    /\ \A j, k \in DOMAIN threads : threads[j] = threads[k] => j = k
    /\ \A j, k \in 1 .. Size : Snapped[j] = Snapped[k] => j = k
    /\ \A j \in DOMAIN threads : threads[j] \notin fresh
    /\ \A k \in 1 .. Size : Snapped[k] \notin fresh
    /\ \A p \in Old : prev_threads[p].tid \notin fresh

\* A thread only moves to the front, as older ones exit: among the threads of the process it
\* is not behind its place in an array, nor in the current snapshot behind that in the previous.
OrderInv ==
    /\ \A j \in DOMAIN threads, k \in 1 .. Size : Snapped[k] = threads[j] => j <= k
    /\ \A j \in DOMAIN threads, p \in Old : prev_threads[p].tid = threads[j] => j <= p
    /\ \A k \in 1 .. Size, p \in Old : prev_threads[p].tid = Snapped[k] => k <= p

\* The CPU time of an entry is the one read, or 0 for a thread that had exited.
Value(s, read) == s.used = IF read[s.tid] # Unread THEN read[s.tid] ELSE 0
Gone(t) == ~Contains(threads, t)

ReadingInv ==
    /\ \A k \in DOMAIN current :
         /\ Value(current[k], reading)
         /\ reading[current[k].tid] = Unread => Gone(current[k].tid)
    /\ \A t \in Tid : reading[t] # Unread => \E k \in DOMAIN current : current[k].tid = t

EarlierInv ==
    /\ \A p \in Intact :
         /\ Value(prev_threads[p], earlier)
         /\ earlier[prev_threads[p].tid] = Unread =>
              Gone(prev_threads[p].tid) /\ reading[prev_threads[p].tid] = Unread
    /\ mpc # "compare" =>
         \A t \in Tid : earlier[t] # Unread => \E p \in Old : prev_threads[p].tid = t
    /\ mpc = "compare" =>
         \A k \in DOMAIN current :
            k > Len(usage) /\ earlier[current[k].tid] # Unread =>
              \E p \in Old : prev_threads[p].tid = current[k].tid

\* The inductive invariant.
IInv ==
    /\ TypeOK
    /\ PlaceInv
    /\ ArraysInv
    /\ TidsInv
    /\ OrderInv
    /\ ReadingInv
    /\ EarlierInv
    /\ UsageExact

----------------------------------------------------------------------------
(* Steps, sequences and entries.                                           *)

\* Nothing of the monitor changes, but that a snapshot may begin.
Still ==
    /\ UNCHANGED <<procVars, tids, current, usage, prevVars, readVars>>
    /\ mpc' = mpc \/ (mpc = "idle" /\ mpc' = "list")

LEMMA Steps ==
  ASSUME PlaceInv, [Next]_vars
  PROVE  \/ Still
         \/ \E t \in Tid : ThreadStarts(t) \/ ThreadWorks(t) \/ ThreadExits(t)
         \/ ListThreads \/ ReadThread \/ AllRead \/ CompareThread \/ Compared
<1>1. CASE MainStep
  <2>1. CASE StartSnapshot
    BY <2>1 DEF StartSnapshot, Still, PlaceInv
  <2>2. CASE TakeSnapshot
    BY <2>2 DEF TakeSnapshot, Snapshot
  <2>3. CASE Start \/ CreateTopic \/ CreateWriter \/ TestRunning \/ WriteSample \/ CheckClock
    BY <2>3 DEF Start, CreateTopic, CreateWriter, TestRunning, WriteSample, CheckClock, Still,
                monitorVars, snapVars
  <2> QED
    BY <1>1, <2>1, <2>2, <2>3 DEF MainStep
<1>2. CASE OtherThreads
  BY <1>2 DEF OtherThreads, Process
<1>3. CASE Signal \/ TimePasses \/ Ended \/ UNCHANGED vars
  BY <1>3 DEF Signal, TimePasses, Ended, vars, Still, monitorVars, snapVars
<1> QED
  BY <1>1, <1>2, <1>3 DEF Next

LEMMA ArraySizes == MaxThreads \in Nat \ {0} /\ MaxTicks \in Nat /\ Every \in Nat \ {0}
  BY MonitorAssumption, PublisherAssumption

LEMMA Lengths ==
  ASSUME MonitorTypeOK
  PROVE  /\ Len(current) \in Nat /\ Len(tids) \in Nat /\ Len(usage) \in Nat /\ Len(threads) \in Nat
         /\ DOMAIN current = 1 .. Len(current) /\ DOMAIN tids = 1 .. Len(tids)
         /\ DOMAIN usage = 1 .. Len(usage) /\ DOMAIN threads = 1 .. Len(threads)
         /\ Size \in Nat /\ prev_thread_count \in Nat
         /\ \A k \in DOMAIN current : /\ current[k] \in Stat /\ k \in 1 .. Size
                                      /\ Snapped[k] = current[k].tid
         /\ \A k \in 1 .. Size : Snapped[k] \in Tid
<1>1. /\ Len(current) \in Nat /\ Len(tids) \in Nat /\ Len(usage) \in Nat /\ Len(threads) \in Nat
      /\ DOMAIN current = 1 .. Len(current) /\ DOMAIN tids = 1 .. Len(tids)
      /\ DOMAIN usage = 1 .. Len(usage) /\ DOMAIN threads = 1 .. Len(threads)
  BY LenProperties DEF MonitorTypeOK
<1>2. Size \in Nat /\ prev_thread_count \in Nat
  BY <1>1, ArraySizes DEF Size, MonitorTypeOK
<1>3. ASSUME NEW k \in DOMAIN current
      PROVE  current[k] \in Stat /\ k \in 1 .. Size /\ Snapped[k] = current[k].tid
  <2>1. k \in 1 .. Size /\ k <= Len(current)
    BY <1>1 DEF Size
  <2>2. Snapped[k] = current[k].tid
    BY <2>1 DEF Snapped, Member
  <2> QED
    BY <1>1, <2>1, <2>2, ElementOfSeq DEF MonitorTypeOK
<1>4. ASSUME NEW k \in 1 .. Size PROVE Snapped[k] \in Tid
  <2>1. CASE k <= Len(current)
    <3>1. k \in DOMAIN current
      BY <1>1, <2>1
    <3> QED
      BY <1>3, <3>1 DEF Stat
  <2>2. CASE ~(k <= Len(current))
    <3>1. k - Len(current) \in 1 .. Len(tids)
      BY <1>1, <2>2 DEF Size
    <3>2. tids[k - Len(current)] \in Tid
      BY <1>1, <3>1, ElementOfSeq DEF MonitorTypeOK
    <3> QED
      BY <2>2, <3>2 DEF Snapped, Member
  <2> QED
    BY <2>1, <2>2
<1> QED
  BY <1>1, <1>2, <1>3, <1>4

LEMMA RemoveAtProperties ==
  ASSUME NEW S, NEW s \in Seq(S), NEW j \in DOMAIN s
  PROVE  /\ RemoveAt(s, j) \in Seq(S) /\ Len(RemoveAt(s, j)) = Len(s) - 1
         /\ \A k \in 1 .. Len(s) - 1 : RemoveAt(s, j)[k] = IF k < j THEN s[k] ELSE s[k + 1]
<1> DEFINE a == SubSeq(s, 1, j - 1)
           b == SubSeq(s, j + 1, Len(s))
<1>1. Len(s) \in Nat /\ j \in 1 .. Len(s) /\ \A k \in 1 .. Len(s) : s[k] \in S
  BY LenProperties, ElementOfSeq
<1>2. a \in Seq(S) /\ Len(a) = j - 1 /\ \A k \in 1 .. j - 1 : a[k] = s[k]
  BY <1>1, SubSeqProperties
<1>3. b \in Seq(S) /\ Len(b) = Len(s) - j /\ \A k \in 1 .. Len(s) - j : b[k] = s[j + k]
  BY <1>1, SubSeqProperties
<1> HIDE DEF a, b
<1>4. /\ a \o b \in Seq(S) /\ Len(a \o b) = Len(a) + Len(b)
      /\ \A k \in 1 .. Len(a) + Len(b) : (a \o b)[k] = IF k <= Len(a) THEN a[k] ELSE b[k - Len(a)]
  BY <1>2, <1>3, ConcatProperties
<1>5. ASSUME NEW k \in 1 .. Len(s) - 1 PROVE (a \o b)[k] = IF k < j THEN s[k] ELSE s[k + 1]
  <2>1. CASE k < j
    BY <1>1, <1>2, <1>3, <1>4, <2>1
  <2>2. CASE ~(k < j)
    <3>1. k - Len(a) \in 1 .. Len(s) - j /\ j + (k - Len(a)) = k + 1 /\ ~(k <= Len(a))
      BY <1>1, <1>2, <2>2
    <3>2. k \in 1 .. Len(a) + Len(b)
      BY <1>1, <1>2, <1>3
    <3>3. (a \o b)[k] = b[k - Len(a)]
      BY <1>4, <3>1, <3>2
    <3>4. b[k - Len(a)] = s[j + (k - Len(a))]
      BY <1>3, <3>1
    <3> QED
      BY <2>2, <3>1, <3>3, <3>4
  <2> QED
    BY <2>1, <2>2
<1>6. Len(a) + Len(b) = Len(s) - 1
  BY <1>1, <1>2, <1>3
<1>7. RemoveAt(s, j) = a \o b
  BY DEF RemoveAt, a, b
<1> QED
  BY <1>4, <1>5, <1>6, <1>7

\* A sequence with one element more, whatever it is.
LEMMA Appended ==
  ASSUME NEW S, NEW s \in Seq(S), NEW e
  PROVE  /\ Len(Append(s, e)) = Len(s) + 1 /\ Append(s, e)[Len(s) + 1] = e
         /\ \A j \in DOMAIN s : Append(s, e)[j] = s[j]
         /\ DOMAIN Append(s, e) = DOMAIN s \cup {Len(s) + 1}
<1> DEFINE r == Append(s, e)
<1>1. s \in Seq(S \cup {e}) /\ e \in S \cup {e}
  BY SeqDef
<1>2. /\ r \in Seq(S \cup {e}) /\ Len(r) = Len(s) + 1 /\ r[Len(s) + 1] = e
      /\ \A j \in 1 .. Len(s) : r[j] = s[j]
  BY <1>1, AppendProperties
<1>3. DOMAIN r = 1 .. Len(s) + 1 /\ DOMAIN s = 1 .. Len(s) /\ Len(s) \in Nat
  BY <1>2, LenProperties
<1> HIDE DEF r
<1>4. DOMAIN r = DOMAIN s \cup {Len(s) + 1}
  BY <1>3
<1> QED
  BY <1>2, <1>3, <1>4 DEF r

\* A set of indices has a smallest one: that with the smallest set of indices up to it.
LEMMA SmallestIndex ==
  ASSUME NEW n \in Nat, NEW P \in SUBSET (1 .. n), P # {}
  PROVE  \E j \in P : \A h \in P : j <= h
<1> DEFINE S == 1 .. n
           T == {1 .. j : j \in P}
<1>1. IsFiniteSet(S) /\ T \subseteq SUBSET S /\ T # {}
  <2>1. \A j \in P : 1 .. j \subseteq S
    OBVIOUS
  <2>2. IsFiniteSet(S)
    BY FS_Interval
  <2> QED
    BY <2>1, <2>2
<1>2. IsWellFoundedOn(StrictSubsetOrdering(S), SUBSET S)
  BY <1>1, FS_StrictSubsetOrderingWellFounded, FS_FiniteSubsetsOfFinite
<1>3. PICK x \in T : \A y \in T : ~(<<y, x>> \in StrictSubsetOrdering(S))
  <2> HIDE DEF S, T
  <2> QED
    BY <1>1, <1>2, WFMin
<1>4. \A y \in T : ~(y \subseteq x /\ y # x)
  <2> HIDE DEF T
  <2> QED
    BY <1>1, <1>3 DEF StrictSubsetOrdering
<1>5. PICK j \in P : x = 1 .. j
  OBVIOUS
<1>6. ASSUME NEW h \in P PROVE j <= h
  <2>1. SUFFICES ASSUME h < j PROVE FALSE
    OBVIOUS
  <2>2. 1 .. h \subseteq 1 .. j /\ j \in 1 .. j /\ j \notin 1 .. h
    BY <2>1
  <2> QED
    BY <1>4, <1>5, <2>2
<1> QED
  BY <1>6

\* The difference is to an entry of the previous snapshot, if the thread has any.
LEMMA DifferenceOf ==
  ASSUME MonitorTypeOK, NEW c
  PROVE  \/ Previous(c.tid) = {} /\ Difference(c) = 0
         \/ \E j \in Previous(c.tid) : Difference(c) = c.used - prev_threads[j].used
<1> DEFINE P == Previous(c.tid)
<1>1. CASE P = {}
  BY <1>1 DEF Difference
<1>2. CASE P # {}
  <2>1. P \in SUBSET (1 .. prev_thread_count) /\ prev_thread_count \in Nat
    BY Lengths DEF Previous
  <2>2. \E j \in P : \A h \in P : j <= h
    <3> HIDE DEF P
    <3> QED
      BY <1>2, <2>1, SmallestIndex
  <2>3. PICK j \in P : j = CHOOSE g \in P : \A h \in P : g <= h
    BY <2>2
  <2>4. Difference(c) = c.used - prev_threads[j].used
    BY <1>2, <2>3 DEF Difference
  <2> QED
    BY <2>4
<1> QED
  BY <1>1, <1>2

\* What the steps of the threads do to the array of threads.
LEMMA ThreadSteps ==
  ASSUME MonitorTypeOK, NEW t \in Tid
  PROVE  /\ ThreadStarts(t) => /\ threads' \in Seq(Tid) /\ Len(threads') = Len(threads) + 1
                               /\ threads'[Len(threads) + 1] = t
                               /\ \A j \in 1 .. Len(threads) : threads'[j] = threads[j]
         /\ ThreadExits(t) => /\ threads' \in Seq(Tid) /\ Len(threads') = Len(threads) - 1
                              /\ \E e \in DOMAIN threads : \A j \in 1 .. Len(threads) - 1 :
                                    threads'[j] = IF j < e THEN threads[j] ELSE threads[j + 1]
<1>0. threads \in Seq(Tid) /\ Len(threads) \in Nat
  BY Lengths DEF MonitorTypeOK
<1>1. ASSUME ThreadStarts(t)
      PROVE  /\ threads' \in Seq(Tid) /\ Len(threads') = Len(threads) + 1
             /\ threads'[Len(threads) + 1] = t
             /\ \A j \in 1 .. Len(threads) : threads'[j] = threads[j]
  BY <1>0, <1>1, AppendProperties DEF ThreadStarts
<1>2. ASSUME ThreadExits(t)
      PROVE  /\ threads' \in Seq(Tid) /\ Len(threads') = Len(threads) - 1
             /\ \E e \in DOMAIN threads : \A j \in 1 .. Len(threads) - 1 :
                   threads'[j] = IF j < e THEN threads[j] ELSE threads[j + 1]
  <2>1. PICK e \in DOMAIN threads : threads' = RemoveAt(threads, e)
    BY <1>2 DEF ThreadExits
  <2> QED
    BY <1>0, <2>1, RemoveAtProperties
<1> QED
  BY <1>1, <1>2

\* The listing of the threads.
LEMMA ListingStep ==
  ASSUME MonitorTypeOK, ListThreads
  PROVE  /\ tids' \in Seq(Tid) /\ Len(tids') \in Nat /\ Len(tids') <= MaxThreads
         /\ Len(tids') <= Len(threads) /\ current' = <<>> /\ usage' = <<>>
         /\ Size' = Len(tids')
         /\ \A k \in 1 .. Size' : Snapped'[k] = threads[k] /\ k \in DOMAIN threads
<1>1. PICK n \in 1 .. Len(threads) : tids' = Listed(n)
  BY DEF ListThreads
<1>2. PICK m \in 1 .. Len(threads) : m <= MaxThreads /\ tids' = SubSeq(threads, 1, m)
  BY <1>1, Lengths, ArraySizes DEF Listed
<1>3. \A j \in 1 .. Len(threads) : threads[j] \in Tid
  BY Lengths, ElementOfSeq DEF MonitorTypeOK
<1>4. tids' \in Seq(Tid) /\ Len(tids') = m /\ \A k \in 1 .. m : tids'[k] = threads[k]
  BY <1>2, <1>3, Lengths, SubSeqProperties
<1>5. current' = <<>> /\ usage' = <<>> /\ Len(current') = 0
  BY EmptySeq DEF ListThreads
<1>6. Size' = m
  BY <1>4, <1>5 DEF Size
<1>7. ASSUME NEW k \in 1 .. m PROVE Snapped'[k] = threads[k]
  <2>1. ~(k <= Len(current')) /\ k - Len(current') = k
    BY <1>5
  <2> QED
    BY <1>4, <1>6, <2>1 DEF Snapped, Member
<1> QED
  BY <1>2, <1>4, <1>5, <1>6, <1>7, Lengths

\* The reading of one thread.
LEMMA ReadStep ==
  ASSUME MonitorTypeOK, ReadThread
  PROVE  /\ current' \in Seq(Stat) /\ Len(current') = Len(current) + 1
         /\ \A k \in DOMAIN current : current'[k] = current[k]
         /\ current'[Len(current) + 1] = [tid |-> Head(tids), used |-> TicksRead(Head(tids))]
         /\ tids' \in Seq(Tid) /\ Head(tids) \in Tid /\ TicksRead(Head(tids)) \in Nat
         /\ Size' = Size /\ Snapped' = Snapped
         /\ Len(current) + 1 \in 1 .. Size /\ Snapped[Len(current) + 1] = Head(tids)
<1>1. tids \in Seq(Tid) /\ tids # <<>> /\ current \in Seq(Stat)
  BY DEF MonitorTypeOK, ReadThread
<1>2. /\ Head(tids) \in Tid /\ Head(tids) = tids[1] /\ tids' \in Seq(Tid)
      /\ Len(tids') = Len(tids) - 1 /\ \A j \in 1 .. Len(tids) - 1 : tids'[j] = tids[j + 1]
      /\ Len(tids) > 0
  BY <1>1, HeadTailProperties, EmptySeq, Lengths DEF ReadThread
<1>3. PICK s \in Stat : s = [tid |-> Head(tids), used |-> TicksRead(Head(tids))]
  <2>1. TicksRead(Head(tids)) \in Nat
    BY <1>2, ArraySizes DEF TicksRead, MonitorTypeOK
  <2> QED
    BY <1>2, <2>1 DEF Stat
<1>4. /\ current' \in Seq(Stat) /\ Len(current') = Len(current) + 1
      /\ \A k \in 1 .. Len(current) : current'[k] = current[k]
      /\ current'[Len(current) + 1] = s
  BY <1>1, <1>3, AppendProperties DEF ReadThread
<1>5. Size' = Size
  BY <1>2, <1>4, Lengths DEF Size
<1>6. ASSUME NEW k \in 1 .. Size PROVE Member(k)' = Member(k)
  <2>1. CASE k <= Len(current)
    <3>1. k <= Len(current') /\ k \in 1 .. Len(current)
      BY <1>4, <2>1, Lengths
    <3> QED
      BY <1>4, <2>1, <3>1 DEF Member
  <2>2. CASE k = Len(current) + 1
    <3>1. k <= Len(current') /\ ~(k <= Len(current)) /\ k - Len(current) = 1
      BY <1>4, <2>2, Lengths
    <3> QED
      BY <1>2, <1>3, <1>4, <2>2, <3>1 DEF Member
  <2>3. CASE k > Len(current) + 1
    <3>1. /\ ~(k <= Len(current')) /\ ~(k <= Len(current))
          /\ k - Len(current') \in 1 .. Len(tids) - 1
          /\ (k - Len(current')) + 1 = k - Len(current)
      BY <1>2, <1>4, <2>3, Lengths DEF Size
    <3> QED
      BY <1>2, <3>1 DEF Member
  <2> QED
    BY <2>1, <2>2, <2>3, Lengths
<1>7. Snapped' = Snapped
  BY <1>5, <1>6 DEF Snapped
<1>8. Len(current) + 1 \in 1 .. Size /\ Snapped[Len(current) + 1] = Head(tids)
  <2>1. Len(current) + 1 \in 1 .. Size
    BY <1>2, Lengths DEF Size
  <2>2. ~(Len(current) + 1 <= Len(current)) /\ (Len(current) + 1) - Len(current) = 1
    BY Lengths
  <2> QED
    BY <1>2, <2>1, <2>2 DEF Snapped, Member
<1>9. TicksRead(Head(tids)) \in Nat
  BY <1>2, ArraySizes DEF TicksRead, MonitorTypeOK
<1> QED
  BY <1>2, <1>3, <1>4, <1>5, <1>7, <1>8, <1>9, Lengths

----------------------------------------------------------------------------
(* Types, and where the snapshot is.                                       *)

LEMMA InitType == Init => TypeOK /\ PlaceInv
<1> SUFFICES ASSUME Init PROVE TypeOK /\ PlaceInv
  OBVIOUS
<1> USE DEF Init, MonitorInit
<1>1. /\ threads \in Seq(Tid) /\ tids \in Seq(Tid) /\ current \in Seq(Stat) /\ usage \in Seq(Int)
      /\ Len(tids) = 0 /\ Len(current) = 0 /\ Len(usage) = 0
  BY EmptySeq, MonitorAssumption
<1>2. ticks \in [Tid -> 0 .. MaxTicks] /\ prev_thread_count \in 0 .. MaxThreads /\ seq \in 0 .. Every - 1
  BY ArraySizes
<1>3. /\ prev_threads \in [1 .. MaxThreads -> Stat \cup {NoStat}]
      /\ {reading, earlier} \subseteq [Tid -> Nat \cup {Unread}]
  OBVIOUS
<1>4. MonitorTypeOK
  BY <1>1, <1>2, <1>3 DEF MonitorTypeOK
<1>5. {g_running, expired, writer_created} \subseteq BOOLEAN
  OBVIOUS
<1>6. TypeOK
  BY <1>2, <1>4, <1>5 DEF TypeOK
<1>7. PlaceInv
  BY <1>1, ArraySizes DEF PlaceInv, Size
<1> QED
  BY <1>6, <1>7

LEMMA MonitorTypeStep == MonitorTypeOK /\ PlaceInv /\ ArraysInv /\ [Next]_vars => MonitorTypeOK'
<1> SUFFICES ASSUME MonitorTypeOK, PlaceInv, ArraysInv, [Next]_vars PROVE MonitorTypeOK'
  OBVIOUS
<1>1. CASE Still
  BY <1>1 DEF Still, MonitorTypeOK, procVars, prevVars, readVars
<1>2. ASSUME NEW t \in Tid, ThreadStarts(t) \/ ThreadWorks(t) \/ ThreadExits(t)
      PROVE  MonitorTypeOK'
  <2>1. threads' \in Seq(Tid)
    BY <1>2, ThreadSteps DEF ThreadWorks, MonitorTypeOK
  <2>2. ticks' \in [Tid -> 0 .. MaxTicks]
    <3>1. CASE ThreadWorks(t)
      <4>1. ticks' = [ticks EXCEPT ![t] = ticks[t] + 1] /\ ticks[t] < MaxTicks
        BY <3>1 DEF ThreadWorks
      <4>2. ticks[t] + 1 \in 0 .. MaxTicks
        BY <4>1, ArraySizes DEF MonitorTypeOK
      <4> QED
        BY <4>1, <4>2 DEF MonitorTypeOK
    <3> QED
      BY <1>2, <3>1 DEF ThreadStarts, ThreadExits, MonitorTypeOK
  <2>3. fresh' \subseteq Tid /\ UNCHANGED monitorVars
    BY <1>2 DEF ThreadStarts, ThreadWorks, ThreadExits, MonitorTypeOK
  <2> QED
    BY <2>1, <2>2, <2>3 DEF MonitorTypeOK, monitorVars, snapVars, prevVars, readVars
<1>3. CASE ListThreads
  BY <1>3, ListingStep, EmptySeq DEF ListThreads, MonitorTypeOK, procVars, prevVars, readVars
<1>4. CASE ReadThread
  <2>1. reading' = [reading EXCEPT ![Head(tids)] =
                      IF Contains(threads, Head(tids)) THEN ticks[Head(tids)] ELSE Unread]
    BY <1>4 DEF ReadThread
  <2>2. Head(tids) \in Tid /\ ticks[Head(tids)] \in Nat
    BY <1>4, ReadStep, ArraySizes DEF MonitorTypeOK
  <2>3. reading' \in [Tid -> Nat \cup {Unread}]
    BY <2>1, <2>2 DEF MonitorTypeOK
  <2> QED
    BY <1>4, <2>3, ReadStep DEF ReadThread, MonitorTypeOK, procVars, prevVars
<1>5. CASE AllRead
  BY <1>5 DEF AllRead, MonitorTypeOK, procVars, prevVars, readVars
<1>6. CASE CompareThread
  <2> DEFINE k == Len(usage) + 1
  <2>1. /\ k <= Len(current) /\ usage' = Append(usage, Difference(current[k]))
        /\ prev_threads' = [prev_threads EXCEPT ![k] = current[k]]
        /\ UNCHANGED <<procVars, mpc, tids, current, prev_thread_count, readVars>>
    BY <1>6 DEF CompareThread
  <2>2. k \in DOMAIN current
    BY <2>1, Lengths
  <2>3. current[k] \in Stat
    BY <2>2, Lengths
  <2> HIDE DEF k
  <2>4. Difference(current[k]) \in Int
    <3>1. current[k].used \in Nat
      BY <2>3 DEF Stat
    <3>2. \A j \in Previous(current[k].tid) : prev_threads[j].used \in Nat
      BY DEF Previous, ArraysInv, Old, Stat
    <3> QED
      BY <3>1, <3>2, DifferenceOf
  <2>5. usage' \in Seq(Int)
    BY <2>1, <2>4, AppendProperties DEF MonitorTypeOK
  <2>6. prev_threads' \in [1 .. MaxThreads -> Stat \cup {NoStat}]
    BY <2>1, <2>3 DEF MonitorTypeOK
  <2> QED
    BY <2>1, <2>5, <2>6 DEF MonitorTypeOK, procVars, readVars
<1>7. CASE Compared
  <2>1. prev_thread_count' \in 0 .. MaxThreads
    BY <1>7, Lengths, ArraySizes DEF Compared, PlaceInv, Size
  <2>2. {reading', earlier'} \subseteq [Tid -> Nat \cup {Unread}]
    BY <1>7 DEF Compared, MonitorTypeOK
  <2> QED
    BY <1>7, <2>1, <2>2, EmptySeq DEF Compared, MonitorTypeOK, procVars
<1> QED
  BY <1>1, <1>2, <1>3, <1>4, <1>5, <1>6, <1>7, Steps

LEMMA PlaceStep == MonitorTypeOK /\ PlaceInv /\ [Next]_vars => PlaceInv'
<1> SUFFICES ASSUME MonitorTypeOK, PlaceInv, [Next]_vars PROVE PlaceInv'
  OBVIOUS
<1>1. pc' # "snapshot" => mpc' = "idle"
  <2>1. CASE StartSnapshot
    BY <2>1 DEF StartSnapshot, PlaceInv
  <2>2. CASE TakeSnapshot
    BY <2>2 DEF TakeSnapshot
  <2>3. CASE Start \/ CreateTopic \/ CreateWriter \/ TestRunning \/ WriteSample \/ CheckClock
    BY <2>3 DEF Start, CreateTopic, CreateWriter, TestRunning, WriteSample, CheckClock, PlaceInv,
                monitorVars, snapVars, Goes
  <2>4. CASE OtherThreads
    BY <2>4 DEF OtherThreads, Process, ThreadStarts, ThreadWorks, ThreadExits, PlaceInv,
                monitorVars, snapVars, mainVars
  <2>5. CASE Signal \/ TimePasses \/ Ended \/ UNCHANGED vars
    BY <2>5 DEF Signal, TimePasses, Ended, vars, PlaceInv, monitorVars, snapVars, mainVars
  <2> QED
    BY <2>1, <2>2, <2>3, <2>4, <2>5 DEF Next, MainStep
<1> DEFINE Arrays == /\ mpc' # "read" => tids' = <<>>
                     /\ mpc' \notin {"read", "compare"} => current' = <<>>
                     /\ mpc' # "compare" => usage' = <<>>
                     /\ Size' <= MaxThreads /\ Len(usage') <= Len(current')
<1>2. ASSUME Still PROVE Arrays
  BY <1>2 DEF Still, PlaceInv, Size
<1>3. ASSUME NEW t \in Tid, ThreadStarts(t) \/ ThreadWorks(t) \/ ThreadExits(t)
      PROVE  Arrays
  BY <1>3 DEF ThreadStarts, ThreadWorks, ThreadExits, PlaceInv, Size, monitorVars, snapVars
<1>4. ASSUME ListThreads PROVE Arrays
  <2>1. Len(usage') <= Len(current') /\ Size' <= MaxThreads
    BY <1>4, ListingStep, EmptySeq
  <2> QED
    BY <1>4, <2>1 DEF ListThreads
<1>5. ASSUME ReadThread PROVE Arrays
  <2>1. Len(usage') <= Len(current') /\ Size' <= MaxThreads
    BY <1>5, ReadStep, Lengths DEF ReadThread, PlaceInv
  <2> QED
    BY <1>5, <2>1 DEF ReadThread, PlaceInv
<1>6. ASSUME AllRead PROVE Arrays
  BY <1>6 DEF AllRead, PlaceInv, Size
<1>7. ASSUME CompareThread PROVE Arrays
  <2>1. /\ mpc = "compare" /\ Len(usage) + 1 <= Len(current)
        /\ usage' = Append(usage, Difference(current[Len(usage) + 1]))
        /\ UNCHANGED <<mpc, tids, current>>
    BY <1>7 DEF CompareThread
  <2>2. Len(usage') = Len(usage) + 1
    BY <2>1, Appended DEF MonitorTypeOK
  <2> QED
    BY <2>1, <2>2 DEF PlaceInv, Size
<1>8. ASSUME Compared PROVE Arrays
  <2>1. mpc' = "idle" /\ tids' = <<>> /\ current' = <<>> /\ usage' = <<>>
    BY <1>8 DEF Compared, PlaceInv
  <2> QED
    BY <2>1, EmptySeq, ArraySizes DEF Size
<1>9. Arrays
  BY <1>2, <1>3, <1>4, <1>5, <1>6, <1>7, <1>8, Steps
<1> QED
  BY <1>1, <1>9 DEF PlaceInv

----------------------------------------------------------------------------
(* What the steps do to the sets that the invariant is about.              *)

LEMMA SameArrays ==
  ASSUME UNCHANGED <<tids, current, usage, prevVars>>
  PROVE  /\ Size' = Size /\ Snapped' = Snapped /\ Old' = Old /\ Intact' = Intact
         /\ UNCHANGED <<tids, current, usage, prev_threads, prev_thread_count>>
<1>1. UNCHANGED <<tids, current, usage, prev_threads, prev_thread_count>>
  BY DEF prevVars
<1>2. Size' = Size
  BY <1>1 DEF Size
<1>3. Snapped' = Snapped
  BY <1>1, <1>2 DEF Snapped, Member
<1> QED
  BY <1>1, <1>2, <1>3 DEF Old, Intact

\* One comparison, of the entry k.
LEMMA CompareStep ==
  ASSUME MonitorTypeOK, PlaceInv, CompareThread, NEW k, k = Len(usage) + 1
  PROVE  /\ k \in DOMAIN current /\ k \in 1 .. MaxThreads /\ k \in 1 .. Size
         /\ Len(usage') = k /\ usage'[k] = Difference(current[k])
         /\ \A j \in DOMAIN usage : usage'[j] = usage[j]
         /\ DOMAIN usage' = DOMAIN usage \cup {k}
         /\ prev_threads'[k] = current[k]
         /\ \A p \in Old : p # k => prev_threads'[p] = prev_threads[p]
         /\ Size' = Size /\ Snapped' = Snapped /\ Old' = Old
         /\ Intact' = {p \in Intact : p # k}
         /\ UNCHANGED <<procVars, mpc, tids, current, prev_thread_count, readVars>>
<1>1. /\ k <= Len(current) /\ usage' = Append(usage, Difference(current[k]))
      /\ prev_threads' = [prev_threads EXCEPT ![k] = current[k]]
      /\ UNCHANGED <<procVars, mpc, tids, current, prev_thread_count, readVars>>
  BY DEF CompareThread
<1>2. k \in DOMAIN current /\ k \in 1 .. Size /\ k \in 1 .. MaxThreads
  BY <1>1, Lengths, ArraySizes DEF PlaceInv
<1>3. PICK d : d = Difference(current[k])
  OBVIOUS
<1>4. /\ Len(usage') = k /\ usage'[k] = d
      /\ \A j \in DOMAIN usage : usage'[j] = usage[j]
      /\ DOMAIN usage' = DOMAIN usage \cup {k}
  BY <1>1, <1>3, Lengths, Appended DEF MonitorTypeOK
<1>5. Size' = Size
  BY <1>1 DEF Size
<1>6. Snapped' = Snapped /\ Old' = Old
  BY <1>1, <1>5 DEF Snapped, Member, Old
<1>7. prev_threads'[k] = current[k] /\ \A p \in Old : p # k => prev_threads'[p] = prev_threads[p]
  <2>1. Old \subseteq 1 .. MaxThreads
    BY ArraySizes DEF Old, MonitorTypeOK
  <2> QED
    BY <1>1, <1>2, <2>1 DEF MonitorTypeOK
<1>8. Intact' = {p \in Intact : p # k}
  <2>1. \A p \in Old : p > k <=> (p > Len(usage) /\ p # k)
    BY Lengths DEF Old
  <2> QED
    BY <1>4, <1>6, <2>1 DEF Intact
<1> QED
  BY <1>1, <1>2, <1>3, <1>4, <1>5, <1>6, <1>7, <1>8

\* The end of a snapshot: its array becomes that of the previous one.
LEMMA ComparedStep ==
  ASSUME MonitorTypeOK, PlaceInv, ArraysInv, Compared
  PROVE  /\ Size' = 0 /\ Len(usage') = 0 /\ DOMAIN current' = {} /\ DOMAIN usage' = {}
         /\ 1 .. Size' = {} /\ 1 .. Len(usage') = {}
         /\ Old' = DOMAIN current /\ Intact' = DOMAIN current
         /\ \A p \in DOMAIN current : prev_threads'[p] = current[p]
         /\ earlier' = reading /\ reading' = [t \in Tid |-> Unread]
         /\ mpc' = "idle" /\ UNCHANGED <<fresh, threads>>
<1>1. /\ tids' = <<>> /\ current' = <<>> /\ usage' = <<>> /\ mpc' = "idle"
      /\ prev_thread_count' = Len(current) /\ prev_threads' = prev_threads
      /\ earlier' = reading /\ reading' = [t \in Tid |-> Unread]
      /\ Len(usage) = Len(current) /\ UNCHANGED <<fresh, threads>>
  BY DEF Compared, PlaceInv, procVars
<1>2. Len(tids') = 0 /\ Len(current') = 0 /\ Len(usage') = 0
  BY <1>1, EmptySeq
<1>3. Size' = 0 /\ DOMAIN current' = {} /\ DOMAIN usage' = {}
  BY <1>1, <1>2 DEF Size
<1>4. Old' = DOMAIN current /\ Intact' = DOMAIN current
  BY <1>1, <1>2, Lengths DEF Old, Intact
<1>5. \A p \in DOMAIN current : prev_threads'[p] = current[p]
  BY <1>1, Lengths DEF ArraysInv
<1>6. 1 .. Size' = {} /\ 1 .. Len(usage') = {}
  BY <1>2, <1>3
<1> QED
  BY <1>1, <1>2, <1>3, <1>4, <1>5, <1>6

----------------------------------------------------------------------------
(* The arrays and the order of the threads in them.                        *)

LEMMA ArraysStep == MonitorTypeOK /\ PlaceInv /\ ArraysInv /\ [Next]_vars => ArraysInv'
<1> SUFFICES ASSUME MonitorTypeOK, PlaceInv, ArraysInv, [Next]_vars PROVE ArraysInv'
  OBVIOUS
<1>1. CASE UNCHANGED <<tids, current, usage, prevVars>>
  BY <1>1, SameArrays DEF ArraysInv
<1>2. CASE ListThreads
  BY <1>2, ListingStep, EmptySeq DEF ListThreads, ArraysInv, prevVars, Old
<1>3. CASE ReadThread
  <2>1. UNCHANGED <<usage, prevVars>> /\ Len(usage) = 0
    BY <1>3, EmptySeq DEF ReadThread, PlaceInv
  <2> QED
    BY <2>1 DEF ArraysInv, prevVars, Old
<1>4. CASE CompareThread
  <2>1. PICK k \in Nat : k = Len(usage) + 1
    BY Lengths
  <2>2. /\ k \in DOMAIN current /\ Len(usage') = k /\ prev_threads'[k] = current[k]
        /\ \A p \in Old : p # k => prev_threads'[p] = prev_threads[p]
        /\ Old' = Old /\ current' = current
    BY <1>4, <2>1, CompareStep
  <2>3. \A p \in Old' : prev_threads'[p] \in Stat
    <3>1. current[k] \in Stat
      BY <2>2, Lengths
    <3> QED
      BY <2>2, <3>1 DEF ArraysInv
  <2>4. ASSUME NEW j \in 1 .. k PROVE prev_threads'[j] = current[j]
    <3>1. CASE j = k
      BY <2>2, <3>1
    <3>2. CASE j # k
      <4>1. j \in 1 .. Len(usage) /\ j \in 1 .. MaxThreads
        BY <2>1, <2>2, <3>2, Lengths, ArraySizes DEF PlaceInv, Size
      <4>2. prev_threads' = [prev_threads EXCEPT ![k] = current[k]]
        BY <1>4, <2>1 DEF CompareThread
      <4> QED
        BY <3>2, <4>1, <4>2 DEF ArraysInv, MonitorTypeOK
    <3> QED
      BY <3>1, <3>2
  <2> QED
    BY <2>2, <2>3, <2>4 DEF ArraysInv
<1>5. CASE Compared
  <2>1. \A p \in DOMAIN current : current[p] \in Stat
    BY Lengths
  <2> QED
    BY <1>5, <2>1, ComparedStep DEF ArraysInv
<1>6. CASE Still \/ AllRead \/ \E t \in Tid : ThreadStarts(t) \/ ThreadWorks(t) \/ ThreadExits(t)
  BY <1>1, <1>6 DEF Still, AllRead, ThreadStarts, ThreadWorks, ThreadExits, monitorVars, snapVars
<1> QED
  BY <1>2, <1>3, <1>4, <1>5, <1>6, Steps

LEMMA TidsStep == MonitorTypeOK /\ PlaceInv /\ ArraysInv /\ TidsInv /\ [Next]_vars => TidsInv'
<1> SUFFICES ASSUME MonitorTypeOK, PlaceInv, ArraysInv, TidsInv, [Next]_vars PROVE TidsInv'
  OBVIOUS
<1>1. CASE UNCHANGED <<tids, current, usage, prevVars, fresh, threads>>
  BY <1>1, SameArrays DEF TidsInv
<1>2. ASSUME NEW t \in Tid, ThreadStarts(t) PROVE TidsInv'
  <2>1. /\ t \in fresh /\ fresh' = fresh \ {t} /\ UNCHANGED <<tids, current, usage, prevVars>>
    BY <1>2 DEF ThreadStarts, monitorVars, snapVars
  <2>2. /\ threads'[Len(threads) + 1] = t /\ \A j \in 1 .. Len(threads) : threads'[j] = threads[j]
        /\ DOMAIN threads' = 1 .. Len(threads) + 1 /\ DOMAIN threads = 1 .. Len(threads)
        /\ Len(threads) \in Nat
    BY <1>2, ThreadSteps, Lengths, LenProperties
  <2>3. \A j \in DOMAIN threads' : (j \in DOMAIN threads /\ threads'[j] = threads[j])
                                  \/ (j = Len(threads) + 1 /\ threads'[j] = t)
    BY <2>2
  <2>4. \A j \in DOMAIN threads : threads[j] # t
    BY <2>1 DEF TidsInv
  <2>5. /\ \A j, k \in DOMAIN threads' : threads'[j] = threads'[k] => j = k
        /\ \A j \in DOMAIN threads' : threads'[j] \notin fresh'
    BY <2>1, <2>3, <2>4 DEF TidsInv
  <2> QED
    BY <2>1, <2>5, SameArrays DEF TidsInv
<1>3. ASSUME NEW t \in Tid, ThreadExits(t) PROVE TidsInv'
  <2>1. UNCHANGED <<tids, current, usage, prevVars, fresh>>
    BY <1>3 DEF ThreadExits, monitorVars, snapVars
  <2>2. PICK e \in DOMAIN threads : \A j \in 1 .. Len(threads) - 1 :
            threads'[j] = IF j < e THEN threads[j] ELSE threads[j + 1]
    BY <1>3, ThreadSteps
  <2>3. /\ DOMAIN threads' = 1 .. Len(threads) - 1 /\ DOMAIN threads = 1 .. Len(threads)
        /\ Len(threads) \in Nat /\ e \in Nat
    <3>1. threads' \in Seq(Tid) /\ Len(threads') = Len(threads) - 1
      BY <1>3, ThreadSteps
    <3> QED
      BY <2>2, <3>1, Lengths, LenProperties
  <2>4. \A j, k \in DOMAIN threads' : threads'[j] = threads'[k] => j = k
    <3> SUFFICES ASSUME NEW j \in DOMAIN threads', NEW k \in DOMAIN threads', threads'[j] = threads'[k]
                 PROVE  j = k
      OBVIOUS
    <3>1. PICK g \in DOMAIN threads : threads'[j] = threads[g] /\ g = IF j < e THEN j ELSE j + 1
      BY <2>2, <2>3
    <3>2. PICK h \in DOMAIN threads : threads'[k] = threads[h] /\ h = IF k < e THEN k ELSE k + 1
      BY <2>2, <2>3
    <3>3. g = h
      BY <3>1, <3>2 DEF TidsInv
    <3> QED
      BY <2>3, <3>1, <3>2, <3>3
  <2>5. \A j \in DOMAIN threads' : threads'[j] \notin fresh'
    <3> SUFFICES ASSUME NEW j \in DOMAIN threads' PROVE threads'[j] \notin fresh'
      OBVIOUS
    <3>1. PICK g \in DOMAIN threads : threads'[j] = threads[g]
      BY <2>2, <2>3
    <3> QED
      BY <2>1, <3>1 DEF TidsInv
  <2> QED
    BY <2>1, <2>4, <2>5, SameArrays DEF TidsInv
<1>4. CASE ListThreads
  <2>1. UNCHANGED <<fresh, threads, prev_threads>> /\ Old' = Old
    BY <1>4 DEF ListThreads, procVars, prevVars, Old
  <2>2. \A k \in 1 .. Size' : Snapped'[k] = threads[k] /\ k \in DOMAIN threads
    BY <1>4, ListingStep
  <2> QED
    BY <2>1, <2>2 DEF TidsInv
<1>5. CASE ReadThread
  <2>1. UNCHANGED <<fresh, threads, prev_threads>> /\ Old' = Old
    BY <1>5 DEF ReadThread, procVars, prevVars, Old
  <2> QED
    BY <1>5, <2>1, ReadStep DEF TidsInv
<1>6. CASE CompareThread
  <2>1. PICK k \in Nat : k = Len(usage) + 1
    BY Lengths
  <2>2. /\ k \in DOMAIN current /\ prev_threads'[k] = current[k]
        /\ \A p \in Old : p # k => prev_threads'[p] = prev_threads[p]
        /\ Old' = Old /\ Size' = Size /\ Snapped' = Snapped /\ UNCHANGED <<fresh, threads>>
    BY <1>6, <2>1, CompareStep DEF procVars
  <2>3. current[k].tid = Snapped[k] /\ k \in 1 .. Size
    BY <2>2, Lengths
  <2>4. \A p \in Old' : prev_threads'[p].tid \notin fresh'
    BY <2>2, <2>3 DEF TidsInv
  <2> QED
    BY <2>2, <2>4 DEF TidsInv
<1>7. CASE Compared
  <2>1. \A p \in DOMAIN current : current[p].tid \notin fresh
    BY Lengths DEF TidsInv
  <2> QED
    BY <1>7, <2>1, ComparedStep DEF TidsInv
<1>8. CASE Still \/ AllRead \/ \E t \in Tid : ThreadWorks(t)
  BY <1>1, <1>8 DEF Still, AllRead, ThreadWorks, monitorVars, snapVars, procVars
<1> QED
  BY <1>2, <1>3, <1>4, <1>5, <1>6, <1>7, <1>8, Steps

LEMMA OrderStep ==
  MonitorTypeOK /\ PlaceInv /\ ArraysInv /\ TidsInv /\ OrderInv /\ [Next]_vars => OrderInv'
<1> SUFFICES ASSUME MonitorTypeOK, PlaceInv, ArraysInv, TidsInv, OrderInv, [Next]_vars PROVE OrderInv'
  OBVIOUS
<1>1. CASE UNCHANGED <<tids, current, usage, prevVars, threads>>
  BY <1>1, SameArrays DEF OrderInv
<1>2. ASSUME NEW t \in Tid, ThreadStarts(t) PROVE OrderInv'
  <2>1. t \in fresh /\ UNCHANGED <<tids, current, usage, prevVars>>
    BY <1>2 DEF ThreadStarts, monitorVars, snapVars
  <2>2. /\ threads'[Len(threads) + 1] = t /\ \A j \in 1 .. Len(threads) : threads'[j] = threads[j]
        /\ DOMAIN threads' = 1 .. Len(threads) + 1 /\ DOMAIN threads = 1 .. Len(threads)
        /\ Len(threads) \in Nat
    BY <1>2, ThreadSteps, Lengths, LenProperties
  <2>3. \A j \in DOMAIN threads' : (j \in DOMAIN threads /\ threads'[j] = threads[j])
                                  \/ (j = Len(threads) + 1 /\ threads'[j] = t)
    BY <2>2
  <2>4. /\ \A k \in 1 .. Size : Snapped[k] # t
        /\ \A p \in Old : prev_threads[p].tid # t
    BY <2>1 DEF TidsInv
  <2>5. /\ \A j \in DOMAIN threads', k \in 1 .. Size : Snapped[k] = threads'[j] => j <= k
        /\ \A j \in DOMAIN threads', p \in Old : prev_threads[p].tid = threads'[j] => j <= p
    BY <2>3, <2>4 DEF OrderInv
  <2> QED
    BY <2>1, <2>5, SameArrays DEF OrderInv
<1>3. ASSUME NEW t \in Tid, ThreadExits(t) PROVE OrderInv'
  <2>1. UNCHANGED <<tids, current, usage, prevVars>>
    BY <1>3 DEF ThreadExits, monitorVars, snapVars
  <2>2. PICK e \in DOMAIN threads : \A j \in 1 .. Len(threads) - 1 :
            threads'[j] = IF j < e THEN threads[j] ELSE threads[j + 1]
    BY <1>3, ThreadSteps
  <2>3. /\ DOMAIN threads' = 1 .. Len(threads) - 1 /\ DOMAIN threads = 1 .. Len(threads)
        /\ Len(threads) \in Nat /\ e \in Nat
    <3>1. threads' \in Seq(Tid) /\ Len(threads') = Len(threads) - 1
      BY <1>3, ThreadSteps
    <3> QED
      BY <2>2, <3>1, Lengths, LenProperties
  <2>4. \A j \in DOMAIN threads' : \E g \in DOMAIN threads : threads'[j] = threads[g] /\ j <= g
    BY <2>2, <2>3
  <2>5. ASSUME NEW j \in DOMAIN threads'
        PROVE  /\ \A k \in 1 .. Size : Snapped[k] = threads'[j] => j <= k
               /\ \A p \in Old : prev_threads[p].tid = threads'[j] => j <= p
    <3>1. PICK g \in DOMAIN threads : threads'[j] = threads[g] /\ j <= g
      BY <2>4
    <3>2. /\ \A k \in 1 .. Size : Snapped[k] = threads'[j] => g <= k
          /\ \A p \in Old : prev_threads[p].tid = threads'[j] => g <= p
      BY <3>1 DEF OrderInv
    <3>3. j \in Nat /\ g \in Nat /\ Old \subseteq Nat
      BY <2>3, Lengths DEF Old
    <3> QED
      BY <3>1, <3>2, <3>3
  <2> QED
    BY <2>1, <2>5, SameArrays DEF OrderInv
<1>4. CASE ListThreads
  <2>1. UNCHANGED <<threads, prev_threads>> /\ Old' = Old
    BY <1>4 DEF ListThreads, procVars, prevVars, Old
  <2>2. \A k \in 1 .. Size' : Snapped'[k] = threads[k] /\ k \in DOMAIN threads
    BY <1>4, ListingStep
  <2>3. ASSUME NEW k \in 1 .. Size'
        PROVE  /\ \A j \in DOMAIN threads : Snapped'[k] = threads[j] => j <= k
               /\ \A p \in Old : prev_threads[p].tid = Snapped'[k] => k <= p
    <3>1. \A j \in DOMAIN threads : Snapped'[k] = threads[j] => j = k
      BY <2>2 DEF TidsInv
    <3> QED
      BY <2>2, <3>1, Lengths DEF OrderInv
  <2>4. \A j \in DOMAIN threads', p \in Old' : prev_threads'[p].tid = threads'[j] => j <= p
    BY <2>1 DEF OrderInv
  <2>5. \A j \in DOMAIN threads', k \in 1 .. Size' : Snapped'[k] = threads'[j] => j <= k
    BY <2>1, <2>3
  <2>6. \A k \in 1 .. Size', p \in Old' : prev_threads'[p].tid = Snapped'[k] => k <= p
    BY <2>1, <2>3
  <2> QED
    BY <2>4, <2>5, <2>6 DEF OrderInv
<1>5. CASE ReadThread
  <2>1. UNCHANGED <<threads, prev_threads>> /\ Old' = Old
    BY <1>5 DEF ReadThread, procVars, prevVars, Old
  <2> QED
    BY <1>5, <2>1, ReadStep DEF OrderInv
<1>6. CASE CompareThread
  <2>1. PICK k \in Nat : k = Len(usage) + 1
    BY Lengths
  <2>2. /\ k \in DOMAIN current /\ prev_threads'[k] = current[k]
        /\ \A p \in Old : p # k => prev_threads'[p] = prev_threads[p]
        /\ Old' = Old /\ Size' = Size /\ Snapped' = Snapped /\ UNCHANGED threads
    BY <1>6, <2>1, CompareStep DEF procVars
  <2>3. current[k].tid = Snapped[k] /\ k \in 1 .. Size
    BY <2>2, Lengths
  <2>4. \A j \in DOMAIN threads, p \in Old : prev_threads'[p].tid = threads[j] => j <= p
    BY <2>2, <2>3 DEF OrderInv
  <2>5. \A j \in 1 .. Size, p \in Old : prev_threads'[p].tid = Snapped[j] => j <= p
    <3>1. \A j \in 1 .. Size : Snapped[k] = Snapped[j] => j = k
      BY <2>3 DEF TidsInv
    <3> QED
      BY <2>1, <2>2, <2>3, <3>1 DEF OrderInv
  <2> QED
    BY <2>2, <2>4, <2>5 DEF OrderInv
<1>7. CASE Compared
  <2>1. \A p \in DOMAIN current, j \in DOMAIN threads : current[p].tid = threads[j] => j <= p
    BY Lengths DEF OrderInv
  <2> QED
    BY <1>7, <2>1, ComparedStep DEF OrderInv
<1>8. CASE Still \/ AllRead \/ \E t \in Tid : ThreadWorks(t)
  BY <1>1, <1>8 DEF Still, AllRead, ThreadWorks, monitorVars, snapVars, procVars
<1> QED
  BY <1>2, <1>3, <1>4, <1>5, <1>6, <1>7, <1>8, Steps

----------------------------------------------------------------------------
(* What has been read, and what is reported.                               *)

\* A thread that has exited does not come back under the same id.
LEMMA GoneStays ==
  ASSUME MonitorTypeOK, PlaceInv, [Next]_vars, NEW x, x \notin fresh, Gone(x)
  PROVE  Gone(x)'
<1>1. \A j \in DOMAIN threads : threads[j] # x
  BY Lengths DEF Gone, Contains
<1>2. CASE UNCHANGED threads
  BY <1>2 DEF Gone, Contains
<1>3. ASSUME NEW t \in Tid, ThreadStarts(t) PROVE Gone(x)'
  <2>1. t # x
    BY <1>3 DEF ThreadStarts
  <2>2. \A j \in 1 .. Len(threads') : threads'[j] = t \/ \E g \in DOMAIN threads : threads'[j] = threads[g]
    <3>1. /\ Len(threads') = Len(threads) + 1 /\ threads'[Len(threads) + 1] = t
          /\ \A j \in 1 .. Len(threads) : threads'[j] = threads[j]
      BY <1>3, ThreadSteps
    <3>2. DOMAIN threads = 1 .. Len(threads) /\ Len(threads) \in Nat
      BY Lengths
    <3> QED
      BY <3>1, <3>2
  <2> QED
    BY <1>1, <2>1, <2>2 DEF Gone, Contains
<1>4. ASSUME NEW t \in Tid, ThreadExits(t) PROVE Gone(x)'
  <2>1. \A j \in 1 .. Len(threads') : \E g \in DOMAIN threads : threads'[j] = threads[g]
    <3>1. PICK e \in DOMAIN threads : \A j \in 1 .. Len(threads) - 1 :
              threads'[j] = IF j < e THEN threads[j] ELSE threads[j + 1]
      BY <1>4, ThreadSteps
    <3>2. Len(threads') = Len(threads) - 1
      BY <1>4, ThreadSteps
    <3>3. DOMAIN threads = 1 .. Len(threads) /\ Len(threads) \in Nat
      BY Lengths
    <3> QED
      BY <3>1, <3>2, <3>3
  <2> QED
    BY <1>1, <2>1 DEF Gone, Contains
<1>5. CASE Still \/ ListThreads \/ ReadThread \/ AllRead \/ CompareThread \/ Compared
           \/ \E t \in Tid : ThreadWorks(t)
  BY <1>2, <1>5 DEF Still, ListThreads, ReadThread, AllRead, CompareThread, Compared, ThreadWorks,
                    procVars
<1> QED
  BY <1>3, <1>4, <1>5, Steps

LEMMA ReadingStep ==
  MonitorTypeOK /\ PlaceInv /\ ArraysInv /\ TidsInv /\ ReadingInv /\ [Next]_vars => ReadingInv'
<1> SUFFICES ASSUME MonitorTypeOK, PlaceInv, ArraysInv, TidsInv, ReadingInv, [Next]_vars
             PROVE  ReadingInv'
  OBVIOUS
<1>0. ASSUME NEW k \in DOMAIN current, reading[current[k].tid] = Unread
      PROVE  \A x \in Tid : x = current[k].tid => Gone(x)'
  <2>1. PICK x \in Tid : x = current[k].tid /\ x \notin fresh /\ Gone(x)
    BY <1>0, Lengths DEF TidsInv, ReadingInv
  <2>2. Gone(x)'
    BY <2>1, GoneStays
  <2> QED
    BY <2>1, <2>2
<1>1. ASSUME UNCHANGED <<current, reading>>
      PROVE  ReadingInv'
  <2>1. ASSUME NEW k \in DOMAIN current', reading'[current'[k].tid] = Unread
        PROVE  Gone(current[k].tid)'
    <3>1. k \in DOMAIN current /\ reading[current[k].tid] = Unread
      BY <1>1, <2>1
    <3>2. PICK x \in Tid : x = current[k].tid
      BY <3>1, Lengths DEF Stat
    <3>3. Gone(x)'
      BY <1>0, <3>1, <3>2
    <3> QED
      BY <1>1, <3>2, <3>3 DEF Gone
  <2> QED
    BY <1>1, <2>1 DEF ReadingInv, Value
<1>2. CASE ListThreads
  <2>1. \A t \in Tid : reading[t] = Unread
    BY <1>2 DEF ListThreads, PlaceInv, ReadingInv
  <2>2. DOMAIN current' = {} /\ reading' = reading
    BY <1>2 DEF ListThreads, readVars
  <2> QED
    BY <2>1, <2>2 DEF ReadingInv
<1>3. CASE ReadThread
  <2> DEFINE n == Len(current) + 1
  <2>1. PICK h \in Tid : h = Head(tids)
    BY <1>3, ReadStep
  <2>2. /\ reading' = [reading EXCEPT ![h] = IF Contains(threads, h) THEN ticks[h] ELSE Unread]
        /\ threads' = threads /\ ticks[h] \in Nat /\ reading \in [Tid -> Nat \cup {Unread}]
    BY <1>3, <2>1, ArraySizes DEF ReadThread, procVars, MonitorTypeOK
  <2>3. /\ DOMAIN current' = DOMAIN current \cup {n} /\ n \notin DOMAIN current
        /\ \A k \in DOMAIN current : current'[k] = current[k]
        /\ current'[n].tid = h /\ current'[n].used = TicksRead(h)
        /\ n \in 1 .. Size /\ Snapped[n] = h
    <3>1. /\ current' \in Seq(Stat) /\ Len(current') = Len(current) + 1
          /\ DOMAIN current = 1 .. Len(current) /\ Len(current) \in Nat
      BY <1>3, ReadStep, Lengths
    <3>2. DOMAIN current' = DOMAIN current \cup {n} /\ n \notin DOMAIN current
      BY <3>1, LenProperties
    <3> QED
      BY <1>3, <2>1, <3>2, ReadStep
  <2>4. \A k \in DOMAIN current : current[k].tid \in Tid /\ current[k].tid # h
    <3> HIDE DEF n
    <3> QED
      BY <2>3, Lengths DEF TidsInv, Stat
  <2>5. reading'[h] = (IF Contains(threads, h) THEN ticks[h] ELSE Unread)
        /\ \A t \in Tid \ {h} : reading'[t] = reading[t]
    BY <2>2
  <2>6. reading'[h] = Unread <=> Gone(h)
    BY <2>2, <2>5 DEF Gone, Unread
  <2>7. TicksRead(h) = IF reading'[h] # Unread THEN reading'[h] ELSE 0
    BY <2>5, <2>6 DEF TicksRead, Gone
  <2> HIDE DEF n
  <2>8. ASSUME NEW k \in DOMAIN current'
        PROVE  /\ current'[k].used = IF reading'[current'[k].tid] # Unread
                                       THEN reading'[current'[k].tid] ELSE 0
               /\ reading'[current'[k].tid] = Unread => Gone(current'[k].tid)
    <3>1. CASE k = n
      BY <2>3, <2>6, <2>7, <3>1
    <3>2. CASE k \in DOMAIN current
      BY <2>3, <2>4, <2>5, <3>2 DEF ReadingInv, Value
    <3> QED
      BY <2>3, <3>1, <3>2
  <2>9. ASSUME NEW t \in Tid, reading'[t] # Unread
        PROVE  \E k \in DOMAIN current' : current'[k].tid = t
    <3>1. CASE t = h
      BY <2>3, <3>1
    <3>2. CASE t # h
      BY <2>3, <2>5, <2>9, <3>2 DEF ReadingInv
    <3> QED
      BY <3>1, <3>2
  <2> QED
    BY <2>2, <2>8, <2>9 DEF ReadingInv, Value, Gone
<1>4. CASE Compared
  BY <1>4, ComparedStep DEF ReadingInv
<1>5. CASE Still \/ AllRead \/ CompareThread
           \/ \E t \in Tid : ThreadStarts(t) \/ ThreadWorks(t) \/ ThreadExits(t)
  BY <1>1, <1>5 DEF Still, AllRead, CompareThread, ThreadStarts, ThreadWorks, ThreadExits,
                    monitorVars, snapVars, readVars
<1> QED
  BY <1>2, <1>3, <1>4, <1>5, Steps

LEMMA EarlierStep ==
  MonitorTypeOK /\ PlaceInv /\ ArraysInv /\ TidsInv /\ OrderInv /\ ReadingInv /\ EarlierInv
  /\ [Next]_vars => EarlierInv'
<1> SUFFICES ASSUME MonitorTypeOK, PlaceInv, ArraysInv, TidsInv, OrderInv, ReadingInv, EarlierInv,
                    [Next]_vars
             PROVE  EarlierInv'
  OBVIOUS
<1>0. ASSUME NEW p \in Intact, earlier[prev_threads[p].tid] = Unread
      PROVE  /\ prev_threads[p].tid \in Tid /\ Gone(prev_threads[p].tid)
             /\ \A x \in Tid : x = prev_threads[p].tid => Gone(x)'
             /\ reading[prev_threads[p].tid] = Unread
  <2>1. PICK x \in Tid : /\ x = prev_threads[p].tid /\ x \notin fresh /\ Gone(x)
                        /\ reading[x] = Unread
    BY <1>0 DEF Intact, ArraysInv, TidsInv, EarlierInv, Stat
  <2>2. Gone(x)'
    BY <2>1, GoneStays
  <2> QED
    BY <2>1, <2>2
<1>1. ASSUME UNCHANGED <<current, usage, prevVars, earlier>>, mpc' = mpc \/ mpc' # "compare",
             mpc = "compare" => mpc' = "compare",
             \A t \in Tid : Gone(t) /\ reading[t] = Unread => reading'[t] = Unread
      PROVE  EarlierInv'
  <2>1. /\ Old' = Old /\ Intact' = Intact
        /\ UNCHANGED <<prev_threads, current, usage, earlier>>
    BY <1>1 DEF Old, Intact, prevVars
  <2>2. ASSUME NEW p \in Intact, earlier[prev_threads[p].tid] = Unread
        PROVE  Gone(prev_threads[p].tid)' /\ reading'[prev_threads[p].tid] = Unread
    <3>1. PICK x \in Tid : x = prev_threads[p].tid /\ Gone(x) /\ Gone(x)' /\ reading[x] = Unread
      BY <1>0, <2>2
    <3> QED
      BY <1>1, <2>1, <3>1 DEF Gone
  <2>3. \A p \in Intact : Value(prev_threads[p], earlier)
    BY DEF EarlierInv
  <2>4. /\ mpc' # "compare" =>
             \A t \in Tid : earlier[t] # Unread => \E p \in Old : prev_threads[p].tid = t
        /\ mpc' = "compare" =>
             \A k \in DOMAIN current :
                k > Len(usage) /\ earlier[current[k].tid] # Unread =>
                  \E p \in Old : prev_threads[p].tid = current[k].tid
    BY <1>1 DEF EarlierInv
  <2> QED
    BY <2>1, <2>2, <2>3, <2>4 DEF EarlierInv, Gone, Value
<1>2. CASE ListThreads
  <2>1. /\ usage = <<>> /\ usage' = <<>> /\ mpc # "compare" /\ mpc' # "compare"
        /\ UNCHANGED <<prev_threads, prev_thread_count, earlier, reading, threads>>
    BY <1>2 DEF ListThreads, PlaceInv, prevVars, readVars, procVars
  <2>2. Old' = Old /\ Intact' = Intact
    BY <2>1 DEF Old, Intact
  <2> QED
    BY <2>1, <2>2 DEF EarlierInv, Gone, Value
<1>3. CASE ReadThread
  <2>1. /\ usage' = usage /\ mpc # "compare" /\ mpc' # "compare"
        /\ UNCHANGED <<prev_threads, prev_thread_count, earlier, threads>>
    BY <1>3 DEF ReadThread, prevVars, procVars
  <2>2. Old' = Old /\ Intact' = Intact
    BY <2>1 DEF Old, Intact
  <2>3. \A t \in Tid : Gone(t) /\ reading[t] = Unread => reading'[t] = Unread
    <3>1. PICK h \in Tid : h = Head(tids)
      BY <1>3, ReadStep
    <3>2. reading' = [reading EXCEPT ![h] = IF Contains(threads, h) THEN ticks[h] ELSE Unread]
      BY <1>3, <3>1 DEF ReadThread
    <3> QED
      BY <3>2 DEF Gone, MonitorTypeOK
  <2>4. ASSUME NEW p \in Intact, earlier[prev_threads[p].tid] = Unread
        PROVE  Gone(prev_threads[p].tid) /\ reading'[prev_threads[p].tid] = Unread
    BY <1>0, <2>3, <2>4
  <2> QED
    BY <2>1, <2>2, <2>4 DEF EarlierInv, Gone, Value
<1>4. CASE AllRead
  <2>1. /\ mpc # "compare" /\ mpc' = "compare"
        /\ UNCHANGED <<current, usage, prev_threads, prev_thread_count, earlier, reading, threads>>
    BY <1>4 DEF AllRead, prevVars, readVars, procVars
  <2>2. Old' = Old /\ Intact' = Intact
    BY <2>1 DEF Old, Intact
  <2>3. \A k \in DOMAIN current : current[k].tid \in Tid
    BY Lengths DEF Stat
  <2> QED
    BY <2>1, <2>2, <2>3 DEF EarlierInv, Gone, Value
<1>5. CASE CompareThread
  <2>1. PICK k \in Nat : k = Len(usage) + 1
    BY Lengths
  <2>2. /\ mpc = "compare" /\ mpc' = mpc /\ UNCHANGED <<current, earlier, reading, threads>>
        /\ \A p \in Old : p # k => prev_threads'[p] = prev_threads[p]
        /\ Old' = Old /\ Intact' = {p \in Intact : p # k} /\ Len(usage') = k
    BY <1>5, <2>1, CompareStep DEF CompareThread, procVars, readVars
  <2>3. Intact' \subseteq Intact /\ \A p \in Intact' : prev_threads'[p] = prev_threads[p]
    BY <2>2 DEF Intact
  <2>4. ASSUME NEW j \in DOMAIN current, j > k, earlier[current[j].tid] # Unread
        PROVE  \E p \in Old : prev_threads'[p].tid = current[j].tid
    <3>1. j > Len(usage) /\ j \in Nat /\ Len(usage) \in Nat
      BY <2>1, <2>4, Lengths
    <3>2. PICK p \in Old : prev_threads[p].tid = current[j].tid
      BY <2>2, <2>4, <3>1 DEF EarlierInv
    <3>3. j <= p /\ p \in Nat
      BY <3>2, Lengths DEF OrderInv, Old
    <3>4. p # k
      BY <2>1, <2>4, <3>1, <3>3
    <3> QED
      BY <2>2, <3>2, <3>4
  <2> QED
    BY <2>2, <2>3, <2>4 DEF EarlierInv, Gone, Value
<1>6. CASE Compared
  <2>1. /\ Old' = DOMAIN current /\ Intact' = DOMAIN current /\ mpc' = "idle"
        /\ \A p \in DOMAIN current : prev_threads'[p] = current[p]
        /\ earlier' = reading /\ reading' = [t \in Tid |-> Unread] /\ threads' = threads
    BY <1>6, ComparedStep
  <2>2. \A p \in DOMAIN current : current[p].tid \in Tid
    BY Lengths DEF Stat
  <2> QED
    BY <2>1, <2>2 DEF EarlierInv, ReadingInv, Gone, Value
<1>7. CASE Still \/ \E t \in Tid : ThreadStarts(t) \/ ThreadWorks(t) \/ ThreadExits(t)
  BY <1>1, <1>7 DEF Still, ThreadStarts, ThreadWorks, ThreadExits, monitorVars, snapVars, readVars
<1> QED
  BY <1>2, <1>3, <1>4, <1>5, <1>6, <1>7, Steps

\* The difference that is reported for the entry k.
LEMMA UsageOfThread ==
  ASSUME MonitorTypeOK, PlaceInv, ArraysInv, OrderInv, ReadingInv, EarlierInv, mpc = "compare",
         NEW k \in DOMAIN current, k = Len(usage) + 1
  PROVE  LET t == current[k].tid
         IN  IF reading[t] # Unread /\ earlier[t] # Unread
             THEN Difference(current[k]) = reading[t] - earlier[t]
             ELSE Difference(current[k]) <= 0
<1>1. PICK t \in Tid : t = current[k].tid
  BY Lengths DEF Stat
<1>2. /\ current[k].used = IF reading[t] # Unread THEN reading[t] ELSE 0
      /\ reading[t] \in Nat \cup {Unread} /\ earlier[t] \in Nat \cup {Unread}
  BY <1>1 DEF ReadingInv, Value, MonitorTypeOK
<1>3. CASE Previous(t) = {} /\ Difference(current[k]) = 0
  <2>1. earlier[t] = Unread
    BY <1>1, <1>3, Lengths DEF EarlierInv, Previous, Old
  <2> QED
    BY <1>1, <1>3, <2>1
<1>4. CASE \E j \in Previous(t) : Difference(current[k]) = current[k].used - prev_threads[j].used
  <2>1. PICK j \in Old : /\ prev_threads[j].tid = t
                        /\ Difference(current[k]) = current[k].used - prev_threads[j].used
    BY <1>4 DEF Previous, Old
  <2>2. k \in 1 .. Size /\ Snapped[k] = t
    BY <1>1, Lengths
  <2>3. k <= j /\ j \in Nat
    BY <2>1, <2>2, Lengths DEF OrderInv, Old
  <2>4. j \in Intact
    BY <2>1, <2>3, Lengths DEF Intact
  <2>5. /\ prev_threads[j].used = IF earlier[t] # Unread THEN earlier[t] ELSE 0
        /\ earlier[t] = Unread => reading[t] = Unread
    BY <2>1, <2>4 DEF EarlierInv, Value
  <2>6. Unread = -1
    BY DEF Unread
  <2> HIDE DEF Unread
  <2>7. CASE reading[t] # Unread /\ earlier[t] # Unread
    BY <1>1, <1>2, <2>1, <2>5, <2>7
  <2>8. CASE reading[t] = Unread
    <3>1. current[k].used = 0 /\ prev_threads[j].used \in Nat
      BY <1>2, <2>5, <2>8
    <3>2. Difference(current[k]) <= 0
      BY <2>1, <3>1
    <3> QED
      BY <1>1, <2>8, <3>2
  <2> QED
    BY <2>5, <2>7, <2>8
<1> QED
  BY <1>1, <1>3, <1>4, DifferenceOf

LEMMA UsageStep ==
  MonitorTypeOK /\ PlaceInv /\ ArraysInv /\ OrderInv /\ ReadingInv /\ EarlierInv /\ UsageExact
  /\ [Next]_vars => UsageExact'
<1> SUFFICES ASSUME MonitorTypeOK, PlaceInv, ArraysInv, OrderInv, ReadingInv, EarlierInv, UsageExact,
                    [Next]_vars
             PROVE  UsageExact'
  OBVIOUS
<1>1. CASE UNCHANGED <<current, usage, readVars>>
  BY <1>1 DEF UsageExact, readVars
<1>2. CASE ListThreads \/ ReadThread \/ Compared
  <2>1. DOMAIN usage' = {}
    BY <1>2 DEF ListThreads, ReadThread, Compared, PlaceInv
  <2> QED
    BY <2>1 DEF UsageExact
<1>3. CASE CompareThread
  <2>1. PICK k \in Nat : k = Len(usage) + 1
    BY Lengths
  <2>2. /\ k \in DOMAIN current /\ usage'[k] = Difference(current[k])
        /\ \A j \in DOMAIN usage : usage'[j] = usage[j]
        /\ DOMAIN usage' = DOMAIN usage \cup {k}
        /\ UNCHANGED <<current, reading, earlier>> /\ mpc = "compare"
    BY <1>3, <2>1, CompareStep DEF CompareThread, readVars
  <2>3. LET t == current[k].tid
        IN  IF reading[t] # Unread /\ earlier[t] # Unread
            THEN Difference(current[k]) = reading[t] - earlier[t]
            ELSE Difference(current[k]) <= 0
    BY <2>1, <2>2, UsageOfThread
  <2> QED
    BY <2>2, <2>3 DEF UsageExact
<1>4. CASE Still \/ AllRead \/ \E t \in Tid : ThreadStarts(t) \/ ThreadWorks(t) \/ ThreadExits(t)
  BY <1>1, <1>4 DEF Still, AllRead, ThreadStarts, ThreadWorks, ThreadExits, monitorVars, snapVars
<1> QED
  BY <1>2, <1>3, <1>4, Steps

----------------------------------------------------------------------------
(* The theorems.                                                           *)

LEMMA InitInvariant == Init => IInv
<1> SUFFICES ASSUME Init PROVE IInv
  OBVIOUS
<1>1. TypeOK /\ PlaceInv /\ Len(current) = 0 /\ Len(tids) = 0 /\ Len(usage) = 0
  BY InitType, EmptySeq DEF Init, MonitorInit
<1>2. /\ 1 .. Size = {} /\ Old = {} /\ Intact = {} /\ 1 .. Len(usage) = {}
      /\ DOMAIN current = {} /\ DOMAIN usage = {}
  <2>1. Size = 0 /\ prev_thread_count = 0 /\ current = <<>> /\ usage = <<>>
    BY <1>1 DEF Size, Init, MonitorInit
  <2> QED
    BY <1>1, <2>1 DEF Old, Intact
<1>3. \A j \in DOMAIN threads : j = 1 /\ threads[j] = MainTid
  BY DEF Init, MonitorInit
<1>4. TidsInv
  BY <1>2, <1>3 DEF TidsInv, Init, MonitorInit
<1>5. \A t \in Tid : reading[t] = Unread /\ earlier[t] = Unread
  BY DEF Init, MonitorInit
<1> QED
  BY <1>1, <1>2, <1>4, <1>5 DEF IInv, ArraysInv, OrderInv, ReadingInv, EarlierInv, UsageExact

LEMMA MainTypeStep == TypeOK /\ MonitorTypeOK' /\ [Next]_vars => TypeOK'
<1> SUFFICES ASSUME TypeOK, MonitorTypeOK', [Next]_vars PROVE TypeOK'
  OBVIOUS
<1>1. CASE WriteSample
  <2>1. (seq + 1) % Every \in 0 .. Every - 1
    BY ArraySizes DEF TypeOK
  <2> QED
    BY <1>1, <2>1 DEF WriteSample, Goes, TypeOK, signalVars
<1>2. CASE Start \/ CreateTopic \/ CreateWriter \/ TestRunning \/ CheckClock
  BY <1>2 DEF Start, CreateTopic, CreateWriter, TestRunning, CheckClock, Goes, TypeOK, signalVars
<1>3. CASE StartSnapshot \/ TakeSnapshot
  BY <1>3 DEF StartSnapshot, TakeSnapshot, TypeOK, signalVars
<1>4. CASE OtherThreads \/ Signal \/ TimePasses
  BY <1>4 DEF OtherThreads, Signal, TimePasses, TypeOK, signalVars, mainVars
<1>5. CASE Ended \/ UNCHANGED vars
  BY <1>5 DEF Ended, vars, TypeOK, signalVars, mainVars
<1> QED
  BY <1>1, <1>2, <1>3, <1>4, <1>5 DEF Next, MainStep

LEMMA Inductive == Spec => []IInv
<1>1. IInv /\ [Next]_vars => IInv'
  <2> SUFFICES ASSUME IInv, [Next]_vars PROVE IInv'
    OBVIOUS
  <2> USE DEF IInv
  <2>1. MonitorTypeOK
    BY DEF TypeOK
  <2>2. MonitorTypeOK' /\ PlaceInv' /\ ArraysInv' /\ TidsInv' /\ OrderInv'
    BY <2>1, MonitorTypeStep, PlaceStep, ArraysStep, TidsStep, OrderStep
  <2>3. ReadingInv' /\ EarlierInv' /\ UsageExact'
    BY <2>1, ReadingStep, EarlierStep, UsageStep
  <2> QED
    BY <2>2, <2>3, MainTypeStep
<1> QED
  BY <1>1, InitInvariant, PTL DEF Spec

\* The variables of Bcli and its monitor keep their types: in particular no array of threads
\* holds more than MaxThreads entries (get_thread_tids, snapshot, run_publisher).
THEOREM TypeCorrect == Spec => []TypeOK
<1>1. IInv => TypeOK
  BY DEF IInv
<1> QED
  BY <1>1, Inductive, PTL

\* Although the array of the previous snapshot is overwritten while it is searched, and threads
\* come and go meanwhile, the CPU time reported for a thread is the difference of two readings
\* of its own clock, and nothing positive for one that was not read twice (snapshot).
THEOREM UsageCorrect == Spec => []UsageExact
<1>1. IInv => UsageExact
  BY DEF IInv
<1> QED
  BY <1>1, Inductive, PTL
=============================================================================
