--------------------------- MODULE PingPongProofs ---------------------------
(***************************************************************************)
(* Safety of the round-trip measurement for any number of peers and of     *)
(* rounds, and for any losses.                                             *)
(***************************************************************************)
EXTENDS PingPong, SequenceTheorems, FiniteSetTheorems, TLAPS

\* What TypeOK leaves open: the counters of the bounds, and that the expected pongs are
\* those of the known peers.
CountsOK ==
    /\ changes \in Nat /\ data \in Nat
    /\ n_pong_expected = Cardinality(known)

\* The positions of the answers to pings among the waiting pongs of p.
Answers(p) == {i \in 1 .. Len(pongs[p]) : pongs[p][i].origin = "ping"}

\* The answers to pings, and only they, carry the bit that lets the handler count them.
BitTellsPing ==
    \A p \in Peer : \A i \in 1 .. Len(pongs[p]) : IsPing(pongs[p][i]) <=> i \in Answers(p)

\* The pong that the handler holds is not yet counted.  If it is one of the current ping it
\* is among those taken; if the round changed after the comparison, nothing is counted yet.
HeldPong ==
    /\ hpc \in {"compare", "count"} /\ hseq = cur_ping_seq => n_pong_seen <= taken[cur_ping_seq]
    /\ hpc = "count" /\ hseq # cur_ping_seq => n_pong_seen = 0

\* The inductive invariant of the counts.
IInv == TypeOK /\ CountsOK /\ BitTellsPing /\ HeldPong /\ AtMostOneStalePong

----------------------------------------------------------------------------
(* One ping of the timer, no loss, nobody comes or goes.                   *)

\* The peers whose answer is under way.
Waiting == {p \in Peer : inbox[p] # 0 \/ Answers(p) # {}}

Undisturbed == Continuous /\ timeouts = 1 /\ ~lost /\ changes = 0

\* Before the first ping nothing is under way that the handler would count.
BeforeFirst ==
    timeouts = 0 => hpc = "idle" /\ mpc = "idle" /\ Waiting = {} /\ n_pong_seen = 0

Everybody == changes = 0 => alive = Peer /\ known = Peer

\* A peer has the current ping or one answer to it, not both.
OneAnswer ==
    \A p \in Peer :
        /\ inbox[p] \in {0, cur_ping_seq}
        /\ inbox[p] # 0 => Answers(p) = {}
        /\ \A i \in Answers(p) : pongs[p][i].seq = cur_ping_seq
        /\ \A i, j \in Answers(p) : i = j

\* The ping is about to be written, or the answers under way, the one the handler holds and
\* those counted are as many as the peers and not all are counted, or all are.
Round ==
    /\ cur_ping_seq # 0
    /\ OneAnswer
    /\ \/ hpc = "idle" /\ mpc = "write" /\ mseq = cur_ping_seq
          /\ Waiting = {} /\ n_pong_seen = 0
       \/ hpc = "write" /\ mpc = "idle" /\ hseq = cur_ping_seq
          /\ Waiting = {} /\ n_pong_seen = 0
       \/ hpc = "idle" /\ mpc = "idle"
          /\ n_pong_seen + Cardinality(Waiting) = Cardinality(Peer)
          /\ n_pong_seen < Cardinality(Peer)
       \/ hpc \in {"compare", "count"} /\ mpc = "idle" /\ hseq = cur_ping_seq
          /\ n_pong_seen + Cardinality(Waiting) + 1 = Cardinality(Peer)
       \/ hpc = "again" /\ mpc = "idle" /\ hseq = cur_ping_seq
          /\ Waiting = {} /\ n_pong_seen = Cardinality(Peer)

\* The inductive invariant of the rounds.
RoundInv == BeforeFirst /\ Everybody /\ (Undisturbed => Round)

----------------------------------------------------------------------------
(* The queues of pongs and the sets of peers.                              *)

\* What a pong that is sent and one that is taken do to the waiting pongs of a peer.
LEMMA PongAppended ==
  ASSUME NEW q \in Seq(Pong), NEW m \in Pong
  PROVE  /\ Append(q, m) \in Seq(Pong)
         /\ Len(q) \in Nat
         /\ Len(Append(q, m)) = Len(q) + 1
         /\ \A i \in 1 .. Len(q) : Append(q, m)[i] = q[i]
         /\ Append(q, m)[Len(q) + 1] = m
  BY AppendProperties, LenProperties

LEMMA PongTaken ==
  ASSUME NEW q \in Seq(Pong), q # <<>>
  PROVE  /\ Tail(q) \in Seq(Pong)
         /\ Len(q) \in Nat \ {0}
         /\ Len(Tail(q)) = Len(q) - 1
         /\ Head(q) = q[1] /\ q[1] \in Pong
         /\ \A i \in 1 .. Len(q) - 1 : Tail(q)[i] = q[i + 1]
  BY HeadTailProperties, EmptySeq, LenProperties, ElementOfSeq

\* The peers and those that are known are finitely many, and no more than the peers are known.
LEMMA KnownFinite ==
  ASSUME NEW K \in SUBSET Peer
  PROVE  /\ IsFiniteSet(Peer) /\ Cardinality(Peer) \in Nat
         /\ IsFiniteSet(K) /\ Cardinality(K) \in 0 .. Cardinality(Peer)
         /\ \A p \in Peer \ K : Cardinality(K \cup {p}) = Cardinality(K) + 1
         /\ \A p \in K : Cardinality(K \ {p}) = Cardinality(K) - 1
<1>1. IsFiniteSet(Peer) /\ Cardinality(Peer) \in Nat
  BY ConstantsAssumption, FS_CardinalityType
<1>2. IsFiniteSet(K) /\ Cardinality(K) \in Nat /\ Cardinality(K) <= Cardinality(Peer)
  BY <1>1, FS_Subset, FS_CardinalityType
<1> QED
  BY <1>1, <1>2, FS_AddElement, FS_RemoveElement

----------------------------------------------------------------------------
(* The counts.                                                             *)

LEMMA InitIInv == Init => IInv
<1> SUFFICES ASSUME Init PROVE IInv
  OBVIOUS
<1> USE DEF Init
<1>1. IsFiniteSet(Peer) /\ Cardinality(Peer) \in Nat /\ MaxSeq \in Nat
  BY ConstantsAssumption, FS_CardinalityType
<1>2. pongs \in [Peer -> Seq(Pong)] /\ \A p \in Peer : Len(pongs[p]) = 0
  BY EmptySeq
<1>3. TypeOK
  BY <1>1, <1>2 DEF TypeOK, PingSeq
<1>4. CountsOK /\ HeldPong
  BY DEF CountsOK, HeldPong
<1>5. BitTellsPing
  BY <1>2 DEF BitTellsPing
<1>6. AtMostOneStalePong
  BY <1>1 DEF AtMostOneStalePong, PingSeq
<1> QED
  BY <1>3, <1>4, <1>5, <1>6 DEF IInv

LEMMA TypeStep == IInv /\ [Next]_vars => (TypeOK /\ CountsOK)'
<1> SUFFICES ASSUME IInv, [Next]_vars PROVE (TypeOK /\ CountsOK)'
  OBVIOUS
<1>0. 0 \in PingSeq /\ \A s \in PingSeq : s + 1 <= MaxSeq => s + 1 \in PingSeq
  BY ConstantsAssumption DEF PingSeq
<1>n. \A s \in PingSeq : s \in 0 .. MaxSeq
  BY DEF PingSeq
<1> USE DEF IInv, TypeOK, CountsOK, vars, pingVars, handlerVars, mainVars, netVars, peerVars,
            history, bounds
<1>1. ASSUME NEW p \in Peer, NEW s \in PingSeq, NEW b \in {0, 1}, NEW o \in {"ping", "data"},
             SendPong(p, s, b, o)
      PROVE  pongs' \in [Peer -> Seq(Pong)]
  <2>1. [seq |-> s, lsb |-> b, origin |-> o] \in Pong
    BY DEF Pong
  <2> QED
    BY <1>1, <2>1, PongAppended DEF SendPong
<1>2. ASSUME NEW p \in Peer, pongs[p] # <<>>
      PROVE  [pongs EXCEPT ![p] = Tail(@)] \in [Peer -> Seq(Pong)]
  BY <1>2, PongTaken
<1>3. ASSUME NEW s \in PingSeq, WritePing(s) PROVE inbox' \in [Peer -> PingSeq]
  BY <1>3 DEF WritePing
<1>4. ASSUME NEW p \in Peer, PeerPong(p) PROVE (TypeOK /\ CountsOK)'
  BY <1>0, <1>1, <1>4 DEF PeerPong, PingPongBit
<1>5. ASSUME NEW p \in Peer, NEW s \in PingSeq \ {0}, PeerDataPong(p, s)
      PROVE (TypeOK /\ CountsOK)'
  BY <1>1, <1>5 DEF PeerDataPong, DataPongBit
<1>6. ASSUME NEW p \in Peer, Lose(p) PROVE (TypeOK /\ CountsOK)'
  <2>1. inbox' \in [Peer -> PingSeq] /\ pongs' \in [Peer -> Seq(Pong)]
    BY <1>0, <1>2, <1>6 DEF Lose
  <2> QED
    BY <1>6, <2>1 DEF Lose
<1>7. ASSUME NEW p \in Peer, Leave(p) PROVE (TypeOK /\ CountsOK)'
  BY <1>0, <1>7 DEF Leave
<1>8. ASSUME NEW p \in Peer, Forget(p) PROVE (TypeOK /\ CountsOK)'
  <2>1. known' = known \ {p} /\ n_pong_expected' = n_pong_expected - 1 /\ p \in known
    BY <1>8 DEF Forget, WithoutIt
  <2>2. /\ n_pong_expected' = Cardinality(known')
        /\ n_pong_expected' \in 0 .. Cardinality(Peer)
        /\ known' \subseteq Peer
    BY <2>1, KnownFinite
  <2> QED
    BY <1>8, <2>2 DEF Forget
<1>9. ASSUME NEW p \in Peer, Discover(p) PROVE (TypeOK /\ CountsOK)'
  <2>1. known' = known \cup {p} /\ n_pong_expected' = n_pong_expected + 1 /\ p \in Peer \ known
    BY <1>9 DEF Discover
  <2>2. known' \subseteq Peer /\ n_pong_expected' = Cardinality(known')
    BY <2>1, KnownFinite
  <2>3. n_pong_expected' \in 0 .. Cardinality(Peer)
    BY <2>2, KnownFinite
  <2> QED
    BY <1>9, <2>2, <2>3 DEF Discover
<1>10. ASSUME NEW p \in Peer, TakePong(p) PROVE (TypeOK /\ CountsOK)'
  <2>1. Head(pongs[p]) \in Pong
    BY <1>10, PongTaken DEF TakePong
  <2>2. Head(pongs[p]).seq \in PingSeq
    BY <2>1 DEF Pong
  <2>3. taken' \in [PingSeq -> Nat]
    BY <1>10, <2>2 DEF TakePong
  <2> QED
    BY <1>2, <1>10, <2>2, <2>3 DEF TakePong
<1>11. CASE Compare \/ Count \/ HandlerWrite
  BY <1>3, <1>11 DEF Compare, Count, HandlerWrite
<1>12. CASE Again
  <2>1. hseq + 1 \in PingSeq
    BY <1>0, <1>12 DEF Again, NextFromPong
  <2> QED
    BY <1>12, <2>1 DEF Again, NextFromPong, SeenReset
<1>13. CASE Tick \/ MainWrite
  BY <1>3, <1>13 DEF Tick, MainWrite
<1>14. CASE TimeOut
  <2>1. cur_ping_seq + 1 \in PingSeq
    BY <1>0, <1>n, <1>14, ConstantsAssumption DEF TimeOut
  <2>2. cur_ping_seq' \in PingSeq /\ mseq' \in PingSeq
    BY <1>14, <2>1 DEF TimeOut
  <2>3. n_pong_seen' \in Nat /\ elapsed' \in BOOLEAN
    BY <1>14 DEF TimeOut, SeenReset
  <2>4. timeouts' \in 0 .. 2
    BY <1>14 DEF TimeOut
  <2> QED
    BY <1>14, <2>2, <2>3, <2>4 DEF TimeOut
<1>15. CASE UNCHANGED vars
  BY <1>15
<1> QED
  BY <1>4, <1>5, <1>6, <1>7, <1>8, <1>9, <1>10, <1>11, <1>12, <1>13, <1>14, <1>15
     DEF Next, HandlerStep

\* What a step does to the pongs that wait: nothing, one more at the end, or the first less.
LEMMA PongsStep ==
  ASSUME IInv, [Next]_vars
  PROVE  \/ pongs' = pongs
         \/ \E p \in Peer : inbox[p] \in PingSeq /\ SendPong(p, inbox[p], 1, "ping")
         \/ \E p \in Peer, s \in PingSeq : SendPong(p, s, 0, "data")
         \/ \E p \in Peer : pongs[p] # <<>> /\ pongs' = [pongs EXCEPT ![p] = Tail(@)]
<1> USE DEF netVars
<1>1. ASSUME NEW p \in Peer, PeerPong(p) PROVE SendPong(p, inbox[p], 1, "ping")
  BY <1>1 DEF PeerPong, PingPongBit
<1>2. ASSUME NEW p \in Peer, NEW s \in PingSeq, PeerDataPong(p, s) PROVE SendPong(p, s, 0, "data")
  BY <1>2 DEF PeerDataPong, DataPongBit
<1>3. ASSUME NEW p \in Peer, Lose(p) \/ TakePong(p)
      PROVE  \/ pongs' = pongs
             \/ pongs[p] # <<>> /\ pongs' = [pongs EXCEPT ![p] = Tail(@)]
  <2>1. CASE Lose(p)
    BY <2>1 DEF Lose
  <2>2. CASE TakePong(p)
    BY <2>2 DEF TakePong
  <2> QED
    BY <1>3, <2>1, <2>2
<1>4. ASSUME NEW p \in Peer, Leave(p) \/ Forget(p) \/ Discover(p) PROVE pongs' = pongs
  BY <1>4 DEF Leave, Forget, Discover
<1>5. CASE Compare \/ Count \/ Again \/ HandlerWrite \/ Tick \/ TimeOut \/ MainWrite
  BY <1>5 DEF Compare, Count, Again, HandlerWrite, Tick, TimeOut, MainWrite
<1>6. CASE UNCHANGED vars
  BY <1>6 DEF vars
<1>7. \A p \in Peer : inbox[p] \in PingSeq
  BY DEF IInv, TypeOK
<1> QED
  BY <1>1, <1>2, <1>3, <1>4, <1>5, <1>6, <1>7 DEF Next, HandlerStep

LEMMA BitStep == IInv /\ [Next]_vars => BitTellsPing'
<1> DEFINE Told(m) == m.lsb = 1 <=> m.origin = "ping"
<1> SUFFICES ASSUME IInv, [Next]_vars, NEW q \in Peer, NEW i \in 1 .. Len(pongs'[q])
             PROVE  Told(pongs'[q][i])
  BY DEF BitTellsPing, Answers, IsPing
<1>0. /\ pongs \in [Peer -> Seq(Pong)] /\ inbox \in [Peer -> PingSeq]
      /\ \A j \in 1 .. Len(pongs[q]) : Told(pongs[q][j])
  BY DEF IInv, TypeOK, BitTellsPing, Answers, IsPing
<1>1. ASSUME NEW p \in Peer, NEW s \in PingSeq, NEW b \in {0, 1}, NEW o \in {"ping", "data"},
             SendPong(p, s, b, o), b = 1 <=> o = "ping"
      PROVE  Told(pongs'[q][i])
  <2> DEFINE m == [seq |-> s, lsb |-> b, origin |-> o]
  <2>1. m \in Pong /\ Told(m)
    BY <1>1 DEF Pong
  <2>2. pongs' = [pongs EXCEPT ![p] = Append(@, m)]
    BY <1>1 DEF SendPong
  <2> HIDE DEF m, Told
  <2>3. CASE q = p
    BY <1>0, <2>1, <2>2, <2>3, PongAppended
  <2>4. CASE q # p
    BY <1>0, <2>2, <2>4
  <2> QED
    BY <2>3, <2>4
<1> HIDE DEF Told
<1>2. ASSUME NEW p \in Peer, pongs[p] # <<>>, pongs' = [pongs EXCEPT ![p] = Tail(@)]
      PROVE  Told(pongs'[q][i])
  BY <1>0, <1>2, PongTaken
<1>3. CASE UNCHANGED pongs
  BY <1>0, <1>3
<1>4. \A p \in Peer : inbox[p] \in PingSeq /\ SendPong(p, inbox[p], 1, "ping")
                      => Told(pongs'[q][i])
  BY <1>1
<1>5. \A p \in Peer, s \in PingSeq : SendPong(p, s, 0, "data") => Told(pongs'[q][i])
  <2>1. 0 \in {0, 1} /\ "data" \in {"ping", "data"} /\ (0 = 1 <=> "data" = "ping")
    OBVIOUS
  <2> QED
    BY <1>1, <2>1
<1> QED
  BY <1>2, <1>3, <1>4, <1>5, PongsStep

LEMMA CountStep == IInv /\ [Next]_vars => (HeldPong /\ AtMostOneStalePong)'
<1> SUFFICES ASSUME IInv, [Next]_vars PROVE (HeldPong /\ AtMostOneStalePong)'
  OBVIOUS
<1>0. TypeOK /\ HeldPong /\ AtMostOneStalePong /\ TypeOK' /\ MaxSeq \in Nat
  BY TypeStep, ConstantsAssumption DEF IInv
<1> USE <1>0 DEF TypeOK, HeldPong, AtMostOneStalePong, pingVars, handlerVars, history
<1>1. ASSUME UNCHANGED <<pingVars, handlerVars, taken>>
      PROVE  (HeldPong /\ AtMostOneStalePong)'
  BY <1>1
<1>2. ASSUME NEW p \in Peer, TakePong(p) PROVE (HeldPong /\ AtMostOneStalePong)'
  <2> DEFINE m == Head(pongs[p])
  <2>1. m \in Pong /\ (IsPing(m) => m.origin = "ping")
    <3>1. pongs[p] \in Seq(Pong) /\ pongs[p] # <<>>
      BY <1>2 DEF TakePong
    <3> QED
      BY <3>1, PongTaken DEF IInv, BitTellsPing, Answers
  <2>2. m.seq \in PingSeq
    BY <2>1 DEF Pong
  <2>3. /\ hseq' = m.seq
        /\ hpc' = IF IsPing(m) THEN "compare" ELSE "idle"
        /\ taken' = IF m.origin = "ping" THEN [taken EXCEPT ![m.seq] = @ + 1] ELSE taken
        /\ UNCHANGED pingVars
    BY <1>2 DEF TakePong
  <2> HIDE DEF m
  <2>4. \A s \in PingSeq : taken'[s] = taken[s] \/ taken'[s] = taken[s] + 1
    BY <2>2, <2>3
  <2>5. hpc' = "compare" => taken'[m.seq] = taken[m.seq] + 1
    BY <2>1, <2>2, <2>3
  <2> QED
    BY <2>2, <2>3, <2>4, <2>5
<1>3. CASE Compare
  BY <1>3 DEF Compare, Matches
<1>4. CASE Count
  <2>1. hpc' # "compare" /\ hpc' # "count"
    BY <1>4 DEF Count
  <2> QED
    BY <1>4, <2>1 DEF Count
<1>5. CASE Again
  BY <1>5 DEF Again, SeenReset, NextFromPong, mainVars, netVars
<1>6. CASE TimeOut
  BY <1>6 DEF TimeOut, SeenReset
<1>7. CASE HandlerWrite
  BY <1>7 DEF HandlerWrite
<1>8. CASE Tick
  BY <1>8 DEF Tick
<1> QED
  BY <1>1, <1>2, <1>3, <1>4, <1>5, <1>6, <1>7, <1>8
     DEF Next, HandlerStep, PeerPong, PeerDataPong, Lose, Leave, Forget, Discover, MainWrite, vars

\* Every step preserves the inductive invariant of the counts.
LEMMA SpecIInv == Spec => []IInv
<1>1. IInv /\ [Next]_vars => IInv'
  BY TypeStep, BitStep, CountStep DEF IInv
<1> QED
  BY <1>1, InitIInv, PTL DEF Spec

\* Every variable keeps its type: the number of expected pongs is one of 0 .. the number of
\* peers, whoever comes and goes and whatever is lost.
THEOREM TypeCorrect == Spec => []TypeOK
  BY SpecIInv, PTL DEF IInv

\* The race between the comparison of a pong with the current ping and its count under another
\* mutex lets at most one pong of an older ping into a round.
THEOREM StaleBounded == Spec => []AtMostOneStalePong
  BY SpecIInv, PTL DEF IInv

\* The handler starts the next round only after as many answers to the current ping were taken
\* as there are peers, but for one.
THEOREM RoundsAnswered == Spec => NextRoundAnswered
<1>1. ASSUME IInv, [Next]_vars
      PROVE  [hpc = "count" /\ hpc' = "again"
                => taken[cur_ping_seq] + 1 >= n_pong_expected]_vars
  <2>1. SUFFICES ASSUME hpc = "count", hpc' = "again", ~UNCHANGED vars
                 PROVE  taken[cur_ping_seq] + 1 >= n_pong_expected
    BY DEF NextRoundAnswered
  <2>2. Count
    BY <1>1, <2>1 DEF Next, HandlerStep, PeerPong, PeerDataPong, Lose, Leave, Forget, Discover,
          TakePong, Compare, Again, HandlerWrite, Tick, TimeOut, MainWrite, handlerVars
  <2>3. n_pong_seen + 1 = n_pong_expected
    BY <2>1, <2>2 DEF Count, AllSeen
  <2> QED
    BY <1>1, <2>1, <2>3 DEF IInv, TypeOK, HeldPong
<1> QED
  BY <1>1, SpecIInv, PTL DEF Spec, NextRoundAnswered

----------------------------------------------------------------------------
(* The rounds.                                                             *)

\* A pong that is sent is the last one of its peer; the others stay where they are.
LEMMA AnswersAppended ==
  ASSUME TypeOK, NEW p \in Peer, NEW m \in Pong, pongs' = [pongs EXCEPT ![p] = Append(@, m)]
  PROVE  /\ \A q \in Peer \ {p} : pongs'[q] = pongs[q] /\ Answers(q)' = Answers(q)
         /\ \A i \in Answers(p) : pongs'[p][i] = pongs[p][i]
         /\ m.origin # "ping" => Answers(p)' = Answers(p)
         /\ m.origin = "ping" => Answers(p)' = Answers(p) \cup {Len(pongs[p]) + 1}
         /\ pongs'[p][Len(pongs[p]) + 1] = m
<1>1. pongs[p] \in Seq(Pong) /\ pongs'[p] = Append(pongs[p], m)
  BY DEF TypeOK
<1>2. \A q \in Peer \ {p} : pongs'[q] = pongs[q]
  BY DEF TypeOK
<1> QED
  BY <1>1, <1>2, PongAppended DEF Answers

\* A pong that is taken or lost is the first one of its peer; the others move up.
LEMMA AnswersTaken ==
  ASSUME TypeOK, NEW p \in Peer, pongs[p] # <<>>, pongs' = [pongs EXCEPT ![p] = Tail(@)]
  PROVE  /\ \A q \in Peer \ {p} : pongs'[q] = pongs[q] /\ Answers(q)' = Answers(q)
         /\ 1 \in 1 .. Len(pongs[p]) /\ pongs[p][1] = Head(pongs[p])
         /\ \A i \in Answers(p)' : i + 1 \in Answers(p) /\ pongs'[p][i] = pongs[p][i + 1]
         /\ \A i \in Answers(p) : i # 1 => i - 1 \in Answers(p)'
<1>1. pongs[p] \in Seq(Pong) /\ pongs'[p] = Tail(pongs[p])
  BY DEF TypeOK
<1>2. \A q \in Peer \ {p} : pongs'[q] = pongs[q]
  BY DEF TypeOK
<1>3. /\ Len(pongs[p]) \in Nat \ {0} /\ Len(pongs'[p]) = Len(pongs[p]) - 1
      /\ Head(pongs[p]) = pongs[p][1]
      /\ \A i \in 1 .. Len(pongs[p]) - 1 : pongs'[p][i] = pongs[p][i + 1]
  BY <1>1, PongTaken
<1>4. \A i \in Answers(p)' : i + 1 \in Answers(p) /\ pongs'[p][i] = pongs[p][i + 1]
  BY <1>3 DEF Answers
<1>5. \A i \in Answers(p) : i # 1 => i - 1 \in Answers(p)'
  <2>1. ASSUME NEW i \in Answers(p), i # 1 PROVE i - 1 \in Answers(p)'
    <3>1. i - 1 \in 1 .. Len(pongs'[p]) /\ (i - 1) + 1 = i /\ pongs[p][i].origin = "ping"
      BY <1>3, <2>1 DEF Answers
    <3>2. pongs'[p][i - 1] = pongs[p][i]
      BY <1>3, <3>1
    <3> QED
      BY <3>1, <3>2 DEF Answers
  <2> QED
    BY <2>1
<1> QED
  BY <1>2, <1>3, <1>4, <1>5 DEF Answers

\* The peers that wait are finitely many.
LEMMA WaitingFinite ==
  /\ Waiting \subseteq Peer /\ IsFiniteSet(Waiting) /\ Cardinality(Waiting) \in Nat
  /\ Cardinality(Waiting) = 0 <=> Waiting = {}
  /\ \A p \in Waiting : Cardinality(Waiting \ {p}) = Cardinality(Waiting) - 1
<1>1. Waiting \subseteq Peer
  BY DEF Waiting
<1> QED
  BY <1>1, KnownFinite, FS_EmptySet, FS_RemoveElement

LEMMA InitRound == Init => RoundInv
<1> SUFFICES ASSUME Init PROVE RoundInv
  OBVIOUS
<1>1. \A p \in Peer : Answers(p) = {}
  BY EmptySeq DEF Init, Answers
<1> QED
  BY <1>1 DEF Init, RoundInv, BeforeFirst, Everybody, Undisturbed, Waiting

LEMMA EverybodyStep ==
  ASSUME IInv, Everybody, [Next]_vars
  PROVE  Everybody' /\ (changes' = 0 => changes = 0)
<1> USE DEF Everybody, IInv, CountsOK
<1>1. ASSUME NEW p \in Peer, Leave(p) \/ Forget(p) \/ Discover(p)
      PROVE  Everybody' /\ (changes' = 0 => changes = 0)
  BY <1>1 DEF Leave, Forget, Discover, bounds
<1>2. CASE UNCHANGED <<alive, known, changes>>
  BY <1>2
<1> QED
  BY <1>1, <1>2 DEF Next, HandlerStep, PeerPong, PeerDataPong, Lose, TakePong, Compare, Count,
     Again, HandlerWrite, Tick, TimeOut, MainWrite, vars, peerVars, bounds

LEMMA BeforeFirstStep ==
  ASSUME IInv, BeforeFirst, [Next]_vars
  PROVE  BeforeFirst' /\ (timeouts' = 0 => timeouts = 0)
<1>0. SUFFICES ASSUME timeouts' = 0
               PROVE  BeforeFirst' /\ timeouts = 0
  BY DEF BeforeFirst
<1>1. ~TimeOut /\ timeouts = 0
  BY <1>0 DEF Next, HandlerStep, PeerPong, PeerDataPong, Lose, Leave, Forget, Discover, TakePong,
     Compare, Count, Again, HandlerWrite, Tick, TimeOut, MainWrite, vars, history
<1>2. /\ hpc = "idle" /\ mpc = "idle" /\ n_pong_seen = 0
      /\ \A p \in Peer : inbox[p] = 0 /\ Answers(p) = {}
  BY <1>1 DEF BeforeFirst, Waiting
<1>3. TypeOK
  BY DEF IInv
<1>4. SUFFICES /\ hpc' = "idle" /\ mpc' = "idle" /\ n_pong_seen' = 0
               /\ \A q \in Peer : inbox'[q] = 0 /\ Answers(q)' = {}
  BY <1>1 DEF BeforeFirst, Waiting
<1> USE DEF pingVars, handlerVars, mainVars
<1>5. ASSUME NEW p \in Peer, PeerPong(p) PROVE FALSE
  BY <1>2, <1>5 DEF PeerPong
<1>6. ASSUME NEW p \in Peer, NEW s \in PingSeq \ {0}, PeerDataPong(p, s) PROVE <1>4!1
  <2> DEFINE m == [seq |-> s, lsb |-> 0, origin |-> "data"]
  <2>1. m \in Pong /\ m.origin # "ping"
    BY DEF Pong
  <2>2. pongs' = [pongs EXCEPT ![p] = Append(@, m)]
    BY <1>6 DEF PeerDataPong, SendPong, DataPongBit
  <2> HIDE DEF m
  <2>3. \A q \in Peer : Answers(q)' = {}
    BY <1>2, <1>3, <2>1, <2>2, AnswersAppended
  <2> QED
    BY <1>2, <1>6, <2>3 DEF PeerDataPong
<1>7. ASSUME NEW p \in Peer, pongs[p] # <<>>, pongs' = [pongs EXCEPT ![p] = Tail(@)]
      PROVE  ~IsPing(Head(pongs[p])) /\ \A q \in Peer : Answers(q)' = {}
  <2>1. /\ \A q \in Peer \ {p} : Answers(q)' = Answers(q)
        /\ \A i \in Answers(p)' : i + 1 \in Answers(p)
        /\ 1 \in 1 .. Len(pongs[p]) /\ pongs[p][1] = Head(pongs[p])
    BY <1>3, <1>7, AnswersTaken
  <2>2. ~IsPing(Head(pongs[p]))
    BY <1>2, <2>1 DEF IInv, BitTellsPing
  <2> QED
    BY <1>2, <2>1, <2>2
<1>8. ASSUME NEW p \in Peer, Lose(p) \/ TakePong(p) PROVE <1>4!1
  <2>1. CASE Lose(p)
    BY <1>2, <1>7, <2>1 DEF Lose
  <2>2. CASE TakePong(p)
    BY <1>2, <1>7, <2>2 DEF TakePong
  <2> QED
    BY <1>8, <2>1, <2>2
<1>9. ASSUME NEW p \in Peer, Leave(p) \/ Forget(p) \/ Discover(p) PROVE <1>4!1
  <2>1. pongs' = pongs /\ UNCHANGED <<pingVars, handlerVars, mainVars>>
    BY <1>9 DEF Leave, Forget, Discover, netVars
  <2>2. \A q \in Peer : inbox'[q] = 0
    BY <1>2, <1>3, <1>9 DEF Leave, Forget, Discover, netVars, TypeOK
  <2> QED
    BY <1>2, <2>1, <2>2 DEF Answers
<1>10. CASE Compare \/ Count \/ Again \/ HandlerWrite \/ MainWrite
  BY <1>2, <1>10 DEF Compare, Count, Again, HandlerWrite, MainWrite
<1>11. CASE Tick \/ UNCHANGED vars
  BY <1>2, <1>11 DEF Tick, vars, netVars, Answers
<1> QED
  BY <1>1, <1>5, <1>6, <1>8, <1>9, <1>10, <1>11 DEF Next, HandlerStep

\* What the writing of ping s to everybody does when no answer is under way.
LEMMA WritePingToAll ==
  ASSUME NEW s \in PingSeq \ {0}, WritePing(s), alive = Peer, Waiting = {}, UNCHANGED pongs
  PROVE  Waiting' = Peer /\ \A p \in Peer : inbox'[p] = s /\ Answers(p)' = {}
  BY DEF WritePing, Waiting, Answers

LEMMA RoundStep ==
  ASSUME Peer # {}, IInv, RoundInv, [Next]_vars
  PROVE  RoundInv'
<1>0. /\ BeforeFirst' /\ (timeouts' = 0 => timeouts = 0)
      /\ Everybody' /\ (changes' = 0 => changes = 0)
  BY BeforeFirstStep, EverybodyStep DEF RoundInv
<1>1. SUFFICES ASSUME Undisturbed' PROVE Round'
  BY <1>0 DEF RoundInv
<1>2. changes = 0 /\ alive = Peer /\ known = Peer /\ Continuous /\ timeouts' = 1 /\ ~lost'
  BY <1>0, <1>1 DEF RoundInv, Everybody, Undisturbed
<1>3. TypeOK /\ TypeOK' /\ n_pong_expected = Cardinality(Peer)
  BY <1>2, TypeStep DEF IInv, CountsOK
<1>4. Cardinality(Peer) \in Nat \ {0}
  BY KnownFinite, FS_EmptySet
<1>5. cur_ping_seq \in Nat /\ n_pong_seen \in Nat /\ 0 \in PingSeq
  BY <1>3, ConstantsAssumption DEF TypeOK, PingSeq
<1> USE DEF pingVars, handlerVars, mainVars
<1>6. CASE TimeOut
  <2>1. timeouts = 0
    BY <1>2, <1>6 DEF TimeOut
  <2>2. hpc = "idle" /\ Waiting = {}
    BY <2>1 DEF RoundInv, BeforeFirst
  <2>3. inbox' = inbox /\ pongs' = pongs
    BY <1>6 DEF TimeOut, netVars
  <2>4. \A p \in Peer : inbox'[p] = 0 /\ Answers(p)' = {}
    BY <2>2, <2>3 DEF Waiting, Answers
  <2>5. OneAnswer' /\ Waiting' = {}
    BY <2>4 DEF OneAnswer, Waiting
  <2>6. cur_ping_seq' # 0 /\ mseq' = cur_ping_seq' /\ mpc' = "write" /\ hpc' = "idle"
        /\ n_pong_seen' = 0
    BY <1>5, <1>6, <2>2 DEF TimeOut, SeenReset
  <2> QED
    BY <2>5, <2>6 DEF Round
<1>7. ASSUME ~TimeOut PROVE timeouts = 1 /\ ~lost
  BY <1>2, <1>7 DEF Next, HandlerStep, PeerPong, PeerDataPong, Lose, Leave, Forget, Discover,
     TakePong, Compare, Count, Again, HandlerWrite, Tick, MainWrite, vars, history
<1>8. ASSUME ~TimeOut PROVE Round
  BY <1>2, <1>7, <1>8 DEF RoundInv, Undisturbed
<1>9. ASSUME NEW p \in Peer, PeerPong(p), ~TimeOut PROVE Round'
  <2> DEFINE m == [seq |-> inbox[p], lsb |-> 1, origin |-> "ping"]
  <2>1. m \in Pong /\ m.origin = "ping" /\ m.seq = inbox[p]
    BY <1>3 DEF Pong, TypeOK
  <2>2. /\ inbox[p] # 0 /\ pongs' = [pongs EXCEPT ![p] = Append(@, m)]
        /\ inbox' = [inbox EXCEPT ![p] = 0]
        /\ UNCHANGED <<pingVars, handlerVars, mainVars>>
    BY <1>9 DEF PeerPong, SendPong, PingPongBit
  <2> HIDE DEF m
  <2>3. /\ OneAnswer /\ p \in Waiting
        /\ inbox[p] = cur_ping_seq /\ Answers(p) = {}
    BY <1>8, <1>9, <2>2 DEF Round, OneAnswer, Waiting
  <2>4. /\ \A q \in Peer \ {p} : pongs'[q] = pongs[q] /\ Answers(q)' = Answers(q)
        /\ Answers(p)' = {Len(pongs[p]) + 1}
        /\ pongs'[p][Len(pongs[p]) + 1] = m
    BY <1>3, <2>1, <2>2, <2>3, AnswersAppended
  <2>5. inbox'[p] = 0 /\ \A q \in Peer \ {p} : inbox'[q] = inbox[q]
    BY <1>3, <2>2 DEF TypeOK
  <2>6. Waiting' = Waiting
    BY <2>3, <2>4, <2>5 DEF Waiting
  <2>7. OneAnswer'
    BY <2>1, <2>2, <2>3, <2>4, <2>5 DEF OneAnswer
  <2> QED
    BY <1>8, <1>9, <2>2, <2>3, <2>6, <2>7 DEF Round
<1>10. ASSUME NEW p \in Peer, NEW s \in PingSeq \ {0}, PeerDataPong(p, s), ~TimeOut PROVE Round'
  <2> DEFINE m == [seq |-> s, lsb |-> 0, origin |-> "data"]
  <2>1. m \in Pong /\ m.origin # "ping"
    BY DEF Pong
  <2>2. /\ pongs' = [pongs EXCEPT ![p] = Append(@, m)] /\ inbox' = inbox
        /\ UNCHANGED <<pingVars, handlerVars, mainVars>>
    BY <1>10 DEF PeerDataPong, SendPong, DataPongBit
  <2> HIDE DEF m
  <2>3. \A q \in Peer : Answers(q)' = Answers(q) /\ \A i \in Answers(q) : pongs'[q][i] = pongs[q][i]
    BY <1>3, <2>1, <2>2, AnswersAppended
  <2>4. Waiting' = Waiting
    BY <2>2, <2>3 DEF Waiting
  <2>5. OneAnswer'
    <3>1. OneAnswer /\ cur_ping_seq' = cur_ping_seq
      BY <1>8, <1>10, <2>2 DEF Round
    <3>2. ASSUME NEW q \in Peer
          PROVE  /\ inbox'[q] \in {0, cur_ping_seq}
                 /\ inbox'[q] # 0 => Answers(q)' = {}
                 /\ \A i \in Answers(q)' : pongs'[q][i].seq = cur_ping_seq
                 /\ \A i, j \in Answers(q)' : i = j
      <4>1. /\ inbox'[q] = inbox[q] /\ Answers(q)' = Answers(q)
            /\ \A i \in Answers(q) : pongs'[q][i] = pongs[q][i]
        BY <2>2, <2>3
      <4> QED
        BY <3>1, <4>1 DEF OneAnswer
    <3> QED
      BY <3>1, <3>2 DEF OneAnswer
  <2> QED
    BY <1>8, <1>10, <2>2, <2>4, <2>5 DEF Round
<1>11. ASSUME NEW p \in Peer, Lose(p) \/ Leave(p) \/ Forget(p) \/ Discover(p) PROVE FALSE
  <2>1. changes + 1 # 0
    BY DEF IInv, CountsOK
  <2>2. ~Lose(p) /\ ~Leave(p)
    BY <1>1, <1>2, <2>1 DEF Lose, Leave, Undisturbed
  <2>3. ~Forget(p) /\ ~Discover(p)
    BY <1>2 DEF Forget, Discover
  <2> QED
    BY <1>11, <2>2, <2>3
<1>12. ASSUME NEW p \in Peer, TakePong(p), ~TimeOut PROVE Round'
  <2> DEFINE m == Head(pongs[p])
  <2>1. /\ pongs[p] # <<>> /\ pongs' = [pongs EXCEPT ![p] = Tail(@)] /\ inbox' = inbox
        /\ hpc = "idle" /\ hseq' = m.seq
        /\ hpc' = IF IsPing(m) THEN "compare" ELSE "idle"
        /\ UNCHANGED <<pingVars, mainVars>>
    BY <1>12 DEF TakePong
  <2>2. /\ \A q \in Peer \ {p} : pongs'[q] = pongs[q] /\ Answers(q)' = Answers(q)
        /\ 1 \in 1 .. Len(pongs[p]) /\ pongs[p][1] = m
        /\ \A i \in Answers(p)' : i + 1 \in Answers(p) /\ pongs'[p][i] = pongs[p][i + 1]
        /\ \A i \in Answers(p) : i # 1 => i - 1 \in Answers(p)'
    BY <1>3, <2>1, AnswersTaken
  <2>3. IsPing(m) <=> 1 \in Answers(p)
    BY <2>2 DEF IInv, BitTellsPing
  <2>4. OneAnswer /\ Answers(p) \subseteq Nat \ {0} /\ Answers(p)' \subseteq Nat \ {0}
    BY <1>8, <1>12 DEF Round, Answers
  <2> HIDE DEF m
  <2>5. OneAnswer'
    <3>1. \A i, j \in Answers(p)' : i = j
      BY <2>2, <2>4 DEF OneAnswer
    <3>2. \A i \in Answers(p)' : pongs'[p][i].seq = cur_ping_seq
      BY <2>2, <2>4 DEF OneAnswer
    <3>3. inbox[p] # 0 => Answers(p)' = {}
      BY <2>2, <2>4 DEF OneAnswer
    <3> QED
      <4>1. cur_ping_seq' = cur_ping_seq /\ inbox'[p] \in {0, cur_ping_seq}
        BY <2>1, <2>4 DEF OneAnswer
      <4>2. ASSUME NEW q \in Peer \ {p}
            PROVE  /\ inbox'[q] \in {0, cur_ping_seq}
                   /\ inbox'[q] # 0 => Answers(q)' = {}
                   /\ \A i \in Answers(q)' : pongs'[q][i].seq = cur_ping_seq
                   /\ \A i, j \in Answers(q)' : i = j
        BY <2>1, <2>2, <2>4 DEF OneAnswer
      <4> QED
        BY <2>1, <3>1, <3>2, <3>3, <4>1, <4>2 DEF OneAnswer
  <2>6. CASE IsPing(m)
    <3>1. Answers(p) = {1} /\ inbox[p] = 0 /\ m.seq = cur_ping_seq
      BY <2>2, <2>3, <2>4, <2>6 DEF OneAnswer
    <3>2. Answers(p)' = {}
      BY <2>2, <2>4, <3>1
    <3>3. p \in Waiting /\ Waiting' = Waiting \ {p}
      BY <2>1, <2>2, <3>1, <3>2 DEF Waiting
    <3>4. Cardinality(Waiting') = Cardinality(Waiting) - 1 /\ Cardinality(Waiting) \in Nat
      BY <3>3, WaitingFinite
    <3>5. mpc = "idle" /\ n_pong_seen + Cardinality(Waiting) = Cardinality(Peer)
      BY <1>8, <1>12, <2>1, <3>3 DEF Round
    <3> QED
      BY <1>4, <1>5, <1>8, <1>12, <2>1, <2>5, <2>6, <3>1, <3>4, <3>5 DEF Round
  <2>7. CASE ~IsPing(m)
    <3>1. Answers(p)' = {} <=> Answers(p) = {}
      BY <2>2, <2>3, <2>7
    <3>2. Waiting' = Waiting
      BY <2>1, <2>2, <3>1 DEF Waiting
    <3> QED
      BY <1>8, <1>12, <2>1, <2>5, <2>7, <3>2 DEF Round
  <2> QED
    BY <2>6, <2>7
<1>13. ASSUME UNCHANGED netVars
       PROVE  Waiting' = Waiting /\ (cur_ping_seq' = cur_ping_seq /\ OneAnswer => OneAnswer')
  BY <1>13 DEF netVars, Waiting, OneAnswer, Answers
<1>14. CASE Compare /\ ~TimeOut
  BY <1>8, <1>13, <1>14 DEF Compare, Matches, Round
<1>15. CASE Count /\ ~TimeOut
  <2>1. /\ hpc = "count" /\ n_pong_seen' = n_pong_seen + 1
        /\ hpc' = IF n_pong_seen + 1 = Cardinality(Peer) THEN "again" ELSE "idle"
        /\ UNCHANGED <<cur_ping_seq, hseq, mainVars, netVars>>
    BY <1>2, <1>3, <1>15 DEF Count, AllSeen
  <2>2. /\ Round /\ mpc = "idle" /\ hseq = cur_ping_seq
        /\ n_pong_seen + Cardinality(Waiting) + 1 = Cardinality(Peer)
    BY <1>8, <1>15, <2>1 DEF Round
  <2>3. Waiting' = Waiting /\ OneAnswer' /\ cur_ping_seq' # 0
    BY <1>13, <2>1, <2>2 DEF Round
  <2>4. CASE n_pong_seen + 1 = Cardinality(Peer)
    <3>1. Waiting = {}
      BY <1>4, <1>5, <2>2, <2>4, WaitingFinite
    <3> QED
      BY <2>1, <2>2, <2>3, <2>4, <3>1 DEF Round
  <2>5. CASE n_pong_seen + 1 # Cardinality(Peer)
    <3>1. /\ n_pong_seen' + Cardinality(Waiting) = Cardinality(Peer)
          /\ n_pong_seen' < Cardinality(Peer)
      BY <1>4, <1>5, <2>1, <2>2, <2>5, WaitingFinite
    <3> QED
      BY <2>1, <2>2, <2>3, <2>5, <3>1 DEF Round
  <2> QED
    BY <2>4, <2>5
<1>16. CASE Again /\ ~TimeOut
  <2>1. Waiting = {} /\ mpc = "idle" /\ hseq = cur_ping_seq
    BY <1>8, <1>16 DEF Again, Round
  <2>2. Waiting' = {} /\ OneAnswer'
    BY <1>13, <1>16, <2>1 DEF Again, OneAnswer, Waiting
  <2>3. /\ cur_ping_seq' = hseq + 1 /\ hseq' = hseq + 1 /\ n_pong_seen' = 0
        /\ hpc' = "write" /\ mpc' = mpc
    BY <1>16 DEF Again, NextFromPong, SeenReset
  <2> QED
    BY <1>5, <2>1, <2>2, <2>3 DEF Round
<1>17. CASE (HandlerWrite \/ MainWrite) /\ ~TimeOut
  <2>1. /\ cur_ping_seq # 0 /\ Waiting = {} /\ n_pong_seen = 0
        /\ WritePing(cur_ping_seq) /\ hpc' = "idle" /\ mpc' = "idle"
        /\ UNCHANGED <<pingVars, pongs>>
    BY <1>8, <1>17 DEF HandlerWrite, MainWrite, Round
  <2>2. Waiting' = Peer /\ \A p \in Peer : inbox'[p] = cur_ping_seq /\ Answers(p)' = {}
    BY <1>2, <1>3, <2>1, WritePingToAll DEF TypeOK
  <2>3. OneAnswer'
    BY <2>1, <2>2 DEF OneAnswer
  <2> QED
    BY <1>4, <2>1, <2>2, <2>3 DEF Round
<1>18. CASE (Tick \/ UNCHANGED vars) /\ ~TimeOut
  BY <1>8, <1>13, <1>18 DEF Tick, vars, Round
<1> QED
  BY <1>6, <1>9, <1>10, <1>11, <1>12, <1>14, <1>15, <1>16, <1>17, <1>18 DEF Next, HandlerStep

\* With a peer at all, in continuous mode, when nothing is lost and nobody comes or goes, the
\* first ping of the timer keeps the pings and pongs going: the process is never silent.
THEOREM PingPongGoesOn ==
  ASSUME Peer # {}
  PROVE  Spec => []NeverSilent
<1>1. IInv /\ RoundInv => NeverSilent
  <2>1. SUFFICES ASSUME IInv, RoundInv, Undisturbed, Silent PROVE FALSE
    BY DEF NeverSilent, Undisturbed
  <2>2. hpc = "idle" /\ mpc = "idle" /\ Waiting = {}
    BY <2>1, EmptySeq DEF Silent, Waiting, Answers
  <2>3. /\ n_pong_seen + Cardinality(Waiting) = Cardinality(Peer)
        /\ n_pong_seen < Cardinality(Peer)
    BY <2>1, <2>2 DEF RoundInv, Round
  <2> QED
    BY <2>1, <2>2, <2>3, FS_EmptySet, KnownFinite DEF IInv, TypeOK
<1>2. IInv /\ RoundInv /\ [Next]_vars => RoundInv'
  BY RoundStep
<1> QED
  BY <1>1, <1>2, InitRound, SpecIInv, PTL DEF Spec
=============================================================================
