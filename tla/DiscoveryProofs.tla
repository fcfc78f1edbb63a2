--------------------------- MODULE DiscoveryProofs --------------------------
(***************************************************************************)
(* Safety of the table of peers for any set of participants, kinds of      *)
(* endpoints and options.                                                  *)
(***************************************************************************)
EXTENDS Discovery, SequenceTheorems, FiniteSetTheorems, TLAPS

\* Thread t is at one of the steps S with the sample of p.
Holding(t, p, S) == pc[t] \in S /\ sample[t] = p
Held(p, S) == \E t \in Thread : Holding(t, p, S)

MatchEvent(p, k) == <<"match", p, k>>
Queued(e) == \E i \in 1 .. Len(queue) : queue[i] = e
Handled(e) == running # <<>> /\ Head(running) = e

\* The steps of the handler before it has found the reader empty.
Draining == {"take", "gone", "alive", "call"}

Listening == {"sync", "endpoints", "initwait", "run"}

\* Which thread runs the handler in which phase.
ControlInv ==
    /\ running = <<>> <=> pc["al"] = "idle"
    /\ phase = "sync" <=> pc["main"] # "idle"
    /\ pc["main"] # "match"
    /\ phase = "start" => queue = <<>> /\ running = <<>> /\ writers = {}
    /\ pc["al"] = "match" => Head(running) # <<"data">>

\* A waiting sample is taken by a handler that runs or has an event to run for.
SamplesInv ==
    phase \in Listening /\ (\E p \in Participant : reader[p] # "none")
        => queue # <<>> \/ \E t \in Thread : pc[t] \in Draining

----------------------------------------------------------------------------
(* A participant comes once and goes once.                                 *)

\* The sample with which p comes is in the reader or with one thread, and p is added and its
\* pong writer created by nobody else.
OnceInv ==
    /\ \A p \in Participant :
          /\ life[p] = "absent" =>
                reader[p] = "none" /\ p \notin ppants /\ p \notin writers
                /\ ~Held(p, {"gone", "alive", "call"})
          /\ reader[p] = "alive" =>
                life[p] = "alive" /\ p \notin ppants /\ p \notin writers
                /\ ~Held(p, {"alive", "call"})
          /\ reader[p] = "gone" \/ Held(p, {"gone"}) => life[p] = "gone"
          /\ Held(p, {"alive"}) => p \notin ppants
          /\ Held(p, {"alive", "call"}) => p \notin writers
          /\ Held(p, {"call"}) => IsPeer(p) /\ (p \in ppants \/ p \in overtaken)
          /\ ~(Holding("main", p, {"alive", "call"}) /\ Holding("al", p, {"alive", "call"}))
    /\ \A p \in overtaken : life[p] = "gone"

\* The table of pong writers has an entry of h with the writer that was created for p.
HasEntry(h, p) == \E e \in pongwr : e.pphandle = h /\ e.wr_pong = p

\* What the tables say of the participants that were not overtaken.
TablesInv ==
    \A p \in Participant \ overtaken :
        /\ life[p] = "alive" => reader[p] = "alive" \/ Held(p, {"alive"}) \/ p \in ppants
        /\ life[p] = "gone" /\ (p \in ppants \/ Held(p, {"alive", "call"}))
              => reader[p] = "gone" \/ Held(p, {"gone"})
        /\ p \in ppants /\ IsPeer(p) => Held(p, {"call"}) \/ HasEntry(p, p)
        /\ \A h \in Participant \cup {Junk} :
              HasEntry(h, p) => h = p /\ p \in ppants /\ IsPeer(p)

----------------------------------------------------------------------------
(* Matches.                                                                *)

\* A match is of a peer that runs or has run; until its participant is in the table its event
\* is queued, or the handler of the event has not yet found the reader empty.
MatchInv ==
    \A p \in Participant, k \in Kind :
        /\ Queued(MatchEvent(p, k)) \/ Handled(MatchEvent(p, k)) => <<p, k>> \in matched
        /\ <<p, k>> \in matched =>
              /\ life[p] # "absent" /\ p \notin overtaken /\ IsPeer(p)
              /\ phase \in {"start", "sync"} => p \in writers
              /\ reader[p] = "alive" \/ Held(p, {"alive"}) =>
                    \/ Queued(MatchEvent(p, k))
                    \/ Handled(MatchEvent(p, k)) /\ pc["al"] \in Draining
              /\ p \in ppants /\ life[p] # "gone" /\ k \in unmatched[p] =>
                    Queued(MatchEvent(p, k)) \/ Handled(MatchEvent(p, k))

\* The inductive invariant.
IInv ==
    /\ TypeOK
    /\ ControlInv
    /\ SamplesInv
    /\ HeapHoldsDeadlines
    /\ ExpectedAddsUp
    /\ OnceInv
    /\ TablesInv
    /\ MatchInv

\* Without a data reader every endpoint that matches is one the participant waits for, and
\* each is handled once.
CountInv ==
    /\ rd_data = FALSE
    /\ \A i, j \in 1 .. Len(queue) : queue[i] = queue[j] /\ queue[i] # <<"data">> => i = j
    /\ running # <<>> /\ Head(running) # <<"data">> => ~Queued(Head(running))
    /\ \A p \in Participant, k \in Kind :
          /\ <<p, k>> \in matched => k # "wr_data" /\ (k = "rd_data" => p \in HasReader)
          /\ Queued(MatchEvent(p, k)) \/ Handled(MatchEvent(p, k)) =>
                (p \in ppants => k \in unmatched[p])
          /\ p \in ppants /\ k \in Expected(p) => k \in unmatched[p] \/ <<p, k>> \in matched
    /\ \A p \in completed :
          /\ life[p] # "absent" /\ reader[p] # "alive" /\ ~Held(p, {"alive"})
          /\ p \in ppants => unmatched[p] = {}
    /\ matchcount = Cardinality(completed)

----------------------------------------------------------------------------
(* Counters, events and the queue.                                         *)

\* The counters are unsigned: what is left modulo their width is in their range and differs
\* from the exact number by a multiple of the width.
LEMMA ModFacts ==
  ASSUME NEW a \in Int
  PROVE  /\ a % Modulus \in 0 .. Modulus - 1
         /\ \E k \in Int : a % Modulus = a + k * Modulus
<1>1. Modulus \in Nat \ {0}
  BY WidthAssumption, FS_CardinalityType, ParticipantAssumption
<1>2. a % Modulus \in 0 .. Modulus - 1
  BY <1>1
<1>3. a = Modulus * (a \div Modulus) + (a % Modulus) /\ a \div Modulus \in Int
  BY <1>1
<1>4. a % Modulus = a + (-(a \div Modulus)) * Modulus /\ -(a \div Modulus) \in Int
  BY <1>1, <1>2, <1>3
<1> QED
  BY <1>2, <1>4

LEMMA ModUnique ==
  ASSUME NEW x \in 0 .. Modulus - 1, NEW k \in Int
  PROVE  (x + k * Modulus) % Modulus = x
<1>1. Modulus \in Nat \ {0}
  BY WidthAssumption, FS_CardinalityType, ParticipantAssumption
<1> QED
  BY <1>1

LEMMA EventFacts ==
  /\ <<"data">> \in Event
  /\ \A p \in Participant, k \in Kind :
        /\ MatchEvent(p, k) \in Event /\ MatchEvent(p, k) # <<"data">>
        /\ MatchEvent(p, k)[2] = p /\ MatchEvent(p, k)[3] = k
        /\ \A q \in Participant, j \in Kind :
              MatchEvent(p, k) = MatchEvent(q, j) => p = q /\ k = j
  /\ \A e \in Event : e # <<"data">> => \E p \in Participant, k \in Kind : e = MatchEvent(p, k)
  BY DEF Event, MatchEvent

\* An event that is posted is the last one.
LEMMA QueueAppended ==
  ASSUME queue \in Seq(Event), NEW e \in Event, queue' = Append(queue, e)
  PROVE  /\ queue' \in Seq(Event) /\ queue' # <<>>
         /\ Len(queue) \in Nat /\ Len(queue') = Len(queue) + 1
         /\ \A i \in 1 .. Len(queue) : queue'[i] = queue[i]
         /\ queue'[Len(queue) + 1] = e
         /\ \A x : Queued(x)' <=> Queued(x) \/ x = e
<1>1. /\ queue' \in Seq(Event) /\ queue' # <<>>
      /\ Len(queue) \in Nat /\ Len(queue') = Len(queue) + 1
      /\ \A i \in 1 .. Len(queue) : queue'[i] = queue[i]
      /\ queue'[Len(queue) + 1] = e
  BY AppendProperties, LenProperties
<1> QED
  BY <1>1 DEF Queued

\* The event that is dispatched is the first one.
LEMMA QueueTaken ==
  ASSUME queue \in Seq(Event), queue # <<>>, queue' = Tail(queue)
  PROVE  /\ Head(queue) \in Event /\ queue' \in Seq(Event)
         /\ Len(queue) \in Nat \ {0} /\ Len(queue') = Len(queue) - 1
         /\ \A i \in 1 .. Len(queue') : queue'[i] = queue[i + 1]
         /\ Head(queue) = queue[1]
         /\ \A x : Queued(x) <=> Queued(x)' \/ x = Head(queue)
<1>1. /\ Head(queue) \in Event /\ queue' \in Seq(Event)
      /\ Len(queue) \in Nat \ {0} /\ Len(queue') = Len(queue) - 1
      /\ \A i \in 1 .. Len(queue') : queue'[i] = queue[i + 1]
      /\ Head(queue) = queue[1]
  BY HeadTailProperties, EmptySeq, LenProperties, ElementOfSeq
<1>2. ASSUME NEW x, Queued(x)', ~Queued(x) PROVE FALSE
  BY <1>1, <1>2 DEF Queued
<1>3. ASSUME NEW x, Queued(x), x # Head(queue) PROVE Queued(x)'
  <2>1. PICK i \in 1 .. Len(queue) : queue[i] = x
    BY <1>3 DEF Queued
  <2>2. i - 1 \in 1 .. Len(queue') /\ queue'[i - 1] = x
    BY <1>1, <1>3, <2>1
  <2> QED
    BY <2>2 DEF Queued
<1>4. Queued(Head(queue))
  BY <1>1 DEF Queued
<1> QED
  BY <1>1, <1>2, <1>3, <1>4

LEMMA RunningFacts ==
  ASSUME running \in Seq(Event), Len(running) <= 1, running # <<>>
  PROVE  Head(running) \in Event
  BY HeadTailProperties

LEMMA OneEvent ==
  ASSUME NEW e \in Event
  PROVE  /\ <<e>> \in Seq(Event) /\ Len(<<e>>) = 1 /\ <<e>> # <<>> /\ Head(<<e>>) = e
         /\ <<>> \in Seq(Event) /\ Len(<<>>) = 0
  OBVIOUS

----------------------------------------------------------------------------
(* The steps that matter to the tables.                                    *)

coreVars == <<life, matched, reader, writers, queueVars, ppants, unmatched, pongVars, threadVars,
              overtaken>>

\* The steps of the clock and of the main thread only move its phase.
Other ==
    /\ UNCHANGED coreVars
    /\ \/ phase' = phase
       \/ phase \notin {"start", "sync"} /\ phase' \notin {"start", "sync", "endpoints"}
    /\ phase' \in Listening => phase \in Listening

LEMMA Steps ==
  ASSUME [Next]_vars
  PROVE  \/ \E p \in Participant : Come(p) \/ Go(p) \/ \E k \in Kind : Match(p, k)
         \/ \E t \in Thread : \/ \E p \in Participant : TakeSample(t, p)
                              \/ TakeNothing(t) \/ Gone(t) \/ Add(t) \/ Create(t) \/ Apply(t)
         \/ Dispatch \/ EndpointMatched \/ SetListener
         \/ \E p \in Participant, k \in PongKind : GetPongWriter(p, k)
         \/ Other
<1> USE DEF coreVars, envVars, threadVars, pongVars, Other, Listening
<1>1. ASSUME NEW p \in Participant, DeadlinePasses(p) PROVE Other
  BY <1>1 DEF DeadlinePasses, mainVars
<1>2. CASE CreateEndpoints \/ InitWaitEnds \/ DeleteParticipant \/ StopListener \/ Exit
  BY <1>2 DEF CreateEndpoints, InitWaitEnds, GiveUp, DeleteParticipant, StopListener, Exit,
     MainGoes, tableVars
<1>3. CASE VerifyMinMatch \/ CheckDeadlines \/ Stop \/ UseDeleted
  BY <1>3 DEF VerifyMinMatch, GiveUp, CheckDeadlines, Stop, UseDeleted, MainGoes, tableVars,
     mainVars
<1>4. CASE UNCHANGED vars
  BY <1>4 DEF vars, tableVars, mainVars
<1>5. ASSUME NEW a \in Asking, GetPongWriter(a[1], a[2])
      PROVE  \E p \in Participant, k \in PongKind : GetPongWriter(p, k)
  BY <1>5, ParticipantAssumption
<1> QED
  BY <1>1, <1>2, <1>3, <1>4, <1>5 DEF Next, Main, Al, Discover, Exited, Thread

----------------------------------------------------------------------------
(* Types.                                                                  *)

\* Looking up a pong writer changes no writer and no handle of an entry.
LEMMA AssignedKeepsWriters ==
  ASSUME TypeOK, NEW p \in Participant, NEW k \in PongKind, GetPongWriter(p, k)
  PROVE  /\ pongwr' \subseteq PongEntry
         /\ \A h \in Participant \cup {Junk}, q \in Participant : HasEntry(h, q)' <=> HasEntry(h, q)
<1>1. PICK h \in {p, Junk} : pongwr' \in Assigned(h, <<p, k>>)
  BY DEF GetPongWriter
<1>2. pongwr \subseteq PongEntry
  BY DEF TypeOK
<1>3. CASE pongwr' = pongwr
  BY <1>2, <1>3 DEF HasEntry
<1>4. ASSUME pongwr' # pongwr
      PROVE  \E e \in pongwr :
                pongwr' = (pongwr \ {f \in {e} : f.pubhandle = NoPublication})
                          \cup {[e EXCEPT !.pubhandle = <<p, k>>]}
  BY <1>1, <1>4 DEF Assigned, EntriesOf
<1>5. ASSUME NEW e \in pongwr,
             pongwr' = (pongwr \ {f \in {e} : f.pubhandle = NoPublication})
                       \cup {[e EXCEPT !.pubhandle = <<p, k>>]}
      PROVE  /\ pongwr' \subseteq PongEntry
             /\ \A g \in Participant \cup {Junk}, q \in Participant :
                   HasEntry(g, q)' <=> HasEntry(g, q)
  <2> DEFINE n == [e EXCEPT !.pubhandle = <<p, k>>]
  <2>1. n \in PongEntry /\ n.pphandle = e.pphandle /\ n.wr_pong = e.wr_pong
    BY <1>2, <1>5 DEF PongEntry, Publication
  <2>2. /\ n \in pongwr' /\ pongwr' \subseteq pongwr \cup {n}
        /\ pongwr \subseteq pongwr' \cup {e}
    BY <1>5
  <2> HIDE DEF n
  <2>3. pongwr' \subseteq PongEntry
    BY <1>2, <2>1, <2>2
  <2>4. ASSUME NEW g \in Participant \cup {Junk}, NEW q \in Participant
        PROVE  HasEntry(g, q)' <=> HasEntry(g, q)
    BY <1>5, <2>1, <2>2 DEF HasEntry
  <2> QED
    BY <2>3, <2>4
<1> QED
  BY <1>3, <1>4, <1>5

LEMMA InitType == Init => TypeOK
<1> SUFFICES ASSUME Init PROVE TypeOK
  OBVIOUS
<1> USE DEF Init
<1>1. Cardinality(Participant) \in Nat
  BY ParticipantAssumption, FS_CardinalityType
<1>2. {matchcount, matchtimeout, minmatch, n_pong_expected} \subseteq 0 .. Modulus - 1
  BY <1>1, WidthAssumption
<1>3. delta \in [Thread -> 0 .. Modulus - 1]
  BY <1>1, WidthAssumption
<1>4. queue \in Seq(Event) /\ running \in Seq(Event) /\ Len(running) <= 1
  BY EmptySeq
<1>5. rd_data \in BOOLEAN /\ awaiting \in BOOLEAN
  BY OptionsAssumption
<1>6. /\ life \in [Participant -> {"absent", "alive", "gone"}]
      /\ reader \in [Participant -> {"none", "alive", "gone"}]
      /\ unmatched \in [Participant -> SUBSET Kind]
      /\ tdeadline \in [Participant -> {"ahead", "passed", "never"}]
      /\ pc \in [Thread -> {"idle"}] /\ sample \in [Thread -> Participant]
  BY ParticipantAssumption
<1> QED
  BY <1>2, <1>3, <1>4, <1>5, <1>6 DEF TypeOK

LEMMA TypeStep == ControlInv /\ TypeOK /\ [Next]_vars => TypeOK'
<1> SUFFICES ASSUME ControlInv, TypeOK, [Next]_vars PROVE TypeOK'
  OBVIOUS
<1>0. /\ \A a \in Int : a % Modulus \in 0 .. Modulus - 1
      /\ 0 \in 0 .. Modulus - 1 /\ Modulus - 1 \in 0 .. Modulus - 1 /\ Modulus \in Nat
  <2>1. \A a \in Int : a % Modulus \in 0 .. Modulus - 1
    BY ModFacts
  <2>2. Modulus \in Nat \ {0}
    BY WidthAssumption, ParticipantAssumption, FS_CardinalityType
  <2> QED
    BY <2>1, <2>2
<1>d. /\ \A t \in Thread : /\ delta[t] - 1 \in Int /\ delta[t] + 1 \in Int
                            /\ n_pong_expected + delta[t] \in Int
      /\ matchcount + 1 \in Int
  <2>1. n_pong_expected \in Int /\ matchcount \in Int /\ \A t \in Thread : delta[t] \in Int
    BY <1>0 DEF TypeOK
  <2> QED
    BY <2>1
<1>1. queue' = DataAvailable(queue) => queue' \in Seq(Event)
  BY QueueAppended, EventFacts DEF TypeOK, DataAvailable
<1> USE DEF TypeOK, envVars, queueVars, tableVars, countVars, pongVars, threadVars, mainVars
<1>2. ASSUME NEW p \in Participant, Come(p) PROVE TypeOK'
  BY <1>1, <1>2 DEF Come
<1>3. ASSUME NEW p \in Participant, Go(p) PROVE TypeOK'
  BY <1>1, <1>3 DEF Go
<1>4. ASSUME NEW p \in Participant, NEW k \in Kind, Match(p, k) PROVE TypeOK'
  <2>1. queue' \in Seq(Event)
    BY <1>4, QueueAppended, EventFacts DEF Match, MatchEvent
  <2> QED
    BY <1>4, <2>1 DEF Match
<1>5. ASSUME NEW t \in Thread, NEW p \in Participant, TakeSample(t, p) PROVE TypeOK'
  BY <1>5 DEF TakeSample
<1>6. ASSUME NEW t \in Thread, TakeNothing(t) PROVE TypeOK'
  BY <1>6 DEF TakeNothing
<1>7. ASSUME NEW t \in Thread, Gone(t) PROVE TypeOK'
  <2>1. /\ sample[t] \in Participant /\ DeltaWhenGone(t) \in 0 .. Modulus - 1
    BY <1>0, <1>d DEF DeltaWhenGone
  <2>2. /\ pongwr' \subseteq pongwr /\ toMatch' \subseteq toMatch /\ ppants' \subseteq ppants
        /\ overtaken' \subseteq overtaken \cup {sample[t]}
    BY <1>7 DEF Gone, DeletePongWriter, HeapWithout
  <2>3. delta' \in [Thread -> 0 .. Modulus - 1]
    BY <1>7, <2>1 DEF Gone
  <2> QED
    BY <1>7, <2>1, <2>2, <2>3 DEF Gone
<1>8. ASSUME NEW t \in Thread, Add(t) PROVE TypeOK'
  <2>1. sample[t] \in Participant /\ Expected(sample[t]) \subseteq Kind
    BY DEF Expected
  <2>2. CASE sample[t] \in ppants
    BY <1>8, <2>2 DEF Add
  <2>3. CASE sample[t] \notin ppants
    <3>1. /\ ppants' \subseteq Participant /\ toMatch' \subseteq Participant
          /\ unmatched' \in [Participant -> SUBSET Kind]
          /\ tdeadline' \in [Participant -> {"ahead", "passed", "never"}]
      <4>1. /\ ppants' = ppants \cup {sample[t]} /\ toMatch' = toMatch \cup {sample[t]}
            /\ unmatched' = [unmatched EXCEPT ![sample[t]] = Expected(sample[t])]
            /\ tdeadline' = [tdeadline EXCEPT ![sample[t]] = "ahead"]
        BY <1>8, <2>3 DEF Add
      <4> QED
        BY <2>1, <4>1
    <3>2. pc' \in [Thread -> {"idle", "take", "gone", "alive", "call", "apply", "match"}]
      <4>1. pc' = [pc EXCEPT ![t] = "call"] \/ pc' = [pc EXCEPT ![t] = "take"]
        BY <1>8, <2>3 DEF Add
      <4> QED
        BY <4>1
    <3> QED
      BY <1>8, <3>1, <3>2 DEF Add
  <2> QED
    BY <2>2, <2>3
<1>9. ASSUME NEW t \in Thread, Create(t) PROVE TypeOK'
  <2>1. PICK h \in HandleRead(sample[t]) :
              pongwr' = pongwr \cup {[pphandle |-> h, pubhandle |-> NoPublication,
                                     wr_pong |-> sample[t]]}
    BY <1>9 DEF Create
  <2>2. sample[t] \in Participant /\ (delta[t] + 1) % Modulus \in 0 .. Modulus - 1
    BY <1>0, <1>d
  <2>3. pongwr' \subseteq PongEntry
    BY <2>1, <2>2 DEF HandleRead, PongEntry
  <2>4. delta' \in [Thread -> 0 .. Modulus - 1]
    BY <1>9, <2>2 DEF Create
  <2> QED
    BY <1>9, <2>2, <2>3, <2>4 DEF Create
<1>10. ASSUME NEW t \in Thread, Apply(t) PROVE TypeOK'
  <2>1. n_pong_expected' \in 0 .. Modulus - 1 /\ delta' \in [Thread -> 0 .. Modulus - 1]
    BY <1>0, <1>d, <1>10 DEF Apply
  <2>2. running' = running \/ running' = <<>>
    BY <1>10 DEF Apply
  <2>3. matchcount' = matchcount /\ matchtimeout' = matchtimeout /\ minmatch' = minmatch
    BY <1>10 DEF Apply
  <2> QED
    <3>1. running' \in Seq(Event) /\ Len(running') <= 1
      <4>1. CASE running' = running
        BY <4>1
      <4>2. CASE running' = <<>>
        BY <4>2, EmptySeq
      <4> QED
        BY <2>2, <4>1, <4>2
    <3>2. pc' \in [Thread -> {"idle", "take", "gone", "alive", "call", "apply", "match"}]
      <4>1. pc' = [pc EXCEPT ![t] = "match"] \/ pc' = [pc EXCEPT ![t] = "idle"]
        BY <1>10 DEF Apply
      <4> QED
        BY <4>1
    <3> QED
      BY <1>10, <2>1, <2>3, <3>1, <3>2 DEF Apply
<1>11. CASE Dispatch
  BY <1>11, QueueTaken, OneEvent DEF Dispatch, MayDispatch, Thread
<1>12. CASE EndpointMatched
  <2>1. /\ Head(running) \in Event /\ Head(running) # <<"data">>
    BY <1>12, RunningFacts DEF EndpointMatched, ControlInv
  <2>2. Head(running)[2] \in Participant
    BY <2>1, EventFacts DEF MatchEvent
  <2>3. matchcount' \in {matchcount, (matchcount + 1) % Modulus}
    BY <1>12 DEF EndpointMatched
  <2>4. matchcount' \in 0 .. Modulus - 1
    BY <1>0, <1>d, <2>3
  <2>5. unmatched' \in [Participant -> SUBSET Kind] /\ completed' \subseteq Participant
    <3> DEFINE p == Head(running)[2]
               r == Remaining(p, Head(running)[3])
    <3>1. /\ unmatched' = unmatched \/ unmatched' = [unmatched EXCEPT ![p] = r]
          /\ completed' \subseteq completed \cup {p}
      BY <1>12 DEF EndpointMatched
    <3>2. r \subseteq Kind
      BY <2>2 DEF Remaining
    <3> HIDE DEF p, r
    <3>3. p \in Participant
      BY <2>2 DEF p
    <3> QED
      BY <3>1, <3>2, <3>3
  <2>6. running' = <<>> /\ pc' = [pc EXCEPT !["al"] = "idle"]
    BY <1>12 DEF EndpointMatched
  <2> QED
    <3>1. running' \in Seq(Event) /\ Len(running') <= 1
      BY <2>6, EmptySeq
    <3> QED
      BY <1>12, <2>4, <2>5, <2>6, <3>1 DEF EndpointMatched
<1>13. CASE SetListener
  BY <1>13 DEF SetListener, SynchronousCall, MainGoes
<1>14. ASSUME NEW p \in Participant, NEW k \in PongKind, GetPongWriter(p, k) PROVE TypeOK'
  <2>1. pongwr' \subseteq PongEntry
    BY <1>14, AssignedKeepsWriters DEF GetPongWriter
  <2> QED
    BY <1>14, <2>1 DEF GetPongWriter
<1>15. CASE CreateEndpoints \/ DeleteParticipant \/ StopListener \/ Exit \/ Stop \/ UseDeleted
  BY <1>15, OptionsAssumption
     DEF CreateEndpoints, DeleteParticipant, StopListener, Exit, Stop, UseDeleted, MainGoes
<1>16. CASE InitWaitEnds \/ VerifyMinMatch
  BY <1>0, <1>16 DEF InitWaitEnds, VerifyMinMatch, GiveUp, Impossible
<1>17. ASSUME NEW p \in Participant, DeadlinePasses(p) PROVE TypeOK'
  BY <1>17 DEF DeadlinePasses
<1>18. CASE CheckDeadlines
  <2>1. Cardinality({p \in Overdue : unmatched[p] # {}}) \in Nat
    BY ParticipantAssumption, FS_Subset, FS_CardinalityType DEF Overdue
  <2>2. matchtimeout' \in 0 .. Modulus - 1
    BY <1>0, <1>18, <2>1 DEF CheckDeadlines
  <2> QED
    BY <1>18, <2>2 DEF CheckDeadlines
<1>19. CASE UNCHANGED vars
  BY <1>19 DEF vars
<1> QED
  BY <1>2, <1>3, <1>4, <1>5, <1>6, <1>7, <1>8, <1>9, <1>10, <1>11, <1>12, <1>13, <1>14, <1>15,
     <1>16, <1>17, <1>18, <1>19, ParticipantAssumption DEF Next, Main, Al, Discover, Exited, Thread

----------------------------------------------------------------------------
(* Control, samples, the heap and the pongs expected.                      *)

LEMMA InitControl == Init => ControlInv /\ SamplesInv
  BY DEF Init, ControlInv, SamplesInv, Listening, Thread, envVars

LEMMA ControlStep == TypeOK /\ ControlInv /\ [Next]_vars => ControlInv'
<1> SUFFICES ASSUME TypeOK, ControlInv, [Next]_vars PROVE ControlInv'
  OBVIOUS
<1>0. /\ pc \in [Thread -> {"idle", "take", "gone", "alive", "call", "apply", "match"}]
      /\ reader \in [Participant -> {"none", "alive", "gone"}]
  BY DEF TypeOK
<1>1. "main" \in Thread /\ "al" \in Thread /\ \A t \in Thread : t = "main" \/ t = "al"
  BY DEF Thread
<1>2. phase = "start" => pc["main"] = "idle" /\ pc["al"] = "idle"
  BY DEF ControlInv
<1> USE <1>0, <1>1 DEF ControlInv, envVars, queueVars, threadVars, mainVars
<1>3. ASSUME NEW p \in Participant, Come(p) \/ Go(p) \/ \E k \in Kind : Match(p, k)
      PROVE  ControlInv'
  <2>1. UNCHANGED <<pc, phase, running, writers>>
    BY <1>3 DEF Come, Go, Match
  <2>2. phase = "start" => queue' = queue
    <3>1. ASSUME phase = "start", NEW k \in Kind, Match(p, k) PROVE queue' = queue
      BY <3>1, OptionsAssumption DEF Match, HasListener, EndpointKinds
    <3> QED
      BY <1>3, <3>1 DEF Come, Go, DataAvailable
  <2> QED
    BY <2>1, <2>2
<1>4. ASSUME NEW t \in Thread,
             \/ \E p \in Participant : TakeSample(t, p)
             \/ TakeNothing(t) \/ Gone(t) \/ Add(t) \/ Create(t)
      PROVE  ControlInv'
  <2>1. /\ UNCHANGED <<queue, running, phase>>
        /\ pc[t] \in {"take", "gone", "alive", "call"}
        /\ \E x \in {"take", "gone", "alive", "call", "apply"} : pc' = [pc EXCEPT ![t] = x]
        /\ phase # "start"
    BY <1>2, <1>4 DEF TakeSample, TakeNothing, Gone, Add, Create
  <2> QED
    BY <2>1
<1>5. ASSUME NEW t \in Thread, Apply(t) PROVE ControlInv'
  <2>1. CASE t = "main"
    BY <1>5, <2>1 DEF Apply
  <2>2. CASE t = "al"
    BY <1>5, <2>2 DEF Apply
  <2> QED
    BY <2>1, <2>2
<1>6. CASE Dispatch
  BY <1>6 DEF Dispatch, MayDispatch
<1>7. CASE EndpointMatched
  BY <1>7 DEF EndpointMatched
<1>8. CASE SetListener
  BY <1>2, <1>8 DEF SetListener, SynchronousCall, MainGoes
<1>9. ASSUME NEW p \in Participant, NEW k \in PongKind, GetPongWriter(p, k) PROVE ControlInv'
  BY <1>9 DEF GetPongWriter
<1>10. CASE Other
  BY <1>10 DEF Other, coreVars
<1> QED
  BY <1>3, <1>4, <1>5, <1>6, <1>7, <1>8, <1>9, <1>10, Steps

LEMMA SamplesStep == TypeOK /\ ControlInv /\ SamplesInv /\ [Next]_vars => SamplesInv'
<1> SUFFICES ASSUME TypeOK, ControlInv, SamplesInv, [Next]_vars PROVE SamplesInv'
  OBVIOUS
<1>0. /\ pc \in [Thread -> {"idle", "take", "gone", "alive", "call", "apply", "match"}]
      /\ reader \in [Participant -> {"none", "alive", "gone"}]
      /\ queue \in Seq(Event)
      /\ \A t \in Thread : t = "main" \/ t = "al"
      /\ "main" \in Thread /\ "al" \in Thread
  BY DEF TypeOK, Thread
<1> USE <1>0 DEF SamplesInv, Listening, Draining, queueVars, threadVars, mainVars
<1>1. ASSUME NEW p \in Participant, Come(p) \/ Go(p) PROVE SamplesInv'
  <2>1. phase' = phase /\ (phase \in Listening => queue' # <<>>)
    BY <1>1, QueueAppended, EventFacts DEF Come, Go, DataAvailable
  <2> QED
    BY <2>1
<1>2. ASSUME NEW p \in Participant, NEW k \in Kind, Match(p, k) PROVE SamplesInv'
  BY <1>2, QueueAppended, EventFacts DEF Match, MatchEvent
<1>3. ASSUME NEW t \in Thread, \/ \E p \in Participant : TakeSample(t, p)
                               \/ Gone(t) \/ Add(t) \/ Create(t)
      PROVE  SamplesInv'
  <2>1. pc'[t] \in Draining
    <3>1. \A p \in Participant : TakeSample(t, p) => reader[p] \in {"alive", "gone"}
      BY DEF TakeSample
    <3> QED
      BY <1>3, <3>1 DEF TakeSample, Gone, Add, Create
  <2> QED
    BY <2>1
<1>4. ASSUME NEW t \in Thread, TakeNothing(t) PROVE SamplesInv'
  BY <1>4 DEF TakeNothing, envVars
<1>5. ASSUME NEW t \in Thread, Apply(t) PROVE SamplesInv'
  <2>1. /\ pc[t] = "apply" /\ UNCHANGED <<reader, queue>>
        /\ \A u \in Thread : pc[u] \in Draining => pc'[u] = pc[u]
        /\ phase' \in Listening => phase \in Listening
    <3>1. t = "main" => phase \in Listening
      BY <1>5 DEF Apply, ControlInv
    <3> QED
      BY <1>5, <3>1 DEF Apply, envVars
  <2> QED
    BY <2>1
<1>6. CASE Dispatch
  BY <1>6 DEF Dispatch
<1>7. CASE EndpointMatched
  BY <1>7 DEF EndpointMatched, envVars
<1>8. CASE SetListener
  BY <1>8 DEF SetListener, SynchronousCall
<1>9. ASSUME NEW p \in Participant, NEW k \in PongKind, GetPongWriter(p, k) PROVE SamplesInv'
  BY <1>9 DEF GetPongWriter, envVars
<1>10. CASE Other
  BY <1>10 DEF Other, coreVars
<1> QED
  BY <1>1, <1>2, <1>3, <1>4, <1>5, <1>6, <1>7, <1>8, <1>9, <1>10, Steps

LEMMA HeapStep == TypeOK /\ HeapHoldsDeadlines /\ [Next]_vars => HeapHoldsDeadlines'
<1> SUFFICES ASSUME TypeOK, HeapHoldsDeadlines, [Next]_vars PROVE HeapHoldsDeadlines'
  OBVIOUS
<1>0. /\ tdeadline \in [Participant -> {"ahead", "passed", "never"}]
      /\ ppants \subseteq Participant /\ toMatch \subseteq Participant
      /\ sample \in [Thread -> Participant]
  BY DEF TypeOK
<1> USE <1>0 DEF HeapHoldsDeadlines, tableVars
<1>1. CASE UNCHANGED <<ppants, tdeadline, toMatch>>
  BY <1>1
<1>2. ASSUME NEW t \in Thread, Gone(t) PROVE HeapHoldsDeadlines'
  <2>1. CASE sample[t] \in ppants
    BY <1>2, <2>1 DEF Gone, HeapWithout
  <2>2. CASE sample[t] \notin ppants
    BY <1>2, <2>2 DEF Gone
  <2> QED
    BY <2>1, <2>2
<1>3. ASSUME NEW t \in Thread, Add(t) PROVE HeapHoldsDeadlines'
  BY <1>3 DEF Add
<1>4. ASSUME NEW p \in Participant, DeadlinePasses(p) PROVE HeapHoldsDeadlines'
  BY <1>4 DEF DeadlinePasses
<1>5. CASE CheckDeadlines
  BY <1>5 DEF CheckDeadlines, Overdue
<1> QED
  BY <1>1, <1>2, <1>3, <1>4, <1>5
     DEF Next, Main, Al, Discover, Thread, vars, Come, Go, Match, TakeSample, TakeNothing, Create,
         Apply, Dispatch, EndpointMatched, UseDeleted, SetListener, CreateEndpoints, InitWaitEnds,
         VerifyMinMatch, Stop, DeleteParticipant, StopListener, Exit, GetPongWriter, Exited

\* Sets of participants and of threads are finite, and no counter of participants overflows.
LEMMA ParticipantsFinite ==
  ASSUME NEW P \in SUBSET Participant
  PROVE  /\ IsFiniteSet(P) /\ Cardinality(P) \in 0 .. Modulus - 1
         /\ \A p \in P : Cardinality(P \ {p}) = Cardinality(P) - 1
         /\ \A p \in Participant \ P : Cardinality(P \cup {p}) = Cardinality(P) + 1
<1>1. IsFiniteSet(P) /\ Cardinality(P) \in Nat /\ Cardinality(Participant) \in Nat
      /\ Cardinality(P) <= Cardinality(Participant)
  BY ParticipantAssumption, FS_Subset, FS_CardinalityType
<1>2. Cardinality(P) \in 0 .. Modulus - 1
  BY <1>1, WidthAssumption
<1> QED
  BY <1>1, <1>2, FS_AddElement, FS_RemoveElement

LEMMA ThreadsFinite ==
  ASSUME NEW T \in SUBSET Thread
  PROVE  /\ IsFiniteSet(T) /\ Cardinality(T) \in Nat
         /\ \A t \in T : Cardinality(T \ {t}) = Cardinality(T) - 1
         /\ \A t \in Thread \ T : Cardinality(T \cup {t}) = Cardinality(T) + 1
<1>1. IsFiniteSet(Thread)
  <2>1. IsFiniteSet({"main"}) /\ Thread = {"main"} \cup {"al"}
    BY FS_Singleton DEF Thread
  <2> QED
    BY <2>1, FS_AddElement
<1>2. IsFiniteSet(T) /\ Cardinality(T) \in Nat
  BY <1>1, FS_Subset, FS_CardinalityType
<1> QED
  BY <1>2, FS_AddElement, FS_RemoveElement

\* A number is congruent to one in the range of the counters if they differ by a multiple of
\* the width.
LEMMA Congruent ==
  ASSUME NEW a \in Int, NEW x \in 0 .. Modulus - 1
  PROVE  a % Modulus = x <=> \E k \in Int : a = x + k * Modulus
<1>1. Modulus \in Nat \ {0}
  BY WidthAssumption, FS_CardinalityType, ParticipantAssumption
<1>2. ASSUME NEW k \in Int, a = x + k * Modulus PROVE a % Modulus = x
  BY <1>2, ModUnique
<1>3. ASSUME a % Modulus = x PROVE \E k \in Int : a = x + k * Modulus
  <2>1. PICK k \in Int : a % Modulus = a + k * Modulus
    BY ModFacts
  <2>2. a = x + (-k) * Modulus /\ -k \in Int
    BY <1>1, <1>3, <2>1
  <2> QED
    BY <2>2
<1> QED
  BY <1>2, <1>3

\* If what is counted and what there is change alike, but for multiples of the width, they
\* stay congruent.
LEMMA CongruentStep ==
  ASSUME NEW a \in Int, NEW b \in Int, NEW x \in 0 .. Modulus - 1, NEW y \in 0 .. Modulus - 1,
         NEW k \in Int, a % Modulus = x, b - y = a - x + k * Modulus
  PROVE  b % Modulus = y
<1>1. Modulus \in Nat \ {0}
  BY WidthAssumption, FS_CardinalityType, ParticipantAssumption
<1>2. PICK j \in Int : a = x + j * Modulus
  BY Congruent
<1>3. b = y + (j + k) * Modulus /\ j + k \in Int
  BY <1>1, <1>2
<1> QED
  BY <1>3, Congruent

\* What has been counted or is about to be.
Counted == n_pong_expected + delta["main"] + delta["al"] + Cardinality(BeingCreated)

LEMMA CountedStep ==
  ASSUME TypeOK, TypeOK', ExpectedAddsUp, NEW k \in Int,
         Counted' - Cardinality(Peers') = Counted - Cardinality(Peers) + k * Modulus
  PROVE  ExpectedAddsUp'
<1>1. Modulus \in Nat \ {0}
  BY WidthAssumption, FS_CardinalityType, ParticipantAssumption
<1>2. Counted \in Int /\ Counted' \in Int
  <2>1. BeingCreated \subseteq Thread /\ BeingCreated' \subseteq Thread
    BY DEF BeingCreated
  <2>2. Cardinality(BeingCreated) \in Nat /\ Cardinality(BeingCreated') \in Nat
    BY <2>1, ThreadsFinite
  <2>3. /\ n_pong_expected \in Int /\ delta["main"] \in Int /\ delta["al"] \in Int
        /\ n_pong_expected' \in Int /\ delta'["main"] \in Int /\ delta'["al"] \in Int
    BY <1>1 DEF TypeOK, Thread
  <2> QED
    BY <2>2, <2>3 DEF Counted
<1>3. Cardinality(Peers) \in 0 .. Modulus - 1 /\ Cardinality(Peers') \in 0 .. Modulus - 1
  BY ParticipantsFinite DEF TypeOK, Peers
<1>4. Counted % Modulus = Cardinality(Peers)
  BY DEF ExpectedAddsUp, Counted
<1>5. Counted' % Modulus = Cardinality(Peers')
  BY <1>2, <1>3, <1>4, CongruentStep
<1> QED
  BY <1>5 DEF ExpectedAddsUp, Counted

LEMMA ExpectedStep ==
  TypeOK /\ TypeOK' /\ ControlInv /\ OnceInv /\ ExpectedAddsUp /\ [Next]_vars => ExpectedAddsUp'
<1> SUFFICES ASSUME TypeOK, TypeOK', ControlInv, OnceInv, ExpectedAddsUp, [Next]_vars
             PROVE  ExpectedAddsUp'
  OBVIOUS
<1>0. /\ pc \in [Thread -> {"idle", "take", "gone", "alive", "call", "apply", "match"}]
      /\ sample \in [Thread -> Participant] /\ ppants \subseteq Participant
      /\ "main" \in Thread /\ "al" \in Thread /\ \A t \in Thread : t = "main" \/ t = "al"
  BY DEF TypeOK, Thread
<1>1. Modulus \in Nat \ {0}
  BY WidthAssumption, FS_CardinalityType, ParticipantAssumption
<1>2. /\ n_pong_expected \in Int /\ delta \in [Thread -> Int]
      /\ n_pong_expected' \in Int /\ delta' \in [Thread -> Int]
  BY <1>1 DEF TypeOK
<1>3. /\ BeingCreated \subseteq Thread /\ BeingCreated' \subseteq Thread
      /\ Cardinality(BeingCreated) \in Nat /\ Cardinality(BeingCreated') \in Nat
  <2>1. BeingCreated \subseteq Thread /\ BeingCreated' \subseteq Thread
    BY DEF BeingCreated
  <2> QED
    BY <2>1, ThreadsFinite
<1>4. /\ Peers \subseteq Participant /\ Peers' \subseteq Participant
      /\ Cardinality(Peers) \in Int /\ Cardinality(Peers') \in Int
  <2>1. Peers \subseteq Participant /\ Peers' \subseteq Participant
    BY DEF TypeOK, Peers
  <2> QED
    BY <1>1, <2>1, ParticipantsFinite
<1> DEFINE Sum == n_pong_expected + delta["main"] + delta["al"]
<1>s. Sum \in Int /\ Sum' \in Int
  BY <1>0, <1>2
\* It is enough that the sum without the threads that create a pong writer changes so.
<1>5. ASSUME NEW k \in Int,
             Sum' + Cardinality(BeingCreated') - Cardinality(Peers')
             = Sum + Cardinality(BeingCreated) - Cardinality(Peers) + k * Modulus
      PROVE  ExpectedAddsUp'
  <2>1. /\ Counted = Sum + Cardinality(BeingCreated)
        /\ Counted' = Sum' + Cardinality(BeingCreated')
    BY DEF Counted
  <2> HIDE DEF Sum
  <2>2. Counted' - Cardinality(Peers') = Counted - Cardinality(Peers) + k * Modulus
    BY <1>1, <1>3, <1>4, <1>5, <1>s, <2>1
  <2> QED
    BY <2>2, CountedStep
<1>7. ASSUME Sum' = Sum, BeingCreated' = BeingCreated, Peers' = Peers PROVE ExpectedAddsUp'
  <2> HIDE DEF Sum
  <2>1. Sum' + Cardinality(BeingCreated') - Cardinality(Peers')
        = Sum + Cardinality(BeingCreated) - Cardinality(Peers) + 0 * Modulus
    BY <1>1, <1>3, <1>4, <1>s, <1>7
  <2> QED
    BY <1>5, <2>1
<1>8. ASSUME NEW t \in Thread, NEW d \in Int, delta' = [delta EXCEPT ![t] = d],
             n_pong_expected' = n_pong_expected
      PROVE  Sum' = Sum + (d - delta[t])
  BY <1>0, <1>2, <1>8
<1>9. ASSUME UNCHANGED <<n_pong_expected, delta, ppants>>, BeingCreated' = BeingCreated
      PROVE  ExpectedAddsUp'
  BY <1>7, <1>9 DEF Peers
<1> USE DEF envVars, queueVars, tableVars, countVars, pongVars, threadVars, mainVars
<1>10. ASSUME NEW p \in Participant, Come(p) \/ Go(p) \/ \E k \in Kind : Match(p, k)
       PROVE  ExpectedAddsUp'
  BY <1>9, <1>10 DEF Come, Go, Match, BeingCreated
<1>11. ASSUME NEW t \in Thread, (\E p \in Participant : TakeSample(t, p)) \/ TakeNothing(t)
       PROVE  ExpectedAddsUp'
  <2>1. UNCHANGED <<n_pong_expected, delta, ppants>> /\ pc[t] = "take"
        /\ \E x \in {"none", "alive", "gone", "apply"} : pc' = [pc EXCEPT ![t] = x]
    BY <1>11 DEF TakeSample, TakeNothing, TypeOK
  <2> QED
    BY <1>0, <1>9, <2>1 DEF BeingCreated
<1>12. ASSUME NEW t \in Thread, Gone(t) PROVE ExpectedAddsUp'
  <2> DEFINE p == sample[t]
  <2>0. p \in Participant
    BY <1>0
  <2>1. BeingCreated' = BeingCreated /\ n_pong_expected' = n_pong_expected
    BY <1>0, <1>12 DEF Gone, BeingCreated
  <2>2. CASE p \in Peers
    <3>1. /\ ppants' = ppants \ {p}
          /\ delta' = [delta EXCEPT ![t] = (delta[t] - 1) % Modulus]
      BY <1>12, <2>2 DEF Gone, Peers, DeltaWhenGone
    <3>2. PICK k \in Int : (delta[t] - 1) % Modulus = delta[t] - 1 + k * Modulus
      BY <1>2, ModFacts
    <3>3. (delta[t] - 1) % Modulus \in Int /\ delta[t] \in Int
      BY <1>1, <1>2
    <3>4. Sum' = Sum + (((delta[t] - 1) % Modulus) - delta[t])
      BY <1>8, <2>1, <3>1, <3>3
    <3>5. Cardinality(Peers') = Cardinality(Peers) - 1
      <4>1. Peers' = Peers \ {p}
        BY <3>1 DEF Peers
      <4> QED
        BY <1>4, <2>2, <4>1, ParticipantsFinite
    <3> HIDE DEF Sum
    <3>6. Sum' + Cardinality(BeingCreated') - Cardinality(Peers')
          = Sum + Cardinality(BeingCreated) - Cardinality(Peers) + k * Modulus
      BY <1>1, <1>3, <1>4, <1>s, <2>1, <3>2, <3>3, <3>4, <3>5
    <3> QED
      BY <1>5, <3>6
  <2>3. CASE p \notin Peers
    <3>1. delta' = delta /\ Peers' = Peers
      BY <1>0, <1>2, <1>12, <2>3 DEF Gone, Peers
    <3> QED
      BY <1>7, <2>1, <3>1
  <2> QED
    BY <2>2, <2>3
<1>13. ASSUME NEW t \in Thread, Add(t) PROVE ExpectedAddsUp'
  <2> DEFINE p == sample[t]
  <2>0. p \in Participant /\ UNCHANGED <<n_pong_expected, delta>> /\ pc[t] = "alive"
    BY <1>0, <1>13 DEF Add
  <2>1. CASE p \in ppants \/ ~IsPeer(p)
    <3>1. pc' = [pc EXCEPT ![t] = "take"] /\ (ppants' = ppants \/ ppants' = ppants \cup {p})
      BY <1>13, <2>1 DEF Add
    <3>2. BeingCreated' = BeingCreated /\ Peers' = Peers
      BY <1>0, <2>0, <2>1, <3>1 DEF BeingCreated, Peers
    <3> QED
      BY <1>7, <2>0, <3>2
  <2>2. CASE p \notin ppants /\ IsPeer(p)
    <3>1. pc' = [pc EXCEPT ![t] = "call"] /\ ppants' = ppants \cup {p}
      BY <1>13, <2>2 DEF Add
    <3>2. BeingCreated' = BeingCreated \cup {t} /\ t \in Thread \ BeingCreated
      BY <1>0, <2>0, <3>1 DEF BeingCreated
    <3>3. Peers' = Peers \cup {p} /\ p \in Participant \ Peers
      BY <2>0, <2>2, <3>1 DEF Peers
    <3>4. /\ Cardinality(BeingCreated') = Cardinality(BeingCreated) + 1
          /\ Cardinality(Peers') = Cardinality(Peers) + 1
      BY <1>3, <1>4, <3>2, <3>3, ThreadsFinite, ParticipantsFinite
    <3>5. Sum' = Sum
      BY <2>0
    <3> HIDE DEF Sum
    <3>6. Sum' + Cardinality(BeingCreated') - Cardinality(Peers')
          = Sum + Cardinality(BeingCreated) - Cardinality(Peers) + 0 * Modulus
      BY <1>1, <1>3, <1>4, <1>s, <3>4, <3>5
    <3> QED
      BY <1>5, <3>6
  <2> QED
    BY <2>1, <2>2
<1>14. ASSUME NEW t \in Thread, Create(t) PROVE ExpectedAddsUp'
  <2>1. /\ pc[t] = "call" /\ pc' = [pc EXCEPT ![t] = "take"]
        /\ n_pong_expected' = n_pong_expected /\ ppants' = ppants
        /\ delta' = [delta EXCEPT ![t] = (delta[t] + 1) % Modulus]
    BY <1>14 DEF Create
  <2>2. PICK k \in Int : (delta[t] + 1) % Modulus = delta[t] + 1 + k * Modulus
    BY <1>2, ModFacts
  <2>3. (delta[t] + 1) % Modulus \in Int /\ delta[t] \in Int
    BY <1>1, <1>2
  <2>4. Sum' = Sum + (((delta[t] + 1) % Modulus) - delta[t])
    BY <1>8, <2>1, <2>3
  <2>5. Cardinality(BeingCreated') = Cardinality(BeingCreated) - 1
    <3>1. BeingCreated' = BeingCreated \ {t} /\ t \in BeingCreated
      BY <1>0, <2>1 DEF BeingCreated
    <3> QED
      BY <1>3, <3>1, ThreadsFinite
  <2>6. Peers' = Peers
    BY <2>1 DEF Peers
  <2> HIDE DEF Sum
  <2>7. Sum' + Cardinality(BeingCreated') - Cardinality(Peers')
        = Sum + Cardinality(BeingCreated) - Cardinality(Peers) + k * Modulus
    BY <1>1, <1>3, <1>4, <1>s, <2>2, <2>3, <2>4, <2>5, <2>6
  <2> QED
    BY <1>5, <2>7
<1>15. ASSUME NEW t \in Thread, Apply(t) PROVE ExpectedAddsUp'
  <2>1. /\ pc[t] = "apply" /\ ppants' = ppants
        /\ n_pong_expected' = (n_pong_expected + delta[t]) % Modulus
        /\ delta' = [delta EXCEPT ![t] = 0]
        /\ \E x \in {"match", "idle"} : pc' = [pc EXCEPT ![t] = x]
    BY <1>15 DEF Apply
  <2>2. PICK k \in Int :
           (n_pong_expected + delta[t]) % Modulus = n_pong_expected + delta[t] + k * Modulus
    BY <1>2, ModFacts
  <2>3. Sum' = Sum + k * Modulus
    BY <1>0, <1>1, <1>2, <2>1, <2>2
  <2>4. BeingCreated' = BeingCreated /\ Peers' = Peers
    BY <1>0, <2>1 DEF BeingCreated, Peers
  <2> HIDE DEF Sum
  <2>5. Sum' + Cardinality(BeingCreated') - Cardinality(Peers')
        = Sum + Cardinality(BeingCreated) - Cardinality(Peers) + k * Modulus
    BY <1>1, <1>3, <1>4, <1>s, <2>3, <2>4
  <2> QED
    BY <1>5, <2>5
<1>16. CASE Dispatch \/ EndpointMatched
  <2>1. UNCHANGED <<n_pong_expected, delta, ppants>> /\ pc["al"] # "call"
        /\ \E x \in {"take", "idle"} : pc' = [pc EXCEPT !["al"] = x]
    BY <1>16 DEF Dispatch, EndpointMatched, ControlInv
  <2> QED
    BY <1>0, <1>9, <2>1 DEF BeingCreated
<1>17. CASE SetListener
  <2>1. UNCHANGED <<n_pong_expected, delta, ppants>> /\ pc["main"] # "call"
        /\ pc' = [pc EXCEPT !["main"] = "take"]
    BY <1>17 DEF SetListener, SynchronousCall, MainGoes, ControlInv
  <2> QED
    BY <1>0, <1>9, <2>1 DEF BeingCreated
<1>18. ASSUME NEW p \in Participant, NEW k \in PongKind, GetPongWriter(p, k) PROVE ExpectedAddsUp'
  BY <1>9, <1>18 DEF GetPongWriter, BeingCreated
<1>19. CASE Other
  BY <1>9, <1>19 DEF Other, coreVars, BeingCreated
<1> QED
  BY <1>10, <1>11, <1>12, <1>13, <1>14, <1>15, <1>16, <1>17, <1>18, <1>19, Steps

----------------------------------------------------------------------------
(* A participant comes once and goes once; the tables.                     *)

\* How a step of the handler on thread t moves the samples that are held.
LEMMA HeldMoves ==
  ASSUME TypeOK, NEW t \in Thread, NEW q \in Participant,
         NEW x \in {"idle", "take", "gone", "alive", "call", "apply", "match"},
         pc' = [pc EXCEPT ![t] = x], sample' = [sample EXCEPT ![t] = q],
         NEW p \in Participant, NEW S
  PROVE  /\ Holding(t, p, S)' <=> x \in S /\ q = p
         /\ \A u \in Thread \ {t} : Holding(u, p, S)' <=> Holding(u, p, S)
         /\ Held(p, S)' <=> (x \in S /\ q = p) \/ \E u \in Thread \ {t} : Holding(u, p, S)
  BY DEF TypeOK, Held, Holding

LEMMA InitOnce == Init => OnceInv /\ TablesInv
<1> SUFFICES ASSUME Init PROVE OnceInv /\ TablesInv
  OBVIOUS
<1>1. \A p \in Participant : ~Held(p, {"gone", "alive", "call"}) /\ ~Held(p, {"alive", "call"})
                            /\ ~Held(p, {"gone"}) /\ ~Held(p, {"alive"}) /\ ~Held(p, {"call"})
  BY DEF Init, Held, Holding
<1>2. \A p \in Participant, h \in Participant \cup {Junk} : ~HasEntry(h, p)
  BY DEF Init, HasEntry
<1>3. ASSUME NEW p \in Participant
      PROVE  \/ life[p] = "alive" /\ reader[p] = "alive"
             \/ life[p] = "absent" /\ reader[p] = "none"
  <2>1. /\ life = [q \in Participant |-> IF q = Self THEN "alive" ELSE "absent"]
        /\ reader = [q \in Participant |-> IF q = Self THEN "alive" ELSE "none"]
    BY DEF Init
  <2> QED
    BY <2>1
<1>4. /\ ppants = {} /\ writers = {} /\ overtaken = {}
      /\ ~\E p \in Participant : Holding("al", p, {"alive", "call"})
  BY DEF Init, Holding, Thread
<1>5. OnceInv
  BY <1>1, <1>3, <1>4 DEF OnceInv
<1>6. TablesInv
  BY <1>1, <1>2, <1>3, <1>4 DEF TablesInv
<1> QED
  BY <1>5, <1>6

LEMMA OnceStep == TypeOK /\ ControlInv /\ OnceInv /\ [Next]_vars => OnceInv'
<1> SUFFICES ASSUME TypeOK, ControlInv, OnceInv, [Next]_vars PROVE OnceInv'
  OBVIOUS
<1>0. /\ pc \in [Thread -> {"idle", "take", "gone", "alive", "call", "apply", "match"}]
      /\ sample \in [Thread -> Participant]
      /\ life \in [Participant -> {"absent", "alive", "gone"}]
      /\ reader \in [Participant -> {"none", "alive", "gone"}]
      /\ Thread = {"main", "al"}
  BY DEF TypeOK, Thread
<1> USE <1>0 DEF OnceInv, Held, Holding, envVars, threadVars
<1>1. CASE UNCHANGED <<life, reader, writers, ppants, pc, sample, overtaken>>
  BY <1>1
<1>2. ASSUME NEW p \in Participant, Come(p) PROVE OnceInv'
  BY <1>2 DEF Come, tableVars
<1>3. ASSUME NEW p \in Participant, Go(p) PROVE OnceInv'
  BY <1>3 DEF Go, tableVars
<1>4. ASSUME NEW t \in Thread, NEW p \in Participant, TakeSample(t, p) PROVE OnceInv'
  BY <1>4 DEF TakeSample, tableVars
<1>5. ASSUME NEW t \in Thread, TakeNothing(t) \/ Apply(t) PROVE OnceInv'
  BY <1>5 DEF TakeNothing, Apply, tableVars
<1>6. ASSUME NEW t \in Thread, Gone(t) PROVE OnceInv'
  BY <1>6 DEF Gone, tableVars
<1>7. ASSUME NEW t \in Thread, Add(t) PROVE OnceInv'
  BY <1>7 DEF Add, tableVars
<1>8. ASSUME NEW t \in Thread, Create(t) PROVE OnceInv'
  BY <1>8 DEF Create, tableVars
<1>9. CASE Dispatch \/ EndpointMatched \/ SetListener
  <2>1. UNCHANGED <<life, reader, writers, ppants, sample, overtaken>>
    BY <1>9 DEF Dispatch, EndpointMatched, SetListener, tableVars
  <2>2. \E t \in Thread, x \in {"take", "idle"} :
           pc[t] \in {"idle", "match"} /\ pc' = [pc EXCEPT ![t] = x]
    BY <1>9 DEF Dispatch, EndpointMatched, SetListener, SynchronousCall, MainGoes, ControlInv
  <2> QED
    BY <2>1, <2>2
<1>10. ASSUME NEW p \in Participant, (\E k \in Kind : Match(p, k))
                                     \/ (\E k \in PongKind : GetPongWriter(p, k))
       PROVE OnceInv'
  BY <1>1, <1>10 DEF Match, GetPongWriter, tableVars
<1>11. CASE Other
  BY <1>1, <1>11 DEF Other, coreVars
<1> QED
  BY <1>2, <1>3, <1>4, <1>5, <1>6, <1>7, <1>8, <1>9, <1>10, <1>11, Steps

LEMMA TablesStep == TypeOK /\ ControlInv /\ OnceInv /\ TablesInv /\ [Next]_vars => TablesInv'
<1> SUFFICES ASSUME TypeOK, ControlInv, OnceInv, TablesInv, [Next]_vars PROVE TablesInv'
  OBVIOUS
<1>0. /\ pc \in [Thread -> {"idle", "take", "gone", "alive", "call", "apply", "match"}]
      /\ sample \in [Thread -> Participant]
      /\ life \in [Participant -> {"absent", "alive", "gone"}]
      /\ reader \in [Participant -> {"none", "alive", "gone"}]
      /\ Thread = {"main", "al"} /\ Junk \notin Participant
  BY ParticipantAssumption DEF TypeOK, Thread
<1> USE <1>0 DEF TablesInv, Held, Holding, envVars, threadVars
<1>h. ASSUME pongwr' = pongwr
      PROVE  \A h \in Participant \cup {Junk}, q \in Participant : HasEntry(h, q)' <=> HasEntry(h, q)
  BY <1>h DEF HasEntry
<1>1. CASE UNCHANGED <<life, reader, ppants, pongwr, pc, sample, overtaken>>
  BY <1>1, <1>h
<1>2. ASSUME NEW p \in Participant, Come(p) PROVE TablesInv'
  BY <1>2, <1>h DEF Come, tableVars, pongVars, OnceInv
<1>3. ASSUME NEW p \in Participant, Go(p) PROVE TablesInv'
  BY <1>3, <1>h DEF Go, tableVars, pongVars
<1>4. ASSUME NEW t \in Thread, NEW p \in Participant, TakeSample(t, p) PROVE TablesInv'
  BY <1>4, <1>h DEF TakeSample, tableVars, pongVars, OnceInv
<1>5. ASSUME NEW t \in Thread, TakeNothing(t) \/ Apply(t) PROVE TablesInv'
  BY <1>5, <1>h DEF TakeNothing, Apply, tableVars, pongVars
<1>6. ASSUME NEW t \in Thread, Gone(t) PROVE TablesInv'
  <2> DEFINE p == sample[t]
  <2>1. /\ UNCHANGED <<life, reader, sample>>
        /\ pc[t] = "gone" /\ pc' = [pc EXCEPT ![t] = "take"] /\ p \in Participant
        /\ sample[t] = p /\ ppants' = ppants \ {p}
        /\ overtaken \subseteq overtaken' /\ overtaken' \subseteq overtaken \cup {p}
        /\ (\E u \in Thread : pc[u] \in {"alive", "call"} /\ sample[u] = p) => p \in overtaken'
    BY <1>6 DEF Gone, tableVars
  <2>2. ASSUME NEW q \in Participant, NEW h \in Participant \cup {Junk}
        PROVE  HasEntry(h, q)' <=> HasEntry(h, q) /\ ~(h = p /\ p \in ppants /\ IsPeer(p))
    BY <1>6 DEF Gone, tableVars, DeletePongWriter, EntriesOf, HasEntry
  <2>3. life[p] = "gone"
    BY <2>1 DEF OnceInv
  <2> HIDE DEF p
  <2>4. SUFFICES ASSUME NEW q \in Participant \ overtaken'
        PROVE  /\ life[q] = "alive" => reader[q] = "alive" \/ Held(q, {"alive"})' \/ q \in ppants'
               /\ life[q] = "gone" /\ (q \in ppants' \/ Held(q, {"alive", "call"})')
                     => reader[q] = "gone" \/ Held(q, {"gone"})'
               /\ q \in ppants' /\ IsPeer(q) => Held(q, {"call"})' \/ HasEntry(q, q)'
               /\ \A h \in Participant \cup {Junk} :
                     HasEntry(h, q)' => h = q /\ q \in ppants' /\ IsPeer(q)
    BY <2>1 DEF IsPeer
  <2>5. q \in Participant \ overtaken
    BY <2>1
  <2>6. CASE q = p
    <3>1. ~Held(q, {"alive", "call"})'
      BY <2>1, <2>4, <2>6
    <3> QED
      BY <2>1, <2>2, <2>3, <2>5, <2>6, <3>1
  <2>7. CASE q # p
    <3>1. ASSUME NEW S PROVE Held(q, S)' <=> Held(q, S)
      BY <2>1, <2>7
    <3>2. \A h \in Participant \cup {Junk} : HasEntry(h, q)' => HasEntry(h, q)
      BY <2>2
    <3>3. HasEntry(q, q) => HasEntry(q, q)'
      BY <2>2, <2>7
    <3> HIDE DEF Held, Holding
    <3> QED
      BY <2>1, <2>4, <2>5, <2>7, <3>1, <3>2, <3>3
  <2> QED
    BY <2>6, <2>7
<1>7. ASSUME NEW t \in Thread, Add(t) PROVE TablesInv'
  BY <1>7, <1>h DEF Add, tableVars, pongVars, OnceInv
<1>8. ASSUME NEW t \in Thread, Create(t) PROVE TablesInv'
  <2>1. /\ UNCHANGED <<life, reader, ppants, sample, overtaken>>
        /\ pc[t] = "call" /\ pc' = [pc EXCEPT ![t] = "take"] /\ sample[t] \in Participant
    BY <1>8 DEF Create, tableVars
  <2>2. PICK h \in HandleRead(sample[t]) :
           pongwr' = pongwr \cup {[pphandle |-> h, pubhandle |-> NoPublication,
                                  wr_pong |-> sample[t]]}
    BY <1>8 DEF Create
  <2>3. ASSUME NEW g \in Participant \cup {Junk}, NEW q \in Participant
        PROVE  HasEntry(g, q)' <=> HasEntry(g, q) \/ (g = h /\ q = sample[t])
    <3> DEFINE e == [pphandle |-> h, pubhandle |-> NoPublication, wr_pong |-> sample[t]]
    <3>1. e.pphandle = h /\ e.wr_pong = sample[t]
      OBVIOUS
    <3>2. pongwr' = pongwr \cup {e}
      BY <2>2
    <3> HIDE DEF e
    <3> QED
      BY <3>1, <3>2 DEF HasEntry
  <2>4. IsPeer(sample[t]) /\ (sample[t] \in ppants \/ sample[t] \in overtaken)
    BY <2>1 DEF OnceInv
  <2>5. sample[t] \notin overtaken => h = sample[t] /\ sample[t] \in ppants
    BY <2>2, <2>4 DEF HandleRead
  <2>6. ASSUME NEW q \in Participant \ overtaken, NEW g \in Participant \cup {Junk},
               HasEntry(g, q)'
        PROVE  g = q /\ q \in ppants /\ IsPeer(q)
    BY <2>3, <2>4, <2>5, <2>6
  <2>7. ASSUME NEW q \in Participant \ overtaken, q \in ppants, IsPeer(q)
        PROVE  Held(q, {"call"})' \/ HasEntry(q, q)'
    BY <2>1, <2>3, <2>5, <2>7
  <2> QED
    BY <2>1, <2>6, <2>7
<1>9. CASE Dispatch \/ EndpointMatched \/ SetListener
  <2>1. UNCHANGED <<life, reader, ppants, pongwr, sample, overtaken>>
    BY <1>9 DEF Dispatch, EndpointMatched, SetListener, tableVars, pongVars
  <2>2. \E t \in Thread, x \in {"take", "idle"} :
           pc[t] \in {"idle", "match"} /\ pc' = [pc EXCEPT ![t] = x]
    BY <1>9 DEF Dispatch, EndpointMatched, SetListener, SynchronousCall, MainGoes, ControlInv
  <2> QED
    BY <2>1, <2>2, <1>h
<1>10. ASSUME NEW p \in Participant, NEW k \in Kind, Match(p, k) PROVE TablesInv'
  BY <1>1, <1>10 DEF Match, tableVars, pongVars
<1>11. ASSUME NEW p \in Participant, NEW k \in PongKind, GetPongWriter(p, k) PROVE TablesInv'
  <2>1. UNCHANGED <<life, reader, ppants, pc, sample, overtaken>>
    BY <1>11 DEF GetPongWriter, tableVars
  <2>2. \A h \in Participant \cup {Junk}, q \in Participant : HasEntry(h, q)' <=> HasEntry(h, q)
    BY <1>11, AssignedKeepsWriters
  <2> QED
    BY <2>1, <2>2
<1>12. CASE Other
  BY <1>1, <1>12 DEF Other, coreVars, pongVars
<1> QED
  BY <1>2, <1>3, <1>4, <1>5, <1>6, <1>7, <1>8, <1>9, <1>10, <1>11, <1>12, Steps

----------------------------------------------------------------------------
(* Matches.                                                                *)

\* The participant of a match is not at the same time being added by the other thread: while
\* the main thread runs the handler only participants with a pong writer match.
LEMMA MatchedNotAdded ==
  ASSUME TypeOK, ControlInv, OnceInv, MatchInv, NEW p \in Participant, NEW k \in Kind,
         <<p, k>> \in matched, NEW t \in Thread, pc[t] # "idle",
         NEW u \in Thread \ {t}, Holding(u, p, {"alive", "call"})
  PROVE  FALSE
<1>1. pc["main"] # "idle"
  BY DEF Thread, Holding
<1>2. p \in writers
  BY <1>1 DEF ControlInv, MatchInv
<1>3. Held(p, {"alive", "call"})
  BY DEF Held
<1> QED
  BY <1>2, <1>3 DEF OnceInv

LEMMA InitMatch == Init => MatchInv
<1> SUFFICES ASSUME Init PROVE MatchInv
  OBVIOUS
<1>1. queue = <<>> /\ running = <<>> /\ matched = {}
  BY DEF Init
<1>2. \A e : ~Queued(e) /\ ~Handled(e)
  BY <1>1 DEF Queued, Handled
<1> QED
  BY <1>1, <1>2 DEF MatchInv

LEMMA MatchStep == TypeOK /\ ControlInv /\ OnceInv /\ MatchInv /\ [Next]_vars => MatchInv'
<1> SUFFICES ASSUME TypeOK, ControlInv, OnceInv, MatchInv, [Next]_vars PROVE MatchInv'
  OBVIOUS
<1>0. /\ pc \in [Thread -> {"idle", "take", "gone", "alive", "call", "apply", "match"}]
      /\ sample \in [Thread -> Participant]
      /\ life \in [Participant -> {"absent", "alive", "gone"}]
      /\ reader \in [Participant -> {"none", "alive", "gone"}]
      /\ unmatched \in [Participant -> SUBSET Kind]
      /\ Thread = {"main", "al"}
  BY DEF TypeOK, Thread
<1> USE <1>0 DEF MatchInv, envVars, threadVars, queueVars
<1>q. UNCHANGED queue => \A e : Queued(e)' <=> Queued(e)
  BY DEF Queued
<1>h. UNCHANGED running => \A e : Handled(e)' <=> Handled(e)
  BY DEF Handled
<1>s. UNCHANGED <<pc, sample>> => \A p, S : Held(p, S)' <=> Held(p, S)
  BY DEF Held, Holding
<1>a. ASSUME queue' = DataAvailable(queue)
      PROVE  \A p \in Participant, k \in Kind :
                Queued(MatchEvent(p, k))' <=> Queued(MatchEvent(p, k))
  <2>1. CASE queue' = queue
    BY <1>q, <2>1
  <2>2. CASE queue' = Append(queue, <<"data">>)
    <3>1. \A e : Queued(e)' <=> Queued(e) \/ e = <<"data">>
      BY <2>2, QueueAppended, EventFacts DEF TypeOK
    <3> QED
      BY <3>1, EventFacts
  <2> QED
    BY <1>a, <2>1, <2>2 DEF DataAvailable
<1>1. CASE UNCHANGED <<life, matched, reader, writers, queue, running, ppants, unmatched, pc, sample,
                       overtaken>>
           /\ (phase' \in {"start", "sync"} => phase' = phase)
  BY <1>1, <1>q, <1>h, <1>s
<1>2. ASSUME NEW p \in Participant, Come(p) PROVE MatchInv'
  <2>1. /\ UNCHANGED <<matched, writers, running, ppants, unmatched, pc, sample, overtaken, phase>>
        /\ life[p] = "absent" /\ life' = [life EXCEPT ![p] = "alive"]
        /\ reader' = [reader EXCEPT ![p] = "alive"] /\ queue' = DataAvailable(queue)
    BY <1>2 DEF Come, tableVars, mainVars
  <2> QED
    BY <2>1, <1>a, <1>h, <1>s
<1>3. ASSUME NEW p \in Participant, Go(p) PROVE MatchInv'
  <2>1. /\ UNCHANGED <<matched, writers, running, ppants, unmatched, pc, sample, overtaken, phase>>
        /\ life' = [life EXCEPT ![p] = "gone"]
        /\ reader' = [reader EXCEPT ![p] = "gone"] /\ queue' = DataAvailable(queue)
    BY <1>3 DEF Go, tableVars, mainVars
  <2> QED
    BY <2>1, <1>a, <1>h, <1>s
<1>4. ASSUME NEW p \in Participant, NEW k \in Kind, Match(p, k) PROVE MatchInv'
  <2>1. /\ UNCHANGED <<life, reader, writers, running, ppants, unmatched, pc, sample, overtaken,
                       phase>>
        /\ matched' = matched \cup {<<p, k>>} /\ queue' = Append(queue, MatchEvent(p, k))
        /\ life[p] = "alive" /\ IsPeer(p) /\ HasListener(p, k)
    BY <1>4 DEF Match, tableVars, mainVars, MatchEvent
  <2>2. \A e : Queued(e)' <=> Queued(e) \/ e = MatchEvent(p, k)
    BY <2>1, QueueAppended, EventFacts DEF TypeOK
  <2>3. p \notin overtaken
    BY <2>1 DEF OnceInv
  <2>4. phase \in {"start", "sync"} => p \in writers
    <3>1. k \in EndpointKinds
      BY OptionsAssumption
    <3> QED
      BY <2>1, <3>1 DEF HasListener, EndpointKinds
  <2>5. ASSUME NEW q \in Participant, NEW j \in Kind
        PROVE  /\ MatchEvent(q, j) = MatchEvent(p, k) <=> q = p /\ j = k
               /\ <<q, j>> = <<p, k>> <=> q = p /\ j = k
    BY EventFacts
  <2> QED
    BY <2>1, <2>2, <2>3, <2>4, <2>5, <1>h, <1>s
<1>5. ASSUME NEW t \in Thread, NEW p \in Participant, TakeSample(t, p) PROVE MatchInv'
  <2>1. /\ UNCHANGED <<life, matched, writers, queue, running, ppants, unmatched, overtaken, phase>>
        /\ pc[t] = "take" /\ pc' = [pc EXCEPT ![t] = reader[p]] /\ reader[p] \in {"alive", "gone"}
        /\ sample' = [sample EXCEPT ![t] = p] /\ reader' = [reader EXCEPT ![p] = "none"]
    BY <1>5 DEF TakeSample, tableVars, mainVars
  <2>2. \A q \in Participant : Held(q, {"alive"})' => Held(q, {"alive"}) \/ reader[q] = "alive"
    BY <2>1 DEF Held, Holding
  <2>3. pc["al"] \in Draining => pc'["al"] \in Draining
    BY <2>1 DEF Draining
  <2> QED
    BY <2>1, <2>2, <2>3, <1>q, <1>h
<1>6. ASSUME NEW t \in Thread, TakeNothing(t) PROVE MatchInv'
  <2>1. /\ UNCHANGED <<life, matched, reader, writers, queue, running, ppants, unmatched, sample,
                       overtaken, phase>>
        /\ pc[t] = "take" /\ pc' = [pc EXCEPT ![t] = "apply"]
        /\ \A p \in Participant : reader[p] = "none"
    BY <1>6 DEF TakeNothing, tableVars, mainVars
  <2>2. ASSUME NEW p \in Participant, Held(p, {"alive"})'
        PROVE  /\ Held(p, {"alive"})
               /\ \E u \in Thread \ {t} : Holding(u, p, {"alive", "call"})
    BY <2>1, <2>2 DEF Held, Holding
  <2>3. ASSUME NEW p \in Participant, NEW k \in Kind, <<p, k>> \in matched
        PROVE  ~Held(p, {"alive"})'
    BY <2>1, <2>2, <2>3, MatchedNotAdded
  <2> QED
    BY <2>1, <2>3, <1>q, <1>h
<1>7. ASSUME NEW t \in Thread, Apply(t) PROVE MatchInv'
  <2>1. /\ UNCHANGED <<life, matched, reader, writers, queue, ppants, unmatched, sample, overtaken>>
        /\ pc[t] = "apply" /\ \E x \in {"match", "idle"} : pc' = [pc EXCEPT ![t] = x]
        /\ phase' \in {"start", "sync"} => phase' = phase
        /\ running' = running \/ (t = "al" /\ Head(running) = <<"data">> /\ running' = <<>>)
    BY <1>7 DEF Apply, tableVars, mainVars
  <2>2. \A p \in Participant, k \in Kind : Handled(MatchEvent(p, k))' <=> Handled(MatchEvent(p, k))
    <3>1. CASE running' = running
      BY <1>h, <3>1
    <3>2. CASE Head(running) = <<"data">> /\ running' = <<>>
      BY <3>2, EventFacts DEF Handled
    <3> QED
      BY <2>1, <3>1, <3>2
  <2>3. \A p \in Participant : Held(p, {"alive"})' => Held(p, {"alive"})
    BY <2>1 DEF Held, Holding
  <2>4. pc["al"] \in Draining => pc'["al"] \in Draining
    BY <2>1 DEF Draining
  <2> QED
    BY <2>1, <2>2, <2>3, <2>4, <1>q
<1>8. ASSUME NEW t \in Thread, Gone(t) PROVE MatchInv'
  <2> DEFINE q == sample[t]
  <2>1. /\ UNCHANGED <<life, matched, reader, writers, queue, running, sample, phase>>
        /\ pc[t] = "gone" /\ pc' = [pc EXCEPT ![t] = "take"]
        /\ ppants' \subseteq ppants
        /\ unmatched' = unmatched \/ unmatched' = [unmatched EXCEPT ![q] = {}]
        /\ overtaken' \subseteq overtaken \cup {q}
        /\ q \in overtaken' \ overtaken =>
              \E u \in Thread : pc[u] \in {"alive", "call"} /\ sample[u] = q
    BY <1>8 DEF Gone, tableVars, mainVars
  <2>2. ASSUME NEW p \in Participant, NEW k \in Kind, <<p, k>> \in matched
        PROVE  p \notin overtaken'
    <3>1. SUFFICES ASSUME p = q, p \in overtaken' \ overtaken PROVE FALSE
      BY <2>1, <2>2
    <3>2. PICK u \in Thread : pc[u] \in {"alive", "call"} /\ sample[u] = p
      BY <2>1, <3>1
    <3>3. u \in Thread \ {t} /\ Holding(u, p, {"alive", "call"}) /\ pc[t] # "idle"
      BY <2>1, <3>2 DEF Holding
    <3> QED
      BY <2>2, <3>3, MatchedNotAdded
  <2>3. \A p \in Participant : Held(p, {"alive"})' => Held(p, {"alive"})
    BY <2>1 DEF Held, Holding
  <2>4. pc["al"] \in Draining => pc'["al"] \in Draining
    BY <2>1 DEF Draining
  <2>5. \A p \in Participant : unmatched'[p] \subseteq unmatched[p]
    BY <2>1
  <2> HIDE DEF q
  <2> QED
    BY <2>1, <2>2, <2>3, <2>4, <2>5, <1>q, <1>h
<1>9. ASSUME NEW t \in Thread, Add(t) PROVE MatchInv'
  <2> DEFINE q == sample[t]
  <2>1. /\ UNCHANGED <<life, matched, reader, writers, queue, running, sample, overtaken, phase>>
        /\ pc[t] = "alive" /\ \E x \in {"take", "call"} : pc' = [pc EXCEPT ![t] = x]
        /\ ppants' = ppants \/ ppants' = ppants \cup {q}
        /\ \A p \in Participant \ {q} : unmatched'[p] = unmatched[p]
    BY <1>9 DEF Add, tableVars, mainVars
  <2>2. Held(q, {"alive"}) /\ q \in Participant
    BY <2>1 DEF Held, Holding
  <2>3. \A p \in Participant : Held(p, {"alive"})' => Held(p, {"alive"})
    BY <2>1 DEF Held, Holding
  <2>4. pc["al"] \in Draining => pc'["al"] \in Draining
    BY <2>1 DEF Draining
  <2> HIDE DEF q
  <2> QED
    BY <2>1, <2>2, <2>3, <2>4, <1>q, <1>h
<1>10. ASSUME NEW t \in Thread, Create(t) PROVE MatchInv'
  <2>1. /\ UNCHANGED <<life, matched, reader, queue, running, ppants, unmatched, sample, overtaken,
                       phase>>
        /\ pc[t] = "call" /\ pc' = [pc EXCEPT ![t] = "take"] /\ writers \subseteq writers'
    BY <1>10 DEF Create, tableVars, mainVars
  <2>3. \A p \in Participant : Held(p, {"alive"})' => Held(p, {"alive"})
    BY <2>1 DEF Held, Holding
  <2>4. pc["al"] \in Draining => pc'["al"] \in Draining
    BY <2>1 DEF Draining
  <2> QED
    BY <2>1, <2>3, <2>4, <1>q, <1>h
<1>11. CASE Dispatch
  <2>1. /\ UNCHANGED <<life, matched, reader, writers, ppants, unmatched, sample, overtaken, phase>>
        /\ running = <<>> /\ queue # <<>> /\ queue' = Tail(queue)
        /\ running' = <<Head(queue)>> /\ pc' = [pc EXCEPT !["al"] = "take"]
    BY <1>11 DEF Dispatch, MayDispatch, tableVars, mainVars
  <2>2. \A e : Queued(e) <=> Queued(e)' \/ e = Head(queue)
    BY <2>1, QueueTaken DEF TypeOK
  <2>3. \A e : ~Handled(e) /\ (Handled(e)' <=> e = Head(queue))
    BY <2>1, QueueTaken, OneEvent DEF TypeOK, Handled
  <2>4. \A p \in Participant : Held(p, {"alive"})' => Held(p, {"alive"})
    BY <2>1 DEF Held, Holding
  <2>5. pc'["al"] \in Draining
    BY <2>1 DEF Draining
  <2> QED
    BY <2>1, <2>2, <2>3, <2>4, <2>5
<1>12. CASE EndpointMatched
  <2>1. /\ pc["al"] = "match" /\ running # <<>> /\ Head(running) # <<"data">>
        /\ Head(running) \in Event
    BY <1>12, RunningFacts DEF EndpointMatched, ControlInv, TypeOK
  <2>2. PICK q \in Participant, j \in Kind : Head(running) = MatchEvent(q, j)
    BY <2>1, EventFacts
  <2>3. Head(running)[2] = q /\ Head(running)[3] = j
    BY <2>2, EventFacts
  <2>4. /\ UNCHANGED <<life, matched, reader, writers, queue, ppants, sample, overtaken, phase>>
        /\ running' = <<>> /\ pc' = [pc EXCEPT !["al"] = "idle"]
        /\ \/ unmatched' = [unmatched EXCEPT ![q] = unmatched[q] \ {j}]
           \/ unmatched' = unmatched /\ (life[q] = "gone" \/ q \notin ppants)
    BY <1>12, <2>3 DEF EndpointMatched, Remaining, tableVars, mainVars
  <2>5. ASSUME NEW p \in Participant, NEW k \in Kind
        PROVE  /\ ~Handled(MatchEvent(p, k))'
               /\ Handled(MatchEvent(p, k)) => p = q /\ k = j
    BY <2>1, <2>2, <2>4, EventFacts DEF Handled
  <2>6. \A p \in Participant : Held(p, {"alive"})' => Held(p, {"alive"})
    BY <2>4 DEF Held, Holding
  <2>7. pc["al"] \notin Draining
    BY <2>1 DEF Draining
  <2>8. ASSUME NEW p \in Participant, NEW k \in Kind, p \in ppants, life[p] # "gone",
               k \in unmatched'[p]
        PROVE  k \in unmatched[p] /\ ~(p = q /\ k = j)
    BY <2>4, <2>8
  <2> QED
    BY <2>4, <2>5, <2>6, <2>7, <2>8, <1>q
<1>13. CASE SetListener
  <2>1. /\ UNCHANGED <<life, matched, reader, writers, queue, running, ppants, unmatched, sample,
                       overtaken>>
        /\ phase = "start" /\ pc' = [pc EXCEPT !["main"] = "take"]
    BY <1>13 DEF SetListener, SynchronousCall, MainGoes, tableVars
  <2>2. \A p \in Participant : Held(p, {"alive"})' => Held(p, {"alive"})
    BY <2>1 DEF Held, Holding
  <2> QED
    BY <2>1, <2>2, <1>q, <1>h
<1>14. ASSUME NEW p \in Participant, NEW k \in PongKind, GetPongWriter(p, k) PROVE MatchInv'
  BY <1>1, <1>14 DEF GetPongWriter, tableVars, mainVars
<1>15. CASE Other
  BY <1>1, <1>15 DEF Other, coreVars
<1> QED
  BY <1>2, <1>3, <1>4, <1>5, <1>6, <1>7, <1>8, <1>9, <1>10, <1>11, <1>12, <1>13, <1>14, <1>15,
     Steps

----------------------------------------------------------------------------
(* The inductive invariant and what follows from it.                       *)

LEMMA InitIInv == Init => IInv
<1> SUFFICES ASSUME Init PROVE IInv
  OBVIOUS
<1>1. HeapHoldsDeadlines
  BY DEF Init, HeapHoldsDeadlines
<1>2. ExpectedAddsUp
  <2>1. n_pong_expected = 0 /\ delta["main"] = 0 /\ delta["al"] = 0
    BY DEF Init, Thread
  <2>2. BeingCreated = {} /\ Peers = {}
    BY DEF Init, BeingCreated, Peers
  <2>3. Cardinality({}) = 0 /\ Modulus \in Nat \ {0}
    BY FS_EmptySet, WidthAssumption, ParticipantAssumption, FS_CardinalityType
  <2> QED
    BY <2>1, <2>2, <2>3 DEF ExpectedAddsUp
<1> QED
  BY <1>1, <1>2, InitType, InitControl, InitOnce, InitMatch DEF IInv

LEMMA StepIInv == IInv /\ [Next]_vars => IInv'
<1> SUFFICES ASSUME IInv, [Next]_vars PROVE IInv'
  OBVIOUS
<1>1. TypeOK'
  BY TypeStep DEF IInv
<1> QED
  BY <1>1, ControlStep, SamplesStep, HeapStep, ExpectedStep, OnceStep, TablesStep, MatchStep DEF IInv

LEMMA SpecIInv == Spec => []IInv
  BY InitIInv, StepIInv, PTL DEF Spec

\* Every variable keeps its type: no counter leaves the range of its width.
THEOREM TypeCorrect == Spec => []TypeOK
  BY SpecIInv, PTL DEF IInv

\* However the main thread and the al thread interleave in the handler of the participants
\* reader, n_pong_expected and the deltas not yet applied add up to the peers in the table.
THEOREM PongsExpected == Spec => []ExpectedAddsUp
  BY SpecIInv, PTL DEF IInv

\* The heap of the deadlines holds the participants of the table that have one, and no struct
\* that was freed.
THEOREM HeapCorrect == Spec => []HeapHoldsDeadlines
  BY SpecIInv, PTL DEF IInv

\* A sample of a participant never waits in the reader with nobody to take it, those included
\* that came before the listener was set.
THEOREM NoSampleForgotten == Spec => []SamplesHandled
<1>1. IInv => SamplesHandled
  <2> SUFFICES ASSUME IInv, phase \in Listening, pc = [t \in Thread |-> "idle"], queue = <<>>,
                      NEW p \in Participant
               PROVE  reader[p] = "none"
    BY DEF SamplesHandled, Listening
  <2>1. \A t \in Thread : pc[t] \notin Draining
    BY DEF Draining
  <2> QED
    BY <2>1 DEF IInv, SamplesInv
<1> QED
  BY <1>1, SpecIInv, PTL

\* When nothing is left to do every participant that runs has its row in the table of
\* participants and, when it is a peer, an entry with its own pong writer; what else is left
\* belongs to participants whose going overtook their coming.
THEOREM TablesFollow == Spec => []TablesCurrent
<1>1. IInv => TablesCurrent
  <2> SUFFICES ASSUME IInv, Quiet PROVE TablesCurrent
    BY DEF TablesCurrent
  <2>1. \A p \in Participant : reader[p] = "none" /\ ~Held(p, {"gone"}) /\ ~Held(p, {"alive"})
                               /\ ~Held(p, {"alive", "call"}) /\ ~Held(p, {"call"})
    BY DEF Quiet, Held, Holding
  <2>2. /\ ppants \subseteq Participant /\ pongwr \subseteq PongEntry
        /\ life \in [Participant -> {"absent", "alive", "gone"}]
    BY DEF IInv, TypeOK
  <2>3. ASSUME NEW p \in Participant, life[p] = "alive"
        PROVE  p \in ppants /\ (IsPeer(p) => HasEntry(p, p))
    <3>1. p \notin overtaken
      BY <2>3 DEF IInv, OnceInv
    <3> QED
      BY <2>1, <2>3, <3>1 DEF IInv, TablesInv
  <2>4. ASSUME NEW p \in ppants \ overtaken PROVE life[p] = "alive"
    BY <2>1, <2>2 DEF IInv, OnceInv, TablesInv
  <2>5. ASSUME NEW e \in pongwr, e.wr_pong \notin overtaken
        PROVE  e.pphandle = e.wr_pong /\ e.wr_pong \in ppants /\ IsPeer(e.wr_pong)
    <3>1. e.wr_pong \in Participant /\ e.pphandle \in Participant \cup {Junk}
      BY <2>2 DEF PongEntry
    <3>2. HasEntry(e.pphandle, e.wr_pong)
      BY DEF HasEntry
    <3> QED
      BY <2>5, <3>1, <3>2 DEF IInv, TablesInv
  <2> QED
    BY <2>3, <2>4, <2>5 DEF TablesCurrent, HasEntry, EntriesOf
<1> QED
  BY <1>1, SpecIInv, PTL

\* Every endpoint that has matched is found by async_endpoint_matched_listener before nothing
\* is left to do: no participant of the table still waits for it.
THEOREM MatchesHandled == Spec => []NoMatchLost
<1>1. IInv => NoMatchLost
  <2> SUFFICES ASSUME IInv, Quiet, NEW p \in ppants, NEW k \in Kind, <<p, k>> \in matched,
                      k \in unmatched[p]
               PROVE  FALSE
    BY DEF NoMatchLost
  <2>0. p \in Participant
    BY DEF IInv, TypeOK
  <2>1. reader[p] = "none" /\ queue = <<>> /\ \A t \in Thread : pc[t] = "idle"
    BY <2>0 DEF Quiet
  <2>2. ~Held(p, {"gone"})
    BY <2>1 DEF Held, Holding
  <2>3. running = <<>>
    BY <2>1 DEF IInv, ControlInv, Thread
  <2>4. ~Queued(MatchEvent(p, k)) /\ ~Handled(MatchEvent(p, k))
    BY <2>1, <2>3 DEF Queued, Handled
  <2>5. p \notin overtaken
    BY <2>0 DEF IInv, MatchInv
  <2>6. life[p] # "gone"
    BY <2>0, <2>1, <2>2, <2>5 DEF IInv, TablesInv
  <2> QED
    BY <2>0, <2>4, <2>6 DEF IInv, MatchInv
<1> QED
  BY <1>1, SpecIInv, PTL

----------------------------------------------------------------------------
(* The number of participants that have matched, without a data reader.    *)

LEMMA InitCount == Init => CountInv
<1> SUFFICES ASSUME Init PROVE CountInv
  OBVIOUS
<1>1. /\ queue = <<>> /\ running = <<>> /\ matched = {} /\ ppants = {} /\ completed = {}
      /\ rd_data = FALSE /\ matchcount = 0
  BY DEF Init
<1>2. \A e : ~Queued(e) /\ ~Handled(e)
  BY <1>1 DEF Queued, Handled
<1>3. Len(queue) = 0 /\ Cardinality({}) = 0
  BY <1>1, FS_EmptySet
<1>4. \A i, j \in 1 .. Len(queue) : queue[i] = queue[j] /\ queue[i] # <<"data">> => i = j
  BY <1>3
<1> QED
  BY <1>1, <1>2, <1>3, <1>4 DEF CountInv

\* No match is queued twice, or queued while it is handled.
EventsOnce ==
    /\ \A i, j \in 1 .. Len(queue) : queue[i] = queue[j] /\ queue[i] # <<"data">> => i = j
    /\ running # <<>> /\ Head(running) # <<"data">> => ~Queued(Head(running))

\* What is left of CountInv for one endpoint.
EndpointInv(p, k) ==
    /\ <<p, k>> \in matched => k # "wr_data" /\ (k = "rd_data" => p \in HasReader)
    /\ Queued(MatchEvent(p, k)) \/ Handled(MatchEvent(p, k)) => (p \in ppants => k \in unmatched[p])
    /\ p \in ppants /\ k \in Expected(p) => k \in unmatched[p] \/ <<p, k>> \in matched

\* What is left of CountInv for the participants that are counted.
CompletedInv ==
    \A p \in completed :
       /\ life[p] # "absent" /\ reader[p] # "alive" /\ ~Held(p, {"alive"})
       /\ p \in ppants => unmatched[p] = {}

LEMMA CountParts ==
  CountInv <=> /\ rd_data = FALSE /\ EventsOnce
               /\ \A p \in Participant, k \in Kind : EndpointInv(p, k)
               /\ CompletedInv /\ matchcount = Cardinality(completed)
  BY DEF CountInv, EventsOnce, EndpointInv, CompletedInv

LEMMA EventsOnceAppended ==
  ASSUME queue \in Seq(Event), EventsOnce, UNCHANGED running, NEW e \in Event,
         queue' = Append(queue, e),
         e = <<"data">> \/ (~Queued(e) /\ ~Handled(e))
  PROVE  EventsOnce'
<1>1. /\ Len(queue) \in Nat /\ Len(queue') = Len(queue) + 1
      /\ \A i \in 1 .. Len(queue) : queue'[i] = queue[i]
      /\ queue'[Len(queue) + 1] = e
      /\ \A x : Queued(x)' <=> Queued(x) \/ x = e
  BY QueueAppended
<1>2. ASSUME NEW i \in 1 .. Len(queue'), NEW j \in 1 .. Len(queue'),
             queue'[i] = queue'[j], queue'[i] # <<"data">>
      PROVE  i = j
  <2>1. CASE i \in 1 .. Len(queue) /\ j \in 1 .. Len(queue)
    BY <1>1, <1>2, <2>1 DEF EventsOnce
  <2>2. CASE i = Len(queue) + 1 /\ j = Len(queue) + 1
    BY <2>2
  <2>3. CASE (i \in 1 .. Len(queue) /\ j = Len(queue) + 1) \/ (j \in 1 .. Len(queue) /\ i = Len(queue) + 1)
    <3>1. Queued(e) /\ e # <<"data">>
      BY <1>1, <1>2, <2>3 DEF Queued
    <3> QED
      BY <3>1
  <2> QED
    BY <1>1, <2>1, <2>2, <2>3
<1>3. ASSUME running # <<>>, Head(running) # <<"data">> PROVE ~Queued(Head(running))'
  <2>1. ~Queued(Head(running))
    BY <1>3 DEF EventsOnce
  <2>2. Head(running) # e
    BY <1>3 DEF Handled
  <2>3. Queued(Head(running))' <=> Queued(Head(running)) \/ Head(running) = e
    BY <1>1
  <2> QED
    BY <2>1, <2>2, <2>3
<1> QED
  BY <1>2, <1>3 DEF EventsOnce

LEMMA EventsOnceTaken ==
  ASSUME queue \in Seq(Event), EventsOnce, queue # <<>>, queue' = Tail(queue),
         running' = <<Head(queue)>>
  PROVE  EventsOnce'
<1>1. /\ Head(queue) \in Event
      /\ Len(queue) \in Nat \ {0} /\ Len(queue') = Len(queue) - 1
      /\ \A i \in 1 .. Len(queue') : queue'[i] = queue[i + 1]
      /\ Head(queue) = queue[1]
  BY QueueTaken
<1>2. ASSUME NEW i \in 1 .. Len(queue'), NEW j \in 1 .. Len(queue'),
             queue'[i] = queue'[j], queue'[i] # <<"data">>
      PROVE  i = j
  <2>1. i + 1 \in 1 .. Len(queue) /\ j + 1 \in 1 .. Len(queue)
    BY <1>1
  <2>2. i + 1 = j + 1
    BY <1>1, <1>2, <2>1 DEF EventsOnce
  <2> QED
    BY <1>1, <2>2
<1>3. Head(running') = Head(queue)
  BY <1>1, OneEvent
<1>4. ASSUME Head(queue) # <<"data">>,
             NEW i \in 1 .. Len(queue'), queue'[i] = Head(queue)
      PROVE  FALSE
  <2>2. i + 1 \in 1 .. Len(queue) /\ 1 \in 1 .. Len(queue) /\ queue[i + 1] = queue[1]
    BY <1>1, <1>4
  <2>3. i + 1 = 1
    BY <1>1, <1>4, <2>2 DEF EventsOnce
  <2> QED
    BY <1>1, <2>3
<1> QED
  BY <1>2, <1>3, <1>4 DEF EventsOnce, Queued

LEMMA CountStep ==
  ASSUME ~Subscribing
  PROVE  TypeOK /\ ControlInv /\ OnceInv /\ MatchInv /\ CountInv /\ [Next]_vars => CountInv'
<1> SUFFICES ASSUME TypeOK, ControlInv, OnceInv, MatchInv, CountInv, [Next]_vars PROVE CountInv'
  OBVIOUS
<1>0. /\ pc \in [Thread -> {"idle", "take", "gone", "alive", "call", "apply", "match"}]
      /\ sample \in [Thread -> Participant]
      /\ life \in [Participant -> {"absent", "alive", "gone"}]
      /\ reader \in [Participant -> {"none", "alive", "gone"}]
      /\ unmatched \in [Participant -> SUBSET Kind]
      /\ ppants \subseteq Participant /\ completed \subseteq Participant
      /\ queue \in Seq(Event) /\ running \in Seq(Event) /\ Len(running) <= 1
      /\ Thread = {"main", "al"} /\ Subscribing = FALSE
  BY OptionsAssumption DEF TypeOK, Thread
<1>c. /\ rd_data = FALSE /\ EventsOnce /\ CompletedInv /\ matchcount = Cardinality(completed)
      /\ \A p \in Participant, k \in Kind : EndpointInv(p, k)
  BY CountParts
<1>p. ASSUME rd_data' = FALSE, EventsOnce', CompletedInv', matchcount' = Cardinality(completed'),
             \A p \in Participant, k \in Kind : EndpointInv(p, k)'
      PROVE  CountInv'
  BY <1>p DEF CountInv, EventsOnce, EndpointInv, CompletedInv
<1>q. UNCHANGED queue => \A e : Queued(e)' <=> Queued(e)
  BY DEF Queued
<1>h. UNCHANGED running => \A e : Handled(e)' <=> Handled(e)
  BY DEF Handled
<1>s. UNCHANGED <<pc, sample>> => \A p, S : Held(p, S)' <=> Held(p, S)
  BY DEF Held, Holding
<1>o. UNCHANGED <<queue, running>> => EventsOnce'
  BY <1>c DEF EventsOnce, Queued
<1>x. UNCHANGED rd_data => \A p : Expected(p)' = Expected(p)
  BY DEF Expected
<1>e. ASSUME NEW q \in Participant, NEW k \in Kind, UNCHANGED <<matched, rd_data>>,
             q \in ppants' => q \in ppants /\ (k \in unmatched'[q] <=> k \in unmatched[q]),
             Queued(MatchEvent(q, k))' => Queued(MatchEvent(q, k)) \/ Handled(MatchEvent(q, k)),
             Handled(MatchEvent(q, k))' => Queued(MatchEvent(q, k)) \/ Handled(MatchEvent(q, k))
      PROVE  EndpointInv(q, k)'
  <2>1. Expected(q)' = Expected(q)
    BY <1>e, <1>x
  <2> QED
    BY <1>c, <1>e, <2>1 DEF EndpointInv
<1> USE <1>0 DEF envVars, threadVars, queueVars, EndpointInv, CompletedInv
\* The steps that post a data event or nothing and leave the tables alone.
<1>a. ASSUME queue' = DataAvailable(queue), UNCHANGED running
      PROVE  /\ EventsOnce'
             /\ \A p \in Participant, k \in Kind :
                   /\ Queued(MatchEvent(p, k))' <=> Queued(MatchEvent(p, k))
                   /\ Handled(MatchEvent(p, k))' <=> Handled(MatchEvent(p, k))
  <2>1. CASE queue' = queue
    BY <1>a, <1>q, <1>h, <1>o, <2>1
  <2>2. CASE queue' = Append(queue, <<"data">>)
    <3>1. \A e : Queued(e)' <=> Queued(e) \/ e = <<"data">>
      BY <2>2, QueueAppended, EventFacts
    <3>2. EventsOnce'
      BY <1>a, <1>c, <2>2, EventsOnceAppended, EventFacts
    <3> QED
      BY <1>a, <1>h, <3>1, <3>2, EventFacts
  <2> QED
    BY <1>a, <2>1, <2>2 DEF DataAvailable
<1>1. CASE UNCHANGED <<life, matched, reader, queue, running, ppants, unmatched, pc, sample,
                       matchcount, completed, rd_data>>
  <2>1. EventsOnce' /\ CompletedInv'
    BY <1>1, <1>o, <1>s, <1>c
  <2>2. \A p \in Participant, k \in Kind : EndpointInv(p, k)'
    BY <1>1, <1>q, <1>h, <1>x, <1>c
  <2> QED
    BY <1>1, <1>c, <1>p, <2>1, <2>2
<1>2. ASSUME NEW p \in Participant, Come(p) PROVE CountInv'
  <2>1. /\ UNCHANGED <<matched, running, ppants, unmatched, pc, sample, matchcount, completed,
                       rd_data>>
        /\ life[p] = "absent" /\ life' = [life EXCEPT ![p] = "alive"]
        /\ reader' = [reader EXCEPT ![p] = "alive"] /\ queue' = DataAvailable(queue)
    BY <1>2 DEF Come, tableVars, countVars, mainVars
  <2>2. CompletedInv'
    BY <2>1, <1>s, <1>c
  <2>3. \A q \in Participant, k \in Kind : EndpointInv(q, k)'
    BY <2>1, <1>a, <1>x, <1>c
  <2> QED
    BY <2>1, <2>2, <2>3, <1>a, <1>c, <1>p
<1>3. ASSUME NEW p \in Participant, Go(p) PROVE CountInv'
  <2>1. /\ UNCHANGED <<matched, running, ppants, unmatched, pc, sample, matchcount, completed,
                       rd_data>>
        /\ life' = [life EXCEPT ![p] = "gone"]
        /\ reader' = [reader EXCEPT ![p] = "gone"] /\ queue' = DataAvailable(queue)
    BY <1>3 DEF Go, tableVars, countVars, mainVars
  <2>2. CompletedInv'
    BY <2>1, <1>s, <1>c
  <2>3. \A q \in Participant, k \in Kind : EndpointInv(q, k)'
    BY <2>1, <1>a, <1>x, <1>c
  <2> QED
    BY <2>1, <2>2, <2>3, <1>a, <1>c, <1>p
<1>4. ASSUME NEW p \in Participant, NEW k \in Kind, Match(p, k) PROVE CountInv'
  <2>1. /\ UNCHANGED <<life, reader, running, ppants, unmatched, pc, sample, matchcount, completed,
                       rd_data>>
        /\ matched' = matched \cup {<<p, k>>} /\ queue' = Append(queue, MatchEvent(p, k))
        /\ <<p, k>> \notin matched /\ IsPeer(p) /\ HasListener(p, k)
        /\ k = "rd_data" => p \in HasReader
    BY <1>4 DEF Match, tableVars, countVars, mainVars, MatchEvent
  <2>2. k # "wr_data"
    BY <2>1, <1>c DEF HasListener
  <2>3. k \in Expected(p)
    BY <2>1, <2>2 DEF Expected
  <2>4. ~Queued(MatchEvent(p, k)) /\ ~Handled(MatchEvent(p, k))
    BY <2>1 DEF MatchInv
  <2>5. EventsOnce'
    BY <2>1, <2>4, <1>c, EventsOnceAppended, EventFacts
  <2>6. \A e : Queued(e)' <=> Queued(e) \/ e = MatchEvent(p, k)
    BY <2>1, QueueAppended, EventFacts
  <2>7. ASSUME NEW q \in Participant, NEW j \in Kind PROVE EndpointInv(q, j)'
    <3>1. /\ MatchEvent(q, j) = MatchEvent(p, k) <=> q = p /\ j = k
          /\ <<q, j>> = <<p, k>> <=> q = p /\ j = k
      BY EventFacts
    <3> QED
      BY <2>1, <2>2, <2>3, <2>6, <3>1, <1>h, <1>x, <1>c
  <2>8. CompletedInv'
    BY <2>1, <1>s, <1>c
  <2> QED
    BY <2>1, <2>5, <2>7, <2>8, <1>c, <1>p
<1>5. ASSUME NEW t \in Thread, NEW p \in Participant, TakeSample(t, p) PROVE CountInv'
  <2>1. /\ UNCHANGED <<life, matched, queue, running, ppants, unmatched, matchcount, completed,
                       rd_data>>
        /\ pc' = [pc EXCEPT ![t] = reader[p]] /\ reader[p] \in {"alive", "gone"}
        /\ sample' = [sample EXCEPT ![t] = p] /\ reader' = [reader EXCEPT ![p] = "none"]
    BY <1>5 DEF TakeSample, tableVars, countVars, mainVars
  <2>2. \A q \in Participant : Held(q, {"alive"})' => Held(q, {"alive"}) \/ reader[q] = "alive"
    BY <2>1 DEF Held, Holding
  <2>3. CompletedInv'
    BY <2>1, <2>2, <1>c
  <2>4. \A q \in Participant, k \in Kind : EndpointInv(q, k)'
    BY <2>1, <1>q, <1>h, <1>e
  <2> QED
    BY <2>1, <2>3, <2>4, <1>o, <1>c, <1>p
<1>6. ASSUME NEW t \in Thread, TakeNothing(t) \/ Create(t) PROVE CountInv'
  <2>1. /\ UNCHANGED <<life, matched, reader, queue, running, ppants, unmatched, sample, matchcount,
                       completed, rd_data>>
        /\ \E x \in {"apply", "take"} : pc' = [pc EXCEPT ![t] = x]
    BY <1>6 DEF TakeNothing, Create, tableVars, countVars, mainVars
  <2>2. \A q \in Participant : Held(q, {"alive"})' => Held(q, {"alive"})
    BY <2>1 DEF Held, Holding
  <2>3. CompletedInv'
    BY <2>1, <2>2, <1>c
  <2>4. \A q \in Participant, k \in Kind : EndpointInv(q, k)'
    BY <2>1, <1>q, <1>h, <1>e
  <2> QED
    BY <2>1, <2>3, <2>4, <1>o, <1>c, <1>p
<1>7. ASSUME NEW t \in Thread, Apply(t) PROVE CountInv'
  <2>1. /\ UNCHANGED <<life, matched, reader, queue, ppants, unmatched, sample, matchcount, completed,
                       rd_data>>
        /\ \E x \in {"match", "idle"} : pc' = [pc EXCEPT ![t] = x]
        /\ running' = running \/ (Head(running) = <<"data">> /\ running' = <<>>)
    BY <1>7 DEF Apply, tableVars, countVars
  <2>2. EventsOnce' /\ \A q \in Participant, k \in Kind :
                          Handled(MatchEvent(q, k))' => Handled(MatchEvent(q, k))
    <3>1. CASE running' = running
      BY <2>1, <3>1, <1>h, <1>o
    <3>2. CASE running' = <<>>
      BY <2>1, <3>2, <1>c DEF Handled, EventsOnce
    <3> QED
      BY <2>1, <3>1, <3>2
  <2>3. \A q \in Participant : Held(q, {"alive"})' => Held(q, {"alive"})
    BY <2>1 DEF Held, Holding
  <2>4. CompletedInv'
    BY <2>1, <2>3, <1>c
  <2>5. \A q \in Participant, k \in Kind : EndpointInv(q, k)'
    BY <2>1, <2>2, <1>q, <1>e
  <2> QED
    BY <2>1, <2>2, <2>4, <2>5, <1>c, <1>p
<1>8. ASSUME NEW t \in Thread, Gone(t) PROVE CountInv'
  <2> DEFINE p == sample[t]
  <2>1. /\ UNCHANGED <<life, matched, reader, queue, running, sample, matchcount, completed, rd_data>>
        /\ pc' = [pc EXCEPT ![t] = "take"]
        /\ \/ UNCHANGED <<ppants, unmatched>>
           \/ ppants' = ppants \ {p} /\ unmatched' = [unmatched EXCEPT ![p] = {}]
    BY <1>8 DEF Gone, tableVars, countVars, mainVars
  <2>2. \A q \in Participant : Held(q, {"alive"})' => Held(q, {"alive"})
    BY <2>1 DEF Held, Holding
  <2>3. \A q \in ppants' : q \in ppants /\ unmatched'[q] = unmatched[q]
    BY <2>1
  <2> HIDE DEF p
  <2>4. CompletedInv'
    BY <2>1, <2>2, <2>3, <1>c
  <2>5. \A q \in Participant, k \in Kind : EndpointInv(q, k)'
    BY <2>1, <2>3, <1>q, <1>h, <1>e
  <2> QED
    BY <2>1, <2>4, <2>5, <1>o, <1>c, <1>p
<1>9. ASSUME NEW t \in Thread, Add(t) PROVE CountInv'
  <2>0. PICK p \in Participant : p = sample[t]
    OBVIOUS
  <2>1. /\ UNCHANGED <<life, matched, reader, queue, running, sample, matchcount, completed, rd_data>>
        /\ pc[t] = "alive" /\ \E x \in {"take", "call"} : pc' = [pc EXCEPT ![t] = x]
        /\ \/ UNCHANGED <<ppants, unmatched>>
           \/ /\ p \notin ppants /\ ppants' = ppants \cup {p}
              /\ unmatched' = [unmatched EXCEPT ![p] = Expected(p)]
    BY <1>9, <2>0 DEF Add, tableVars, countVars, mainVars
  <2>2. p \in Participant /\ Held(p, {"alive"})
    BY <2>0, <2>1 DEF Held, Holding
  <2>3. \A q \in Participant : Held(q, {"alive"})' => Held(q, {"alive"})
    BY <2>1 DEF Held, Holding
  <2>4. p \notin completed
    BY <2>2, <1>c
  <2>5. \A q \in Participant \ {p} : (q \in ppants' <=> q \in ppants) /\ unmatched'[q] = unmatched[q]
    BY <2>1
  <2>6. UNCHANGED <<ppants, unmatched>> \/ unmatched'[p] = Expected(p)
    BY <2>1, <2>2
  <2>7. ASSUME NEW k \in Kind, Queued(MatchEvent(p, k)) \/ Handled(MatchEvent(p, k))
        PROVE  k \in Expected(p)
    <3>1. <<p, k>> \in matched /\ IsPeer(p)
      BY <2>2, <2>7 DEF MatchInv
    <3> QED
      BY <2>2, <3>1, <1>c DEF Expected
  <2>8. CompletedInv'
    BY <2>1, <2>3, <2>4, <2>5, <1>c
  <2>9. ASSUME NEW k \in Kind PROVE EndpointInv(p, k)'
    <3>1. CASE UNCHANGED <<ppants, unmatched>>
      BY <2>1, <2>2, <3>1, <1>q, <1>h, <1>e
    <3>2. CASE unmatched'[p] = Expected(p)
      <4>1. /\ Queued(MatchEvent(p, k))' <=> Queued(MatchEvent(p, k))
            /\ Handled(MatchEvent(p, k))' <=> Handled(MatchEvent(p, k))
        BY <2>1, <1>q, <1>h
      <4>2. Expected(p)' = Expected(p)
        BY <2>1, <1>x
      <4> QED
        BY <2>1, <2>2, <2>7, <3>2, <4>1, <4>2, <1>c
    <3> QED
      BY <2>6, <3>1, <3>2
  <2>10. ASSUME NEW q \in Participant \ {p}, NEW k \in Kind PROVE EndpointInv(q, k)'
    BY <2>1, <2>5, <1>q, <1>h, <1>e
  <2>11. UNCHANGED <<queue, running, matchcount, completed, rd_data>>
    BY <2>1
  <2> HIDE DEF EndpointInv, CompletedInv
  <2>12. \A q \in Participant, k \in Kind : EndpointInv(q, k)'
    <3> SUFFICES ASSUME NEW q \in Participant, NEW k \in Kind PROVE EndpointInv(q, k)'
      OBVIOUS
    <3>1. CASE q = p
      BY <2>9, <3>1
    <3> QED
      BY <2>10, <3>1
  <2> QED
    BY <2>8, <2>11, <2>12, <1>o, <1>c, <1>p
<1>10. CASE Dispatch
  <2>1. /\ UNCHANGED <<life, matched, reader, ppants, unmatched, sample, matchcount, completed,
                       rd_data>>
        /\ running = <<>> /\ queue # <<>> /\ queue' = Tail(queue)
        /\ running' = <<Head(queue)>> /\ pc' = [pc EXCEPT !["al"] = "take"]
    BY <1>10 DEF Dispatch, MayDispatch, tableVars, countVars, mainVars
  <2>2. EventsOnce'
    BY <2>1, <1>c, EventsOnceTaken
  <2>3. \A e : Queued(e) <=> Queued(e)' \/ e = Head(queue)
    BY <2>1, QueueTaken
  <2>4. \A e : Handled(e)' <=> e = Head(queue)
    BY <2>1, QueueTaken, OneEvent DEF Handled
  <2>5. \A q \in Participant : Held(q, {"alive"})' => Held(q, {"alive"})
    BY <2>1 DEF Held, Holding
  <2>6. CompletedInv'
    BY <2>1, <2>5, <1>c
  <2>7. \A q \in Participant, k \in Kind : EndpointInv(q, k)'
    BY <2>1, <2>3, <2>4, <1>x, <1>c
  <2> QED
    BY <2>1, <2>2, <2>6, <2>7, <1>c, <1>p
<1>11. CASE EndpointMatched
  <2>1. /\ pc["al"] = "match" /\ running # <<>> /\ Head(running) # <<"data">>
        /\ Head(running) \in Event
    BY <1>11, RunningFacts DEF EndpointMatched, ControlInv
  <2>2. PICK q \in Participant, j \in Kind : Head(running) = MatchEvent(q, j)
    BY <2>1, EventFacts
  <2>3. /\ Head(running)[2] = q /\ Head(running)[3] = j /\ Handled(MatchEvent(q, j))
        /\ ~Queued(MatchEvent(q, j)) /\ <<q, j>> \in matched
    BY <2>1, <2>2, <1>c, EventFacts DEF Handled, EventsOnce, MatchInv
  <2>4. /\ UNCHANGED <<life, matched, reader, queue, ppants, sample, rd_data>>
        /\ running' = <<>> /\ pc' = [pc EXCEPT !["al"] = "idle"]
    BY <1>11 DEF EndpointMatched, mainVars
  <2>5. \/ UNCHANGED <<unmatched, matchcount, completed>>
        \/ /\ q \in ppants /\ unmatched' = [unmatched EXCEPT ![q] = unmatched[q] \ {j}]
           /\ matchcount' = IF unmatched[q] \ {j} = {} THEN (matchcount + 1) % Modulus ELSE matchcount
           /\ completed' = IF unmatched'[q] = {} THEN completed \cup {q} ELSE completed
    BY <1>11, <2>3 DEF EndpointMatched, Remaining, Completes
  <2>6. EventsOnce'
    BY <2>4, <1>q, <1>c DEF EventsOnce
  <2>7. \A p \in Participant : Held(p, {"alive"})' => Held(p, {"alive"})
    BY <2>4 DEF Held, Holding
  <2>8. \A e : ~Handled(e)'
    BY <2>4 DEF Handled
  <2>9. CASE UNCHANGED <<unmatched, matchcount, completed>>
    <3>1. CompletedInv'
      BY <2>4, <2>7, <2>9, <1>c
    <3>2. \A p \in Participant, k \in Kind : EndpointInv(p, k)'
      BY <2>4, <2>8, <2>9, <1>q, <1>x, <1>c
    <3> QED
      BY <2>4, <2>6, <2>9, <3>1, <3>2, <1>c, <1>p
  <2>10. CASE /\ q \in ppants /\ unmatched' = [unmatched EXCEPT ![q] = unmatched[q] \ {j}]
              /\ matchcount' = IF unmatched[q] \ {j} = {} THEN (matchcount + 1) % Modulus ELSE matchcount
              /\ completed' = IF unmatched'[q] = {} THEN completed \cup {q} ELSE completed
    <3>1. j \in unmatched[q]
      BY <2>3, <2>10, <1>c
    <3>2. q \notin completed
      BY <2>10, <3>1, <1>c
    <3>3. unmatched'[q] = unmatched[q] \ {j}
      BY <2>10
    <3>4. \A p \in Participant \ {q} : unmatched'[p] = unmatched[p]
      BY <2>10
    <3>5. /\ life[q] # "absent" /\ reader[q] # "alive" /\ ~Held(q, {"alive"})
      BY <2>10 DEF OnceInv
    <3>6. CompletedInv'
      BY <2>4, <2>7, <2>10, <3>2, <3>3, <3>4, <3>5, <1>c
    <3>7. ASSUME NEW p \in Participant, NEW k \in Kind PROVE EndpointInv(p, k)'
      <4>1. CASE p = q /\ k = j
        BY <2>3, <2>4, <2>8, <3>3, <4>1, <1>q, <1>x, <1>c
      <4>2. CASE ~(p = q /\ k = j)
        <5>1. k \in unmatched'[p] <=> k \in unmatched[p]
          BY <3>3, <3>4, <4>2
        <5> QED
          BY <2>4, <2>8, <5>1, <1>q, <1>x, <1>c
      <4> QED
        BY <4>1, <4>2
    <3>8. matchcount' = Cardinality(completed')
      <4>1. CASE unmatched'[q] = {}
        <5>1. /\ Cardinality(completed \cup {q}) = Cardinality(completed) + 1
              /\ Cardinality(completed \cup {q}) \in 0 .. Modulus - 1
          BY <3>2, ParticipantsFinite
        <5>2. matchcount + 1 = (matchcount + 1) + 0 * Modulus /\ 0 \in Int /\ Modulus \in Int
          BY <5>1, <1>c, WidthAssumption, ParticipantsFinite
        <5>3. (matchcount + 1) % Modulus = Cardinality(completed \cup {q})
          BY <5>1, <5>2, <1>c, ModUnique
        <5> QED
          BY <2>10, <3>3, <4>1, <5>3
      <4>2. CASE unmatched'[q] # {}
        BY <2>10, <3>3, <4>2, <1>c
      <4> QED
        BY <4>1, <4>2
    <3> QED
      BY <2>4, <2>6, <3>6, <3>7, <3>8, <1>c, <1>p
  <2> QED
    BY <2>5, <2>9, <2>10
<1>12. CASE SetListener \/ CreateEndpoints
  <2>1. /\ UNCHANGED <<life, matched, reader, queue, running, ppants, unmatched, sample, matchcount,
                       completed>>
        /\ rd_data' = rd_data
        /\ pc' = pc \/ pc' = [pc EXCEPT !["main"] = "take"]
    BY <1>12, <1>c DEF SetListener, CreateEndpoints, SynchronousCall, MainGoes, tableVars, countVars
  <2>2. \A q \in Participant : Held(q, {"alive"})' => Held(q, {"alive"})
    BY <2>1 DEF Held, Holding
  <2>3. CompletedInv'
    BY <2>1, <2>2, <1>c
  <2>4. \A q \in Participant, k \in Kind : EndpointInv(q, k)'
    BY <2>1, <1>q, <1>h, <1>e
  <2> QED
    BY <2>1, <2>3, <2>4, <1>o, <1>c, <1>p
<1>13. ASSUME NEW p \in Participant, (\E k \in PongKind : GetPongWriter(p, k)) \/ DeadlinePasses(p)
       PROVE  CountInv'
  BY <1>1, <1>13 DEF GetPongWriter, DeadlinePasses, tableVars, countVars, mainVars
<1>14. CASE InitWaitEnds \/ DeleteParticipant \/ StopListener \/ Exit \/ VerifyMinMatch
            \/ CheckDeadlines \/ Stop \/ UseDeleted
  BY <1>1, <1>14 DEF InitWaitEnds, GiveUp, DeleteParticipant, StopListener, Exit, VerifyMinMatch,
     CheckDeadlines, Stop, UseDeleted, MainGoes, tableVars, countVars, mainVars
<1>15. CASE UNCHANGED vars
  BY <1>1, <1>15 DEF vars, tableVars, countVars, mainVars
<1>16. ASSUME NEW a \in Asking, GetPongWriter(a[1], a[2]) PROVE CountInv'
  BY <1>13, <1>16, ParticipantAssumption
<1> QED
  BY <1>2, <1>3, <1>4, <1>5, <1>6, <1>7, <1>8, <1>9, <1>10, <1>11, <1>12, <1>13, <1>14, <1>15,
     <1>16 DEF Next, Main, Al, Discover, Exited

\* matchcount is the number of participants all of whose expected endpoints have matched: each
\* is counted once, when ddsperf does not subscribe to data.  (When it does, the participants
\* that are found before the data reader is created are counted twice: the run of
\* Discovery_matchcount shows how.)
THEOREM MatchCount == ASSUME ~Subscribing PROVE Spec => []MatchCountExact
<1>1. Init => IInv /\ CountInv
  BY InitIInv, InitCount
<1>2. IInv /\ CountInv /\ [Next]_vars => IInv' /\ CountInv'
  BY StepIInv, CountStep DEF IInv
<1>3. CountInv => MatchCountExact
  BY DEF CountInv, MatchCountExact
<1> QED
  BY <1>1, <1>2, <1>3, PTL DEF Spec
=============================================================================
