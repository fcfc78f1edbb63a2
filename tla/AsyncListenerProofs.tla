------------------------ MODULE AsyncListenerProofs ------------------------
(***************************************************************************)
(* Safety of the event queue for any callers, events and heap.             *)
(***************************************************************************)
EXTENDS AsyncListener, SequenceTheorems, TLAPS

\* Control facts that tie the program counters to each other, to the mutex and to stop.
ControlInv ==
    /\ lock # NoThread => \/ lock = Main /\ mainpc = "stop"
                          \/ lock = Al /\ alpc = "test"
                          \/ lock \in Caller /\ epc[lock] = "append"
    /\ epc[Al] # "idle" => alpc = "handler"
    /\ mainpc = "new" => alpc = "new"
    /\ mainpc # "run" => \A c \in Caller : epc[c] = "idle"
    /\ stop <=> mainpc \in {"join", "joined"}
    /\ alpc = "done" => stop /\ oldest = NoNode
    /\ mainpc = "joined" => alpc = "done"

\* Nothing is allocated but the nodes that are linked, in their handler or being inserted.
NoLeak ==
    \A n \in allocated : \/ n \in Linked
                         \/ alpc = "handler" /\ n = cur
                         \/ \E c \in Inserting : enode[c] = n

\* No two enqueue calls have the same event: those appended differ from each other and from
\* those on their way, whatever blocks the heap hands out again.
EventsDistinct ==
    /\ \A i, j \in 1 .. Len(posted) : i # j => posted[i] # posted[j]
    /\ \A c \in Inserting : \A i \in 1 .. Len(posted) : posted[i] # event[enode[c]]
    /\ \A c, d \in Inserting : c # d => event[enode[c]] # event[enode[d]]

\* The inductive invariant.
IInv ==
    /\ TypeOK
    /\ MutualExclusion
    /\ ControlInv
    /\ ListIsFifo
    /\ NodesOwnedOnce
    /\ ExactlyOnceInOrder
    /\ NoLostWakeup
    /\ NoLeak
    /\ EventsDistinct

LEMMA InitIInv == Init => IInv
<1> SUFFICES ASSUME Init PROVE IInv
  OBVIOUS
<1> USE DEF Init, New
<1>1. TypeOK
  <2> DEFINE e0 == CHOOSE e \in Event : TRUE
  <2>1. e0 \in Event
    BY DataAssumption
  <2>2. event = [n \in Node |-> e0]
    OBVIOUS
  <2> HIDE DEF e0
  <2>3. event \in [Node -> Event]
    BY <2>1, <2>2
  <2>4. fifo \in Seq(Node) /\ posted \in Seq(Event) /\ handled \in Seq(Event)
    BY EmptySeq
  <2>5. /\ next \in [Node -> Node \cup {NoNode}]
        /\ epc \in [Caller -> {"idle", "lock", "append"}]
        /\ enode \in [Caller -> Node \cup {NoNode}]
    OBVIOUS
  <2>6. /\ lock \in Caller \cup {Main, NoThread}
        /\ stop \in BOOLEAN
        /\ {oldest, latest, cur} \subseteq Node \cup {NoNode}
        /\ allocated \subseteq Node
        /\ alpc = "new" /\ mainpc = "new"
    OBVIOUS
  <2> QED
    BY <2>3, <2>4, <2>5, <2>6 DEF TypeOK
<1>2. MutualExclusion /\ ControlInv /\ NoLostWakeup
  BY ThreadAssumption DEF MutualExclusion, ControlInv, NoLostWakeup
<1>3. ListIsFifo /\ NodesOwnedOnce /\ ExactlyOnceInOrder /\ NoLeak /\ EventsDistinct
  BY DEF ListIsFifo, NodesOwnedOnce, ExactlyOnceInOrder, NoLeak, EventsDistinct, Linked,
         Inserting
<1> QED
  BY <1>1, <1>2, <1>3 DEF IInv

\* What a pop and an append do to the list of nodes.
LEMMA TailFifo ==
  ASSUME TypeOK, ListIsFifo, oldest # NoNode
  PROVE  /\ fifo # <<>>
         /\ oldest = fifo[1]
         /\ Len(fifo) \in Nat \ {0}
         /\ Tail(fifo) \in Seq(Node)
         /\ Len(Tail(fifo)) = Len(fifo) - 1
         /\ \A i \in 1 .. Len(fifo) - 1 : Tail(fifo)[i] = fifo[i + 1]
<1>1. fifo # <<>> /\ fifo \in Seq(Node) /\ oldest = fifo[1]
  BY DEF TypeOK, ListIsFifo
<1> QED
  BY <1>1, HeadTailProperties, EmptySeq

LEMMA AppendFifo ==
  ASSUME NEW S, NEW s \in Seq(S), NEW n \in S
  PROVE  /\ Append(s, n) \in Seq(S)
         /\ Len(s) \in Nat
         /\ Len(Append(s, n)) = Len(s) + 1
         /\ \A i \in 1 .. Len(s) : Append(s, n)[i] = s[i]
         /\ Append(s, n)[Len(s) + 1] = n
         /\ Append(s, n) # <<>>
  BY AppendProperties, LenProperties

LEMMA TypeStep == IInv /\ [Next]_vars => TypeOK'
<1> SUFFICES ASSUME IInv, [Next]_vars PROVE TypeOK'
  OBVIOUS
<1> USE DEF TypeOK, IInv, vars, heapVars, listVars, alVars, callVars
<1>1. ASSUME NEW c \in Caller, NEW e \in Event, EnqueueAlloc(c, e) PROVE TypeOK'
  BY <1>1 DEF EnqueueAlloc
<1>2. ASSUME NEW c \in Caller, EnqueueLock(c) PROVE TypeOK'
  BY <1>2 DEF EnqueueLock, Acquire
<1>3. ASSUME NEW c \in Caller, EnqueueAppend(c) PROVE TypeOK'
  <2>1. enode[c] \in Node
    BY <1>3 DEF EnqueueAppend, NodesOwnedOnce, Inserting
  <2>2. HasTail => latest \in Node
    BY TailFifo DEF HasTail, ListIsFifo
  <2>3. event[enode[c]] \in Event
    BY <2>1
  <2>4. Append(fifo, enode[c]) \in Seq(Node) /\ Append(posted, event[enode[c]]) \in Seq(Event)
    BY <2>1, <2>3, AppendFifo
  <2> QED
    BY <1>3, <2>1, <2>2, <2>4 DEF EnqueueAppend, Signalled, Release
<1>4. CASE AlLock
  BY <1>4, ThreadAssumption DEF AlLock, Acquire
<1>5. CASE AlWait
  BY <1>5 DEF AlWait, Release
<1>6. CASE AlSpuriousWakeup
  BY <1>6 DEF AlSpuriousWakeup
<1>7. CASE AlTake
  BY <1>7, TailFifo DEF AlTake, Popped, Release
<1>8. CASE AlHandled
  <2>1. event[cur] \in Event
    BY <1>8 DEF AlHandled, NodesOwnedOnce
  <2>2. Append(handled, event[cur]) \in Seq(Event)
    BY <2>1, AppendFifo
  <2> QED
    BY <1>8, <2>2 DEF AlHandled
<1>9. CASE AlExit
  BY <1>9 DEF AlExit, Release
<1>10. CASE Start \/ DeleteParticipant \/ StopLock \/ StopSignal \/ Join \/ Finished
  BY <1>10 DEF Start, DeleteParticipant, StopLock, StopSignal, Join, Finished, MainGoes,
               Acquire, Release, Signalled
<1>11. CASE UNCHANGED vars
  BY <1>11
<1> QED
  BY <1>1, <1>2, <1>3, <1>4, <1>5, <1>6, <1>7, <1>8, <1>9, <1>10, <1>11 DEF Next, Enqueue

LEMMA ControlStep == IInv /\ [Next]_vars => (MutualExclusion /\ ControlInv /\ NoLostWakeup)'
<1> DEFINE C == MutualExclusion /\ ControlInv /\ NoLostWakeup
<1> SUFFICES ASSUME IInv, [Next]_vars PROVE C'
  OBVIOUS
<1> USE ThreadAssumption
<1> USE DEF IInv, TypeOK, MutualExclusion, ControlInv, NoLostWakeup, vars, heapVars,
            listVars, alVars, callVars
<1>1. ASSUME NEW c \in Caller, NEW e \in Event, EnqueueAlloc(c, e) PROVE C'
  BY <1>1 DEF EnqueueAlloc
<1>2. ASSUME NEW c \in Caller, EnqueueLock(c) PROVE C'
  BY <1>2 DEF EnqueueLock, Acquire
<1>3. ASSUME NEW c \in Caller, EnqueueAppend(c) PROVE C'
  <2>1. lock = c /\ mainpc = "run" /\ ~stop /\ alpc # "done" /\ alpc # "test"
    BY <1>3 DEF EnqueueAppend
  <2>2. alpc' # "wait" /\ alpc' # "test" /\ alpc' # "done" /\ (alpc = "handler" => alpc' = "handler")
    BY <1>3, <2>1 DEF EnqueueAppend, Signalled
  <2> QED
    BY <1>3, <2>1, <2>2 DEF EnqueueAppend, Release
<1>4. CASE AlLock
  BY <1>4 DEF AlLock, Acquire
<1>5. CASE AlWait
  BY <1>5 DEF AlWait, MayWait, Release
<1>6. CASE AlSpuriousWakeup
  BY <1>6 DEF AlSpuriousWakeup
<1>7. CASE AlTake
  BY <1>7 DEF AlTake, Release
<1>8. CASE AlHandled
  BY <1>8 DEF AlHandled
<1>9. CASE AlExit
  BY <1>9 DEF AlExit, LoopEnds, Release
<1>10. CASE Start
  BY <1>10 DEF Start, MainGoes
<1>11. CASE DeleteParticipant
  BY <1>11 DEF DeleteParticipant, MainGoes, NoListener
<1>12. CASE StopLock
  BY <1>12 DEF StopLock, MainGoes, Acquire
<1>13. CASE StopSignal
  <2>1. lock = Main /\ alpc # "test" /\ \A c \in Caller : epc[c] = "idle"
    BY <1>13 DEF StopSignal, MainGoes
  <2>2. alpc' # "wait" /\ alpc' # "test" /\ (alpc' = "done" => alpc = "done")
    BY <1>13, <2>1 DEF StopSignal, Signalled
  <2>3. lock' = NoThread /\ stop' /\ mainpc' = "join" /\ epc' = epc /\ oldest' = oldest
    BY <1>13 DEF StopSignal, MainGoes, Release
  <2> QED
    BY <2>1, <2>2, <2>3
<1>14. CASE Join \/ Finished \/ UNCHANGED vars
  BY <1>14 DEF Join, Finished, MainGoes
<1> QED
  BY <1>1, <1>2, <1>3, <1>4, <1>5, <1>6, <1>7, <1>8, <1>9, <1>10, <1>11, <1>12, <1>13, <1>14
     DEF Next, Enqueue

\* The actions that touch neither the list, the nodes nor their owners.
LEMMA NodeFrame ==
  IInv /\ [Next]_vars =>
    \/ \E c \in Caller : (\E e \in Event : EnqueueAlloc(c, e)) \/ EnqueueAppend(c)
    \/ AlTake \/ AlHandled
    \/ /\ UNCHANGED <<event, next, allocated, oldest, latest, fifo, cur, enode, posted, handled>>
       /\ Inserting' = Inserting
       /\ alpc' = "handler" <=> alpc = "handler"
<1> SUFFICES ASSUME IInv, [Next]_vars,
                    ~ \E c \in Caller : (\E e \in Event : EnqueueAlloc(c, e)) \/ EnqueueAppend(c),
                    ~ AlTake, ~ AlHandled
             PROVE  /\ UNCHANGED <<event, next, allocated, oldest, latest, fifo, cur, enode,
                                   posted, handled>>
                    /\ Inserting' = Inserting
                    /\ alpc' = "handler" <=> alpc = "handler"
  OBVIOUS
<1> USE DEF vars, heapVars, listVars, alVars, callVars, Inserting
<1>1. CASE \E c \in Caller : EnqueueLock(c)
  BY <1>1 DEF EnqueueLock, IInv, TypeOK
<1>2. CASE AlLock \/ AlWait \/ AlSpuriousWakeup \/ AlExit
  BY <1>2 DEF AlLock, AlWait, AlSpuriousWakeup, AlExit
<1>3. CASE Start \/ DeleteParticipant \/ StopLock \/ StopSignal \/ Join \/ Finished
  <2>1. mainpc = "new" => alpc # "handler"
    BY DEF IInv, ControlInv
  <2> QED
    BY <1>3, <2>1 DEF Start, DeleteParticipant, StopLock, StopSignal, Join, Finished, MainGoes,
                 Signalled
<1>4. CASE UNCHANGED vars
  BY <1>4
<1> QED
  BY <1>1, <1>2, <1>3, <1>4 DEF Next, Enqueue

\* What linking a node does.
LEMMA AppendFacts ==
  ASSUME IInv, NEW c \in Caller, EnqueueAppend(c)
  PROVE  /\ c \in Inserting
         /\ enode[c] \in Node /\ enode[c] \in allocated /\ enode[c] \notin Linked
         /\ event[enode[c]] \in Event
         /\ UNCHANGED <<event, allocated, cur, handled>>
         /\ Inserting' = Inserting \ {c}
         /\ \A d \in Inserting \ {c} : enode'[d] = enode[d]
         /\ alpc' = "handler" <=> alpc = "handler"
         /\ Len(fifo) \in Nat /\ DOMAIN fifo = 1 .. Len(fifo)
         /\ Len(fifo') = Len(fifo) + 1 /\ DOMAIN fifo' = 1 .. Len(fifo) + 1 /\ fifo' # <<>>
         /\ \A i \in 1 .. Len(fifo) : fifo'[i] = fifo[i]
         /\ fifo'[Len(fifo) + 1] = enode[c]
         /\ Len(posted) \in Nat /\ Len(posted') = Len(posted) + 1
         /\ \A i \in 1 .. Len(posted) : posted'[i] = posted[i]
         /\ posted'[Len(posted) + 1] = event[enode[c]]
<1> USE DEF IInv, TypeOK
<1>1. c \in Inserting
  BY DEF EnqueueAppend, Inserting
<1>2. enode[c] \in Node /\ enode[c] \in allocated /\ enode[c] \notin Linked
  BY <1>1 DEF NodesOwnedOnce
<1>3. event[enode[c]] \in Event
  BY <1>2
<1>4. Inserting' = Inserting \ {c}
  BY DEF EnqueueAppend, Inserting
<1>5. \A d \in Inserting \ {c} : enode'[d] = enode[d]
  BY DEF EnqueueAppend, Inserting
<1>6. alpc' = "handler" <=> alpc = "handler"
  BY DEF EnqueueAppend, Signalled
<1>7. UNCHANGED <<event, allocated, cur, handled>>
  BY DEF EnqueueAppend
<1>8. fifo' = Append(fifo, enode[c]) /\ posted' = Append(posted, event[enode[c]])
  BY DEF EnqueueAppend
<1>9. /\ Len(fifo) \in Nat /\ DOMAIN fifo = 1 .. Len(fifo)
      /\ Len(fifo') = Len(fifo) + 1 /\ DOMAIN fifo' = 1 .. Len(fifo) + 1 /\ fifo' # <<>>
      /\ \A i \in 1 .. Len(fifo) : fifo'[i] = fifo[i]
      /\ fifo'[Len(fifo) + 1] = enode[c]
  <2> HIDE DEF IInv
  <2>1. fifo \in Seq(Node)
    BY DEF IInv
  <2>2. /\ fifo' \in Seq(Node) /\ Len(fifo) \in Nat /\ Len(fifo') = Len(fifo) + 1
        /\ \A i \in 1 .. Len(fifo) : fifo'[i] = fifo[i]
        /\ fifo'[Len(fifo) + 1] = enode[c] /\ fifo' # <<>>
    BY <1>2, <1>8, <2>1, AppendFifo
  <2>3. DOMAIN fifo = 1 .. Len(fifo) /\ DOMAIN fifo' = 1 .. Len(fifo')
    BY <2>1, <2>2, LenProperties
  <2> QED
    BY <2>2, <2>3
<1>10. /\ Len(posted) \in Nat /\ Len(posted') = Len(posted) + 1
       /\ \A i \in 1 .. Len(posted) : posted'[i] = posted[i]
       /\ posted'[Len(posted) + 1] = event[enode[c]]
  BY <1>3, <1>8, AppendFifo
<1> QED
  BY <1>1, <1>2, <1>3, <1>4, <1>5, <1>6, <1>7, <1>9, <1>10

\* What popping a node does.
LEMMA TakeFacts ==
  ASSUME IInv, AlTake
  PROVE  /\ oldest = fifo[1] /\ cur' = fifo[1] /\ oldest' = next[fifo[1]]
         /\ alpc # "handler" /\ alpc' = "handler"
         /\ UNCHANGED <<event, next, allocated, latest, epc, enode, posted, handled>>
         /\ Inserting' = Inserting
         /\ Len(fifo) \in Nat \ {0} /\ DOMAIN fifo = 1 .. Len(fifo) /\ fifo # <<>>
         /\ Len(fifo') = Len(fifo) - 1 /\ DOMAIN fifo' = 1 .. Len(fifo) - 1
         /\ \A i \in 1 .. Len(fifo) - 1 : fifo'[i] = fifo[i + 1]
         /\ fifo' = <<>> <=> Len(fifo) = 1
<1> USE DEF IInv
<1>1. fifo' = Tail(fifo) /\ oldest # NoNode
  BY DEF AlTake
<1>2. /\ fifo # <<>> /\ oldest = fifo[1] /\ Len(fifo) \in Nat \ {0}
      /\ fifo' \in Seq(Node) /\ Len(fifo') = Len(fifo) - 1
      /\ \A i \in 1 .. Len(fifo) - 1 : fifo'[i] = fifo[i + 1]
  BY <1>1, TailFifo
<1>3. DOMAIN fifo = 1 .. Len(fifo) /\ DOMAIN fifo' = 1 .. Len(fifo) - 1
  BY <1>2, LenProperties DEF TypeOK
<1>4. fifo' = <<>> <=> Len(fifo') = 0
  BY <1>2, EmptySeq
<1>5. /\ cur' = fifo[1] /\ oldest' = next[fifo[1]] /\ alpc = "test" /\ alpc' = "handler"
      /\ UNCHANGED <<event, next, allocated, latest, epc, enode, posted, handled>>
  BY <1>2 DEF AlTake, Popped, heapVars, callVars
<1>6. Inserting' = Inserting
  BY <1>5 DEF Inserting
<1> QED
  BY <1>2, <1>3, <1>4, <1>5, <1>6

LEMMA NodesStep == IInv /\ [Next]_vars => (NodesOwnedOnce /\ NoLeak)'
<1> DEFINE N == NodesOwnedOnce /\ NoLeak
<1> SUFFICES ASSUME IInv, [Next]_vars PROVE N'
  OBVIOUS
<1>1. ASSUME NEW c \in Caller, NEW e \in Event, EnqueueAlloc(c, e) PROVE N'
  <2>1. PICK n \in Node \ allocated :
           allocated' = allocated \cup {n} /\ enode' = [enode EXCEPT ![c] = n]
    BY <1>1 DEF EnqueueAlloc
  <2>2. /\ UNCHANGED <<fifo, alpc, cur>>
        /\ Inserting' = Inserting \cup {c} /\ c \notin Inserting
        /\ enode'[c] = n
        /\ \A d \in Inserting : enode'[d] = enode[d]
    BY <1>1, <2>1 DEF EnqueueAlloc, Inserting, IInv, TypeOK, listVars, alVars
  <2>3. Linked' = Linked
    BY <2>2 DEF Linked
  <2>4. NodesOwnedOnce'
    BY <2>1, <2>2, <2>3 DEF NodesOwnedOnce, IInv
  <2>5. NoLeak'
    BY <2>1, <2>2, <2>3 DEF NoLeak, IInv
  <2> QED
    BY <2>4, <2>5
<1>2. ASSUME NEW c \in Caller, EnqueueAppend(c) PROVE N'
  <2> DEFINE n == enode[c]
  <2>1. Linked' = Linked \cup {n}
    <3>1. Linked = {fifo[i] : i \in 1 .. Len(fifo)}
      BY <1>2, AppendFacts DEF Linked
    <3>2. Linked' = {fifo'[i] : i \in 1 .. Len(fifo) + 1}
      BY <1>2, AppendFacts DEF Linked
    <3>3. \A i \in 1 .. Len(fifo) + 1 : i \in 1 .. Len(fifo) \/ i = Len(fifo) + 1
      BY <1>2, AppendFacts
    <3>4. \A i \in 1 .. Len(fifo) : i \in 1 .. Len(fifo) + 1
      BY <1>2, AppendFacts
    <3>5. Len(fifo) + 1 \in 1 .. Len(fifo) + 1
      BY <1>2, AppendFacts
    <3>6. (\A i \in 1 .. Len(fifo) : fifo'[i] = fifo[i]) /\ fifo'[Len(fifo) + 1] = n
      BY <1>2, AppendFacts
    <3> QED
      BY <3>1, <3>2, <3>3, <3>4, <3>5, <3>6
  <2>2. \A i, j \in 1 .. Len(fifo') : i # j => fifo'[i] # fifo'[j]
    <3>1. /\ Len(fifo') = Len(fifo) + 1 /\ Len(fifo) \in Nat
          /\ \A i \in 1 .. Len(fifo) : fifo'[i] = fifo[i]
          /\ fifo'[Len(fifo) + 1] = n
      BY <1>2, AppendFacts
    <3>2. \A i \in 1 .. Len(fifo) : fifo[i] # n
      BY <1>2, AppendFacts DEF Linked
    <3> QED
      BY <3>1, <3>2 DEF IInv, NodesOwnedOnce
  <2>3. NodesOwnedOnce'
    <3>1. Linked' \subseteq allocated'
      BY <1>2, <2>1, AppendFacts DEF IInv, NodesOwnedOnce
    <3>2. (alpc = "handler" => cur \in allocated \ Linked)'
      BY <1>2, <2>1, AppendFacts DEF IInv, NodesOwnedOnce
    <3>3. \A d \in Inserting' : /\ enode'[d] \in allocated' \ Linked'
                                /\ (alpc' = "handler" => enode'[d] # cur')
                                /\ \A b \in Inserting' \ {d} : enode'[d] # enode'[b]
      BY <1>2, <2>1, AppendFacts DEF IInv, NodesOwnedOnce
    <3> QED
      BY <2>2, <3>1, <3>2, <3>3 DEF NodesOwnedOnce
  <2>4. NoLeak'
    BY <1>2, <2>1, AppendFacts DEF NoLeak, IInv
  <2> QED
    BY <2>3, <2>4
<1>3. CASE AlTake
  <2>1. Linked' = Linked \ {fifo[1]} /\ fifo[1] \in Linked
    <3>1. \A i \in 1 .. Len(fifo) : i # 1 => fifo[i] # fifo[1]
      BY <1>3, TakeFacts DEF IInv, NodesOwnedOnce
    <3>2. \A i \in 1 .. Len(fifo) : i # 1 =>
            i - 1 \in 1 .. Len(fifo) - 1 /\ fifo[i] = fifo'[i - 1]
      BY <1>3, TakeFacts
    <3>3. \A i \in 1 .. Len(fifo) - 1 :
            i + 1 \in 1 .. Len(fifo) /\ i + 1 # 1 /\ fifo'[i] = fifo[i + 1]
      BY <1>3, TakeFacts
    <3>4. 1 \in 1 .. Len(fifo)
      BY <1>3, TakeFacts
    <3>5. Linked = {fifo[i] : i \in 1 .. Len(fifo)}
      BY <1>3, TakeFacts DEF Linked
    <3>6. Linked' = {fifo'[i] : i \in 1 .. Len(fifo) - 1}
      BY <1>3, TakeFacts DEF Linked
    <3>7. Linked' \subseteq Linked \ {fifo[1]}
      BY <3>1, <3>3, <3>5, <3>6
    <3>8. Linked \ {fifo[1]} \subseteq Linked'
      BY <3>2, <3>5, <3>6
    <3> QED
      BY <3>4, <3>5, <3>7, <3>8
  <2>2. \A i, j \in 1 .. Len(fifo') : i # j => fifo'[i] # fifo'[j]
    BY <1>3, TakeFacts DEF IInv, NodesOwnedOnce
  <2>3. NodesOwnedOnce'
    BY <1>3, <2>1, <2>2, TakeFacts DEF IInv, NodesOwnedOnce
  <2>4. NoLeak'
    BY <1>3, <2>1, TakeFacts DEF IInv, NoLeak
  <2> QED
    BY <2>3, <2>4
<1>4. CASE AlHandled
  <2>1. /\ UNCHANGED <<fifo, enode>> /\ allocated' = allocated \ {cur}
        /\ alpc = "handler" /\ alpc' = "lock" /\ Inserting' = Inserting /\ Linked' = Linked
    BY <1>4 DEF AlHandled, listVars, callVars, Inserting, Linked
  <2> QED
    BY <2>1 DEF IInv, NodesOwnedOnce, NoLeak
<1>5. CASE /\ UNCHANGED <<allocated, fifo, cur, enode>> /\ Inserting' = Inserting
           /\ alpc' = "handler" <=> alpc = "handler"
  <2>1. Linked' = Linked
    BY <1>5 DEF Linked
  <2> QED
    BY <1>5, <2>1 DEF IInv, NodesOwnedOnce, NoLeak
<1> QED
  BY <1>1, <1>2, <1>3, <1>4, <1>5, NodeFrame

LEMMA ListStep == IInv /\ [Next]_vars => ListIsFifo'
<1> SUFFICES ASSUME IInv, [Next]_vars PROVE ListIsFifo'
  OBVIOUS
<1>0. fifo \in Seq(Node) /\ Len(fifo) \in Nat /\ DOMAIN fifo = 1 .. Len(fifo)
  BY LenProperties DEF IInv, TypeOK
<1>1. ASSUME NEW c \in Caller, NEW e \in Event, EnqueueAlloc(c, e) PROVE ListIsFifo'
  <2>1. PICK n \in Node \ allocated : next' = [next EXCEPT ![n] = NoNode]
    BY <1>1 DEF EnqueueAlloc
  <2>2. \A i \in 1 .. Len(fifo) : next'[fifo[i]] = next[fifo[i]]
    BY <1>0, <2>1 DEF IInv, TypeOK, NodesOwnedOnce, Linked
  <2> QED
    BY <1>1, <2>2 DEF EnqueueAlloc, listVars, IInv, ListIsFifo
<1>2. ASSUME NEW c \in Caller, EnqueueAppend(c) PROVE ListIsFifo'
  <2> DEFINE n == enode[c]
  <2>1. /\ Len(fifo') = Len(fifo) + 1 /\ Len(fifo) \in Nat /\ fifo' # <<>>
        /\ \A i \in 1 .. Len(fifo) : fifo'[i] = fifo[i]
        /\ fifo'[Len(fifo) + 1] = n
    BY <1>2, AppendFacts
  <2>2. n \in Node /\ \A i \in 1 .. Len(fifo) : fifo[i] # n
    BY <1>0, <1>2, AppendFacts DEF Linked
  <2>3. CASE oldest = NoNode
    <3>1. fifo = <<>> /\ Len(fifo) = 0
      <4>1. fifo # <<>> => fifo[1] \in Node
        BY <1>0, EmptySeq
      <4> QED
        BY <2>3, <4>1, DataAssumption DEF IInv, ListIsFifo
    <3>2. oldest' = n /\ latest' = n /\ next'[n] = NoNode
      BY <1>2, <2>2, <2>3 DEF EnqueueAppend, HasTail, IInv, TypeOK
    <3> QED
      BY <2>1, <3>1, <3>2 DEF ListIsFifo
  <2>4. CASE oldest # NoNode
    <3>1. /\ fifo # <<>> /\ oldest = fifo[1] /\ latest = fifo[Len(fifo)] /\ Len(fifo) > 0
          /\ latest \in Node
      <4>1. fifo # <<>> /\ oldest = fifo[1] /\ latest = fifo[Len(fifo)]
        BY <2>4 DEF IInv, ListIsFifo
      <4>2. Len(fifo) > 0
        BY <1>0, <4>1, EmptySeq
      <4> QED
        BY <1>0, <4>1, <4>2
    <3>2. oldest' = oldest /\ latest' = n
      BY <1>2, <2>4 DEF EnqueueAppend, HasTail
    <3>3. /\ next'[latest] = n /\ next'[n] = NoNode
          /\ \A m \in Node \ {latest, n} : next'[m] = next[m]
      BY <1>2, <2>2, <2>4, <3>1, <1>0 DEF EnqueueAppend, HasTail, IInv, TypeOK
    <3>4. \A i \in 1 .. Len(fifo) - 1 : fifo[i] \in Node \ {latest, n}
      BY <1>0, <2>2, <3>1 DEF IInv, NodesOwnedOnce
    <3>5. \A i \in 1 .. Len(fifo) - 1 : next'[fifo[i]] = fifo'[i + 1]
      BY <2>1, <3>3, <3>4 DEF IInv, ListIsFifo
    <3>6. next'[fifo[Len(fifo)]] = fifo'[Len(fifo) + 1]
      BY <2>1, <3>1, <3>3
    <3>7. \A i \in 1 .. Len(fifo') :
            next'[fifo'[i]] = IF i = Len(fifo') THEN NoNode ELSE fifo'[i + 1]
      BY <2>1, <3>3, <3>5, <3>6
    <3> QED
      BY <2>1, <3>1, <3>2, <3>7 DEF ListIsFifo
  <2> QED
    BY <2>3, <2>4
<1>3. CASE AlTake
  <2> DEFINE k == Len(fifo)
  <2>1. /\ next[fifo[1]] = IF 1 = k THEN NoNode ELSE fifo[2]
        /\ latest = fifo[k]
        /\ \A i \in 1 .. k : next[fifo[i]] = IF i = k THEN NoNode ELSE fifo[i + 1]
    BY <1>3, TakeFacts DEF IInv, ListIsFifo
  <2>2. k # 1 => fifo'[1] = fifo[2] /\ fifo'[k - 1] = fifo[k]
    BY <1>3, TakeFacts
  <2>0. k \in Nat \ {0}
    BY <1>3, TakeFacts
  <2> HIDE DEF k
  <2>3. \A i \in 1 .. k - 1 : next[fifo[i + 1]] = IF i = k - 1 THEN NoNode ELSE fifo[i + 2]
    <3> SUFFICES ASSUME NEW i \in 1 .. k - 1
                 PROVE  next[fifo[i + 1]] = IF i = k - 1 THEN NoNode ELSE fifo[i + 2]
      OBVIOUS
    <3>1. i + 1 \in 1 .. k /\ (i + 1) + 1 = i + 2 /\ (i + 1 = k <=> i = k - 1)
      BY <2>0
    <3> QED
      BY <2>1, <3>1
  <2>4. \A i \in 1 .. k - 1 : i # k - 1 => fifo'[i + 1] = fifo[i + 2]
    <3> SUFFICES ASSUME NEW i \in 1 .. k - 1, i # k - 1 PROVE fifo'[i + 1] = fifo[i + 2]
      OBVIOUS
    <3>1. i + 1 \in 1 .. k - 1 /\ (i + 1) + 1 = i + 2
      BY <2>0
    <3> QED
      BY <1>3, <3>1, TakeFacts DEF k
  <2>5. \A i \in 1 .. Len(fifo') :
          next'[fifo'[i]] = IF i = Len(fifo') THEN NoNode ELSE fifo'[i + 1]
    <3>1. Len(fifo') = k - 1 /\ next' = next /\ \A i \in 1 .. k - 1 : fifo'[i] = fifo[i + 1]
      BY <1>3, TakeFacts DEF k
    <3> QED
      BY <2>0, <2>3, <2>4, <3>1
  <2> QED
    BY <1>3, <2>0, <2>1, <2>2, <2>5, TakeFacts DEF ListIsFifo, k
<1>4. CASE AlHandled
  BY <1>4 DEF AlHandled, listVars, IInv, ListIsFifo
<1>5. CASE UNCHANGED <<next, oldest, latest, fifo>>
  BY <1>5 DEF IInv, ListIsFifo
<1> QED
  BY <1>1, <1>2, <1>3, <1>4, <1>5, NodeFrame

LEMMA HistoryStep == IInv /\ [Next]_vars => ExactlyOnceInOrder'
<1> SUFFICES ASSUME IInv, [Next]_vars PROVE ExactlyOnceInOrder'
  OBVIOUS
<1> DEFINE h == Len(handled)
           k == Len(fifo)
           busy == IF alpc = "handler" THEN 1 ELSE 0
<1>0. /\ h \in Nat /\ k \in Nat /\ busy \in {0, 1} /\ DOMAIN fifo = 1 .. k
      /\ handled \in Seq(Event) /\ fifo \in Seq(Node)
      /\ busy = IF alpc = "handler" THEN 1 ELSE 0
  BY LenProperties DEF IInv, TypeOK
<1>1. /\ Len(posted) = h + busy + k
      /\ \A i \in 1 .. h : handled[i] = posted[i]
      /\ alpc = "handler" => event[cur] = posted[h + 1]
      /\ \A i \in 1 .. k : event[fifo[i]] = posted[h + busy + i]
  BY DEF IInv, ExactlyOnceInOrder
<1> HIDE DEF h, k, busy
<1>2. ASSUME NEW c \in Caller, NEW e \in Event, EnqueueAlloc(c, e) PROVE ExactlyOnceInOrder'
  <2>1. PICK n \in Node \ allocated : event' = [event EXCEPT ![n] = e]
    BY <1>2 DEF EnqueueAlloc
  <2>2. event \in [Node -> Event] /\ Linked \subseteq allocated /\ allocated \subseteq Node
        /\ (alpc = "handler" => cur \in allocated)
    BY DEF IInv, TypeOK, NodesOwnedOnce
  <2>3. \A m \in allocated : event'[m] = event[m]
    BY <2>2, <2>1
  <2>4. \A i \in 1 .. k : event'[fifo[i]] = event[fifo[i]]
    <3>1. \A i \in 1 .. k : fifo[i] \in Linked
      BY <1>0 DEF Linked
    <3> QED
      BY <2>2, <2>3, <3>1
  <2>5. alpc = "handler" => event'[cur] = event[cur]
    BY <2>2, <2>3
  <2> QED
    BY <1>1, <1>2, <2>4, <2>5 DEF EnqueueAlloc, listVars, alVars, ExactlyOnceInOrder, h, k, busy
<1>3. ASSUME NEW c \in Caller, EnqueueAppend(c) PROVE ExactlyOnceInOrder'
  <2>1. /\ UNCHANGED <<handled, event, cur>> /\ (alpc' = "handler" <=> alpc = "handler")
        /\ Len(fifo') = k + 1 /\ Len(posted') = h + busy + k + 1
        /\ \A i \in 1 .. k : fifo'[i] = fifo[i]
        /\ fifo'[k + 1] = enode[c]
        /\ \A i \in 1 .. h + busy + k : posted'[i] = posted[i]
        /\ posted'[h + busy + k + 1] = event[enode[c]]
    BY <1>1, <1>3, AppendFacts DEF k
  <2>2. \A i \in 1 .. h : i \in 1 .. h + busy + k
    BY <1>0
  <2>3. alpc = "handler" => h + 1 \in 1 .. h + busy + k
    BY <1>0
  <2>4. \A i \in 1 .. k : h + busy + i \in 1 .. h + busy + k
    BY <1>0
  <2>5. \A i \in 1 .. k + 1 : event'[fifo'[i]] = posted'[h + busy + i]
    <3>1. \A i \in 1 .. k + 1 : i \in 1 .. k \/ i = k + 1
      BY <1>0
    <3>2. h + busy + (k + 1) = h + busy + k + 1
      BY <1>0
    <3> QED
      BY <1>1, <2>1, <2>4, <3>1, <3>2
  <2>6. Len(posted') = h + busy + Len(fifo') /\ Len(handled') = h
    <3>1. h + busy + k + 1 = h + busy + (k + 1)
      BY <1>0
    <3> QED
      BY <2>1, <3>1 DEF h
  <2>7. \A i \in 1 .. Len(handled') : handled'[i] = posted'[i]
    BY <1>1, <2>1, <2>2, <2>6
  <2>8. (alpc = "handler" => event[cur] = posted[Len(handled) + 1])'
    BY <1>1, <2>1, <2>3, <2>6
  <2> QED
    BY <1>0, <2>1, <2>5, <2>6, <2>7, <2>8 DEF ExactlyOnceInOrder, h
<1>4. CASE AlTake
  <2>1. /\ busy = 0 /\ alpc' = "handler" /\ UNCHANGED <<event, posted, handled>>
        /\ cur' = fifo[1] /\ k # 0 /\ Len(fifo') = k - 1
        /\ \A i \in 1 .. k - 1 : fifo'[i] = fifo[i + 1]
    BY <1>0, <1>4, TakeFacts DEF k
  <2>2. Len(posted') = h + 1 + Len(fifo')
    <3>1. h + 0 + k = h + 1 + (k - 1)
      BY <1>0
    <3> QED
      BY <1>1, <2>1, <3>1
  <2>3. event'[cur'] = posted'[h + 1]
    <3>1. 1 \in 1 .. k /\ h + busy + 1 = h + 1
      BY <1>0, <2>1
    <3> QED
      BY <1>1, <2>1, <3>1
  <2>4. \A i \in 1 .. k - 1 : event'[fifo'[i]] = posted'[h + 1 + i]
    <3> SUFFICES ASSUME NEW i \in 1 .. k - 1 PROVE event[fifo[i + 1]] = posted[h + 1 + i]
      BY <2>1
    <3>1. i + 1 \in 1 .. k /\ h + busy + (i + 1) = h + 1 + i
      BY <1>0, <2>1
    <3> QED
      BY <1>1, <3>1
  <2> QED
    BY <1>1, <2>1, <2>2, <2>3, <2>4 DEF ExactlyOnceInOrder, h
<1>5. CASE AlHandled
  <2>1. /\ busy = 1 /\ alpc' = "lock" /\ UNCHANGED <<event, posted, fifo>>
        /\ handled' = Append(handled, event[cur]) /\ event[cur] \in Event
        /\ event[cur] = posted[h + 1]
    BY <1>0, <1>1, <1>5 DEF AlHandled, listVars, callVars, IInv, TypeOK, NodesOwnedOnce
  <2>2. /\ Len(handled') = h + 1
        /\ \A i \in 1 .. h : handled'[i] = handled[i]
        /\ handled'[h + 1] = posted[h + 1]
    BY <1>0, <2>1, AppendFifo DEF h
  <2>3. \A i \in 1 .. h + 1 : handled'[i] = posted'[i]
    BY <1>0, <1>1, <2>1, <2>2
  <2>4. Len(posted') = Len(handled') + 0 + Len(fifo')
    BY <1>0, <1>1, <2>1, <2>2 DEF k
  <2>5. \A i \in 1 .. k : event'[fifo'[i]] = posted'[Len(handled') + 0 + i]
    BY <1>0, <1>1, <2>1, <2>2
  <2> QED
    BY <2>1, <2>2, <2>3, <2>4, <2>5 DEF ExactlyOnceInOrder, k
<1>6. CASE /\ UNCHANGED <<event, fifo, cur, posted, handled>>
           /\ alpc' = "handler" <=> alpc = "handler"
  BY <1>1, <1>6 DEF ExactlyOnceInOrder, h, k, busy
<1> QED
  BY <1>2, <1>3, <1>4, <1>5, <1>6, NodeFrame

\* The invariant is inductive.
LEMMA EventsStep == IInv /\ [Next]_vars => EventsDistinct'
<1> SUFFICES ASSUME IInv, [Next]_vars PROVE EventsDistinct'
  OBVIOUS
<1>1. ASSUME NEW c \in Caller, NEW e \in Event, EnqueueAlloc(c, e) PROVE EventsDistinct'
  <2>1. PICK n \in Node \ allocated :
           event' = [event EXCEPT ![n] = e] /\ enode' = [enode EXCEPT ![c] = n]
    BY <1>1 DEF EnqueueAlloc
  <2>2. /\ posted' = posted
        /\ Inserting' = Inserting \cup {c} /\ c \notin Inserting
        /\ enode'[c] = n /\ event'[n] = e
        /\ \A d \in Inserting : enode'[d] = enode[d]
    BY <1>1, <2>1 DEF EnqueueAlloc, Inserting, IInv, TypeOK
  <2>3. \A d \in Inserting : event'[enode[d]] = event[enode[d]]
    BY <2>1 DEF IInv, TypeOK, NodesOwnedOnce
  <2>4. /\ \A d \in Inserting : event[enode[d]] # e
        /\ \A i \in 1 .. Len(posted) : posted[i] # e
    <3>1. e \notin Used
      BY <1>1 DEF EnqueueAlloc
    <3>2. DOMAIN posted = 1 .. Len(posted)
      BY LenProperties DEF IInv, TypeOK
    <3> QED
      BY <3>1, <3>2 DEF Used, Inserting
  <2>5. \A d \in Inserting' : d = c \/ d \in Inserting
    BY <2>2
  <2> QED
    BY <2>2, <2>3, <2>4, <2>5 DEF EventsDistinct, IInv
<1>2. ASSUME NEW c \in Caller, EnqueueAppend(c) PROVE EventsDistinct'
  <2> DEFINE e == event[enode[c]]
  <2>1. /\ event' = event /\ c \in Inserting /\ Inserting' = Inserting \ {c}
        /\ \A d \in Inserting \ {c} : enode'[d] = enode[d]
    BY <1>2, AppendFacts
  <2>2. /\ Len(posted) \in Nat /\ Len(posted') = Len(posted) + 1
        /\ \A i \in 1 .. Len(posted) : posted'[i] = posted[i]
        /\ posted'[Len(posted) + 1] = e
    BY <1>2, AppendFacts
  <2>3. \A i \in 1 .. Len(posted') : i \in 1 .. Len(posted) \/ i = Len(posted) + 1
    BY <2>2
  <2>4. /\ \A i \in 1 .. Len(posted) : posted[i] # e
        /\ \A d \in Inserting \ {c} : event[enode[d]] # e
        /\ EventsDistinct
    BY <2>1 DEF EventsDistinct, IInv
  <2> HIDE DEF e
  <2>5. \A i, j \in 1 .. Len(posted') : i # j => posted'[i] # posted'[j]
    BY <2>2, <2>3, <2>4 DEF EventsDistinct
  <2>6. \A d \in Inserting' : \A i \in 1 .. Len(posted') : posted'[i] # event'[enode'[d]]
    BY <2>1, <2>2, <2>3, <2>4 DEF EventsDistinct
  <2>7. \A b, d \in Inserting' : b # d => event'[enode'[b]] # event'[enode'[d]]
    BY <2>1, <2>4 DEF EventsDistinct
  <2> QED
    BY <2>5, <2>6, <2>7 DEF EventsDistinct
<1>3. ASSUME UNCHANGED <<event, enode, posted>>, Inserting' = Inserting PROVE EventsDistinct'
  BY <1>3 DEF EventsDistinct, IInv
<1>4. CASE AlTake \/ AlHandled
  BY <1>3, <1>4 DEF AlTake, AlHandled, heapVars, callVars, Inserting
<1> QED
  BY <1>1, <1>2, <1>3, <1>4, NodeFrame

LEMMA NextIInv == IInv /\ [Next]_vars => IInv'
  BY TypeStep, ControlStep, NodesStep, ListStep, HistoryStep, EventsStep DEF IInv

LEMMA SpecIInv == Spec => []IInv
  BY InitIInv, NextIInv, PTL DEF Spec

\* Every variable keeps the type of the field, pointer or program counter it stands for.
THEOREM TypeCorrect == Spec => []TypeOK
<1>1. IInv => TypeOK
  BY DEF IInv
<1> QED
  BY <1>1, SpecIInv, PTL

\* Whatever the callers and the heap, no two threads are in a critical section at once.
THEOREM Exclusion == Spec => []MutualExclusion
<1>1. IInv => MutualExclusion
  BY DEF IInv
<1> QED
  BY <1>1, SpecIInv, PTL

\* The linked list of async_listener.c is always the FIFO of the events enqueued and not
\* yet popped: `oldest`, the `next` of each node and `latest` spell it.
THEOREM ListCorrect == Spec => []ListIsFifo
<1>1. IInv => ListIsFifo
  BY DEF IInv
<1> QED
  BY <1>1, SpecIInv, PTL

\* Every node in use has one owner, the list, a caller or the handler: none is used after
\* free or by two of them, however the heap hands out blocks again.
THEOREM OwnedOnce == Spec => []NodesOwnedOnce
<1>1. IInv => NodesOwnedOnce
  BY DEF IInv
<1> QED
  BY <1>1, SpecIInv, PTL

\* However many events are enqueued, from however many threads, the handlers run once
\* per event and in the order of the enqueue calls.
THEOREM OnceInOrder == Spec => []ExactlyOnceInOrder
<1>1. IInv => ExactlyOnceInOrder
  BY DEF IInv
<1> QED
  BY <1>1, SpecIInv, PTL

\* The al thread never blocks while there is an event to handle or the queue is stopped.
THEOREM WakeupNeverLost == Spec => []NoLostWakeup
<1>1. IInv => NoLostWakeup
  BY DEF IInv
<1> QED
  BY <1>1, SpecIInv, PTL

\* Neither assertion of async_listener.c can fail.
THEOREM AssertionsNeverFail == Spec => []AssertionsHold
<1>1. IInv => AssertionsHold
  BY DEF IInv, ControlInv, AssertionsHold, TypeOK
<1> QED
  BY <1>1, SpecIInv, PTL

\* When async_listener_stop returns every event has been handled and no node is leaked.
THEOREM StopDrains == Spec => []DrainedWhenJoined
<1>1. IInv => DrainedWhenJoined
  <2> SUFFICES ASSUME IInv, mainpc = "joined"
               PROVE  handled = posted /\ allocated = {} /\ lock = NoThread
    BY DEF DrainedWhenJoined
  <2>1. alpc = "done" /\ oldest = NoNode /\ Inserting = {}
    BY DEF IInv, ControlInv, Inserting
  <2>2. fifo = <<>>
    <3>1. fifo # <<>> => oldest = fifo[1] /\ fifo[1] \in Node
      BY EmptySeq DEF IInv, ListIsFifo, TypeOK
    <3> QED
      BY <2>1, <3>1, DataAssumption
  <2>3. handled = posted
    <3>1. handled \in Seq(Event) /\ posted \in Seq(Event) /\ Len(handled) \in Nat
      BY LenProperties DEF IInv, TypeOK
    <3>2. Len(posted) = Len(handled) /\ \A i \in 1 .. Len(handled) : handled[i] = posted[i]
      BY <2>1, <2>2, <3>1 DEF IInv, ExactlyOnceInOrder
    <3> QED
      BY <3>1, <3>2, SeqEqual
  <2>4. Linked = {}
    BY <2>2 DEF Linked
  <2>5. allocated = {}
    BY <2>1, <2>4 DEF IInv, NoLeak
  <2>6. lock = NoThread
    BY <2>1 DEF IInv, ControlInv
  <2> QED
    BY <2>3, <2>5, <2>6
<1> QED
  BY <1>1, SpecIInv, PTL

----------------------------------------------------------------------------
(* The steps of the threads are steps of the abstract queue, or none at all. *)

\* The events of the linked nodes, as a sequence.
LEMMA PendingIs ==
  IInv => /\ Pending \in Seq(Event)
          /\ Len(Pending) = Len(fifo) /\ Len(fifo) \in Nat
          /\ DOMAIN Pending = 1 .. Len(fifo)
          /\ \A i \in 1 .. Len(fifo) : fifo[i] \in Node /\ Pending[i] = event[fifo[i]]
<1> SUFFICES ASSUME IInv
             PROVE  /\ Pending \in Seq(Event)
                    /\ Len(Pending) = Len(fifo) /\ Len(fifo) \in Nat
                    /\ DOMAIN Pending = 1 .. Len(fifo)
                    /\ \A i \in 1 .. Len(fifo) : fifo[i] \in Node /\ Pending[i] = event[fifo[i]]
  OBVIOUS
<1>1. Len(fifo) \in Nat /\ \A i \in 1 .. Len(fifo) : fifo[i] \in Node
  BY LenProperties, ElementOfSeq DEF IInv, TypeOK
<1>2. \A i \in 1 .. Len(fifo) : event[fifo[i]] \in Event
  BY <1>1 DEF IInv, TypeOK
<1>3. Pending \in [1 .. Len(fifo) -> Event]
  BY <1>2 DEF Pending
<1>4. Pending \in Seq(Event) /\ Len(Pending) = Len(fifo)
  BY <1>1, <1>3, SeqDef, LenProperties
<1>5. \A i \in 1 .. Len(fifo) : Pending[i] = event[fifo[i]]
  BY DEF Pending
<1> QED
  BY <1>1, <1>3, <1>4, <1>5

\* Everything the abstract queue has been given was posted.
LEMMA AllPosted ==
  IInv => \A e \in Queue!Elements(Pending) \cup Queue!Elements(Running)
                     \cup Queue!Elements(handled) :
            \E i \in 1 .. Len(posted) : posted[i] = e
<1> SUFFICES ASSUME IInv, NEW e \in Queue!Elements(Pending) \cup Queue!Elements(Running)
                                     \cup Queue!Elements(handled)
             PROVE  \E i \in 1 .. Len(posted) : posted[i] = e
  OBVIOUS
<1> DEFINE busy == IF alpc = "handler" THEN 1 ELSE 0
<1>1. /\ Len(handled) \in Nat /\ DOMAIN handled = 1 .. Len(handled)
      /\ Len(posted) \in Nat /\ Len(fifo) \in Nat /\ busy \in {0, 1}
  BY LenProperties DEF IInv, TypeOK
<1>2. /\ Len(posted) = Len(handled) + busy + Len(fifo)
      /\ \A i \in 1 .. Len(handled) : handled[i] = posted[i]
      /\ \A i \in 1 .. Len(fifo) : event[fifo[i]] = posted[Len(handled) + busy + i]
  BY DEF IInv, ExactlyOnceInOrder
<1>3. alpc = "handler" => busy = 1 /\ event[cur] = posted[Len(handled) + 1]
  BY DEF IInv, ExactlyOnceInOrder
<1> HIDE DEF busy
<1>4. CASE e \in Queue!Elements(Pending)
  <2>1. PICK i \in 1 .. Len(fifo) : e = event[fifo[i]]
    BY <1>4, PendingIs DEF Queue!Elements
  <2>2. Len(handled) + busy + i \in 1 .. Len(posted)
    BY <1>1, <1>2
  <2> QED
    BY <1>2, <2>1, <2>2
<1>5. CASE e \in Queue!Elements(Running)
  <2>1. alpc = "handler" /\ e = event[cur]
    BY <1>5 DEF Queue!Elements, Running
  <2>2. Len(handled) + 1 \in 1 .. Len(posted)
    BY <1>1, <1>2, <1>3, <2>1
  <2> QED
    BY <1>3, <2>1, <2>2
<1>6. CASE e \in Queue!Elements(handled)
  <2>1. PICK i \in 1 .. Len(handled) : e = handled[i]
    BY <1>1, <1>6 DEF Queue!Elements
  <2>2. i \in 1 .. Len(posted)
    BY <1>1, <1>2
  <2> QED
    BY <1>2, <2>1, <2>2
<1> QED
  BY <1>4, <1>5, <1>6

\* Linking a node posts its event.
LEMMA AppendPosts ==
  ASSUME IInv, IInv', NEW c \in Caller, EnqueueAppend(c)
  PROVE  Queue!Post(event[enode[c]])
<1> DEFINE e == event[enode[c]]
<1>1. /\ c \in Inserting /\ enode[c] \in Node /\ e \in Event
      /\ UNCHANGED <<event, cur, handled>>
      /\ alpc' = "handler" <=> alpc = "handler"
      /\ Len(fifo) \in Nat /\ Len(fifo') = Len(fifo) + 1
      /\ \A i \in 1 .. Len(fifo) : fifo'[i] = fifo[i]
      /\ fifo'[Len(fifo) + 1] = enode[c]
  BY AppendFacts
<1>2. Phase = "open" /\ Phase' = Phase
  <2>1. mainpc = "run" /\ mainpc' = "run"
    BY DEF EnqueueAppend, IInv, ControlInv
  <2> QED
    BY <2>1 DEF Phase
<1>3. e \notin Queue!Elements(Pending) \cup Queue!Elements(Running) \cup Queue!Elements(handled)
  <2>1. \A i \in 1 .. Len(posted) : posted[i] # e
    BY <1>1 DEF IInv, EventsDistinct
  <2> HIDE DEF e
  <2> QED
    BY <2>1, AllPosted
<1>4. Running' = Running
  BY <1>1 DEF Running
<1>5. Pending' = Append(Pending, e)
  <2>1. /\ Pending' \in Seq(Event) /\ Len(Pending') = Len(fifo) + 1
        /\ \A i \in 1 .. Len(fifo) + 1 : Pending'[i] = event[fifo'[i]]
    <3>1. \A i \in 1 .. Len(fifo') : Pending'[i] = event'[fifo'[i]]
      BY DEF Pending
    <3>2. fifo' \in Seq(Node) /\ event' \in [Node -> Event]
      BY DEF IInv, TypeOK
    <3>3. \A i \in 1 .. Len(fifo') : event'[fifo'[i]] \in Event
      BY <3>2, ElementOfSeq
    <3>4. Pending' \in [1 .. Len(fifo') -> Event]
      BY <3>3 DEF Pending
    <3>5. Pending' \in Seq(Event) /\ Len(Pending') = Len(fifo')
      BY <1>1, <3>4, SeqDef, LenProperties
    <3> QED
      BY <1>1, <3>1, <3>5
  <2>2. /\ Pending \in Seq(Event) /\ Len(Pending) = Len(fifo)
        /\ \A i \in 1 .. Len(fifo) : Pending[i] = event[fifo[i]]
    BY PendingIs
  <2> HIDE DEF e
  <2>3. /\ Append(Pending, e) \in Seq(Event) /\ Len(Append(Pending, e)) = Len(fifo) + 1
        /\ \A i \in 1 .. Len(fifo) : Append(Pending, e)[i] = Pending[i]
        /\ Append(Pending, e)[Len(fifo) + 1] = e
    BY <1>1, <2>2, AppendProperties
  <2>4. Pending'[Len(fifo) + 1] = e
    BY <1>1, <2>1 DEF e
  <2>5. \A i \in 1 .. Len(fifo) : Pending'[i] = Pending[i]
    BY <1>1, <2>1, <2>2
  <2>6. \A i \in 1 .. Len(fifo) + 1 : i \in 1 .. Len(fifo) \/ i = Len(fifo) + 1
    BY <1>1
  <2>7. \A i \in 1 .. Len(fifo) + 1 : Pending'[i] = Append(Pending, e)[i]
    BY <2>3, <2>4, <2>5, <2>6
  <2> QED
    BY <2>1, <2>3, <2>7, SeqEqual
<1> QED
  BY <1>1, <1>2, <1>3, <1>4, <1>5 DEF Queue!Post

\* Popping a node dispatches the event that has waited longest.
LEMMA TakeDispatches == ASSUME IInv, IInv', AlTake PROVE Queue!Dispatch
<1>1. /\ cur' = fifo[1] /\ alpc # "handler" /\ alpc' = "handler"
      /\ UNCHANGED <<event, handled>>
      /\ Len(fifo) \in Nat \ {0} /\ Len(fifo') = Len(fifo) - 1
      /\ \A i \in 1 .. Len(fifo) - 1 : fifo'[i] = fifo[i + 1]
  BY TakeFacts
<1>2. /\ Pending \in Seq(Event) /\ Len(Pending) = Len(fifo)
      /\ \A i \in 1 .. Len(fifo) : Pending[i] = event[fifo[i]]
  BY PendingIs
<1>3. Pending # <<>>
  BY <1>1, <1>2, EmptySeq
<1>4. Running = <<>> /\ Running' = <<Head(Pending)>>
  <2>1. Head(Pending) = event[fifo[1]]
    BY <1>1, <1>2, <1>3, HeadTailProperties
  <2> QED
    BY <1>1, <2>1 DEF Running
<1>5. Pending' = Tail(Pending)
  <2>1. /\ Tail(Pending) \in Seq(Event) /\ Len(Tail(Pending)) = Len(fifo) - 1
        /\ \A i \in 1 .. Len(fifo) - 1 : Tail(Pending)[i] = Pending[i + 1]
    BY <1>2, <1>3, HeadTailProperties
  <2>2. /\ Pending' \in Seq(Event) /\ Len(Pending') = Len(fifo) - 1
        /\ \A i \in 1 .. Len(fifo) - 1 : Pending'[i] = event[fifo'[i]]
    <3>1. \A i \in 1 .. Len(fifo') : Pending'[i] = event'[fifo'[i]]
      BY DEF Pending
    <3>2. fifo' \in Seq(Node) /\ event' \in [Node -> Event]
      BY DEF IInv, TypeOK
    <3>3. \A i \in 1 .. Len(fifo') : event'[fifo'[i]] \in Event
      BY <3>2, ElementOfSeq
    <3>4. Pending' \in [1 .. Len(fifo') -> Event]
      BY <3>3 DEF Pending
    <3>5. Pending' \in Seq(Event) /\ Len(Pending') = Len(fifo')
      BY <1>1, <3>4, SeqDef, LenProperties
    <3> QED
      BY <1>1, <3>1, <3>5
  <2>3. \A i \in 1 .. Len(fifo) - 1 : i + 1 \in 1 .. Len(fifo)
    BY <1>1
  <2>4. \A i \in 1 .. Len(fifo) - 1 : Pending'[i] = Tail(Pending)[i]
    BY <1>1, <1>2, <2>1, <2>2, <2>3
  <2> QED
    BY <2>1, <2>2, <2>4, SeqEqual
<1>6. Phase' = Phase
  BY DEF AlTake, Phase
<1> QED
  BY <1>1, <1>3, <1>4, <1>5, <1>6 DEF Queue!Dispatch

\* The return of a handler finishes its event.
LEMMA HandledFinishes == ASSUME IInv, AlHandled PROVE Queue!Finish
<1>1. /\ alpc = "handler" /\ alpc' = "lock"
      /\ handled' = Append(handled, event[cur])
      /\ UNCHANGED <<event, fifo, mainpc>>
  BY DEF AlHandled, listVars
<1>2. Running = <<event[cur]>> /\ Running' = <<>>
  BY <1>1 DEF Running
<1>3. Running # <<>> /\ Head(Running) = event[cur]
  BY <1>2
<1>4. Pending' = Pending /\ Phase' = Phase
  BY <1>1 DEF Pending, Phase
<1> QED
  BY <1>1, <1>2, <1>3, <1>4 DEF Queue!Finish

\* Once the al thread is gone nothing is pending and no handler runs.
LEMMA NothingLeft == ASSUME IInv, alpc = "done" PROVE Pending = <<>> /\ Running = <<>>
<1>1. fifo = <<>>
  <2>1. fifo # <<>> => oldest = fifo[1] /\ fifo[1] \in Node
    BY EmptySeq DEF IInv, ListIsFifo, TypeOK
  <2> QED
    BY <2>1, DataAssumption DEF IInv, ControlInv
<1>2. Pending \in Seq(Event) /\ Len(Pending) = 0
  BY <1>1, PendingIs, EmptySeq
<1> QED
  BY <1>2, EmptySeq DEF Running

LEMMA QueueInit == Init => Queue!Init
<1> SUFFICES ASSUME Init PROVE Queue!Init
  OBVIOUS
<1>1. fifo = <<>> /\ alpc = "new" /\ handled = <<>> /\ mainpc = "new"
  BY DEF Init
<1>2. Pending = <<>>
  <2>1. IInv
    BY InitIInv
  <2>2. Pending \in Seq(Event) /\ Len(Pending) = 0
    BY <1>1, <2>1, PendingIs, EmptySeq
  <2> QED
    BY <2>2, EmptySeq
<1> QED
  BY <1>1, <1>2 DEF Queue!Init, Running, Phase

LEMMA QueueStep == IInv /\ IInv' /\ [Next]_vars => [Queue!Next]_(Queue!vars)
<1> SUFFICES ASSUME IInv, IInv', [Next]_vars PROVE [Queue!Next]_(Queue!vars)
  OBVIOUS
<1>1. ASSUME NEW c \in Caller, EnqueueAppend(c) PROVE Queue!Next
  <2>1. event[enode[c]] \in Event
    BY <1>1, AppendFacts
  <2> QED
    BY <1>1, <2>1, AppendPosts DEF Queue!Next
<1>2. CASE AlTake
  BY <1>2, TakeDispatches DEF Queue!Next
<1>3. CASE AlHandled
  BY <1>3, HandledFinishes DEF Queue!Next
<1>4. ASSUME UNCHANGED <<event, fifo, cur, handled>>, alpc' = "handler" <=> alpc = "handler"
      PROVE  Pending' = Pending /\ Running' = Running /\ handled' = handled
  BY <1>4 DEF Pending, Running
<1>5. CASE DeleteParticipant
  <2>1. UNCHANGED <<event, fifo, cur, handled, alpc>>
    BY <1>5 DEF DeleteParticipant, heapVars, listVars, alVars
  <2>2. Phase = "open" /\ Phase' = "closed"
    BY <1>5 DEF DeleteParticipant, MainGoes, Phase
  <2> QED
    BY <1>4, <2>1, <2>2 DEF Queue!Next, Queue!Close
<1>6. CASE Join
  <2>1. UNCHANGED <<event, fifo, cur, handled, alpc>> /\ alpc = "done"
    BY <1>6 DEF Join, heapVars, listVars, alVars
  <2>2. Phase = "closed" /\ Phase' = "stopped"
    BY <1>6 DEF Join, MainGoes, Phase
  <2> QED
    BY <1>4, <2>1, <2>2, NothingLeft DEF Queue!Next, Queue!Stop
<1>7. ASSUME UNCHANGED <<event, fifo, cur, handled>>, alpc' = "handler" <=> alpc = "handler",
             Phase' = Phase
      PROVE  UNCHANGED Queue!vars
  BY <1>4, <1>7 DEF Queue!vars
<1>8. ASSUME NEW c \in Caller, NEW e \in Event, EnqueueAlloc(c, e) PROVE UNCHANGED Queue!vars
  <2>1. PICK n \in Node \ allocated : event' = [event EXCEPT ![n] = e]
    BY <1>8 DEF EnqueueAlloc
  <2>2. UNCHANGED <<fifo, alpc, cur, mainpc, handled>>
    BY <1>8 DEF EnqueueAlloc, listVars, alVars
  <2>3. \A i \in 1 .. Len(fifo) : event'[fifo[i]] = event[fifo[i]]
    <3>1. DOMAIN fifo = 1 .. Len(fifo)
      BY LenProperties DEF IInv, TypeOK
    <3>2. \A i \in 1 .. Len(fifo) : fifo[i] \in allocated /\ fifo[i] \in Node
      <4>1. Linked \subseteq allocated /\ allocated \subseteq Node
        BY DEF IInv, TypeOK, NodesOwnedOnce
      <4> QED
        BY <3>1, <4>1 DEF Linked
    <3>3. \A i \in 1 .. Len(fifo) : fifo[i] # n
      BY <3>2
    <3> QED
      BY <2>1, <3>2, <3>3 DEF IInv, TypeOK
  <2>4. Pending' = Pending
    BY <2>2, <2>3 DEF Pending
  <2>5. Running' = Running
    <3>1. alpc = "handler" => event'[cur] = event[cur]
      BY <2>1 DEF IInv, TypeOK, NodesOwnedOnce
    <3> QED
      BY <2>2, <3>1 DEF Running
  <2> QED
    BY <2>2, <2>4, <2>5 DEF Queue!vars, Phase
<1>9. CASE (\E c \in Caller : EnqueueLock(c)) \/ AlLock \/ AlWait \/ AlSpuriousWakeup \/ AlExit
  <2>1. UNCHANGED <<event, fifo, cur, handled, mainpc>> /\ (alpc' = "handler" <=> alpc = "handler")
    BY <1>9 DEF EnqueueLock, AlLock, AlWait, AlSpuriousWakeup, AlExit, heapVars, listVars, alVars
  <2> QED
    BY <1>7, <2>1 DEF Phase
<1>10. CASE Start \/ StopLock \/ StopSignal \/ Finished \/ UNCHANGED vars
  <2>1. UNCHANGED <<event, fifo, cur, handled>> /\ (alpc' = "handler" <=> alpc = "handler")
    BY <1>10 DEF Start, StopLock, StopSignal, Finished, Signalled, MainGoes, IInv, ControlInv,
                 vars, heapVars, listVars, alVars
  <2>2. Phase' = Phase
    BY <1>10 DEF Start, StopLock, StopSignal, Finished, MainGoes, Phase, vars
  <2> QED
    BY <1>7, <2>1, <2>2
<1> QED
  BY <1>1, <1>2, <1>3, <1>5, <1>6, <1>8, <1>9, <1>10 DEF Next, Enqueue

\* The mutex, the condition variable and the linked list with its reused blocks implement the
\* event queue: each step of a thread is a step of EventQueue or changes nothing it can see.
\* (That the abstract queue's fairness follows as well is part of ImplementsEventQueue.)
THEOREM QueueImplemented == Spec => Queue!Init /\ [][Queue!Next]_(Queue!vars)
  BY QueueInit, QueueStep, SpecIInv, PTL DEF Spec
=============================================================================
