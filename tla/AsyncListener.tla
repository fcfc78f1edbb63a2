--------------------------- MODULE AsyncListener ---------------------------
(***************************************************************************)
(* docs/ref/async_listener.c: the event queue ddsperf uses to run its      *)
(* discovery handlers outside the DDS library's listener calls.            *)
(*                                                                         *)
(* Threads that run a DDS listener (Caller) append an event; the al thread *)
(* pops the events and calls their handlers with the mutex released.  A    *)
(* handler may cause a listener call of its own (creating the pong writer  *)
(* matches a reader), so Al is a caller too.  Main starts the thread       *)
(* before it creates the participant and stops it after deleting the       *)
(* participant, when no listener can run any more.                         *)
(*                                                                         *)
(* The list keeps its pointers: a block may be freed and allocated again   *)
(* while `latest` still points to it.                                      *)
(***************************************************************************)
EXTENDS Naturals, Sequences

CONSTANTS
    Caller,         \* threads that call async_listener_enqueue
    Al, Main,       \* the al thread, one of the callers, and the main thread
    Event,          \* identities of enqueue calls; bounds their number
    Node,           \* heap blocks that can hold a struct async_listener_event
    NoNode,         \* NULL
    NoThread        \* owner of a mutex that is free

ASSUME ThreadAssumption ==
    /\ Al \in Caller
    /\ Main \notin Caller
    /\ NoThread \notin Caller \cup {Main}
ASSUME DataAssumption == NoNode \notin Node /\ Event # {}

VARIABLES
    lock,           \* al->lock: the thread that holds it
    stop,           \* al->stop
    oldest,         \* al->oldest
    latest,         \* al->latest
    event,          \* the payload of a node: kind, handle, fn, status, argument
    next,           \* the next pointer of a node
    allocated,      \* the nodes malloc has given out and free has not taken back
    alpc,           \* where the al thread is
    cur,            \* the node the al thread has popped and not yet freed
    epc,            \* where each caller is in async_listener_enqueue
    enode,          \* the node each caller is inserting
    mainpc,         \* where the main thread is
    fifo,           \* auxiliary: the linked nodes in the order of insertion
    posted,         \* history: the events in the order they were appended
    handled         \* history: the events whose handler has returned, in order

heapVars == <<event, next, allocated>>
listVars == <<oldest, latest, fifo>>
alVars == <<alpc, cur>>
callVars == <<epc, enode, posted>>
vars == <<lock, stop, heapVars, listVars, alVars, callVars, mainpc, handled>>

----------------------------------------------------------------------------
TypeOK ==
    /\ lock \in Caller \cup {Main, NoThread}
    /\ stop \in BOOLEAN
    /\ {oldest, latest, cur} \subseteq Node \cup {NoNode}
    /\ event \in [Node -> Event]
    /\ next \in [Node -> Node \cup {NoNode}]
    /\ allocated \subseteq Node
    /\ alpc \in {"new", "lock", "test", "wait", "handler", "done"}
    /\ epc \in [Caller -> {"idle", "lock", "append"}]
    /\ enode \in [Caller -> Node \cup {NoNode}]
    /\ mainpc \in {"new", "run", "closed", "stop", "join", "joined"}
    /\ fifo \in Seq(Node)
    /\ posted \in Seq(Event)
    /\ handled \in Seq(Event)

\* Mutant: `latest` keeps what malloc returned, which is no event of the list.
NewUninitialised == stop = FALSE /\ oldest = NoNode /\ latest = NoThread

\* async_listener_new.
New == stop = FALSE /\ oldest = NoNode /\ latest = NoNode

\* The contents of a block malloc has not given out are arbitrary.
Init ==
    /\ New
    /\ lock = NoThread
    /\ event = [n \in Node |-> CHOOSE e \in Event : TRUE]
    /\ next = [n \in Node |-> NoNode]
    /\ allocated = {}
    /\ alpc = "new" /\ cur = NoNode
    /\ epc = [c \in Caller |-> "idle"]
    /\ enode = [c \in Caller |-> NoNode]
    /\ mainpc = "new"
    /\ fifo = <<>> /\ posted = <<>> /\ handled = <<>>

Acquire(t) == lock = NoThread /\ lock' = t
Release == lock' = NoThread

\* Mutant: the signal is forgotten.
NotSignalled == alpc

\* ddsrt_cond_signal: wakes the al thread when it is blocked in the wait.
Signalled == IF alpc = "wait" THEN "lock" ELSE alpc

----------------------------------------------------------------------------
(* async_listener_enqueue, by a thread that runs a listener.               *)

\* The events already used: each enqueue call is an event of its own.
Used == {posted[i] : i \in DOMAIN posted}
        \cup {event[enode[c]] : c \in {d \in Caller : epc[d] # "idle"}}

\* Listeners run while the participant exists; on the al thread only inside a handler.
\* malloc and the copy of the event need no lock.
EnqueueAlloc(c, e) ==
    /\ mainpc = "run"
    /\ epc[c] = "idle"
    /\ c = Al => alpc = "handler"
    /\ e \notin Used
    /\ \E n \in Node \ allocated :
         /\ allocated' = allocated \cup {n}
         /\ event' = [event EXCEPT ![n] = e]
         /\ next' = [next EXCEPT ![n] = NoNode]
         /\ enode' = [enode EXCEPT ![c] = n]
    /\ epc' = [epc EXCEPT ![c] = "lock"]
    /\ UNCHANGED <<lock, stop, listVars, alVars, posted, mainpc, handled>>

EnqueueLock(c) ==
    /\ epc[c] = "lock"
    /\ Acquire(c)
    /\ epc' = [epc EXCEPT ![c] = "append"]
    /\ UNCHANGED <<stop, heapVars, listVars, alVars, enode, posted, mainpc, handled>>

\* Mutant: `latest` tells whether there is a tail, though a pop never resets it.
HasTailByLatest == latest # NoNode

\* The tail is linked through `latest` only when the list is not empty: otherwise
\* `latest` may point to a block that was freed.
HasTail == oldest # NoNode

\* Append at the tail, signal, unlock.
EnqueueAppend(c) ==
    LET n == enode[c]
        cleared == [next EXCEPT ![n] = NoNode]
    IN  /\ epc[c] = "append"
        /\ oldest' = IF HasTail THEN oldest ELSE n
        /\ next' = IF HasTail THEN [cleared EXCEPT ![latest] = n] ELSE cleared
        /\ latest' = n
        /\ fifo' = Append(fifo, n)
        /\ posted' = Append(posted, event[n])
        /\ alpc' = Signalled
        /\ Release
        /\ epc' = [epc EXCEPT ![c] = "idle"]
        /\ enode' = [enode EXCEPT ![c] = NoNode]
        /\ UNCHANGED <<stop, event, allocated, cur, mainpc, handled>>

Enqueue(c) == (\E e \in Event : EnqueueAlloc(c, e)) \/ EnqueueLock(c) \/ EnqueueAppend(c)

----------------------------------------------------------------------------
(* async_listener_thread.                                                  *)

\* The lock is taken at the start, after a handler and when the wait returns.
AlLock ==
    /\ alpc = "lock"
    /\ Acquire(Al)
    /\ alpc' = "test"
    /\ UNCHANGED <<stop, heapVars, listVars, cur, callVars, mainpc, handled>>

\* Mutant: the thread waits without looking at the list.
MayWaitAlways == ~stop

MayWait == ~stop /\ oldest = NoNode

\* ddsrt_cond_wait releases the lock and blocks in one step.
AlWait ==
    /\ alpc = "test"
    /\ MayWait
    /\ Release
    /\ alpc' = "wait"
    /\ UNCHANGED <<stop, heapVars, listVars, cur, callVars, mainpc, handled>>

\* A condition wait may return without a signal.
AlSpuriousWakeup ==
    /\ alpc = "wait"
    /\ alpc' = "lock"
    /\ UNCHANGED <<lock, stop, heapVars, listVars, cur, callVars, mainpc, handled>>

\* Mutant: the event that came last is served first.
PoppedLatest == latest

Popped == oldest

\* Pop and unlock, then call the handler; `latest` is left as it is.
AlTake ==
    /\ alpc = "test"
    /\ oldest # NoNode
    /\ cur' = Popped
    /\ oldest' = next[Popped]
    /\ fifo' = Tail(fifo)
    /\ Release
    /\ alpc' = "handler"
    /\ UNCHANGED <<stop, latest, heapVars, callVars, mainpc, handled>>

\* The handler returns, with no enqueue of its own in progress; the node is freed.
AlHandled ==
    /\ alpc = "handler"
    /\ epc[Al] = "idle"
    /\ handled' = Append(handled, event[cur])
    /\ allocated' = allocated \ {cur}
    /\ cur' = NoNode
    /\ alpc' = "lock"
    /\ UNCHANGED <<lock, stop, event, next, listVars, callVars, mainpc>>

\* Mutant: the loop ends as soon as stop is set.
LoopEndsOnStop == stop

LoopEnds == stop /\ oldest = NoNode

AlExit ==
    /\ alpc = "test"
    /\ LoopEnds
    /\ Release
    /\ alpc' = "done"
    /\ UNCHANGED <<stop, heapVars, listVars, cur, callVars, mainpc, handled>>

----------------------------------------------------------------------------
(* The main thread of ddsperf.                                             *)

MainGoes(from, to) == mainpc = from /\ mainpc' = to

\* async_listener_start.
Start ==
    /\ MainGoes("new", "run")
    /\ alpc' = "lock"
    /\ UNCHANGED <<lock, stop, heapVars, listVars, cur, callVars, handled>>

\* Mutant: listeners may still be running when the queue is stopped.
NoListenerUnchecked == TRUE

\* dds_delete (dp) returns once no listener runs and none can run any more.
NoListener == \A c \in Caller : epc[c] = "idle"

DeleteParticipant ==
    /\ MainGoes("run", "closed")
    /\ NoListener
    /\ UNCHANGED <<lock, stop, heapVars, listVars, alVars, callVars, handled>>

\* async_listener_stop: lock; set stop, signal and unlock; join.
StopLock ==
    /\ MainGoes("closed", "stop")
    /\ Acquire(Main)
    /\ UNCHANGED <<stop, heapVars, listVars, alVars, callVars, handled>>

StopSignal ==
    /\ MainGoes("stop", "join")
    /\ stop' = TRUE
    /\ alpc' = Signalled
    /\ Release
    /\ UNCHANGED <<heapVars, listVars, cur, callVars, handled>>

Join ==
    /\ MainGoes("join", "joined")
    /\ alpc = "done"
    /\ UNCHANGED <<lock, stop, heapVars, listVars, alVars, callVars, handled>>

\* async_listener_free destroys the queue and the program goes on without it; any other
\* state without a step is a deadlock.
Finished == mainpc = "joined" /\ UNCHANGED vars

Next ==
    \/ \E c \in Caller : Enqueue(c)
    \/ AlLock \/ AlWait \/ AlSpuriousWakeup \/ AlTake \/ AlHandled \/ AlExit
    \/ Start \/ DeleteParticipant \/ StopLock \/ StopSignal \/ Join \/ Finished

\* Threads that can run do run, and a thread that contends for the mutex gets it in the
\* end, however often it is overtaken.  Nothing makes DDS call a listener, the main
\* thread end the run or the wait return spuriously.
Fairness ==
    /\ WF_vars(AlWait \/ AlTake \/ AlHandled \/ AlExit)
    /\ WF_vars(Start) /\ WF_vars(StopSignal \/ Join)
    /\ SF_vars(AlLock) /\ SF_vars(StopLock)
    /\ \A c \in Caller : SF_vars(EnqueueLock(c)) /\ WF_vars(EnqueueAppend(c))

Spec == Init /\ [][Next]_vars /\ Fairness

----------------------------------------------------------------------------
(* Properties.                                                             *)

\* A holder of the mutex is exactly a thread inside a critical section: no two threads
\* touch the list at the same time.
MutualExclusion ==
    /\ \A c \in Caller : epc[c] = "append" => lock = c
    /\ alpc = "test" => lock = Al /\ epc[Al] = "idle"
    /\ mainpc = "stop" => lock = Main

\* The nodes linked into the list, and those of enqueue calls that have not yet linked them.
Linked == {fifo[i] : i \in DOMAIN fifo}
Inserting == {c \in Caller : epc[c] # "idle"}

\* The pointers spell the queue: from `oldest` along `next` one meets exactly the nodes
\* that were inserted and not popped, in the order of insertion, and `latest` is the
\* last of them whenever there is one.
ListIsFifo ==
    /\ oldest = IF fifo = <<>> THEN NoNode ELSE fifo[1]
    /\ fifo # <<>> => latest = fifo[Len(fifo)]
    /\ \A i \in 1 .. Len(fifo) :
         next[fifo[i]] = IF i = Len(fifo) THEN NoNode ELSE fifo[i + 1]

\* No block is used after free or by two owners: the linked nodes, the popped node and
\* the nodes being inserted are allocated and all distinct.
NodesOwnedOnce ==
    /\ \A i, j \in 1 .. Len(fifo) : i # j => fifo[i] # fifo[j]
    /\ Linked \subseteq allocated
    /\ alpc = "handler" => cur \in allocated \ Linked
    /\ \A c \in Inserting :
         /\ enode[c] \in allocated \ Linked
         /\ alpc = "handler" => enode[c] # cur
         /\ \A d \in Inserting \ {c} : enode[c] # enode[d]

\* Handlers run once per event, in the order of the enqueue calls: what was posted is
\* what was handled, then the event in its handler, then what is linked.
ExactlyOnceInOrder ==
    LET busy == IF alpc = "handler" THEN 1 ELSE 0
    IN  /\ Len(posted) = Len(handled) + busy + Len(fifo)
        /\ \A i \in 1 .. Len(handled) : handled[i] = posted[i]
        /\ alpc = "handler" => event[cur] = posted[Len(handled) + 1]
        /\ \A i \in 1 .. Len(fifo) : event[fifo[i]] = posted[Len(handled) + busy + i]

\* The al thread never sleeps on work: while it is blocked in the wait, not yet
\* signalled, the list is empty and stop is not set.
NoLostWakeup == alpc = "wait" => oldest = NoNode /\ ~stop

\* The two assertions of the code: nothing is enqueued after stop, and nothing is left
\* when the thread has been joined.
AssertionsHold ==
    /\ \A c \in Caller : epc[c] = "append" => ~stop
    /\ mainpc = "joined" => oldest = NoNode

\* async_listener_stop drains: when it has returned every posted event has been handled,
\* every node freed, and no thread holds the mutex that is destroyed next.
DrainedWhenJoined ==
    mainpc = "joined" => handled = posted /\ allocated = {} /\ lock = NoThread

\* Every event posted is handled: no wakeup is lost and the queue never stalls.
EventuallyHandled ==
    \A e \in Event : (\E i \in DOMAIN posted : posted[i] = e)
                     ~> (\E i \in DOMAIN handled : handled[i] = e)

\* Once the participant is gone async_listener_stop returns: the thread notices stop
\* even when it sleeps, and still drains the queue first.
StopReturns == (mainpc = "closed") ~> (mainpc = "joined")

\* What the abstract queue sees: the events of the linked nodes, that of the popped node
\* while its handler runs, and whether callers may still come.
Pending == [i \in 1 .. Len(fifo) |-> event[fifo[i]]]
Running == IF alpc = "handler" THEN <<event[cur]>> ELSE <<>>
Phase == CASE mainpc \in {"new", "run"} -> "open"
           [] mainpc \in {"closed", "stop", "join"} -> "closed"
           [] OTHER -> "stopped"

\* The queue implements the abstract event queue.
Queue == INSTANCE EventQueue WITH
    pending <- Pending, running <- Running, done <- handled, phase <- Phase

ImplementsEventQueue == Queue!Spec
=============================================================================
