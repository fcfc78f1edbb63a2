\* Two library threads and al, three events, three heap blocks, of which any free one may be
\* handed out again.
CONSTANTS
    Caller = {recv1, recv2, al}
    Al = al
    Main = main
    Event = {e1, e2, e3}
    Node = {n1, n2, n3}
    NoNode = NoNode
    NoThread = NoThread
SPECIFICATION Spec
INVARIANTS TypeOK ListIsFifo NodesOwnedOnce ExactlyOnceInOrder NoLostWakeup AssertionsHold DrainedWhenJoined
PROPERTIES EventuallyHandled StopReturns ImplementsEventQueue
