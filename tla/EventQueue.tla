----------------------------- MODULE EventQueue -----------------------------
(***************************************************************************)
(* What async_listener promises to ddsperf, without the mutex, the         *)
(* condition variable and the linked list that implement it: an unbounded  *)
(* FIFO of discovery events with one server.  Every event is handed to its *)
(* handler once, in the order of the calls, one at a time; stopping waits  *)
(* until everything posted has been handled.                               *)
(***************************************************************************)
EXTENDS Sequences, Naturals

CONSTANT Event      \* identities of enqueue calls: each call is an event of its own

VARIABLES
    pending,        \* sequence of posted events no handler has been called for
    running,        \* <<e>> while the handler of e runs, else <<>>
    done,           \* sequence of events whose handler has returned
    phase           \* "open", "closed" (no more posts) or "stopped"

vars == <<pending, running, done, phase>>

\* The events of a sequence.
Elements(s) == {s[i] : i \in DOMAIN s}

Init ==
    /\ pending = <<>>
    /\ running = <<>>
    /\ done = <<>>
    /\ phase = "open"

Post(e) ==
    /\ phase = "open"
    /\ e \notin Elements(pending) \cup Elements(running) \cup Elements(done)
    /\ pending' = Append(pending, e)
    /\ UNCHANGED <<running, done, phase>>

Dispatch ==
    /\ running = <<>>
    /\ pending # <<>>
    /\ running' = <<Head(pending)>>
    /\ pending' = Tail(pending)
    /\ UNCHANGED <<done, phase>>

Finish ==
    /\ running # <<>>
    /\ done' = Append(done, Head(running))
    /\ running' = <<>>
    /\ UNCHANGED <<pending, phase>>

Close ==
    /\ phase = "open"
    /\ phase' = "closed"
    /\ UNCHANGED <<pending, running, done>>

\* Stopping is allowed only once nothing is left to handle.
Stop ==
    /\ phase = "closed"
    /\ pending = <<>>
    /\ running = <<>>
    /\ phase' = "stopped"
    /\ UNCHANGED <<pending, running, done>>

Next ==
    \/ \E e \in Event : Post(e)
    \/ Dispatch
    \/ Finish
    \/ Close
    \/ Stop

Fairness == WF_vars(Dispatch) /\ WF_vars(Finish) /\ WF_vars(Stop)

Spec == Init /\ [][Next]_vars /\ Fairness
=============================================================================
