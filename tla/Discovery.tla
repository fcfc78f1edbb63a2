----------------------------- MODULE Discovery -----------------------------
(***************************************************************************)
(* How ddsperf keeps track of its peers (docs/ref/ddsperf.c): the table of *)
(* participants, the endpoints each still has to match, the deadline for   *)
(* that, the pong writers, the number of pongs expected, and the exit      *)
(* status that follows from it.                                            *)
(*                                                                         *)
(* The DDS library calls listeners when a participant comes or goes and    *)
(* when an endpoint of a participant matches one of ours.  The listeners   *)
(* post events; the al thread runs their handlers one at a time, in order  *)
(* (EventQueue: `queue` is its pending, `running` its running).  The main  *)
(* thread calls the handler of the participants reader once itself, at the *)
(* start: then two threads run it at the same time.                        *)
(***************************************************************************)
EXTENDS Integers, Sequences, FiniteSets

CONSTANTS
    Participant,    \* instance handles of the ddsperf participants, the own one included
    Self,           \* dp_handle
    HasReader,      \* the participants whose user data says they have a data reader
    Asking,         \* publications <<p, k>> whose samples ask for pongs, k in PongKind
    Kind,           \* kinds of endpoints that can match (MM_RD_DATA ... MM_WR_PONG)
    IgnoreLocal,    \* ignorelocal # DDS_IGNORELOCAL_NONE
    Subscribing,    \* submode # SM_NONE: a data reader is created
    MinMatch,       \* minmatch of the command line
    InitWait,       \* initmaxwait > 0
    MaxWait,        \* maxwait is finite
    Modulus,        \* 2^32: the counters are uint32_t
    Junk            \* a handle of no participant

Thread == {"main", "al"}
EndpointKinds == {"rd_data", "rd_ping", "rd_pong", "wr_data", "wr_ping", "wr_pong"}
PongKind == {"data", "ping"}

ASSUME ParticipantAssumption ==
    /\ IsFiniteSet(Participant)
    /\ Self \in Participant
    /\ HasReader \subseteq Participant
    /\ Asking \subseteq Participant \X PongKind
    /\ Junk \notin Participant
ASSUME OptionsAssumption ==
    /\ Kind \subseteq EndpointKinds
    /\ {IgnoreLocal, Subscribing, InitWait, MaxWait} \subseteq BOOLEAN
ASSUME WidthAssumption ==
    /\ Modulus \in Nat
    /\ Cardinality(Participant) < Modulus - 1
    /\ MinMatch \in 0 .. Modulus - 2

VARIABLES
    life,               \* external: each participant is "absent", "alive" or "gone"
    matched,            \* external: the endpoints <<p, k>> that have matched
    reader,             \* rd_participants: the sample of p not yet taken
    queue, running,     \* events posted; <<event>> whose handler runs on al
    ppants,             \* handles in the table of participants
    unmatched,          \* pp->unmatched of each
    tdeadline,          \* pp->tdeadline: "ahead" or "passed" of the clock, or "never"
    toMatch,            \* ppants_to_match, the heap ordered by deadline
    matchcount, matchtimeout, minmatch,
    rd_data,            \* whether the data reader has been created
    pongwr,             \* the table of pong writers
    writers,            \* external: pong writers the DDS library has
    n_pong_expected,
    pc, sample, delta,  \* async_participant_data_listener on each thread
    phase,              \* where the main thread is
    awaiting,           \* tmatch # DDS_NEVER: MinMatch is still to be verified
    status,             \* exit status, or "none"
    overtaken,          \* history: p whose going was handled amid the handling of its coming
    completed           \* history: p whose last unmatched endpoint has matched

envVars == <<life, matched, reader, writers>>
queueVars == <<queue, running>>
tableVars == <<ppants, unmatched, tdeadline, toMatch>>
countVars == <<matchcount, matchtimeout, completed>>
pongVars == <<pongwr, n_pong_expected>>
threadVars == <<pc, sample, delta>>
mainVars == <<phase, awaiting, minmatch, rd_data, status>>
vars == <<envVars, queueVars, tableVars, countVars, pongVars, threadVars, mainVars, overtaken>>

Event == {<<"data">>} \cup {<<"match", p, k>> : p \in Participant, k \in Kind}

\* struct pongwr; wr_pong stands for the participant in whose partition the writer writes.
Publication == Participant \X PongKind
NoPublication == <<>>
PongEntry == [pphandle : Participant \cup {Junk}, pubhandle : Publication \cup {NoPublication},
              wr_pong : Participant]

TypeOK ==
    /\ life \in [Participant -> {"absent", "alive", "gone"}]
    /\ matched \subseteq Participant \X Kind
    /\ reader \in [Participant -> {"none", "alive", "gone"}]
    /\ queue \in Seq(Event) /\ running \in Seq(Event) /\ Len(running) <= 1
    /\ ppants \subseteq Participant /\ toMatch \subseteq Participant
    /\ unmatched \in [Participant -> SUBSET Kind]
    /\ tdeadline \in [Participant -> {"ahead", "passed", "never"}]
    /\ {matchcount, matchtimeout, minmatch, n_pong_expected} \subseteq 0 .. Modulus - 1
    /\ rd_data \in BOOLEAN /\ awaiting \in BOOLEAN
    /\ pongwr \subseteq PongEntry
    /\ writers \subseteq Participant
    /\ pc \in [Thread -> {"idle", "take", "gone", "alive", "call", "apply", "match"}]
    /\ sample \in [Thread -> Participant]
    /\ delta \in [Thread -> 0 .. Modulus - 1]
    /\ phase \in {"start", "sync", "endpoints", "initwait", "run", "close", "deleted", "stopped",
                 "exited"}
    /\ status \in {"none", "0", "1", "2"}
    /\ overtaken \subseteq Participant /\ completed \subseteq Participant

\* main has created the participant and its reader; the reader already holds the own one.
Init ==
    /\ life = [p \in Participant |-> IF p = Self THEN "alive" ELSE "absent"]
    /\ reader = [p \in Participant |-> IF p = Self THEN "alive" ELSE "none"]
    /\ matched = {} /\ writers = {}
    /\ queue = <<>> /\ running = <<>>
    /\ ppants = {} /\ toMatch = {}
    /\ unmatched = [p \in Participant |-> {}]
    /\ tdeadline = [p \in Participant |-> "never"]
    /\ matchcount = 0 /\ matchtimeout = 0 /\ minmatch = MinMatch
    /\ rd_data = FALSE
    /\ pongwr = {} /\ n_pong_expected = 0
    /\ pc = [t \in Thread |-> "idle"]
    /\ sample = [t \in Thread |-> Self]
    /\ delta = [t \in Thread |-> 0]
    /\ phase = "start" /\ awaiting = MaxWait /\ status = "none"
    /\ overtaken = {} /\ completed = {}

\* Participants that ddsperf measures: the own one only if it does not ignore local ones.
IsPeer(p) == p # Self \/ ~IgnoreLocal

MainGoes(from, to) == phase = from /\ phase' = to

\* dds_delete (dp) has been called.
Deleted == phase \in {"deleted", "stopped", "exited"}

----------------------------------------------------------------------------
(* The DDS library: discovery, and the listeners that post events.         *)

\* participant_data_listener is set by "start"; earlier samples only wait in the reader.
DataAvailable(q) == IF phase \in {"sync", "endpoints", "initwait", "run"}
                    THEN Append(q, <<"data">>) ELSE q

Come(p) ==
    /\ life[p] = "absent"
    /\ ~Deleted
    /\ life' = [life EXCEPT ![p] = "alive"]
    /\ reader' = [reader EXCEPT ![p] = "alive"]
    /\ queue' = DataAvailable(queue)
    /\ UNCHANGED <<matched, writers, running, tableVars, countVars, pongVars, threadVars,
                   mainVars, overtaken>>

\* The history of the reader is one sample: "gone" replaces an "alive" not yet taken.
Go(p) ==
    /\ p # Self /\ life[p] = "alive"
    /\ ~Deleted
    /\ life' = [life EXCEPT ![p] = "gone"]
    /\ reader' = [reader EXCEPT ![p] = "gone"]
    /\ queue' = DataAvailable(queue)
    /\ UNCHANGED <<matched, writers, running, tableVars, countVars, pongVars, threadVars,
                   mainVars, overtaken>>

\* Our endpoint that can match endpoints of this kind exists and has its listener.  Our
\* pong writer for p is created by Create; main creates the others after the synchronous
\* call, and drops the listeners of the readers that it sets to NULL when it closes.
HasListener(p, k) ==
    CASE k = "rd_pong" -> p \in writers /\ ~Deleted
      [] k \in {"rd_data", "rd_ping"} -> phase \in {"initwait", "run", "close"}
      [] k \in {"wr_ping", "wr_pong"} -> phase \in {"initwait", "run"}
      [] k = "wr_data" -> rd_data /\ phase \in {"initwait", "run"}

\* An endpoint of p is discovered and matches: publication_matched_listener or
\* subscription_matched_listener with current_count_change > 0.
Match(p, k) ==
    /\ life[p] = "alive"
    /\ IsPeer(p)
    /\ <<p, k>> \notin matched
    /\ k = "rd_data" => p \in HasReader
    /\ HasListener(p, k)
    /\ matched' = matched \cup {<<p, k>>}
    /\ queue' = Append(queue, <<"match", p, k>>)
    /\ UNCHANGED <<life, reader, writers, running, tableVars, countVars, pongVars, threadVars,
                   mainVars, overtaken>>

----------------------------------------------------------------------------
(* async_participant_data_listener on thread t.                            *)

TakeSample(t, p) ==
    /\ pc[t] = "take"
    /\ ~Deleted
    /\ reader[p] # "none"
    /\ reader' = [reader EXCEPT ![p] = "none"]
    /\ sample' = [sample EXCEPT ![t] = p]
    /\ pc' = [pc EXCEPT ![t] = reader[p]]
    /\ UNCHANGED <<life, matched, writers, queueVars, tableVars, countVars, pongVars, delta,
                   mainVars, overtaken>>

TakeNothing(t) ==
    /\ pc[t] = "take"
    /\ ~Deleted
    /\ \A p \in Participant : reader[p] = "none"
    /\ pc' = [pc EXCEPT ![t] = "apply"]
    /\ UNCHANGED <<envVars, queueVars, tableVars, countVars, pongVars, sample, delta, mainVars,
                   overtaken>>

\* Mutant: the participant stays in the heap that orders the deadlines.
HeapWithoutKept(p) == toMatch

HeapWithout(p) == IF tdeadline[p] # "never" THEN toMatch \ {p} ELSE toMatch

\* Mutant: a participant that goes does not lower the number of pongs expected.
DeltaWhenGoneKept(t) == delta[t]

\* Mutant: the delta is a signed number.
DeltaWhenGoneSigned(t) == delta[t] - 1

DeltaWhenGone(t) == (delta[t] - 1) % Modulus

\* The entries of p: one until its samples ask for pongs, then one for each publication.
EntriesOf(p) == {e \in pongwr : e.pphandle = p}

\* Mutant: the entry after one that is deleted is skipped.
DeletePongWriterOne(p) ==
    IF EntriesOf(p) = {} THEN pongwr ELSE pongwr \ {CHOOSE e \in EntriesOf(p) : TRUE}

\* delete_pong_writer removes all entries of p.  It returns 0, never the handle of the
\* writer, so that the dds_delete that follows deletes nothing.
DeletePongWriter(p) == pongwr \ EntriesOf(p)

\* instance_state # ALIVE, under disc_lock.
Gone(t) ==
    LET p == sample[t]
    IN  /\ pc[t] = "gone"
        /\ pc' = [pc EXCEPT ![t] = "take"]
        /\ IF p \in ppants
             THEN /\ ppants' = ppants \ {p}
                  /\ toMatch' = HeapWithout(p)
                  /\ tdeadline' = [tdeadline EXCEPT ![p] = "never"]
                  /\ unmatched' = [unmatched EXCEPT ![p] = {}]
                  /\ pongwr' = IF IsPeer(p) THEN DeletePongWriter(p) ELSE pongwr
                  /\ delta' = [delta EXCEPT ![t] = IF IsPeer(p) THEN DeltaWhenGone(t) ELSE @]
             ELSE UNCHANGED <<tableVars, pongwr, delta>>
        /\ overtaken' = IF \E u \in Thread : pc[u] \in {"alive", "call"} /\ sample[u] = p
                        THEN overtaken \cup {p} ELSE overtaken
        /\ UNCHANGED <<envVars, queueVars, countVars, n_pong_expected, sample, mainVars>>

\* pp->unmatched of a new participant; rd_data may still be 0.
Expected(p) ==
    IF IsPeer(p)
    THEN Kind \ ((IF p \in HasReader THEN {} ELSE {"rd_data"})
                 \cup (IF rd_data THEN {} ELSE {"wr_data"}))
    ELSE {}

\* A participant with the magic user data, under disc_lock.
Add(t) ==
    LET p == sample[t]
    IN  /\ pc[t] = "alive"
        /\ IF p \in ppants
             THEN /\ pc' = [pc EXCEPT ![t] = "take"]
                  /\ UNCHANGED tableVars
             ELSE /\ ppants' = ppants \cup {p}
                  /\ unmatched' = [unmatched EXCEPT ![p] = Expected(p)]
                  /\ tdeadline' = [tdeadline EXCEPT ![p] = "ahead"]
                  /\ toMatch' = toMatch \cup {p}
                  /\ pc' = [pc EXCEPT ![t] = IF IsPeer(p) THEN "call" ELSE "take"]
        /\ UNCHANGED <<envVars, queueVars, countVars, pongVars, sample, delta, mainVars,
                       overtaken>>

\* pp->handle, read without disc_lock.  When the other thread has freed pp the memory may
\* still hold the handle, or belong to anybody, also to the struct of a participant that was
\* added since: the handle read is of any participant or of none.
HandleRead(p) == IF p \in ppants THEN {p} ELSE Participant \cup {Junk}

\* create_pong_writer (pp->handle, ...): the partition comes from the sample in any case.
Create(t) ==
    LET p == sample[t]
    IN  /\ pc[t] = "call"
        /\ ~Deleted
        /\ writers' = writers \cup {p}
        /\ \E h \in HandleRead(p) :
             pongwr' = pongwr \cup {[pphandle |-> h, pubhandle |-> NoPublication, wr_pong |-> p]}
        /\ delta' = [delta EXCEPT ![t] = (@ + 1) % Modulus]
        /\ pc' = [pc EXCEPT ![t] = "take"]
        /\ UNCHANGED <<life, matched, reader, queueVars, tableVars, countVars,
                       n_pong_expected, sample, mainVars, overtaken>>

\* The delta is added under pongwr_lock once the reader is empty; then the synchronous
\* call of main returns, and on al the handler goes on or ends.
Apply(t) ==
    /\ pc[t] = "apply"
    /\ n_pong_expected' = (n_pong_expected + delta[t]) % Modulus
    /\ delta' = [delta EXCEPT ![t] = 0]
    /\ IF t = "al" /\ Head(running) # <<"data">>
         THEN pc' = [pc EXCEPT ![t] = "match"] /\ UNCHANGED running
         ELSE pc' = [pc EXCEPT ![t] = "idle"]
              /\ running' = IF t = "al" THEN <<>> ELSE running
    /\ phase' = IF t = "main" THEN "endpoints" ELSE phase
    /\ UNCHANGED <<envVars, queue, tableVars, countVars, pongwr, sample, awaiting, minmatch,
                   rd_data, status, overtaken>>

\* What becomes of the table when get_pong_writer_locked looks up a publication whose
\* participant it finds to be h: unless the publication has its entry, an entry of h gets it
\* or is copied for it.  Without entry of h there is no pong.
Assigned(h, pub) ==
    IF (\E e \in pongwr : e.pubhandle = pub) \/ EntriesOf(h) = {} THEN {pongwr}
    ELSE {(pongwr \ {f \in {e} : f.pubhandle = NoPublication}) \cup {[e EXCEPT !.pubhandle = pub]} :
             e \in EntriesOf(h)}

\* process_data and process_ping look up where to send the pong, under pongwr_lock, on the
\* threads of their readers.  The sample may be older than the going of its participant, and
\* then the participant may not be found by its publication.
GetPongWriter(p, k) ==
    /\ phase \in {"run", "close"}
    /\ life[p] # "absent" /\ IsPeer(p)
    /\ \E h \in IF life[p] = "gone" THEN {p, Junk} ELSE {p} : pongwr' \in Assigned(h, <<p, k>>)
    /\ UNCHANGED <<envVars, queueVars, tableVars, countVars, n_pong_expected, threadVars, mainVars,
                   overtaken>>

Discover(t) ==
    \/ \E p \in Participant : TakeSample(t, p)
    \/ TakeNothing(t) \/ Gone(t) \/ Add(t) \/ Create(t) \/ Apply(t)

----------------------------------------------------------------------------
(* The al thread.                                                          *)

\* Mutant: the queue is not served once the participant is being deleted.
MayDispatchOpen == queue # <<>> /\ ~Deleted

MayDispatch == queue # <<>>

\* Every handler starts with async_participant_data_listener.
Dispatch ==
    /\ phase # "exited"
    /\ running = <<>>
    /\ MayDispatch
    /\ running' = <<Head(queue)>>
    /\ queue' = Tail(queue)
    /\ pc' = [pc EXCEPT !["al"] = "take"]
    /\ UNCHANGED <<envVars, tableVars, countVars, pongVars, sample, delta, mainVars, overtaken>>

\* Mutant: unmatched &= match_mask.
RemainingInverted(p, k) == unmatched[p] \cap {k}

\* unmatched &= ~match_mask.
Remaining(p, k) == unmatched[p] \ {k}

\* Mutant: a match counts the participant whether or not others are missing.
CompletesAlways(p, k) == TRUE

Completes(p, k) == Remaining(p, k) = {}

\* async_endpoint_matched_listener: the endpoint is looked up (it may be gone), then its
\* participant under disc_lock.
EndpointMatched ==
    LET p == Head(running)[2]
        k == Head(running)[3]
    IN  /\ pc["al"] = "match"
        /\ ~Deleted
        /\ \E found \in IF life[p] = "gone" THEN BOOLEAN ELSE {TRUE} :
             IF found /\ p \in ppants
             THEN /\ unmatched' = [unmatched EXCEPT ![p] = Remaining(p, k)]
                  /\ matchcount' = IF Completes(p, k) THEN (matchcount + 1) % Modulus ELSE matchcount
                  /\ completed' = IF unmatched'[p] = {} THEN completed \cup {p} ELSE completed
             ELSE UNCHANGED <<unmatched, matchcount, completed>>
        /\ running' = <<>>
        /\ pc' = [pc EXCEPT !["al"] = "idle"]
        /\ UNCHANGED <<envVars, queue, ppants, tdeadline, toMatch, matchtimeout, pongVars,
                       sample, delta, mainVars, overtaken>>

\* Reading or creating an entity of the deleted participant fails: error2 ends the process.
UseDeleted ==
    /\ pc["al"] \in {"take", "call", "match"}
    /\ MainGoes("deleted", "exited")
    /\ status' = "2"
    /\ UNCHANGED <<envVars, queueVars, tableVars, countVars, pongVars, threadVars, awaiting,
                   minmatch, rd_data, overtaken>>

----------------------------------------------------------------------------
(* The main thread.                                                        *)

\* Mutant: the samples that came before the listener was set are left in the reader.
SynchronousCallSkipped == pc

SynchronousCall == [pc EXCEPT !["main"] = "take"]

\* Set the listener, then call the handler for what arrived before.
SetListener ==
    /\ MainGoes("start", "sync")
    /\ pc' = SynchronousCall
    /\ UNCHANGED <<envVars, queueVars, tableVars, countVars, pongVars, sample, delta, awaiting,
                   minmatch, rd_data, status, overtaken>>

CreateEndpoints ==
    /\ phase = "endpoints"
    /\ phase' = IF InitWait THEN "initwait" ELSE "run"
    /\ rd_data' = Subscribing
    /\ UNCHANGED <<envVars, queueVars, tableVars, countVars, pongVars, threadVars, awaiting,
                   minmatch, status, overtaken>>

EnoughMatched == matchcount >= minmatch

\* UINT32_MAX.
Impossible == Modulus - 1

GiveUp == phase' = "close" /\ minmatch' = Impossible

\* The loop of initmaxwait ends with enough matches, or with its time over and too few.
InitWaitEnds ==
    /\ phase = "initwait"
    /\ IF EnoughMatched THEN phase' = "run" /\ UNCHANGED minmatch ELSE GiveUp
    /\ UNCHANGED <<envVars, queueVars, tableVars, countVars, pongVars, threadVars, awaiting,
                   rd_data, status, overtaken>>

\* tnow >= tmatch in the main loop.
VerifyMinMatch ==
    /\ phase = "run"
    /\ awaiting
    /\ IF EnoughMatched
         THEN awaiting' = FALSE /\ UNCHANGED <<phase, minmatch>>
         ELSE GiveUp /\ UNCHANGED awaiting
    /\ UNCHANGED <<envVars, queueVars, tableVars, countVars, pongVars, threadVars, rd_data,
                   status, overtaken>>

\* External: five seconds have passed since p was discovered.
DeadlinePasses(p) ==
    /\ ~Deleted
    /\ tdeadline[p] = "ahead"
    /\ tdeadline' = [tdeadline EXCEPT ![p] = "passed"]
    /\ UNCHANGED <<envVars, queueVars, ppants, unmatched, toMatch, countVars, pongVars,
                   threadVars, mainVars, overtaken>>

Overdue == {p \in toMatch : tdeadline[p] = "passed"}

\* The main loop empties the heap as far as the deadlines have passed, under disc_lock.
CheckDeadlines ==
    /\ phase = "run"
    /\ Overdue # {}
    /\ toMatch' = toMatch \ Overdue
    /\ tdeadline' = [p \in Participant |-> IF p \in Overdue THEN "never" ELSE tdeadline[p]]
    /\ matchtimeout' = (matchtimeout + Cardinality({p \in Overdue : unmatched[p] # {}})) % Modulus
    /\ UNCHANGED <<envVars, queueVars, ppants, unmatched, matchcount, completed, pongVars,
                   threadVars, mainVars, overtaken>>

\* termflag, or tstop reached.
Stop ==
    /\ MainGoes("run", "close")
    /\ UNCHANGED <<envVars, queueVars, tableVars, countVars, pongVars, threadVars, awaiting,
                   minmatch, rd_data, status, overtaken>>

\* dds_delete (dp) deletes the readers and the pong writers too.
DeleteParticipant ==
    /\ MainGoes("close", "deleted")
    /\ UNCHANGED <<envVars, queueVars, tableVars, countVars, pongVars, threadVars, awaiting,
                   minmatch, rd_data, status, overtaken>>

\* async_listener_stop returns when the queue is empty and no handler runs.
StopListener ==
    /\ MainGoes("deleted", "stopped")
    /\ queue = <<>> /\ running = <<>>
    /\ UNCHANGED <<envVars, queueVars, tableVars, countVars, pongVars, threadVars, awaiting,
                   minmatch, rd_data, status, overtaken>>

\* The exit status, as far as it depends on discovery.
Exit ==
    /\ MainGoes("stopped", "exited")
    /\ status' = IF (\A p \in ppants : unmatched[p] = {}) /\ EnoughMatched THEN "0" ELSE "1"
    /\ UNCHANGED <<envVars, queueVars, tableVars, countVars, pongVars, threadVars, awaiting,
                   minmatch, rd_data, overtaken>>

Main ==
    \/ SetListener \/ CreateEndpoints \/ InitWaitEnds \/ DeleteParticipant \/ StopListener
    \/ Exit \/ Discover("main")

Al == Dispatch \/ Discover("al") \/ EndpointMatched \/ UseDeleted

Exited == phase = "exited" /\ UNCHANGED vars

Next ==
    \/ Main \/ VerifyMinMatch \/ CheckDeadlines \/ Stop
    \/ Al
    \/ \E p \in Participant : Come(p) \/ Go(p) \/ DeadlinePasses(p) \/ \E k \in Kind : Match(p, k)
    \/ \E a \in Asking : GetPongWriter(a[1], a[2])
    \/ Exited

\* The threads run and the clock goes on.  Nothing makes a peer come, go or match, and
\* nothing ends the run but a signal or the time limit.
Fairness ==
    /\ WF_vars(Main) /\ WF_vars(Al) /\ WF_vars(CheckDeadlines)
    /\ \A p \in Participant : WF_vars(DeadlinePasses(p))

Spec == Init /\ [][Next]_vars /\ Fairness

----------------------------------------------------------------------------
(* Properties.                                                             *)

Peers == {p \in ppants : IsPeer(p)}

\* Peers that are in the table but not yet in the delta of the thread that adds them.
BeingCreated == {t \in Thread : pc[t] = "call"}

\* However the two threads interleave, the pongs expected and the deltas not yet applied
\* add up to the peers known, modulo the width of the counter: nobody is counted twice or
\* forgotten.
ExpectedAddsUp ==
    (n_pong_expected + delta["main"] + delta["al"] + Cardinality(BeingCreated)) % Modulus
    = Cardinality(Peers)

\* The heap holds exactly the participants of the table whose deadline is not "never": no
\* struct is freed while it is in the heap, and deleting one from the heap is always legal.
HeapHoldsDeadlines == toMatch = {p \in ppants : tdeadline[p] # "never"}

\* Nothing to do: no sample waits, no event is queued, no handler runs.
Quiet ==
    /\ phase \in {"endpoints", "initwait", "run"}
    /\ pc = [t \in Thread |-> "idle"] /\ queue = <<>>
    /\ \A p \in Participant : reader[p] = "none"

\* When nothing is left to do every participant that runs is in the table, and every peer has
\* an entry with its own pong writer, however their coming interleaved with the coming and
\* going of others.  Nothing else is left in the two tables, even if samples are looked up
\* while their participant goes, but for participants whose going overtook their coming, on
\* two threads, and the pong writers created for these.
TablesCurrent ==
    Quiet =>
        /\ \A p \in Participant : life[p] = "alive" =>
              p \in ppants /\ (IsPeer(p) => \E e \in EntriesOf(p) : e.wr_pong = p)
        /\ \A p \in ppants \ overtaken : life[p] = "alive"
        /\ \A e \in pongwr : e.wr_pong \notin overtaken =>
              e.pphandle = e.wr_pong /\ life[e.wr_pong] = "alive" /\ IsPeer(e.wr_pong)

\* ddsperf.c:125-128: matchcount is the "Number of participants for which all expected
\* endpoints have been matched": each participant is counted once.
MatchCountExact == matchcount = Cardinality(completed)

\* No match is forgotten: when nothing is left to do, no endpoint that has matched is among
\* those a participant still waits for.
NoMatchLost == Quiet => \A p \in ppants, k \in Kind : <<p, k>> \in matched => k \notin unmatched[p]

\* A sample never waits in the participants reader without an event or a handler that will
\* take it: also those that came before the listener was set, or while a handler was ending.
SamplesHandled ==
    /\ phase \in {"sync", "endpoints", "initwait", "run"}
    /\ pc = [t \in Thread |-> "idle"] /\ queue = <<>>
    => \A p \in Participant : reader[p] = "none"

\* Whatever is queued or half handled, a process that closes ends.
CloseEnds == (phase = "close") ~> (status # "none")

\* ddsperf.c:2676-2678: the listeners are stopped before the readers are deleted, lest they
\* "try to access a reader that has already become inaccessible".
NoDeletedReaderUsed == status # "2"
=============================================================================
