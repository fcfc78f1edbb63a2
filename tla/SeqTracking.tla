---------------------------- MODULE SeqTracking ----------------------------
(***************************************************************************)
(* How ddsperf detects lost samples (docs/ref/ddsperf.c): pubthread of the *)
(* publishers numbers its samples and deals them to the keys in turn; the  *)
(* subscriber keeps, for each publication and each key, the number it      *)
(* expects next (check_eseq), and its exit status tells of losses.         *)
(*                                                                         *)
(* The data reader of the DDS library lies between them: it keeps the      *)
(* samples of an instance (a key) in order, the last HistDepth of them     *)
(* only unless that is 0, and dds_take returns the samples instance by     *)
(* instance, the one first that has waited longest.  Publishers and        *)
(* subscriber are started with the same number of keys.                    *)
(***************************************************************************)
EXTENDS Integers, FiniteSets, SequencesExt

CONSTANTS
    Writer,         \* publication handles of the data writers
    NKeys,          \* nkeyvals: option -n
    HistDepth,      \* histdepth: 0 is KEEP_ALL
    Reliable,       \* reliable: option -u resets it
    MinReceived,    \* min_received
    Modulus,        \* 2^32: sequence numbers are uint32_t
    Lossy,          \* whether a sample may be lost on its way
    MaxWrites       \* bound: samples of each writer

ASSUME ConstantsAssumption ==
    /\ IsFiniteSet(Writer)
    /\ NKeys \in Nat \ {0} /\ Modulus \in Nat /\ NKeys < Modulus
    /\ {HistDepth, MinReceived, MaxWrites} \subseteq Nat
    /\ {Reliable, Lossy} \subseteq BOOLEAN

Key == 0 .. NKeys - 1
Number == 0 .. Modulus - 1

VARIABLES
    seq, keyval,    \* of the next sample of each writer
    written,        \* history: samples each writer has written
    cache,          \* the samples of each instance in the reader, oldest first
    order,          \* the instances that have samples, longest waiting first
    batch,          \* the samples dds_take returned that are not yet processed
    ph,             \* the publications known to eseq_admin, in the order they came
    eseq,           \* eseq_admin.eseq: the number expected next, for each key
    nrecv, nlost,   \* eseq_admin.stats
    got,            \* history: ordinals of the samples processed, for each writer
    first,          \* history: ordinal of the first of them
    status          \* exit status, or "none"

pubVars == <<seq, keyval, written>>
readerVars == <<cache, order>>
eseqVars == <<ph, eseq, nrecv, nlost, got, first>>
vars == <<pubVars, readerVars, batch, eseqVars, status>>

Sample == [w : Writer, seq : Number, key : Key, n : Nat]

TypeOK ==
    /\ seq \in [Writer -> Number] /\ keyval \in [Writer -> Key]
    /\ written \in [Writer -> Nat]
    /\ cache \in [Key -> Seq(Sample)] /\ order \in Seq(Key)
    /\ batch \in Seq(Sample)
    /\ ph \in Seq(Writer)
    /\ eseq \in [Writer -> [Key -> Number]]
    /\ nrecv \in [Writer -> Nat] /\ nlost \in [Writer -> Nat]
    /\ got \in [Writer -> SUBSET Nat] /\ first \in [Writer -> Nat]
    /\ status \in {"none", "0", "1"}

Init ==
    /\ seq = [w \in Writer |-> 0] /\ keyval = [w \in Writer |-> 0]
    /\ written = [w \in Writer |-> 0]
    /\ cache = [k \in Key |-> <<>>] /\ order = <<>>
    /\ batch = <<>>
    /\ ph = <<>>
    /\ eseq = [w \in Writer |-> [k \in Key |-> 0]]
    /\ nrecv = [w \in Writer |-> 0] /\ nlost = [w \in Writer |-> 0]
    /\ got = [w \in Writer |-> {}] /\ first = [w \in Writer |-> 0]
    /\ status = "none"

----------------------------------------------------------------------------
(* pubthread and the data reader.                                          *)

\* The history of an instance with one more sample.
Kept(samples) ==
    IF HistDepth > 0 /\ Len(samples) > HistDepth THEN Tail(samples) ELSE samples

Deliver(s) ==
    /\ cache' = [cache EXCEPT ![s.key] = Kept(Append(@, s))]
    /\ order' = IF cache[s.key] = <<>> THEN Append(order, s.key) ELSE order

\* dds_write_ts succeeds, now or when it is tried again after a timeout; then the number
\* and the key of the next sample.
Write(w) ==
    /\ status = "none"
    /\ written[w] < MaxWrites
    /\ \/ Deliver([w |-> w, seq |-> seq[w], key |-> keyval[w], n |-> written[w]])
       \/ Lossy /\ UNCHANGED readerVars
    /\ seq' = [seq EXCEPT ![w] = (@ + 1) % Modulus]
    /\ keyval' = [keyval EXCEPT ![w] = (@ + 1) % NKeys]
    /\ written' = [written EXCEPT ![w] = @ + 1]
    /\ UNCHANGED <<batch, eseqVars, status>>

----------------------------------------------------------------------------
(* process_data and check_eseq.                                            *)

\* Fewer samples wait than the 1000 that dds_take may return.
Take ==
    /\ status = "none"
    /\ batch = <<>> /\ order # <<>>
    /\ batch' = FlattenSeq([i \in DOMAIN order |-> cache[order[i]]])
    /\ cache' = [k \in Key |-> <<>>]
    /\ order' = <<>>
    /\ UNCHANGED <<pubVars, eseqVars, status>>

\* Mutant: the number is kept wider than the 32 bits it is sent with.
ExpectedNextWide(s) == s.seq + NKeys

\* seq + nkeys: the number of the next sample for the same key.
ExpectedNext(s) == (s.seq + NKeys) % Modulus

\* Mutant: the key of the first sample itself is expected at once.
ExpectedAfterFirstOff(s, k) ==
    (s.seq + (k - s.key) + (IF k < s.key THEN NKeys ELSE 0)) % Modulus

\* seq + (i - keyval) + (i <= keyval ? nkeys : 0): the keys come in turn.
ExpectedAfterFirst(s, k) ==
    (s.seq + (k - s.key) + (IF k <= s.key THEN NKeys ELSE 0)) % Modulus

\* nlost += seq - e, a difference of uint32_t.
LostBefore(s) == (s.seq - eseq[s.w][s.key]) % Modulus

KnownPublication(w) == Contains(ph, w)

\* One sample, under the lock of eseq_admin.
CheckEseq ==
    LET s == Head(batch)
    IN  /\ batch # <<>>
        /\ batch' = Tail(batch)
        /\ IF KnownPublication(s.w)
             THEN /\ eseq' = [eseq EXCEPT ![s.w][s.key] = ExpectedNext(s)]
                  /\ nlost' = [nlost EXCEPT ![s.w] = @ + LostBefore(s)]
                  /\ UNCHANGED <<ph, first>>
             ELSE /\ eseq' = [eseq EXCEPT ![s.w] = [k \in Key |-> ExpectedAfterFirst(s, k)]]
                  /\ ph' = Append(ph, s.w)
                  /\ first' = [first EXCEPT ![s.w] = s.n]
                  /\ UNCHANGED nlost
        /\ nrecv' = [nrecv EXCEPT ![s.w] = @ + 1]
        /\ got' = [got EXCEPT ![s.w] = @ \cup {s.n}]
        /\ UNCHANGED <<pubVars, readerVars, status>>

----------------------------------------------------------------------------
(* The end of main.                                                        *)

\* Mutant: the losses of the last publication only.
SomeLostLast == ph # <<>> /\ nlost[ph[Len(ph)]] > 0

\* The sum over the publications of nlost is positive.
SomeLost == \E i \in DOMAIN ph : nlost[ph[i]] > 0

\* Every publication that was seen has sent enough.
ReceivedOk == \A i \in DOMAIN ph : nrecv[ph[i]] >= MinReceived

\* The reader is deleted when no handler runs, then the exit status is computed.
Exit ==
    /\ status = "none"
    /\ batch = <<>>
    /\ status' = IF (SomeLost /\ Reliable /\ HistDepth = 0) \/ ~ReceivedOk THEN "1" ELSE "0"
    /\ UNCHANGED <<pubVars, readerVars, batch, eseqVars>>

Exited == status # "none" /\ UNCHANGED vars

Next ==
    \/ \E w \in Writer : Write(w)
    \/ Take \/ CheckEseq
    \/ Exit \/ Exited

Spec == Init /\ [][Next]_vars

----------------------------------------------------------------------------
(* Properties.                                                             *)

\* The samples of w that were lost: sent after the first sample of w that was processed
\* and never processed, although a later one of their key was.
Missing(w) ==
    {n \in first[w] + 1 .. written[w] - 1 :
        n \notin got[w] /\ \E m \in got[w] : m > n /\ m % NKeys = n % NKeys}

\* The first sample of w that was processed is older than all others: a reader of several
\* publications may return a younger one first, when its instance has waited longer.
FirstIsOldest(w) == \A n \in got[w] : n >= first[w]

\* Fewer numbers than their range are skipped before each sample of w that was processed:
\* counting from the first one, or from an earlier one of the same key.
GapsShort(w) ==
    \A n \in got[w] :
        \/ n <= first[w] + Modulus
        \/ \E m \in got[w] : m < n /\ m % NKeys = n % NKeys /\ n - m < Modulus + NKeys

LossesVisible(w) == FirstIsOldest(w) /\ GapsShort(w)

\* The losses are exact, each lost sample counting as NKeys: whichever sample of the cycle
\* of keys comes first, across the wrap of the numbers, for any mix of publications and any
\* gaps shorter than the range of the numbers.
LossDetected ==
    \A w \in Writer : LossesVisible(w) => nlost[w] = NKeys * Cardinality(Missing(w))

\* A reliable run with all history ends with status 0 exactly when no sample of any
\* publication was lost and each has sent enough.
ExitTellsLoss ==
    status # "none" /\ (\A w \in Writer : LossesVisible(w)) =>
        (status = "0" <=> \A i \in DOMAIN ph :
            /\ Reliable /\ HistDepth = 0 => Missing(ph[i]) = {}
            /\ Cardinality(got[ph[i]]) >= MinReceived)
=============================================================================
