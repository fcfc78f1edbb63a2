------------------------- MODULE SeqTrackingProofs -------------------------
(***************************************************************************)
(* Losses are counted exactly, for any publications, keys, range of the    *)
(* sequence numbers and depth of history.                                  *)
(***************************************************************************)
EXTENDS SeqTracking, SequenceTheorems, FiniteSetTheorems, WellFoundedInduction, TLAPS

----------------------------------------------------------------------------
(* Remainders.                                                             *)

LEMMA Division ==
  ASSUME NEW a \in Int, NEW n \in Nat \ {0}
  PROVE  a = n * (a \div n) + (a % n) /\ a \div n \in Int /\ a % n \in 0 .. n - 1
  OBVIOUS

LEMMA DivisionUnique ==
  ASSUME NEW n \in Nat \ {0}, NEW q \in Int, NEW r \in 0 .. n - 1, NEW p \in Int,
         NEW t \in 0 .. n - 1, n * q + r = n * p + t
  PROVE  q = p /\ r = t
<1>1. n * (q - p) = t - r
  OBVIOUS
<1>2. (q - p >= 1 => n * (q - p) >= n) /\ (q - p <= -1 => n * (q - p) <= -n)
  OBVIOUS
<1>3. q = p
  BY <1>1, <1>2
<1> QED
  BY <1>3

LEMMA RemainderIs ==
  ASSUME NEW n \in Nat \ {0}, NEW q \in Int, NEW r \in 0 .. n - 1
  PROVE  (n * q + r) % n = r
<1> DEFINE a == n * q + r
<1>1. a \in Int /\ a = n * q + r
  OBVIOUS
<1> HIDE DEF a
<1>2. a % n = r
  BY <1>1, Division, DivisionUnique
<1> QED
  BY <1>2 DEF a

\* Numbers are congruent exactly when their difference is a multiple of the modulus.
LEMMA Congruent ==
  ASSUME NEW n \in Nat \ {0}, NEW a \in Int, NEW b \in Int
  PROVE  a % n = b % n <=> \E q \in Int : a = b + n * q
<1> DEFINE u == a \div n
           v == b \div n
           r == a % n
           t == b % n
<1>1. a = n * u + r /\ u \in Int /\ r \in 0 .. n - 1
  BY Division
<1>2. b = n * v + t /\ v \in Int /\ t \in 0 .. n - 1
  BY Division
<1> HIDE DEF u, v, r, t
<1>3. ASSUME r = t PROVE \E q \in Int : a = b + n * q
  <2>1. u - v \in Int /\ a = b + n * (u - v)
    BY <1>1, <1>2, <1>3
  <2> QED
    BY <2>1
<1>4. ASSUME NEW q \in Int, a = b + n * q PROVE r = t
  <2>1. v + q \in Int /\ n * u + r = n * (v + q) + t
    BY <1>1, <1>2, <1>4
  <2> QED
    BY <1>1, <1>2, <2>1, DivisionUnique
<1> QED
  BY <1>3, <1>4 DEF r, t

\* The remainder of a successor.
LEMMA NextRemainder ==
  ASSUME NEW n \in Nat \ {0}, NEW a \in Int, NEW d \in Int
  PROVE  ((a % n) + d) % n = (a + d) % n
<1> DEFINE r == a % n
           u == a \div n
<1>1. a = n * u + r /\ u \in Int /\ r \in 0 .. n - 1
  BY Division
<1> HIDE DEF r, u
<1>2. r + d \in Int /\ a + d \in Int /\ a + d = (r + d) + n * u
  BY <1>1
<1>3. (r + d) % n = (a + d) % n
  BY <1>1, <1>2, Congruent
<1> QED
  BY <1>3 DEF r

\* The distance of two numbers is that of their remainders, if it is in the range.
LEMMA RemainderOfDistance ==
  ASSUME NEW n \in Nat \ {0}, NEW a \in Int, NEW b \in Int, a - b \in 0 .. n - 1
  PROVE  ((a % n) - (b % n)) % n = a - b
<1> DEFINE r == a % n
           t == b % n
           u == a \div n
           v == b \div n
<1>1. a = n * u + r /\ u \in Int /\ r \in 0 .. n - 1
  BY Division
<1>2. b = n * v + t /\ v \in Int /\ t \in 0 .. n - 1
  BY Division
<1> HIDE DEF u, v, r, t
<1>3. r - t \in Int /\ v - u \in Int /\ r - t = (a - b) + n * (v - u)
  BY <1>1, <1>2
<1>4. (r - t) % n = (a - b) % n
  <2>1. a - b \in Int
    OBVIOUS
  <2>2. \E q \in Int : r - t = (a - b) + n * q
    BY <1>3
  <2> QED
    BY <1>3, <2>1, <2>2, Congruent
<1>5. (a - b) % n = a - b
  <2>1. a - b = n * 0 + (a - b)
    OBVIOUS
  <2> QED
    BY <2>1, RemainderIs
<1> QED
  BY <1>4, <1>5 DEF r, t

\* Congruent numbers are multiples of the modulus apart.
LEMMA CongruentApart ==
  ASSUME NEW n \in Nat \ {0}, NEW a \in Int, NEW b \in Int, a % n = b % n, a < b
  PROVE  /\ a <= b - n
         /\ \E q \in Nat \ {0} : b = a + n * q
<1>1. PICK q \in Int : b = a + n * q
  BY Congruent
<1>2. n * q > 0
  BY <1>1
<1>3. q <= 0 => n * q <= 0
  OBVIOUS
<1>4. q \in Nat \ {0}
  BY <1>2, <1>3
<1>5. n * q >= n
  BY <1>4
<1> QED
  BY <1>1, <1>4, <1>5

LEMMA ShiftByModulus ==
  ASSUME NEW n \in Nat \ {0}, NEW a \in Int
  PROVE  (a + n) % n = a % n /\ (a - n) % n = a % n
<1>1. a + n \in Int /\ a - n \in Int /\ 1 \in Int /\ -1 \in Int
  OBVIOUS
<1>2. a + n = a + n * 1 /\ a - n = a + n * (-1)
  OBVIOUS
<1>3. (\E q \in Int : a + n = a + n * q) /\ (\E q \in Int : a - n = a + n * q)
  BY <1>1, <1>2
<1> QED
  BY <1>1, <1>3, Congruent

\* The members of a progression.
LEMMA Progression ==
  ASSUME NEW n \in Nat \ {0}, NEW x \in Int, NEW q \in Nat
  PROVE  /\ IsFiniteSet({x + n * i : i \in 0 .. q - 1})
         /\ Cardinality({x + n * i : i \in 0 .. q - 1}) = q
<1> DEFINE S == {x + n * i : i \in 0 .. q - 1}
           f == [i \in 0 .. q - 1 |-> x + n * i]
<1>1. IsFiniteSet(0 .. q - 1) /\ Cardinality(0 .. q - 1) = q
  <2>1. 0 \in Int /\ q - 1 \in Int
    OBVIOUS
  <2>2. IsFiniteSet(0 .. q - 1) /\ Cardinality(0 .. q - 1) = IF 0 > q - 1 THEN 0 ELSE (q - 1) - 0 + 1
    BY <2>1, FS_Interval
  <2> QED
    BY <2>2
<1>2. \A i, j \in 0 .. q - 1 : x + n * i = x + n * j => i = j
  <2> SUFFICES ASSUME NEW i \in 0 .. q - 1, NEW j \in 0 .. q - 1, x + n * i = x + n * j
               PROVE  i = j
    OBVIOUS
  <2>1. i \in Int /\ j \in Int /\ 0 \in 0 .. n - 1 /\ n * i + 0 = n * j + 0
    OBVIOUS
  <2> QED
    BY <2>1, DivisionUnique
<1>3. f \in Bijection(0 .. q - 1, S)
  <2>1. f \in [0 .. q - 1 -> S]
    OBVIOUS
  <2>2. \A t \in S : \E i \in 0 .. q - 1 : f[i] = t
    OBVIOUS
  <2>3. \A i, j \in 0 .. q - 1 : f[i] = f[j] => i = j
    BY <1>2
  <2> HIDE DEF f, S
  <2> QED
    BY <2>1, <2>2, <2>3 DEF Bijection, Injection, Surjection, IsInjective
<1>4. ExistsBijection(0 .. q - 1, S)
  BY <1>3 DEF ExistsBijection
<1> HIDE DEF S
<1>5. IsFiniteSet(S) /\ Cardinality(S) = q
  BY <1>1, <1>4, FS_Bijection
<1> QED
  BY <1>5 DEF S

----------------------------------------------------------------------------
(* Flattening.                                                             *)

\* Of some numbers up to n one is the smallest.
LEMMA SmallestNumber ==
  ASSUME NEW n \in Nat, NEW T \in SUBSET (1 .. n), T # {}
  PROVE  \E m \in T : \A k \in 1 .. m - 1 : k \notin T
<1> DEFINE U == {1 .. m : m \in T}
           W == SUBSET (1 .. n)
<1>1. IsWellFoundedOn(StrictSubsetOrdering(1 .. n), W)
  <2>1. IsFiniteSet(1 .. n)
    BY FS_Interval
  <2> QED
    BY <2>1, FS_StrictSubsetOrderingWellFounded, FS_FiniteSubsetsOfFinite
<1>2. \A m \in T : 1 .. m \in U /\ 1 .. m \in W /\ m \in 1 .. m
  OBVIOUS
<1>3. U \subseteq W /\ U # {} /\ \A x \in U : \E m \in T : x = 1 .. m
  BY <1>2
<1> HIDE DEF U
<1>4. PICK x \in U : \A y \in U : ~ (<<y, x>> \in StrictSubsetOrdering(1 .. n))
  <2> HIDE DEF W
  <2> QED
    BY <1>1, <1>3, WFMin
<1>5. PICK m \in T : x = 1 .. m
  BY <1>3
<1>6. ASSUME NEW k \in 1 .. m - 1, k \in T PROVE FALSE
  <2>1. 1 .. k \in U /\ m \in 1 .. m
    BY <1>2, <1>6
  <2>2. 1 .. k \subseteq 1 .. m /\ m \notin 1 .. k
    BY <1>6
  <2>3. <<1 .. k, x>> \in StrictSubsetOrdering(1 .. n)
    <3>1. 1 .. k \in SUBSET (1 .. n) /\ x \in SUBSET (1 .. n)
      BY <1>2, <1>5, <1>6
    <3>2. 1 .. k \subseteq x /\ 1 .. k # x
      BY <1>5, <2>1, <2>2
    <3> QED
      BY <3>1, <3>2 DEF StrictSubsetOrdering
  <2> QED
    BY <1>4, <2>1, <2>3
<1> QED
  BY <1>6

\* R relates every element of s to every later one.
Ordered(s, R) == \A i, j \in 1 .. Len(s) : i < j => <<s[i], s[j]>> \in R

\* h[m] is the first m blocks, one after the other.
Flattens(seqs, h) ==
    h = [m \in 1 .. Len(seqs) |-> IF m = 1 THEN seqs[m] ELSE h[m - 1] \o seqs[m]]

LEMMA FlattenExists ==
  ASSUME NEW S, NEW seqs \in Seq(S)
  PROVE  \E h : Flattens(seqs, h)
<1> DEFINE n == Len(seqs)
           Upto(l, h) == /\ h = [m \in 1 .. l |-> h[m]]
                         /\ \A m \in 1 .. l : h[m] = IF m = 1 THEN seqs[m] ELSE h[m - 1] \o seqs[m]
           T == {l \in 1 .. n : ~\E h : Upto(l, h)}
<1>1. n \in Nat
  BY LenProperties
<1>2. T = {}
  <2> SUFFICES ASSUME T # {} PROVE FALSE
    OBVIOUS
  <2>1. PICK l \in T : \A k \in 1 .. l - 1 : k \notin T
    <3> HIDE DEF T
    <3>1. T \in SUBSET (1 .. n)
      BY DEF T
    <3> HIDE DEF n
    <3> QED
      BY <1>1, <3>1, SmallestNumber
  <2>2. CASE l = 1
    <3>1. Upto(1, [m \in 1 .. 1 |-> seqs[m]])
      OBVIOUS
    <3> QED
      BY <2>2, <3>1
  <2>3. CASE l # 1
    <3>0. l \in 1 .. n
      OBVIOUS
    <3>1. l \in Nat /\ l > 1 /\ l - 1 \in 1 .. n /\ l - 1 \notin T
      <4> HIDE DEF T, n
      <4>1. l \in Nat /\ l > 1 /\ l - 1 \in 1 .. n /\ l - 1 \in 1 .. l - 1
        BY <1>1, <2>3, <3>0
      <4> QED
        BY <2>1, <4>1
    <3>2. PICK h : Upto(l - 1, h)
      BY <3>1
    <3> DEFINE g == [m \in 1 .. l |-> IF m = l THEN h[l - 1] \o seqs[l] ELSE h[m]]
    <3> HIDE DEF n, T
    <3>3. \A m \in 1 .. l : m # l => m \in 1 .. l - 1 /\ (m # 1 => m - 1 \in 1 .. l - 1)
      BY <3>1
    <3>4. g[l] = h[l - 1] \o seqs[l] /\ g[l - 1] = h[l - 1]
      <4>1. l \in 1 .. l /\ l - 1 \in 1 .. l /\ l - 1 # l
        BY <3>1
      <4> QED
        BY <4>1
    <3>5. ASSUME NEW m \in 1 .. l, m # l
          PROVE  g[m] = IF m = 1 THEN seqs[m] ELSE g[m - 1] \o seqs[m]
      <4>1. g[m] = h[m]
        BY <3>5
      <4>2. m # 1 => m - 1 \in 1 .. l /\ m - 1 # l
        BY <3>1, <3>3, <3>5
      <4>3. m # 1 => g[m - 1] = h[m - 1]
        BY <4>2
      <4> QED
        BY <3>2, <3>3, <3>5, <4>1, <4>3
    <3>6. g = [m \in 1 .. l |-> g[m]]
      OBVIOUS
    <3> HIDE DEF g
    <3>7. \A m \in 1 .. l : g[m] = IF m = 1 THEN seqs[m] ELSE g[m - 1] \o seqs[m]
      BY <2>3, <3>4, <3>5
    <3>8. Upto(l, g)
      BY <3>6, <3>7
    <3> QED
      BY <3>8 DEF T
  <2> QED
    BY <2>2, <2>3
<1>3. CASE n = 0
  <2>1. Flattens(seqs, [m \in 1 .. 0 |-> 0])
    BY <1>3 DEF Flattens
  <2> QED
    BY <2>1
<1>4. CASE n # 0
  <2>1. n \in 1 .. n
    BY <1>1, <1>4
  <2>2. PICK h : Upto(n, h)
    BY <1>2, <2>1
  <2>3. h = [m \in 1 .. n |-> h[m]]
        /\ \A m \in 1 .. n : h[m] = IF m = 1 THEN seqs[m] ELSE h[m - 1] \o seqs[m]
    BY <2>2
  <2>4. Flattens(seqs, h)
    BY <2>3 DEF Flattens
  <2> QED
    BY <2>4
<1> QED
  BY <1>3, <1>4

\* Blocks that are in order, each before the next ones, are in order when flattened.
LEMMA FlattenOrdered ==
  ASSUME NEW S, NEW R, NEW seqs \in Seq(Seq(S)),
         \A b \in 1 .. Len(seqs) : Ordered(seqs[b], R),
         \A b, c \in 1 .. Len(seqs) : b < c =>
            \A i \in 1 .. Len(seqs[b]), j \in 1 .. Len(seqs[c]) : <<seqs[b][i], seqs[c][j]>> \in R
  PROVE  /\ FlattenSeq(seqs) \in Seq(S)
         /\ Ordered(FlattenSeq(seqs), R)
         /\ \A i \in 1 .. Len(FlattenSeq(seqs)) :
              \E b \in 1 .. Len(seqs) : \E j \in 1 .. Len(seqs[b]) :
                FlattenSeq(seqs)[i] = seqs[b][j]
<1> DEFINE n == Len(seqs)
           From(t, m) == \A i \in 1 .. Len(t) : \E b \in 1 .. m :
                           \E j \in 1 .. Len(seqs[b]) : t[i] = seqs[b][j]
           Good(t, m) == t \in Seq(S) /\ Ordered(t, R) /\ From(t, m)
<1>1. n \in Nat /\ \A b \in 1 .. n : seqs[b] \in Seq(S)
  BY LenProperties, ElementOfSeq
<1>2. CASE n = 0
  <2>1. FlattenSeq(seqs) = seqs /\ seqs = <<>>
    BY <1>2, EmptySeq DEF FlattenSeq
  <2> QED
    BY <2>1, EmptySeq DEF Ordered
<1>3. CASE n # 0
  <2> DEFINE h == CHOOSE g : Flattens(seqs, g)
  <2>1. FlattenSeq(seqs) = h[n]
    BY <1>3 DEF FlattenSeq, Flattens
  <2>2. Flattens(seqs, h)
    BY FlattenExists
  <2> HIDE DEF h
  <2>3. \A m \in 1 .. n : h[m] = IF m = 1 THEN seqs[m] ELSE h[m - 1] \o seqs[m]
    BY <2>2 DEF Flattens
  <2> DEFINE T == {m \in 1 .. n : ~Good(h[m], m)}
  <2>4. ASSUME T # {} PROVE FALSE
    <3>1. PICK m \in T : \A k \in 1 .. m - 1 : k \notin T
      <4>1. T \in SUBSET (1 .. n)
        OBVIOUS
      <4> HIDE DEF T, n
      <4> QED
        BY <1>1, <2>4, <4>1, SmallestNumber
    <3>2. m \in 1 .. n /\ m \in Nat /\ seqs[m] \in Seq(S) /\ Ordered(seqs[m], R)
      BY <1>1
    <3>3. CASE m = 1
      <4>1. h[m] = seqs[m]
        BY <2>3, <3>2, <3>3
      <4>2. From(h[m], m)
        BY <4>1, <3>2
      <4> QED
        BY <3>2, <4>1, <4>2
    <3>4. CASE m # 1
      <4> DEFINE t == h[m - 1]
                 u == seqs[m]
      <4>1. m - 1 \in 1 .. n /\ m - 1 \in 1 .. m - 1
        <5> HIDE DEF n
        <5> QED
          BY <1>1, <3>2, <3>4
      <4>2. Good(t, m - 1)
        BY <3>1, <4>1
      <4>3. h[m] = t \o u
        BY <2>3, <3>2, <3>4
      <4>4. t \in Seq(S) /\ u \in Seq(S) /\ Ordered(t, R) /\ Ordered(u, R) /\ From(t, m - 1)
        BY <3>2, <4>2
      <4>5. \A i \in 1 .. Len(t), j \in 1 .. Len(u) : <<t[i], u[j]>> \in R
        <5> SUFFICES ASSUME NEW i \in 1 .. Len(t), NEW j \in 1 .. Len(u)
                     PROVE  <<t[i], u[j]>> \in R
          OBVIOUS
        <5>1. PICK b \in 1 .. m - 1 : \E k \in 1 .. Len(seqs[b]) : t[i] = seqs[b][k]
          BY <4>4
        <5>2. b \in 1 .. n /\ b < m
          <6> HIDE DEF n
          <6> QED
            BY <1>1, <3>2
        <5> QED
          BY <3>2, <5>1, <5>2
      <4> HIDE DEF t, u, Good, From
      <4>6. Len(t) \in Nat /\ Len(u) \in Nat
        BY <4>4, LenProperties
      <4>7. /\ t \o u \in Seq(S) /\ Len(t \o u) = Len(t) + Len(u)
            /\ \A i \in 1 .. Len(t) + Len(u) :
                 (t \o u)[i] = IF i <= Len(t) THEN t[i] ELSE u[i - Len(t)]
        BY <4>4, ConcatProperties
      <4>8. \A i \in 1 .. Len(t) + Len(u) : i \in Nat
                 /\ (i <= Len(t) => i \in 1 .. Len(t))
                 /\ (~(i <= Len(t)) => i - Len(t) \in 1 .. Len(u))
        BY <4>6
      <4>9. Ordered(t \o u, R)
        <5> SUFFICES ASSUME NEW i \in 1 .. Len(t) + Len(u), NEW j \in 1 .. Len(t) + Len(u), i < j
                     PROVE  <<(t \o u)[i], (t \o u)[j]>> \in R
          BY <4>7 DEF Ordered
        <5>1. CASE j <= Len(t)
          <6>1. i <= Len(t) /\ i \in 1 .. Len(t) /\ j \in 1 .. Len(t)
            BY <4>6, <4>8, <5>1
          <6> QED
            BY <4>4, <4>7, <5>1, <6>1 DEF Ordered
        <5>2. CASE i <= Len(t) /\ ~(j <= Len(t))
          BY <4>5, <4>7, <4>8, <5>2
        <5>3. CASE ~(i <= Len(t))
          <6>1. ~(j <= Len(t)) /\ i - Len(t) < j - Len(t)
            BY <4>6, <5>3
          <6>2. <<u[i - Len(t)], u[j - Len(t)]>> \in R
            BY <4>4, <4>8, <5>3, <6>1 DEF Ordered
          <6> QED
            BY <4>7, <5>3, <6>1, <6>2
        <5> QED
          BY <5>1, <5>2, <5>3
      <4>10. From(t \o u, m)
        <5> SUFFICES ASSUME NEW i \in 1 .. Len(t) + Len(u)
                     PROVE  \E b \in 1 .. m : \E j \in 1 .. Len(seqs[b]) : (t \o u)[i] = seqs[b][j]
          BY <4>7 DEF From
        <5>1. CASE i <= Len(t)
          <6>1. PICK b \in 1 .. m - 1 : \E j \in 1 .. Len(seqs[b]) : t[i] = seqs[b][j]
            BY <4>4, <4>8, <5>1 DEF From
          <6>2. b \in 1 .. m
            BY <3>2
          <6> QED
            BY <4>7, <5>1, <6>1, <6>2
        <5>2. CASE ~(i <= Len(t))
          <6>1. m \in 1 .. m /\ i - Len(t) \in 1 .. Len(u)
            BY <3>2, <4>8, <5>2
          <6> QED
            BY <4>7, <5>2, <6>1 DEF u
        <5> QED
          BY <5>1, <5>2
      <4>11. Good(h[m], m)
        BY <4>3, <4>7, <4>9, <4>10 DEF Good
      <4> QED
        BY <4>11 DEF T
    <3> QED
      BY <3>3, <3>4
  <2>5. Good(h[n], n)
    <3>1. n \in 1 .. n
      <4> HIDE DEF n
      <4> QED
        BY <1>1, <1>3
    <3> HIDE DEF Good
    <3> QED
      BY <2>4, <3>1
  <2> QED
    BY <2>1, <2>5
<1> QED
  BY <1>2, <1>3

----------------------------------------------------------------------------
(* The inductive invariant.                                                *)

\* pubthread's number and key are those of the ordinal of its next sample.
PubInv ==
    \A w \in Writer : seq[w] = written[w] % Modulus /\ keyval[w] = written[w] % NKeys

\* A sample as its writer made it.
Genuine(s) ==
    s.n < written[s.w] /\ s.seq = s.n % Modulus /\ s.key = s.n % NKeys

\* The reader keeps samples by instance, and lists every instance that has some once.
ReaderInv ==
    /\ \A k \in Key : \A i \in 1 .. Len(cache[k]) : Genuine(cache[k][i]) /\ cache[k][i].key = k
    /\ \A i \in 1 .. Len(batch) : Genuine(batch[i])
    /\ \A i \in 1 .. Len(order) : cache[order[i]] # <<>>
    /\ \A i, j \in 1 .. Len(order) : i # j => order[i] # order[j]

\* t does not come before s: of the same publication and key, it is the younger one.
After(s, t) == s.w = t.w /\ s.key = t.key => s.n < t.n

\* s is younger than the samples of its publication and key that were processed.
AfterProcessed(s) == \A n \in got[s.w] : n % NKeys = s.key => n < s.n

\* The samples of a publication and key come in the order they were written: those that
\* were processed, then those taken, then those in the reader.
InOrder ==
    /\ \A k \in Key : \A i, j \in 1 .. Len(cache[k]) : i < j => After(cache[k][i], cache[k][j])
    /\ \A i, j \in 1 .. Len(batch) : i < j => After(batch[i], batch[j])
    /\ \A i \in 1 .. Len(batch) : \A k \in Key : \A j \in 1 .. Len(cache[k]) :
         After(batch[i], cache[k][j])
    /\ \A i \in 1 .. Len(batch) : AfterProcessed(batch[i])
    /\ \A k \in Key : \A i \in 1 .. Len(cache[k]) : AfterProcessed(cache[k][i])

\* What was processed of each publication.
ProcessedInv ==
    \A w \in Writer :
        /\ \A n \in got[w] : n < written[w]
        /\ nrecv[w] = Cardinality(got[w])
        /\ KnownPublication(w) <=> got[w] # {}
        /\ got[w] # {} => first[w] \in got[w]

\* x is the ordinal of the sample that check_eseq expects next for publication w and key k:
\* NKeys after the last one processed, or in the first cycle after the first of all.
Expected(w, k, x) ==
    /\ x % NKeys = k
    /\ \/ /\ x - NKeys \in got[w]
          /\ \A n \in got[w] : n % NKeys = k => n < x
       \/ /\ x \in first[w] + 1 .. first[w] + NKeys
          /\ \A n \in got[w] : n % NKeys # k

EseqInv ==
    \A w \in Writer : KnownPublication(w) =>
        \A k \in Key : \E x \in 1 .. written[w] + NKeys :
            Expected(w, k, x) /\ eseq[w][k] = x % Modulus

\* The exit status was computed from the tables as they still are.
StatusInv ==
    status # "none" =>
        /\ batch = <<>>
        /\ status = IF (SomeLost /\ Reliable /\ HistDepth = 0) \/ ~ReceivedOk THEN "1" ELSE "0"

IInv ==
    /\ TypeOK
    /\ PubInv
    /\ ReaderInv
    /\ InOrder
    /\ ProcessedInv
    /\ EseqInv
    /\ StatusInv
    /\ LossDetected

LEMMA InitIInv == Init => IInv
<1> SUFFICES ASSUME Init PROVE IInv
  OBVIOUS
<1> USE ConstantsAssumption DEF Init
<1>1. 0 \in Number /\ 0 \in Key /\ 0 % Modulus = 0 /\ 0 % NKeys = 0
  BY DEF Number, Key
<1>2. TypeOK
  <2>1. <<>> \in Seq(Sample) /\ <<>> \in Seq(Key) /\ <<>> \in Seq(Writer)
    BY EmptySeq
  <2>2. /\ seq \in [Writer -> Number] /\ keyval \in [Writer -> Key] /\ written \in [Writer -> Nat]
        /\ eseq \in [Writer -> [Key -> Number]]
    BY <1>1
  <2>3. /\ nrecv \in [Writer -> Nat] /\ nlost \in [Writer -> Nat]
        /\ got \in [Writer -> SUBSET Nat] /\ first \in [Writer -> Nat] /\ status = "none"
    OBVIOUS
  <2>4. cache \in [Key -> Seq(Sample)]
    BY <2>1
  <2> QED
    BY <2>1, <2>2, <2>3, <2>4 DEF TypeOK
<1>3. PubInv
  BY <1>1 DEF PubInv
<1>4. ReaderInv /\ InOrder
  BY EmptySeq DEF ReaderInv, InOrder
<1>5. \A w \in Writer : ~KnownPublication(w)
  BY EmptySeq DEF KnownPublication, Contains
<1>6. ProcessedInv /\ EseqInv
  BY <1>5, FS_EmptySet DEF ProcessedInv, EseqInv
<1>7. LossDetected
  <2>1. \A w \in Writer : Missing(w) = {}
    BY DEF Missing
  <2>2. \A w \in Writer : nlost[w] = 0 /\ Cardinality(Missing(w)) = 0
    BY <2>1, FS_EmptySet
  <2>3. NKeys * 0 = 0
    OBVIOUS
  <2> QED
    BY <2>2, <2>3 DEF LossDetected
<1> QED
  BY <1>2, <1>3, <1>4, <1>6, <1>7 DEF IInv, StatusInv

\* The types of what the invariant speaks about.
LEMMA Types ==
  ASSUME TypeOK
  PROVE  /\ \A k \in Key : /\ cache[k] \in Seq(Sample) /\ Len(cache[k]) \in Nat
                           /\ \A i \in 1 .. Len(cache[k]) : cache[k][i] \in Sample
         /\ Len(batch) \in Nat /\ \A i \in 1 .. Len(batch) : batch[i] \in Sample
         /\ Len(order) \in Nat /\ \A i \in 1 .. Len(order) : order[i] \in Key
         /\ \A w \in Writer : /\ written[w] \in Nat /\ got[w] \in SUBSET Nat
                              /\ first[w] \in Nat /\ nlost[w] \in Nat /\ nrecv[w] \in Nat
<1> USE DEF TypeOK
<1>1. \A k \in Key : cache[k] \in Seq(Sample)
  OBVIOUS
<1>2. \A k \in Key : Len(cache[k]) \in Nat /\ \A i \in 1 .. Len(cache[k]) : cache[k][i] \in Sample
  BY <1>1, LenProperties, ElementOfSeq
<1>3. Len(batch) \in Nat /\ \A i \in 1 .. Len(batch) : batch[i] \in Sample
  BY LenProperties, ElementOfSeq
<1>4. Len(order) \in Nat /\ \A i \in 1 .. Len(order) : order[i] \in Key
  BY LenProperties, ElementOfSeq
<1> QED
  BY <1>1, <1>2, <1>3, <1>4

\* The history of an instance keeps its last samples.
LEMMA KeptAppend ==
  ASSUME NEW c \in Seq(Sample), NEW s \in Sample
  PROVE  /\ Kept(Append(c, s)) \in Seq(Sample)
         /\ Kept(Append(c, s)) # <<>>
         /\ Len(c) \in Nat
         /\ \E d \in {0, 1} :
              /\ Len(Kept(Append(c, s))) = Len(c) + 1 - d
              /\ \A i \in 1 .. Len(c) + 1 - d :
                   Kept(Append(c, s))[i] = IF i + d <= Len(c) THEN c[i + d] ELSE s
<1> DEFINE a == Append(c, s)
<1>1. /\ a \in Seq(Sample) /\ Len(c) \in Nat /\ Len(a) = Len(c) + 1
      /\ \A i \in 1 .. Len(c) + 1 : a[i] = IF i <= Len(c) THEN c[i] ELSE s
  <2>1. /\ a \in Seq(Sample) /\ Len(c) \in Nat /\ Len(a) = Len(c) + 1
        /\ \A i \in 1 .. Len(c) : a[i] = c[i]
        /\ a[Len(c) + 1] = s
    BY AppendProperties, LenProperties
  <2>2. \A i \in 1 .. Len(c) + 1 : (i <= Len(c) => i \in 1 .. Len(c)) /\ (~(i <= Len(c)) => i = Len(c) + 1)
    BY <2>1
  <2> HIDE DEF a
  <2> QED
    BY <2>1, <2>2
<1> HIDE DEF a
<1>2. a # <<>>
  BY <1>1, EmptySeq
<1>3. CASE HistDepth > 0 /\ Len(a) > HistDepth
  <2>1. Kept(a) = Tail(a)
    BY <1>3 DEF Kept
  <2>2. /\ Tail(a) \in Seq(Sample) /\ Len(Tail(a)) = Len(c)
        /\ \A i \in 1 .. Len(c) : Tail(a)[i] = a[i + 1]
    BY <1>1, <1>2, HeadTailProperties
  <2>3. Len(c) > 0
    BY <1>1, <1>3, ConstantsAssumption
  <2>4. Tail(a) # <<>>
    BY <2>2, <2>3, EmptySeq
  <2>5. \A i \in 1 .. Len(c) + 1 - 1 : Tail(a)[i] = IF i + 1 <= Len(c) THEN c[i + 1] ELSE s
    <3>1. \A i \in 1 .. Len(c) + 1 - 1 : i \in 1 .. Len(c) /\ i + 1 \in 1 .. Len(c) + 1
      BY <1>1
    <3> QED
      BY <1>1, <2>2, <3>1
  <2>6. Len(Tail(a)) = Len(c) + 1 - 1
    BY <1>1, <2>2
  <2> QED
    BY <1>1, <2>1, <2>2, <2>4, <2>5, <2>6 DEF a
<1>4. CASE ~(HistDepth > 0 /\ Len(a) > HistDepth)
  <2>1. Kept(a) = a
    BY <1>4 DEF Kept
  <2>2. Len(a) = Len(c) + 1 - 0
    BY <1>1
  <2>3. \A i \in 1 .. Len(c) + 1 - 0 : a[i] = IF i + 0 <= Len(c) THEN c[i + 0] ELSE s
    <3>1. \A i \in 1 .. Len(c) + 1 - 0 : i \in 1 .. Len(c) + 1 /\ i + 0 = i
      BY <1>1
    <3> QED
      BY <1>1, <3>1
  <2> QED
    BY <1>1, <1>2, <2>1, <2>2, <2>3 DEF a
<1> QED
  BY <1>3, <1>4

----------------------------------------------------------------------------
(* A write.                                                                *)

\* The sample w writes.
Written(w) == [w |-> w, seq |-> seq[w], key |-> keyval[w], n |-> written[w]]

LEMMA WrittenFacts ==
  ASSUME IInv, NEW w \in Writer, Write(w)
  PROVE  /\ Written(w) \in Sample /\ written[w] \in Nat
         /\ Written(w).w = w /\ Written(w).key = keyval[w] /\ Written(w).n = written[w]
         /\ keyval[w] \in Key
         /\ UNCHANGED <<batch, ph, eseq, nrecv, nlost, got, first, status>>
         /\ written'[w] = written[w] + 1
         /\ \A v \in Writer : written[v] \in Nat /\ written'[v] \in Nat /\ written'[v] >= written[v]
         /\ status = "none"
         /\ Deliver(Written(w)) \/ UNCHANGED readerVars
<1> USE DEF IInv, TypeOK
<1>1. Written(w) \in Sample /\ written[w] \in Nat /\ keyval[w] \in Key
  BY DEF Written, Sample
<1>2. Written(w).w = w /\ Written(w).key = keyval[w] /\ Written(w).n = written[w]
  BY DEF Written
<1>3. written' = [written EXCEPT ![w] = @ + 1]
  BY DEF Write
<1>4. /\ UNCHANGED <<batch, ph, eseq, nrecv, nlost, got, first, status>>
      /\ status = "none"
      /\ Deliver(Written(w)) \/ UNCHANGED readerVars
  BY DEF Write, eseqVars, Written
<1>5. written'[w] = written[w] + 1
  BY <1>3
<1>6. \A v \in Writer : written[v] \in Nat /\ written'[v] \in Nat /\ written'[v] >= written[v]
  BY <1>3
<1> QED
  BY <1>1, <1>2, <1>4, <1>5, <1>6

\* What the reader holds of an instance after a write: samples it held, in their order, then
\* perhaps the new one.
LEMMA CacheAfterWrite ==
  ASSUME IInv, NEW w \in Writer, Write(w), NEW k \in Key
  PROVE  /\ cache'[k] \in Seq(Sample) /\ Len(cache'[k]) \in Nat
         /\ cache[k] # <<>> => cache'[k] # <<>>
         /\ \E d \in {0, 1} :
              \A i \in 1 .. Len(cache'[k]) :
                 \/ i + d \in 1 .. Len(cache[k]) /\ cache'[k][i] = cache[k][i + d]
                 \/ i = Len(cache'[k]) /\ k = keyval[w] /\ cache'[k][i] = Written(w)
<1>1. cache[k] \in Seq(Sample) /\ Len(cache[k]) \in Nat /\ cache \in [Key -> Seq(Sample)]
  BY Types DEF IInv, TypeOK
<1>2. CASE Deliver(Written(w)) /\ k = keyval[w]
  <2> DEFINE q == Kept(Append(cache[k], Written(w)))
  <2>1. cache'[k] = q
    BY <1>1, <1>2, WrittenFacts DEF Deliver
  <2>2. /\ q \in Seq(Sample) /\ q # <<>>
        /\ \E d \in {0, 1} :
             /\ Len(q) = Len(cache[k]) + 1 - d
             /\ \A i \in 1 .. Len(cache[k]) + 1 - d :
                  q[i] = IF i + d <= Len(cache[k]) THEN cache[k][i + d] ELSE Written(w)
    BY <1>1, WrittenFacts, KeptAppend
  <2> HIDE DEF q
  <2>3. PICK d \in {0, 1} :
             /\ Len(q) = Len(cache[k]) + 1 - d
             /\ \A i \in 1 .. Len(cache[k]) + 1 - d :
                  q[i] = IF i + d <= Len(cache[k]) THEN cache[k][i + d] ELSE Written(w)
    BY <2>2
  <2>4. ASSUME NEW i \in 1 .. Len(q)
        PROVE  \/ i + d \in 1 .. Len(cache[k]) /\ q[i] = cache[k][i + d]
               \/ i = Len(q) /\ q[i] = Written(w)
    <3>1. CASE i + d <= Len(cache[k])
      <4>1. i + d \in 1 .. Len(cache[k])
        BY <1>1, <2>3, <3>1
      <4> QED
        BY <2>3, <3>1, <4>1
    <3>2. CASE ~(i + d <= Len(cache[k]))
      <4>1. i = Len(q)
        BY <1>1, <2>3, <3>2
      <4> QED
        BY <2>3, <3>2, <4>1
    <3> QED
      BY <3>1, <3>2
  <2>5. Len(q) \in Nat
    BY <2>2, LenProperties
  <2> QED
    BY <1>2, <2>1, <2>2, <2>4, <2>5
<1>3. ASSUME cache'[k] = cache[k]
      PROVE  /\ cache'[k] \in Seq(Sample) /\ Len(cache'[k]) \in Nat
             /\ cache[k] # <<>> => cache'[k] # <<>>
             /\ \E d \in {0, 1} :
                  \A i \in 1 .. Len(cache'[k]) :
                    \/ i + d \in 1 .. Len(cache[k]) /\ cache'[k][i] = cache[k][i + d]
                    \/ i = Len(cache'[k]) /\ k = keyval[w] /\ cache'[k][i] = Written(w)
  <2>1. \A i \in 1 .. Len(cache[k]) : i + 0 \in 1 .. Len(cache[k]) /\ cache'[k][i] = cache[k][i + 0]
    BY <1>1, <1>3
  <2> QED
    BY <1>1, <1>3, <2>1
<1>4. CASE ~(Deliver(Written(w)) /\ k = keyval[w])
  <2>1. cache'[k] = cache[k]
    BY <1>1, <1>4, WrittenFacts DEF Deliver, readerVars
  <2> QED
    BY <1>3, <2>1
<1> QED
  BY <1>2, <1>4

LEMMA WriteTypes ==
  ASSUME IInv, NEW w \in Writer, Write(w)
  PROVE  TypeOK' /\ PubInv'
<1> USE ConstantsAssumption
<1>1. TypeOK
  BY DEF IInv
<1>2. seq'[w] = (seq[w] + 1) % Modulus /\ \A v \in Writer \ {w} : seq'[v] = seq[v]
  BY <1>1 DEF Write, TypeOK
<1>3. keyval'[w] = (keyval[w] + 1) % NKeys /\ \A v \in Writer \ {w} : keyval'[v] = keyval[v]
  BY <1>1 DEF Write, TypeOK
<1>4. /\ written \in [Writer -> Nat] /\ written' = [written EXCEPT ![w] = @ + 1]
      /\ \A v \in Writer \ {w} : written'[v] = written[v]
  BY <1>1 DEF Write, TypeOK
<1>5. seq' \in [Writer -> Number]
  <2>1. (seq[w] + 1) % Modulus \in Number
    <3>1. seq[w] \in Int /\ Modulus \in Nat \ {0}
      BY <1>1 DEF TypeOK, Number
    <3>2. seq[w] + 1 \in Int
      BY <3>1
    <3> HIDE DEF TypeOK
    <3> QED
      BY <3>1, <3>2, Division DEF Number
  <2> QED
    BY <1>1, <2>1 DEF Write, TypeOK
<1>6. keyval' \in [Writer -> Key]
  <2>1. (keyval[w] + 1) % NKeys \in Key
    <3>1. keyval[w] \in Int
      BY <1>1 DEF TypeOK, Key
    <3>2. keyval[w] + 1 \in Int
      BY <3>1
    <3> QED
      BY <3>1, <3>2, Division DEF Key
  <2> QED
    BY <1>1, <2>1 DEF Write, TypeOK
<1>7. written' \in [Writer -> Nat]
  BY <1>4
<1>8. cache' \in [Key -> Seq(Sample)]
  <2>1. \A k \in Key : cache'[k] \in Seq(Sample)
    BY CacheAfterWrite
  <2>2. cache' = [k \in Key |-> cache'[k]]
    BY <1>1 DEF Write, Deliver, readerVars, TypeOK
  <2> QED
    BY <2>1, <2>2
<1>9. order' \in Seq(Key)
  <2>1. Append(order, keyval[w]) \in Seq(Key)
    BY <1>1, AppendProperties DEF TypeOK
  <2>2. order' = order \/ order' = Append(order, keyval[w])
    BY WrittenFacts DEF Deliver, readerVars
  <2> QED
    BY <1>1, <2>1, <2>2 DEF TypeOK
<1>10. TypeOK'
  BY <1>1, <1>5, <1>6, <1>7, <1>8, <1>9, WrittenFacts DEF TypeOK
<1>11. PubInv'
  <2>1. seq'[w] = written'[w] % Modulus
    <3>1. Modulus \in Nat \ {0} /\ written[w] \in Int /\ seq[w] = written[w] % Modulus
      BY WrittenFacts DEF IInv, PubInv
    <3> QED
      BY <1>2, <3>1, WrittenFacts, NextRemainder
  <2>2. keyval'[w] = written'[w] % NKeys
    <3>1. written[w] \in Int /\ keyval[w] = written[w] % NKeys
      BY WrittenFacts DEF IInv, PubInv
    <3> QED
      BY <1>3, <3>1, WrittenFacts, NextRemainder
  <2> QED
    BY <1>2, <1>3, <1>4, <2>1, <2>2 DEF IInv, PubInv
<1> QED
  BY <1>10, <1>11

LEMMA WriteReader ==
  ASSUME IInv, NEW w \in Writer, Write(w)
  PROVE  ReaderInv' /\ InOrder'
<1> DEFINE s == Written(w)
           GenuineNow(t) == t.n < written'[t.w] /\ t.seq = t.n % Modulus /\ t.key = t.n % NKeys
<1>0. TypeOK /\ ReaderInv /\ InOrder
  BY DEF IInv
<1>1. /\ s \in Sample /\ s.w = w /\ s.key = keyval[w] /\ s.n = written[w] /\ keyval[w] \in Key
      /\ s.seq = seq[w]
      /\ UNCHANGED <<batch, got>>
      /\ written[w] \in Nat /\ written'[w] = written[w] + 1
      /\ \A v \in Writer : written[v] \in Nat /\ written'[v] \in Nat /\ written'[v] >= written[v]
  BY WrittenFacts DEF Written
<1>2. \A t \in Sample : t.w \in Writer /\ t.n \in Nat /\ t.key \in Key
  BY DEF Sample
<1>3. s.seq = s.n % Modulus /\ s.key = s.n % NKeys /\ s.n < written'[w]
  BY <1>1 DEF IInv, PubInv
<1> HIDE DEF s
<1>4. \A t \in Sample : t.n < written[t.w] => t.n < written'[t.w] /\ After(t, s)
  <2> SUFFICES ASSUME NEW t \in Sample, t.n < written[t.w]
               PROVE  t.n < written'[t.w] /\ (t.w = w => t.n < written[w])
    BY <1>1 DEF After
  <2>1. written[t.w] \in Nat /\ written'[t.w] \in Nat /\ written'[t.w] >= written[t.w] /\ t.n \in Nat
    BY <1>1, <1>2
  <2> QED
    BY <2>1
<1>5. AfterProcessed(s)
  BY <1>1 DEF IInv, ProcessedInv, AfterProcessed
<1>6. \A k \in Key : /\ Len(cache[k]) \in Nat /\ Len(cache'[k]) \in Nat
                    /\ \A i \in 1 .. Len(cache[k]) : cache[k][i] \in Sample /\ Genuine(cache[k][i])
  BY <1>0, Types, CacheAfterWrite DEF ReaderInv
<1>7. \A i \in 1 .. Len(batch) : batch[i] \in Sample /\ Genuine(batch[i])
  BY <1>0, Types DEF ReaderInv
\* Every sample of the reader was there before or is the new one.
<1>8. \A k \in Key : \A i \in 1 .. Len(cache'[k]) :
         \/ \E j \in 1 .. Len(cache[k]) : cache'[k][i] = cache[k][j]
         \/ cache'[k][i] = s /\ k = s.key
  <2> SUFFICES ASSUME NEW k \in Key, NEW i \in 1 .. Len(cache'[k])
               PROVE  \/ \E j \in 1 .. Len(cache[k]) : cache'[k][i] = cache[k][j]
                      \/ cache'[k][i] = s /\ k = s.key
    OBVIOUS
  <2>1. PICK d \in {0, 1} :
          \/ i + d \in 1 .. Len(cache[k]) /\ cache'[k][i] = cache[k][i + d]
          \/ i = Len(cache'[k]) /\ k = keyval[w] /\ cache'[k][i] = Written(w)
    BY CacheAfterWrite
  <2> QED
    BY <1>1, <2>1 DEF s
<1>9. ReaderInv'
  <2>1. \A k \in Key : \A i \in 1 .. Len(cache'[k]) :
           GenuineNow(cache'[k][i]) /\ cache'[k][i].key = k
    <3> SUFFICES ASSUME NEW k \in Key, NEW i \in 1 .. Len(cache'[k])
                 PROVE  GenuineNow(cache'[k][i]) /\ cache'[k][i].key = k
      OBVIOUS
    <3>1. CASE \E j \in 1 .. Len(cache[k]) : cache'[k][i] = cache[k][j]
      <4>1. PICK j \in 1 .. Len(cache[k]) : cache'[k][i] = cache[k][j]
        BY <3>1
      <4>2. Genuine(cache[k][j]) /\ cache[k][j].key = k /\ cache[k][j] \in Sample
        BY <1>0, <1>6 DEF ReaderInv
      <4> QED
        BY <1>4, <4>1, <4>2 DEF Genuine
    <3>2. CASE cache'[k][i] = s /\ k = s.key
      BY <1>1, <1>3, <3>2 DEF Genuine
    <3> QED
      BY <1>8, <3>1, <3>2
  <2>2. \A i \in 1 .. Len(batch) : GenuineNow(batch[i])
    BY <1>1, <1>4, <1>7 DEF Genuine
  <2>3. /\ \A i \in 1 .. Len(order') : cache'[order'[i]] # <<>>
        /\ \A i, j \in 1 .. Len(order') : i # j => order'[i] # order'[j]
    <3>1. /\ Len(order) \in Nat /\ \A i \in 1 .. Len(order) : order[i] \in Key
          /\ \A i \in 1 .. Len(order) : cache[order[i]] # <<>>
          /\ \A i, j \in 1 .. Len(order) : i # j => order[i] # order[j]
      BY <1>0, Types DEF ReaderInv
    <3>2. \A i \in 1 .. Len(order) : cache'[order[i]] # <<>>
      BY <3>1, CacheAfterWrite
    <3>3. CASE order' = order
      BY <3>1, <3>2, <3>3
    <3>4. CASE order' # order
      <4>1. Deliver(s) /\ order' = Append(order, s.key) /\ cache[s.key] = <<>>
        BY <1>1, <3>4, WrittenFacts DEF Deliver, readerVars, s
      <4>2. /\ Len(order') = Len(order) + 1 /\ order'[Len(order) + 1] = s.key
            /\ \A i \in 1 .. Len(order) : order'[i] = order[i]
        <5>1. order \in Seq(Key) /\ s.key \in Key
          BY <1>0, <1>1 DEF TypeOK
        <5> QED
          BY <4>1, <5>1, AppendProperties
      <4>3. cache'[s.key] # <<>>
        <5>1. cache'[s.key] = Kept(Append(cache[s.key], s)) /\ cache[s.key] \in Seq(Sample)
          BY <1>0, <1>1, <4>1 DEF Deliver, TypeOK
        <5> QED
          BY <1>1, <5>1, KeptAppend
      <4>4. \A i \in 1 .. Len(order) : order[i] # s.key
        BY <3>1, <4>1
      <4>5. \A i \in 1 .. Len(order') : i \in 1 .. Len(order) \/ i = Len(order) + 1
        BY <3>1, <4>2
      <4>6. \A i \in 1 .. Len(order') : cache'[order'[i]] # <<>>
        BY <3>2, <4>2, <4>3, <4>5
      <4>7. \A i, j \in 1 .. Len(order') : i # j => order'[i] # order'[j]
        BY <3>1, <4>2, <4>4, <4>5
      <4> QED
        BY <4>6, <4>7
    <3> QED
      BY <3>3, <3>4
  <2> QED
    BY <1>1, <2>1, <2>2, <2>3 DEF ReaderInv, Genuine
<1>10. InOrder'
  <2>1. \A k \in Key : \A i, j \in 1 .. Len(cache'[k]) : i < j => After(cache'[k][i], cache'[k][j])
    <3> SUFFICES ASSUME NEW k \in Key, NEW i \in 1 .. Len(cache'[k]), NEW j \in 1 .. Len(cache'[k]), i < j
                 PROVE  After(cache'[k][i], cache'[k][j])
      OBVIOUS
    <3>1. PICK d \in {0, 1} : \A l \in 1 .. Len(cache'[k]) :
            \/ l + d \in 1 .. Len(cache[k]) /\ cache'[k][l] = cache[k][l + d]
            \/ l = Len(cache'[k]) /\ k = keyval[w] /\ cache'[k][l] = Written(w)
      BY CacheAfterWrite
    <3>2. i + d \in 1 .. Len(cache[k]) /\ cache'[k][i] = cache[k][i + d]
      <4>1. i # Len(cache'[k])
        BY <1>6
      <4> QED
        BY <3>1, <4>1
    <3>3. CASE j + d \in 1 .. Len(cache[k]) /\ cache'[k][j] = cache[k][j + d]
      <4>1. i + d < j + d
        OBVIOUS
      <4> QED
        BY <1>0, <3>2, <3>3, <4>1 DEF InOrder
    <3>4. CASE cache'[k][j] = Written(w)
      BY <1>4, <1>6, <3>2, <3>4 DEF Genuine, s
    <3> QED
      BY <3>1, <3>3, <3>4
  <2>2. \A i \in 1 .. Len(batch), k \in Key : \A j \in 1 .. Len(cache'[k]) :
           After(batch[i], cache'[k][j])
    <3> SUFFICES ASSUME NEW i \in 1 .. Len(batch), NEW k \in Key, NEW j \in 1 .. Len(cache'[k])
                 PROVE  After(batch[i], cache'[k][j])
      OBVIOUS
    <3>1. CASE cache'[k][j] = s
      BY <1>4, <1>7, <3>1 DEF Genuine
    <3>2. CASE \E l \in 1 .. Len(cache[k]) : cache'[k][j] = cache[k][l]
      BY <1>0, <3>2 DEF InOrder
    <3> QED
      BY <1>8, <3>1, <3>2
  <2>3. \A k \in Key : \A i \in 1 .. Len(cache'[k]) : AfterProcessed(cache'[k][i])
    <3> SUFFICES ASSUME NEW k \in Key, NEW i \in 1 .. Len(cache'[k])
                 PROVE  AfterProcessed(cache'[k][i])
      OBVIOUS
    <3>1. CASE cache'[k][i] = s
      BY <1>5, <3>1
    <3>2. CASE \E l \in 1 .. Len(cache[k]) : cache'[k][i] = cache[k][l]
      BY <1>0, <3>2 DEF InOrder
    <3> QED
      BY <1>8, <3>1, <3>2
  <2> QED
    BY <1>0, <1>1, <2>1, <2>2, <2>3 DEF InOrder, AfterProcessed, After
<1> QED
  BY <1>9, <1>10

LEMMA WriteStep ==
  ASSUME IInv, NEW w \in Writer, Write(w)
  PROVE  IInv'
<1>1. /\ UNCHANGED <<ph, eseq, nrecv, nlost, got, first, status>> /\ status = "none"
      /\ \A v \in Writer : written[v] \in Nat /\ written'[v] \in Nat /\ written'[v] >= written[v]
  BY WrittenFacts
<1>2. \A v \in Writer : got[v] \in SUBSET Nat
  BY Types DEF IInv
<1>3. ProcessedInv'
  <2>1. \A v \in Writer : \A n \in got[v] : n < written'[v]
    <3> SUFFICES ASSUME NEW v \in Writer, NEW n \in got[v] PROVE n < written'[v]
      OBVIOUS
    <3>1. n \in Nat /\ n < written[v]
      BY <1>2 DEF IInv, ProcessedInv
    <3> QED
      BY <1>1, <3>1
  <2> QED
    BY <1>1, <2>1 DEF IInv, ProcessedInv, KnownPublication
<1>4. EseqInv'
  <2>1. \A v \in Writer : \A x \in 1 .. written[v] + NKeys : x \in 1 .. written'[v] + NKeys
    BY <1>1, ConstantsAssumption
  <2>2. \A v \in Writer : KnownPublication(v)' <=> KnownPublication(v)
    BY <1>1 DEF KnownPublication
  <2>3. \A v, k, x : Expected(v, k, x)' <=> Expected(v, k, x)
    BY <1>1 DEF Expected
  <2> SUFFICES ASSUME NEW v \in Writer, KnownPublication(v), NEW k \in Key
               PROVE  \E x \in 1 .. written'[v] + NKeys : Expected(v, k, x)' /\ eseq'[v][k] = x % Modulus
    BY <2>2 DEF EseqInv
  <2>4. PICK x \in 1 .. written[v] + NKeys : Expected(v, k, x) /\ eseq[v][k] = x % Modulus
    BY DEF IInv, EseqInv
  <2> QED
    BY <1>1, <2>1, <2>3, <2>4
<1>5. LossDetected'
  <2>1. \A v \in Writer : LossesVisible(v)' <=> LossesVisible(v)
    BY <1>1 DEF LossesVisible, FirstIsOldest, GapsShort
  <2>2. ASSUME NEW v \in Writer PROVE Missing(v)' = Missing(v)
    <3>1. /\ \A m \in got[v] : m \in Nat /\ m < written[v]
          /\ first[v] \in Nat
      BY <1>2, Types DEF IInv, ProcessedInv
    <3>2. ASSUME NEW n \in Int, NEW m \in got[v], m > n
          PROVE  n \in first[v] + 1 .. written'[v] - 1 <=> n \in first[v] + 1 .. written[v] - 1
      BY <1>1, <3>1, <3>2
    <3>3. \A n : n \in first[v] + 1 .. written'[v] - 1 => n \in Int
      BY <1>1, <3>1
    <3>4. \A n : n \in first[v] + 1 .. written[v] - 1 => n \in Int
      BY <1>1, <3>1
    <3> QED
      BY <1>1, <3>2, <3>3, <3>4 DEF Missing
  <2> QED
    BY <1>1, <2>1, <2>2 DEF IInv, LossDetected
<1>6. StatusInv'
  BY <1>1 DEF StatusInv
<1> QED
  BY <1>3, <1>4, <1>5, <1>6, WriteTypes, WriteReader DEF IInv

----------------------------------------------------------------------------
(* A take: the instances one after the other.                              *)

LEMMA TakeFacts ==
  ASSUME IInv, Take
  PROVE  /\ batch' \in Seq(Sample) /\ Len(batch') \in Nat
         /\ \A i, j \in 1 .. Len(batch') : i < j => After(batch'[i], batch'[j])
         /\ \A i \in 1 .. Len(batch') : \E k \in Key : \E j \in 1 .. Len(cache[k]) :
              batch'[i] = cache[k][j]
<1> DEFINE seqs == [i \in DOMAIN order |-> cache[order[i]]]
           R == {t \in Sample \X Sample : After(t[1], t[2])}
<1>0. TypeOK /\ ReaderInv /\ InOrder
  BY DEF IInv
<1>1. /\ DOMAIN order = 1 .. Len(order) /\ Len(order) \in Nat
      /\ \A i \in 1 .. Len(order) : order[i] \in Key /\ cache[order[i]] \in Seq(Sample)
      /\ \A i, j \in 1 .. Len(order) : i # j => order[i] # order[j]
  BY <1>0, Types, LenProperties DEF TypeOK, ReaderInv
<1>2. \A k \in Key : \A i \in 1 .. Len(cache[k]) : cache[k][i] \in Sample /\ cache[k][i].key = k
  BY <1>0, Types DEF ReaderInv
<1>3. seqs \in Seq(Seq(Sample)) /\ Len(seqs) = Len(order)
      /\ \A i \in 1 .. Len(order) : seqs[i] = cache[order[i]]
  <2>1. seqs \in [1 .. Len(order) -> Seq(Sample)]
    BY <1>1
  <2>2. \A i \in 1 .. Len(order) : seqs[i] = cache[order[i]]
    BY <1>1
  <2> HIDE DEF seqs
  <2>3. seqs \in Seq(Seq(Sample))
    BY <1>1, <2>1, SeqDef
  <2>4. Len(seqs) = Len(order)
    BY <1>1, <2>1, <2>3, LenProperties
  <2> QED
    BY <2>2, <2>3, <2>4
<1>4. batch' = FlattenSeq(seqs)
  BY DEF Take
<1> HIDE DEF seqs
<1>5. \A b \in 1 .. Len(seqs) : Ordered(seqs[b], R)
  <2> SUFFICES ASSUME NEW b \in 1 .. Len(seqs),
                      NEW i \in 1 .. Len(seqs[b]), NEW j \in 1 .. Len(seqs[b]), i < j
               PROVE  <<seqs[b][i], seqs[b][j]>> \in R
    BY DEF Ordered
  <2>1. order[b] \in Key /\ seqs[b] = cache[order[b]]
    BY <1>1, <1>3
  <2>2. After(seqs[b][i], seqs[b][j]) /\ seqs[b][i] \in Sample /\ seqs[b][j] \in Sample
    BY <1>0, <1>2, <2>1 DEF InOrder
  <2> QED
    BY <2>2
<1>6. \A b, c \in 1 .. Len(seqs) : b < c =>
         \A i \in 1 .. Len(seqs[b]), j \in 1 .. Len(seqs[c]) : <<seqs[b][i], seqs[c][j]>> \in R
  <2> SUFFICES ASSUME NEW b \in 1 .. Len(seqs), NEW c \in 1 .. Len(seqs), b < c,
                      NEW i \in 1 .. Len(seqs[b]), NEW j \in 1 .. Len(seqs[c])
               PROVE  <<seqs[b][i], seqs[c][j]>> \in R
    OBVIOUS
  <2>1. /\ order[b] # order[c] /\ order[b] \in Key /\ order[c] \in Key
        /\ seqs[b] = cache[order[b]] /\ seqs[c] = cache[order[c]]
    <3>1. b # c
      BY <1>1
    <3> QED
      BY <1>1, <1>3, <3>1
  <2>2. /\ seqs[b][i] \in Sample /\ seqs[b][i].key = order[b]
        /\ seqs[c][j] \in Sample /\ seqs[c][j].key = order[c]
    BY <1>2, <2>1
  <2>3. After(seqs[b][i], seqs[c][j])
    BY <2>1, <2>2 DEF After
  <2> QED
    BY <2>2, <2>3
<1>7. /\ batch' \in Seq(Sample) /\ Ordered(batch', R)
      /\ \A i \in 1 .. Len(batch') : \E b \in 1 .. Len(seqs) : \E j \in 1 .. Len(seqs[b]) :
           batch'[i] = seqs[b][j]
  <2> HIDE DEF R
  <2>1. seqs \in Seq(Seq(Sample))
    BY <1>3
  <2>2. /\ FlattenSeq(seqs) \in Seq(Sample) /\ Ordered(FlattenSeq(seqs), R)
        /\ \A i \in 1 .. Len(FlattenSeq(seqs)) :
             \E b \in 1 .. Len(seqs) : \E j \in 1 .. Len(seqs[b]) :
               FlattenSeq(seqs)[i] = seqs[b][j]
    BY <1>5, <1>6, <2>1, FlattenOrdered
  <2> QED
    BY <1>4, <2>2
<1>8. \A i, j \in 1 .. Len(batch') : i < j => After(batch'[i], batch'[j])
  BY <1>7 DEF Ordered
<1>9. \A i \in 1 .. Len(batch') : \E k \in Key : \E j \in 1 .. Len(cache[k]) :
         batch'[i] = cache[k][j]
  <2> SUFFICES ASSUME NEW i \in 1 .. Len(batch')
               PROVE  \E k \in Key : \E j \in 1 .. Len(cache[k]) : batch'[i] = cache[k][j]
    OBVIOUS
  <2>1. PICK b \in 1 .. Len(seqs) : \E j \in 1 .. Len(seqs[b]) : batch'[i] = seqs[b][j]
    BY <1>7
  <2>2. seqs[b] = cache[order[b]] /\ order[b] \in Key
    BY <1>1, <1>3
  <2> QED
    BY <2>1, <2>2
<1> QED
  BY <1>7, <1>8, <1>9, LenProperties

LEMMA TakeStep ==
  ASSUME IInv, Take
  PROVE  IInv'
<1>1. /\ UNCHANGED <<seq, keyval, written, ph, eseq, nrecv, nlost, got, first, status>>
      /\ cache' = [k \in Key |-> <<>>] /\ order' = <<>> /\ status = "none"
  BY DEF Take, pubVars, eseqVars
<1>2. Len(<<>>) = 0 /\ \A k \in Key : cache'[k] = <<>>
  BY <1>1, EmptySeq
<1>3. /\ batch' \in Seq(Sample)
      /\ \A i, j \in 1 .. Len(batch') : i < j => After(batch'[i], batch'[j])
      /\ \A i \in 1 .. Len(batch') : \E k \in Key : \E j \in 1 .. Len(cache[k]) :
           batch'[i] = cache[k][j]
  BY TakeFacts
<1>4. TypeOK'
  <2>1. <<>> \in Seq(Sample) /\ <<>> \in Seq(Key)
    BY EmptySeq
  <2>2. cache' \in [Key -> Seq(Sample)] /\ order' \in Seq(Key)
    BY <1>1, <2>1
  <2>3. TypeOK
    BY DEF IInv
  <2> QED
    BY <1>1, <1>3, <2>2, <2>3 DEF TypeOK
<1>5. \A i \in 1 .. Len(batch') : Genuine(batch'[i]) /\ AfterProcessed(batch'[i])
  <2> SUFFICES ASSUME NEW i \in 1 .. Len(batch')
               PROVE  Genuine(batch'[i]) /\ AfterProcessed(batch'[i])
    OBVIOUS
  <2>1. PICK k \in Key : \E j \in 1 .. Len(cache[k]) : batch'[i] = cache[k][j]
    BY <1>3
  <2> QED
    BY <2>1 DEF IInv, ReaderInv, InOrder
<1>6. ReaderInv'
  BY <1>1, <1>2, <1>5 DEF ReaderInv, Genuine
<1>7. InOrder'
  <2>1. \A k \in Key : \A i \in 1 .. Len(cache'[k]) : FALSE
    BY <1>2
  <2>2. \A i \in 1 .. Len(batch') : AfterProcessed(batch'[i])
    BY <1>5
  <2>3. got' = got
    BY <1>1
  <2> QED
    BY <1>3, <2>1, <2>2, <2>3 DEF InOrder, After, AfterProcessed
<1>8. (PubInv /\ ProcessedInv /\ EseqInv)'
  BY <1>1 DEF IInv, PubInv, ProcessedInv, EseqInv, KnownPublication, Expected
<1>9. LossDetected'
  BY <1>1 DEF IInv, LossDetected, LossesVisible, FirstIsOldest, GapsShort, Missing
<1>10. StatusInv'
  BY <1>1 DEF StatusInv
<1> QED
  BY <1>4, <1>6, <1>7, <1>8, <1>9, <1>10 DEF IInv

----------------------------------------------------------------------------
(* check_eseq.                                                             *)

LEMMA CheckFacts ==
  ASSUME IInv, CheckEseq
  PROVE  LET s == Head(batch)
         IN  /\ s \in Sample /\ s.w \in Writer /\ s.n \in Nat /\ s.key \in Key /\ s.seq \in Number
             /\ Genuine(s) /\ AfterProcessed(s) /\ s.n \notin got[s.w]
             /\ s = batch[1] /\ 1 \in 1 .. Len(batch)
             /\ batch' \in Seq(Sample) /\ Len(batch') = Len(batch) - 1
             /\ \A i \in 1 .. Len(batch') : i + 1 \in 1 .. Len(batch) /\ batch'[i] = batch[i + 1]
             /\ UNCHANGED <<seq, keyval, written, cache, order, status>> /\ status = "none"
             /\ got'[s.w] = got[s.w] \cup {s.n} /\ nrecv'[s.w] = nrecv[s.w] + 1
             /\ \A v \in Writer \ {s.w} :
                  /\ got'[v] = got[v] /\ nrecv'[v] = nrecv[v] /\ nlost'[v] = nlost[v]
                  /\ first'[v] = first[v] /\ eseq'[v] = eseq[v]
                  /\ KnownPublication(v)' <=> KnownPublication(v)
             /\ Contains(ph', s.w)
<1> DEFINE s == Head(batch)
<1>1. TypeOK /\ batch # <<>> /\ batch \in Seq(Sample)
  BY DEF IInv, TypeOK, CheckEseq
<1>2. /\ s \in Sample /\ s = batch[1] /\ 1 \in 1 .. Len(batch)
      /\ batch' \in Seq(Sample) /\ Len(batch') = Len(batch) - 1 /\ Len(batch) \in Nat \ {0}
      /\ \A i \in 1 .. Len(batch') : batch'[i] = batch[i + 1]
  <2>1. Len(batch) \in Nat \ {0} /\ batch' = Tail(batch)
    BY <1>1, EmptySeq DEF CheckEseq
  <2> QED
    BY <1>1, <2>1, HeadTailProperties
<1>3. \A i \in 1 .. Len(batch') : i + 1 \in 1 .. Len(batch)
  BY <1>2
<1>4. Genuine(s) /\ AfterProcessed(s)
  BY <1>2 DEF IInv, ReaderInv, InOrder
<1>5. s.w \in Writer /\ s.n \in Nat /\ s.key \in Key /\ s.seq \in Number
  BY <1>2 DEF Sample
<1>6. s.n \notin got[s.w]
  <2>1. s.n % NKeys = s.key /\ ~(s.n < s.n)
    BY <1>4, <1>5 DEF Genuine
  <2> QED
    BY <1>4, <2>1 DEF AfterProcessed
<1>7. /\ UNCHANGED <<seq, keyval, written, cache, order, status>> /\ status = "none"
  BY <1>1 DEF CheckEseq, pubVars, readerVars, IInv, StatusInv
<1> HIDE DEF s
<1>8. /\ got' = [got EXCEPT ![s.w] = @ \cup {s.n}] /\ nrecv' = [nrecv EXCEPT ![s.w] = @ + 1]
      /\ IF KnownPublication(s.w)
           THEN /\ eseq' = [eseq EXCEPT ![s.w][s.key] = ExpectedNext(s)]
                /\ nlost' = [nlost EXCEPT ![s.w] = @ + LostBefore(s)]
                /\ UNCHANGED <<ph, first>>
           ELSE /\ eseq' = [eseq EXCEPT ![s.w] = [k \in Key |-> ExpectedAfterFirst(s, k)]]
                /\ ph' = Append(ph, s.w)
                /\ first' = [first EXCEPT ![s.w] = s.n]
                /\ UNCHANGED nlost
  BY DEF CheckEseq, s
<1>9. /\ got'[s.w] = got[s.w] \cup {s.n} /\ nrecv'[s.w] = nrecv[s.w] + 1
      /\ \A v \in Writer \ {s.w} : got'[v] = got[v] /\ nrecv'[v] = nrecv[v]
  BY <1>1, <1>5, <1>8 DEF TypeOK
<1>10. \A v \in Writer \ {s.w} : /\ nlost'[v] = nlost[v] /\ first'[v] = first[v]
                                /\ eseq'[v] = eseq[v]
  BY <1>1, <1>5, <1>8 DEF TypeOK
<1>11. /\ \A v \in Writer \ {s.w} : KnownPublication(v)' <=> KnownPublication(v)
       /\ Contains(ph', s.w)
  <2>1. CASE KnownPublication(s.w)
    <3>1. ph' = ph
      BY <1>8, <2>1
    <3> QED
      BY <2>1, <3>1 DEF KnownPublication, Contains
  <2>2. CASE ~KnownPublication(s.w)
    <3>1. /\ Len(ph) \in Nat /\ Len(ph') = Len(ph) + 1 /\ ph'[Len(ph) + 1] = s.w
          /\ \A i \in 1 .. Len(ph) : ph'[i] = ph[i]
      <4>1. ph \in Seq(Writer) /\ ph' = Append(ph, s.w)
        BY <1>1, <1>8, <2>2 DEF TypeOK
      <4> QED
        BY <1>5, <4>1, AppendProperties, LenProperties
    <3>2. \A i \in 1 .. Len(ph') : i \in 1 .. Len(ph) \/ i = Len(ph) + 1
      BY <3>1
    <3>3. Len(ph) + 1 \in 1 .. Len(ph') /\ \A i \in 1 .. Len(ph) : i \in 1 .. Len(ph')
      BY <3>1
    <3>4. \A v \in Writer \ {s.w} : (\E i \in 1 .. Len(ph') : ph'[i] = v) <=> (\E i \in 1 .. Len(ph) : ph[i] = v)
      BY <3>1, <3>2, <3>3
    <3>5. \E i \in 1 .. Len(ph') : ph'[i] = s.w
      BY <3>1, <3>3
    <3> HIDE DEF s
    <3> QED
      BY <3>4, <3>5 DEF KnownPublication, Contains
  <2> QED
    BY <2>1, <2>2
<1> QED
  BY <1>2, <1>3, <1>4, <1>5, <1>6, <1>7, <1>9, <1>10, <1>11 DEF s

\* What a sample of a known publication does to the tables.
LEMMA CheckKnown ==
  ASSUME IInv, CheckEseq, KnownPublication(Head(batch).w)
  PROVE  LET s == Head(batch)
         IN  /\ ph' = ph /\ first'[s.w] = first[s.w]
             /\ nlost'[s.w] = nlost[s.w] + LostBefore(s)
             /\ eseq'[s.w][s.key] = ExpectedNext(s)
             /\ \A k \in Key \ {s.key} : eseq'[s.w][k] = eseq[s.w][k]
<1>1. TypeOK
  BY DEF IInv
<1>2. Head(batch).w \in Writer /\ Head(batch).key \in Key
  BY CheckFacts
<1> QED
  BY <1>1, <1>2 DEF CheckEseq, TypeOK

\* What the first sample of a publication does.
LEMMA CheckUnknown ==
  ASSUME IInv, CheckEseq, ~KnownPublication(Head(batch).w)
  PROVE  LET s == Head(batch)
         IN  /\ got[s.w] = {} /\ first'[s.w] = s.n
             /\ nlost'[s.w] = nlost[s.w]
             /\ \A k \in Key : eseq'[s.w][k] = ExpectedAfterFirst(s, k)
<1>1. TypeOK /\ ProcessedInv
  BY DEF IInv
<1>2. Head(batch).w \in Writer /\ Head(batch).key \in Key
  BY CheckFacts
<1>3. got[Head(batch).w] = {}
  BY <1>1, <1>2 DEF ProcessedInv
<1> QED
  BY <1>1, <1>2, <1>3 DEF CheckEseq, TypeOK

LEMMA CheckReader ==
  ASSUME IInv, CheckEseq
  PROVE  ReaderInv' /\ InOrder'
<1> DEFINE s == Head(batch)
<1>0. ReaderInv /\ InOrder
  BY DEF IInv
<1>1. /\ s.w \in Writer /\ s.n \in Nat /\ Genuine(s)
      /\ s = batch[1] /\ 1 \in 1 .. Len(batch) /\ Len(batch') = Len(batch) - 1
      /\ \A i \in 1 .. Len(batch') : i + 1 \in 1 .. Len(batch) /\ batch'[i] = batch[i + 1]
      /\ UNCHANGED <<written, cache, order>>
      /\ got'[s.w] = got[s.w] \cup {s.n}
      /\ \A v \in Writer \ {s.w} : got'[v] = got[v]
  BY CheckFacts
<1> HIDE DEF s
<1>2. Len(batch) \in Nat /\ \A i \in 1 .. Len(batch) : batch[i] \in Sample
  BY Types DEF IInv
<1>3. \A t \in Sample : AfterProcessed(t) /\ After(s, t) =>
         \A n \in got'[t.w] : n % NKeys = t.key => n < t.n
  <2> SUFFICES ASSUME NEW t \in Sample, AfterProcessed(t), After(s, t),
                      NEW n \in got'[t.w], n % NKeys = t.key
               PROVE  n < t.n
    OBVIOUS
  <2>1. t.w \in Writer
    BY DEF Sample
  <2>2. CASE n \in got[t.w]
    BY <2>2 DEF AfterProcessed
  <2>3. CASE n \notin got[t.w]
    <3>1. t.w = s.w /\ n = s.n
      BY <1>1, <2>1, <2>3
    <3> QED
      BY <1>1, <3>1 DEF After, Genuine
  <2> QED
    BY <2>2, <2>3
<1>4. ReaderInv'
  <2>1. \A i \in 1 .. Len(batch') : Genuine(batch'[i])
    BY <1>0, <1>1 DEF ReaderInv
  <2>2. (\A k \in Key : \A i \in 1 .. Len(cache[k]) :
            Genuine(cache[k][i]) /\ cache[k][i].key = k)'
    BY <1>0, <1>1 DEF ReaderInv, Genuine
  <2>3. /\ \A i \in 1 .. Len(order') : cache'[order'[i]] # <<>>
        /\ \A i, j \in 1 .. Len(order') : i # j => order'[i] # order'[j]
    BY <1>0, <1>1 DEF ReaderInv
  <2>4. (\A i \in 1 .. Len(batch) : Genuine(batch[i]))'
    BY <1>1, <2>1 DEF Genuine
  <2> QED
    BY <2>2, <2>3, <2>4 DEF ReaderInv
<1>5. \A i, j \in 1 .. Len(batch') : i < j => After(batch'[i], batch'[j])
  <2> SUFFICES ASSUME NEW i \in 1 .. Len(batch'), NEW j \in 1 .. Len(batch'), i < j
               PROVE  After(batch'[i], batch'[j])
    OBVIOUS
  <2>1. i + 1 < j + 1 /\ i + 1 \in 1 .. Len(batch) /\ j + 1 \in 1 .. Len(batch)
    BY <1>1
  <2> QED
    BY <1>0, <1>1, <2>1 DEF InOrder
<1>6. \A i \in 1 .. Len(batch') : \A k \in Key : \A j \in 1 .. Len(cache[k]) :
         After(batch'[i], cache[k][j])
  BY <1>0, <1>1 DEF InOrder
<1>7. \A i \in 1 .. Len(batch') : \A n \in got'[batch'[i].w] : n % NKeys = batch'[i].key => n < batch'[i].n
  <2> SUFFICES ASSUME NEW i \in 1 .. Len(batch')
               PROVE  batch'[i] \in Sample /\ AfterProcessed(batch'[i]) /\ After(s, batch'[i])
    BY <1>3
  <2>1. i + 1 \in 1 .. Len(batch) /\ 1 < i + 1
    BY <1>1
  <2> QED
    BY <1>0, <1>1, <1>2, <2>1 DEF InOrder
<1>8. \A k \in Key : \A i \in 1 .. Len(cache[k]) :
         \A n \in got'[cache[k][i].w] : n % NKeys = cache[k][i].key => n < cache[k][i].n
  <2> SUFFICES ASSUME NEW k \in Key, NEW i \in 1 .. Len(cache[k])
               PROVE  cache[k][i] \in Sample /\ AfterProcessed(cache[k][i]) /\ After(s, cache[k][i])
    BY <1>3
  <2>1. cache[k][i] \in Sample
    BY Types DEF IInv
  <2> QED
    BY <1>0, <1>1, <2>1 DEF InOrder
<1>9. InOrder'
  BY <1>0, <1>1, <1>5, <1>6, <1>7, <1>8 DEF InOrder, After, AfterProcessed
<1> QED
  BY <1>4, <1>9

LEMMA CheckTypes ==
  ASSUME IInv, CheckEseq
  PROVE  TypeOK' /\ PubInv'
<1> DEFINE s == Head(batch)
<1>0. TypeOK
  BY DEF IInv
<1>1. /\ s.w \in Writer /\ s.n \in Nat /\ s.key \in Key /\ s.seq \in Number
      /\ batch' \in Seq(Sample)
      /\ UNCHANGED <<seq, keyval, written, cache, order, status>>
  BY CheckFacts
<1> HIDE DEF s
<1>2. /\ \A a \in Int : a % Modulus \in Number
      /\ \A a \in Number : a \in Int
      /\ \A a \in Number : a \in Nat
  BY ConstantsAssumption, Division DEF Number
<1>3. ExpectedNext(s) \in Number
  <2>1. s.seq \in Int
    BY <1>1, <1>2
  <2>2. s.seq + NKeys \in Int
    BY <2>1, ConstantsAssumption
  <2> QED
    BY <1>2, <2>2 DEF ExpectedNext
<1>4. \A k \in Key : ExpectedAfterFirst(s, k) \in Number
  <2> SUFFICES ASSUME NEW k \in Key PROVE ExpectedAfterFirst(s, k) \in Number
    OBVIOUS
  <2>1. s.seq \in Int /\ s.key \in Int /\ k \in Int /\ NKeys \in Int
    BY <1>1, <1>2, ConstantsAssumption DEF Key
  <2>2. s.seq + (k - s.key) + (IF k <= s.key THEN NKeys ELSE 0) \in Int
    BY <2>1
  <2> QED
    BY <1>2, <2>2 DEF ExpectedAfterFirst
<1>5. LostBefore(s) \in Nat
  <2>1. eseq[s.w][s.key] \in Number
    BY <1>0, <1>1 DEF TypeOK
  <2>2. s.seq \in Int /\ eseq[s.w][s.key] \in Int
    BY <1>1, <1>2, <2>1
  <2>3. s.seq - eseq[s.w][s.key] \in Int
    BY <2>2
  <2> QED
    BY <1>2, <2>3 DEF LostBefore
<1>6. Append(ph, s.w) \in Seq(Writer)
  BY <1>0, <1>1, AppendProperties DEF TypeOK
<1>7. /\ got' = [got EXCEPT ![s.w] = @ \cup {s.n}] /\ nrecv' = [nrecv EXCEPT ![s.w] = @ + 1]
      /\ \/ /\ eseq' = [eseq EXCEPT ![s.w][s.key] = ExpectedNext(s)]
            /\ nlost' = [nlost EXCEPT ![s.w] = @ + LostBefore(s)]
            /\ UNCHANGED <<ph, first>>
         \/ /\ eseq' = [eseq EXCEPT ![s.w] = [k \in Key |-> ExpectedAfterFirst(s, k)]]
            /\ ph' = Append(ph, s.w)
            /\ first' = [first EXCEPT ![s.w] = s.n]
            /\ UNCHANGED nlost
  BY DEF CheckEseq, s
<1>8. got' \in [Writer -> SUBSET Nat] /\ nrecv' \in [Writer -> Nat]
  <2>1. got \in [Writer -> SUBSET Nat] /\ nrecv \in [Writer -> Nat]
    BY <1>0 DEF TypeOK
  <2>2. got[s.w] \cup {s.n} \in SUBSET Nat /\ nrecv[s.w] + 1 \in Nat
    BY <1>1, <2>1
  <2>3. got' = [got EXCEPT ![s.w] = @ \cup {s.n}] /\ nrecv' = [nrecv EXCEPT ![s.w] = @ + 1]
    BY <1>7
  <2> QED
    BY <2>1, <2>2, <2>3
<1>9. eseq' \in [Writer -> [Key -> Number]]
  <2>1. eseq \in [Writer -> [Key -> Number]]
    BY <1>0 DEF TypeOK
  <2>2. CASE eseq' = [eseq EXCEPT ![s.w][s.key] = ExpectedNext(s)]
    BY <1>1, <1>3, <2>1, <2>2
  <2>3. CASE eseq' = [eseq EXCEPT ![s.w] = [k \in Key |-> ExpectedAfterFirst(s, k)]]
    <3>1. [k \in Key |-> ExpectedAfterFirst(s, k)] \in [Key -> Number]
      BY <1>4
    <3> QED
      BY <1>1, <2>1, <2>3, <3>1
  <2> QED
    BY <1>7, <2>2, <2>3
<1>10. nlost' \in [Writer -> Nat] /\ ph' \in Seq(Writer) /\ first' \in [Writer -> Nat]
  <2>1. nlost \in [Writer -> Nat] /\ ph \in Seq(Writer) /\ first \in [Writer -> Nat]
    BY <1>0 DEF TypeOK
  <2>2. nlost' \in [Writer -> Nat]
    <3>1. CASE nlost' = nlost
      BY <2>1, <3>1
    <3>2. CASE nlost' = [nlost EXCEPT ![s.w] = @ + LostBefore(s)]
      BY <1>1, <1>5, <2>1, <3>2
    <3> QED
      BY <1>7, <3>1, <3>2
  <2>3. ph' \in Seq(Writer) /\ first' \in [Writer -> Nat]
    BY <1>1, <1>6, <1>7, <2>1
  <2> QED
    BY <2>2, <2>3
<1>11. TypeOK'
  BY <1>0, <1>1, <1>8, <1>9, <1>10 DEF TypeOK
<1>12. PubInv'
  BY <1>1 DEF IInv, PubInv
<1> QED
  BY <1>11, <1>12

LEMMA CheckProcessed ==
  ASSUME IInv, CheckEseq
  PROVE  ProcessedInv'
<1> DEFINE s == Head(batch)
<1>0. TypeOK /\ ProcessedInv
  BY DEF IInv
<1>1. /\ s.w \in Writer /\ s.n \in Nat /\ Genuine(s) /\ s.n \notin got[s.w]
      /\ written' = written
      /\ got'[s.w] = got[s.w] \cup {s.n} /\ nrecv'[s.w] = nrecv[s.w] + 1
      /\ \A v \in Writer \ {s.w} :
           /\ got'[v] = got[v] /\ nrecv'[v] = nrecv[v] /\ first'[v] = first[v]
           /\ KnownPublication(v)' <=> KnownPublication(v)
      /\ Contains(ph', s.w)
  BY CheckFacts
<1>2. first'[s.w] \in got'[s.w]
  <2>1. CASE KnownPublication(s.w)
    <3>1. first'[s.w] = first[s.w]
      BY <2>1, CheckKnown
    <3> QED
      BY <1>0, <1>1, <2>1, <3>1 DEF ProcessedInv
  <2>2. CASE ~KnownPublication(s.w)
    BY <1>1, <2>2, CheckUnknown
  <2> QED
    BY <2>1, <2>2
<1> HIDE DEF s
<1>3. nrecv'[s.w] = Cardinality(got'[s.w])
  <2>1. IsFiniteSet(got[s.w])
    <3>1. got[s.w] \in SUBSET Nat /\ written[s.w] \in Nat
      BY <1>0, <1>1, Types
    <3>2. \A n \in got[s.w] : n <= written[s.w]
      BY <1>0, <1>1, <3>1 DEF ProcessedInv
    <3> QED
      BY <3>1, <3>2, FS_BoundedSetOfNaturals
  <2>2. Cardinality(got[s.w] \cup {s.n}) = Cardinality(got[s.w]) + 1
    BY <1>1, <2>1, FS_AddElement
  <2> QED
    BY <1>0, <1>1, <2>2 DEF ProcessedInv
<1>4. \A n \in got'[s.w] : n < written[s.w]
  BY <1>0, <1>1 DEF ProcessedInv, Genuine
<1> SUFFICES ASSUME NEW v \in Writer
             PROVE  /\ \A n \in got'[v] : n < written[v]
                    /\ nrecv'[v] = Cardinality(got'[v])
                    /\ Contains(ph', v) <=> got'[v] # {}
                    /\ got'[v] # {} => first'[v] \in got'[v]
  BY <1>1 DEF ProcessedInv, KnownPublication
<1>5. CASE v = s.w
  BY <1>1, <1>2, <1>3, <1>4, <1>5
<1>6. CASE v # s.w
  BY <1>0, <1>1, <1>6 DEF ProcessedInv, KnownPublication
<1> QED
  BY <1>5, <1>6

\* The sum of sample number and distance that check_eseq stores is the number of the sample
\* at that distance.
LEMMA NumberAt ==
  ASSUME NEW s, s.n \in Nat, s.seq = s.n % Modulus, NEW d \in Int
  PROVE  (s.seq + d) % Modulus = (s.n + d) % Modulus
<1>1. Modulus \in Nat \ {0}
  BY ConstantsAssumption
<1>2. s.n \in Int
  OBVIOUS
<1> QED
  BY <1>1, <1>2, NextRemainder

LEMMA CheckEseqTable ==
  ASSUME IInv, CheckEseq
  PROVE  EseqInv'
<1> DEFINE s == Head(batch)
<1>0. TypeOK /\ ProcessedInv /\ EseqInv
  BY DEF IInv
<1>1. /\ s.w \in Writer /\ s.n \in Nat /\ s.key \in Key /\ Genuine(s) /\ AfterProcessed(s)
      /\ written' = written
      /\ got'[s.w] = got[s.w] \cup {s.n}
      /\ \A v \in Writer \ {s.w} :
           /\ got'[v] = got[v] /\ first'[v] = first[v] /\ eseq'[v] = eseq[v]
           /\ KnownPublication(v)' <=> KnownPublication(v)
  BY CheckFacts
<1>2. s.seq = s.n % Modulus /\ s.key = s.n % NKeys /\ s.n < written[s.w] /\ written[s.w] \in Nat
  BY <1>0, <1>1, Types DEF Genuine
<1>3. NKeys \in Nat \ {0} /\ Modulus \in Nat \ {0} /\ Key = 0 .. NKeys - 1
  BY ConstantsAssumption DEF Key
<1>4. got[s.w] \in SUBSET Nat
  BY <1>0, <1>1, Types
<1> DEFINE Now(v, k, x) ==
             /\ x % NKeys = k
             /\ \/ /\ x - NKeys \in got'[v]
                   /\ \A n \in got'[v] : n % NKeys = k => n < x
                \/ /\ x \in first'[v] + 1 .. first'[v] + NKeys
                   /\ \A n \in got'[v] : n % NKeys # k
           Holds(v, k) == \E x \in 1 .. written[v] + NKeys : Now(v, k, x) /\ eseq'[v][k] = x % Modulus
\* NKeys after the sample, for its own key.
<1>5. LET x == s.n + NKeys
      IN  x \in 1 .. written[s.w] + NKeys /\ Now(s.w, s.key, x)
  <2> HIDE DEF s
  <2> DEFINE x == s.n + NKeys
  <2>1. x \in Nat /\ x - NKeys = s.n /\ x \in 1 .. written[s.w] + NKeys /\ s.n < x
    BY <1>1, <1>2, <1>3
  <2>2. x % NKeys = s.key
    <3>1. s.n \in Int
      BY <1>1
    <3>2. (s.n + NKeys) % NKeys = s.n % NKeys
      BY <1>3, <3>1, ShiftByModulus
    <3> QED
      BY <1>2, <3>2
  <2>3. \A n \in got'[s.w] : n % NKeys = s.key => n < x
    <3> SUFFICES ASSUME NEW n \in got'[s.w], n % NKeys = s.key PROVE n < x
      OBVIOUS
    <3>1. CASE n = s.n
      BY <2>1, <3>1
    <3>2. CASE n \in got[s.w]
      <4>1. n < s.n /\ n \in Nat
        BY <1>1, <1>4, <3>2 DEF AfterProcessed
      <4> QED
        BY <1>1, <2>1, <4>1
    <3> QED
      BY <1>1, <3>1, <3>2
  <2> HIDE DEF x
  <2> QED
    BY <1>1, <2>1, <2>2, <2>3 DEF x
<1>6. ASSUME KnownPublication(s.w) PROVE \A k \in Key : Holds(s.w, k)
  <2>1. /\ first'[s.w] = first[s.w] /\ eseq'[s.w][s.key] = ExpectedNext(s)
        /\ \A k \in Key \ {s.key} : eseq'[s.w][k] = eseq[s.w][k]
        /\ KnownPublication(s.w)
    BY <1>6, CheckKnown
  <2> HIDE DEF s
  <2>2. Holds(s.w, s.key)
    <3>1. ExpectedNext(s) = (s.n + NKeys) % Modulus
      <4>1. NKeys \in Int
        BY <1>3
      <4>2. (s.seq + NKeys) % Modulus = (s.n + NKeys) % Modulus
        BY <1>1, <1>2, <4>1, NumberAt
      <4> QED
        BY <4>2 DEF ExpectedNext
    <3> QED
      BY <1>5, <2>1, <3>1
  <2>3. ASSUME NEW k \in Key, k # s.key PROVE Holds(s.w, k)
    <3>1. PICK x \in 1 .. written[s.w] + NKeys : Expected(s.w, k, x) /\ eseq[s.w][k] = x % Modulus
      BY <1>0, <1>1, <2>1 DEF EseqInv
    <3>2. Now(s.w, k, x)
      <4>1. \A n \in got'[s.w] : n % NKeys = k => n \in got[s.w]
        BY <1>1, <1>2, <2>3
      <4> QED
        BY <1>1, <2>1, <3>1, <4>1 DEF Expected
    <3> QED
      BY <2>1, <2>3, <3>1, <3>2
  <2> QED
    BY <2>2, <2>3
<1>7. ASSUME ~KnownPublication(s.w) PROVE \A k \in Key : Holds(s.w, k)
  <2>1. /\ got[s.w] = {} /\ first'[s.w] = s.n
        /\ \A k \in Key : eseq'[s.w][k] = ExpectedAfterFirst(s, k)
    BY <1>7, CheckUnknown
  <2> HIDE DEF s
  <2>2. got'[s.w] = {s.n}
    BY <1>1, <2>1
  <2>3. ASSUME NEW k \in Key PROVE Holds(s.w, k)
    <3> DEFINE e == IF k <= s.key THEN NKeys ELSE 0
               d == (k - s.key) + e
               x == s.n + d
    <3>0. k \in Int /\ s.key \in Int /\ e \in Int
      BY <1>1, <1>3
    <3>1. d \in 1 .. NKeys /\ (k = s.key => d = NKeys)
      BY <1>1, <1>3
    <3>2. ExpectedAfterFirst(s, k) = (s.seq + d) % Modulus
      <4>1. s.seq \in Int
        BY CheckFacts, <1>3 DEF s, Number
      <4> HIDE DEF e
      <4>2. s.seq + (k - s.key) + e = s.seq + d
        BY <3>0, <4>1
      <4> QED
        BY <4>2 DEF ExpectedAfterFirst, e
    <3>3. eseq'[s.w][k] = x % Modulus
      <4> HIDE DEF d
      <4> QED
        BY <1>1, <1>2, <2>1, <3>1, <3>2, NumberAt
    <3>4. CASE k = s.key
      BY <1>5, <3>1, <3>3, <3>4
    <3>5. CASE k # s.key
      <4>1. x \in 1 .. written[s.w] + NKeys /\ x \in s.n + 1 .. s.n + NKeys
        <5>1. s.n \in Nat /\ s.n < written[s.w] /\ NKeys \in Nat /\ written[s.w] \in Nat
          BY <1>1, <1>2, <1>3
        <5>2. d \in 1 .. NKeys
          BY <3>1
        <5> HIDE DEF d
        <5> QED
          BY <5>1, <5>2
      <4>2. x % NKeys = k
        <5>1. s.key + d = k \/ s.key + d = k + NKeys
          BY <3>0
        <5>2. k % NKeys = k
          BY <1>3
        <5>3. (k + NKeys) % NKeys = k
          BY <1>3, <3>0, <5>2, ShiftByModulus
        <5>4. (s.key + d) % NKeys = x % NKeys
          <6> HIDE DEF d
          <6>1. s.n \in Int /\ d \in Int
            BY <1>1, <1>3, <3>1
          <6>2. ((s.n % NKeys) + d) % NKeys = (s.n + d) % NKeys
            BY <1>3, <6>1, NextRemainder
          <6> QED
            BY <1>2, <6>2
        <5> QED
          BY <5>1, <5>2, <5>3, <5>4
      <4>3. \A n \in got'[s.w] : n % NKeys # k
        BY <1>2, <2>2, <3>5
      <4> HIDE DEF x
      <4> QED
        BY <2>1, <3>3, <4>1, <4>2, <4>3
    <3> QED
      BY <3>4, <3>5
  <2> QED
    BY <2>3
<1>8. ASSUME NEW v \in Writer, v # s.w, KnownPublication(v), NEW k \in Key PROVE Holds(v, k)
  <2>1. PICK x \in 1 .. written[v] + NKeys : Expected(v, k, x) /\ eseq[v][k] = x % Modulus
    BY <1>0, <1>8 DEF EseqInv
  <2> HIDE DEF s
  <2> QED
    BY <1>1, <1>8, <2>1 DEF Expected
<1> HIDE DEF s
<1>9. ASSUME NEW v \in Writer, KnownPublication(v)', NEW k \in Key PROVE Holds(v, k)
  <2> HIDE DEF Holds
  <2>1. CASE v = s.w
    BY <1>6, <1>7, <2>1
  <2>2. CASE v # s.w
    BY <1>1, <1>8, <1>9, <2>2
  <2> QED
    BY <2>1, <2>2
<1> QED
  BY <1>1, <1>9 DEF EseqInv, Expected

\* The ordinals between f and t that are missing in g although a later one of the class is not.
Gaps(g, f, t) ==
    {n \in f + 1 .. t - 1 : n \notin g /\ \E m \in g : m > n /\ m % NKeys = n % NKeys}

\* n comes after all of its class in g, and none of g is before f, the first.
Latest(g, f, t, n) ==
    /\ g \in SUBSET Nat /\ f \in g /\ t \in Nat /\ n \in Nat /\ n < t /\ n >= f
    /\ \A m \in g : m >= f
    /\ \A m \in g : m % NKeys = n % NKeys => m < n

\* x is what is expected of the class of n when g was seen.
Awaited(g, f, n, x) ==
    /\ x \in Int /\ x % NKeys = n % NKeys
    /\ \/ x - NKeys \in g /\ \A m \in g : m % NKeys = n % NKeys => m < x
       \/ x \in f + 1 .. f + NKeys /\ \A m \in g : m % NKeys # n % NKeys

\* n is q cycles after x, and as many gaps come with it.
GrowsBy(g, f, t, n, x, q) ==
    /\ n = x + NKeys * q
    /\ Cardinality(Gaps(g \cup {n}, f, t)) = Cardinality(Gaps(g, f, t)) + q

\* What a sample of ordinal n adds to the gaps when x was expected of its class: every
\* ordinal of the class from x up to n.
LEMMA GapsGrow ==
  ASSUME NEW g, NEW f, NEW t, NEW n, NEW x, Latest(g, f, t, n), Awaited(g, f, n, x)
  PROVE  x >= f + 1 /\ \E q \in Nat : GrowsBy(g, f, t, n, x, q)
<1> USE DEF Latest, Awaited
<1> USE ConstantsAssumption
<1>0. NKeys \in Nat \ {0} /\ f \in Nat /\ \A m \in g : m \in Nat
  OBVIOUS
<1>1. n \in Int /\ x % NKeys = n % NKeys
  OBVIOUS
<1>2. \A m \in g : m % NKeys = n % NKeys => m < x
  OBVIOUS
<1>3. x >= f + 1
  BY <1>0
<1>4. x <= n
  <2> SUFFICES ASSUME n < x PROVE FALSE
    OBVIOUS
  <2>1. n <= x - NKeys
    BY <1>0, <1>1, CongruentApart
  <2>2. CASE x - NKeys \in g
    <3>1. x \in Int /\ (x - NKeys) % NKeys = n % NKeys
      BY <1>0, ShiftByModulus
    <3>2. x - NKeys < n
      BY <2>2, <3>1
    <3> QED
      BY <2>1, <3>2
  <2>3. CASE x - NKeys \notin g
    <3>1. n > f /\ x <= f + NKeys
      BY <1>0, <2>3
    <3> QED
      BY <1>0, <2>1, <3>1
  <2> QED
    BY <2>2, <2>3
<1>5. PICK q \in Nat : n = x + NKeys * q
  <2>1. CASE x = n
    <3>1. n = x + NKeys * 0
      BY <2>1
    <3> QED
      BY <3>1
  <2>2. CASE x < n
    <3>1. NKeys \in Nat \ {0} /\ x \in Int
      BY <1>0
    <3>2. \E q \in Nat \ {0} : n = x + NKeys * q
      BY <1>1, <2>2, <3>1, CongruentApart
    <3> QED
      BY <3>2
  <2> QED
    BY <1>4, <2>1, <2>2
<1> DEFINE New == {x + NKeys * i : i \in 0 .. q - 1}
           Old == Gaps(g, f, t)
           All == Gaps(g \cup {n}, f, t)
<1>6. ASSUME NEW y \in Int
      PROVE  y \in New <=> x <= y /\ y < n /\ y % NKeys = n % NKeys
  <2>1. ASSUME y \in New PROVE x <= y /\ y < n /\ y % NKeys = n % NKeys
    <3>1. PICK i \in 0 .. q - 1 : y = x + NKeys * i
      BY <2>1
    <3>2. i \in Int /\ q - i >= 1 /\ i >= 0
      OBVIOUS
    <3>3. NKeys * i >= 0 /\ NKeys * (q - i) >= NKeys
      BY <1>0, <3>2
    <3>4. NKeys * (q - i) = NKeys * q - NKeys * i
      BY <1>0, <3>2
    <3>5. x <= y /\ y < n
      BY <1>0, <1>5, <3>1, <3>3, <3>4
    <3>6. y % NKeys = x % NKeys
      BY <1>0, <3>1, <3>2, Congruent
    <3> QED
      BY <3>5, <3>6
  <2>2. ASSUME x <= y, y < n, y % NKeys = n % NKeys PROVE y \in New
    <3>1. PICK j \in Int : y = x + NKeys * j
      <4>1. y % NKeys = x % NKeys
        BY <1>1, <2>2
      <4> QED
        BY <1>0, <4>1, Congruent
    <3>2. NKeys * j >= 0 /\ NKeys * (q - j) > 0
      <4>1. NKeys * (q - j) = NKeys * q - NKeys * j
        BY <1>0
      <4> QED
        BY <1>0, <1>5, <2>2, <3>1, <4>1
    <3>3. (j < 0 => NKeys * j < 0) /\ (q - j <= 0 => NKeys * (q - j) <= 0)
      BY <1>0
    <3>4. j \in 0 .. q - 1
      BY <3>2, <3>3
    <3> QED
      BY <3>1, <3>4
  <2> QED
    BY <2>1, <2>2
<1>7. New \subseteq Int
  BY <1>0
<1>8. IsFiniteSet(New) /\ Cardinality(New) = q
  BY <1>0, Progression
<1> HIDE DEF New
<1>9. New \subseteq All
  <2> SUFFICES ASSUME NEW y \in New PROVE y \in All
    OBVIOUS
  <2>1. y \in Int /\ x <= y /\ y < n /\ y % NKeys = n % NKeys
    BY <1>6, <1>7
  <2>2. y \in f + 1 .. t - 1
    BY <1>0, <1>3, <2>1
  <2>3. y \notin g /\ y # n
    BY <1>0, <1>2, <2>1
  <2> QED
    BY <2>1, <2>2, <2>3 DEF Gaps
<1>10. Old \subseteq All
  <2> SUFFICES ASSUME NEW y \in Old PROVE y \in All
    OBVIOUS
  <2>1. y \in f + 1 .. t - 1 /\ y \in Int /\ y \notin g
    BY <1>0 DEF Gaps
  <2>2. PICK m \in g : m > y /\ m % NKeys = y % NKeys
    BY DEF Gaps
  <2>3. y # n
    BY <1>0, <2>1, <2>2
  <2> QED
    BY <2>1, <2>2, <2>3 DEF Gaps
<1>11. All \subseteq Old \cup New
  <2> SUFFICES ASSUME NEW y \in All, y \notin New PROVE y \in Old
    OBVIOUS
  <2>1. y \in f + 1 .. t - 1 /\ y \in Int /\ y \notin g /\ y # n
    BY <1>0 DEF Gaps
  <2>2. PICK m \in g \cup {n} : m > y /\ m % NKeys = y % NKeys
    BY DEF Gaps
  <2>3. CASE m \in g
    BY <2>1, <2>2, <2>3 DEF Gaps
  <2>4. CASE m = n
    <3>1. y < x
      BY <1>6, <2>1, <2>2, <2>4
    <3>2. y <= x - NKeys
      BY <1>0, <2>1, <2>2, <2>4, <3>1, CongruentApart
    <3>3. x - NKeys \in g
      <4>1. ~(x <= f + NKeys)
        BY <1>0, <2>1, <3>2
      <4> QED
        BY <1>0, <4>1
    <3>4. x - NKeys > y
      BY <1>0, <2>1, <3>2, <3>3
    <3>5. (x - NKeys) % NKeys = y % NKeys
      BY <1>0, <2>2, <2>4, ShiftByModulus
    <3> QED
      BY <2>1, <3>3, <3>4, <3>5 DEF Gaps
  <2> QED
    BY <2>2, <2>3, <2>4
<1>12. Old \cap New = {}
  <2> SUFFICES ASSUME NEW y \in Old, y \in New PROVE FALSE
    OBVIOUS
  <2>1. y \in Int /\ x <= y /\ y % NKeys = n % NKeys
    BY <1>6, <1>7
  <2>2. PICK m \in g : m > y /\ m % NKeys = y % NKeys
    BY DEF Gaps
  <2> QED
    BY <1>0, <1>2, <2>1, <2>2
<1>13. IsFiniteSet(Old)
  <2>1. Old \subseteq f + 1 .. t - 1
    BY DEF Gaps
  <2>2. f + 1 \in Int /\ t - 1 \in Int
    BY <1>0
  <2>3. IsFiniteSet(f + 1 .. t - 1)
    BY <2>2, FS_Interval
  <2> QED
    BY <2>1, <2>3, FS_Subset
<1>14. All = Old \cup New
  BY <1>9, <1>10, <1>11
<1> HIDE DEF Old, All
<1>15. Cardinality(All) = Cardinality(Old) + q
  <2>1. Cardinality(Old \cup New) = Cardinality(Old) + Cardinality(New) - Cardinality(Old \cap New)
    BY <1>8, <1>13, FS_Union
  <2>2. Cardinality(Old \cap New) = 0 /\ Cardinality(Old) \in Nat
    BY <1>12, <1>13, FS_EmptySet, FS_CardinalityType
  <2> QED
    BY <1>8, <1>14, <2>1, <2>2
<1> QED
  BY <1>3, <1>5, <1>15 DEF Old, All, GrowsBy

LEMMA CheckLosses ==
  ASSUME IInv, CheckEseq
  PROVE  LossDetected'
<1> DEFINE s == Head(batch)
<1>0. TypeOK /\ ProcessedInv /\ EseqInv /\ LossDetected
  BY DEF IInv
<1>1. /\ s.w \in Writer /\ s.n \in Nat /\ s.key \in Key /\ Genuine(s) /\ AfterProcessed(s)
      /\ s.n \notin got[s.w] /\ written' = written
      /\ got'[s.w] = got[s.w] \cup {s.n}
      /\ \A v \in Writer \ {s.w} :
           got'[v] = got[v] /\ first'[v] = first[v] /\ nlost'[v] = nlost[v]
  BY CheckFacts
<1>2. s.seq = s.n % Modulus /\ s.key = s.n % NKeys /\ s.n < written[s.w] /\ written[s.w] \in Nat
  BY <1>0, <1>1, Types DEF Genuine
<1>3. NKeys \in Nat \ {0} /\ Modulus \in Nat \ {0}
  BY ConstantsAssumption
<1>4. /\ got[s.w] \in SUBSET Nat /\ first[s.w] \in Nat /\ nlost[s.w] \in Nat
      /\ \A n \in got[s.w] : n % NKeys = s.n % NKeys => n < s.n
  BY <1>0, <1>1, <1>2, Types DEF AfterProcessed
<1> DEFINE Oldest(v) == \A n \in got'[v] : n >= first'[v]
           Short(v) == \A n \in got'[v] :
                         \/ n <= first'[v] + Modulus
                         \/ \E m \in got'[v] : /\ m < n /\ m % NKeys = n % NKeys
                                               /\ n - m < Modulus + NKeys
           Exact(v) == nlost'[v] = NKeys * Cardinality(Gaps(got'[v], first'[v], written[v]))
<1>5. ASSUME KnownPublication(s.w), Oldest(s.w), Short(s.w) PROVE Exact(s.w)
  <2>1. /\ first'[s.w] = first[s.w] /\ first[s.w] \in got[s.w]
        /\ nlost'[s.w] = nlost[s.w] + LostBefore(s)
    BY <1>0, <1>1, <1>5, CheckKnown DEF ProcessedInv
  <2>2. /\ \A n \in got[s.w] : n >= first[s.w]
        /\ s.n >= first[s.w]
        /\ \/ s.n <= first[s.w] + Modulus
           \/ \E m \in got'[s.w] : m < s.n /\ m % NKeys = s.n % NKeys /\ s.n - m < Modulus + NKeys
    BY <1>1, <1>5, <2>1
  <2> HIDE DEF s
  <2>3. LossesVisible(s.w)
    <3>1. ASSUME NEW n \in got[s.w]
          PROVE  \/ n <= first[s.w] + Modulus
                 \/ \E m \in got[s.w] : m < n /\ m % NKeys = n % NKeys /\ n - m < Modulus + NKeys
      <4>1. \/ n <= first[s.w] + Modulus
            \/ \E m \in got'[s.w] : m < n /\ m % NKeys = n % NKeys /\ n - m < Modulus + NKeys
        BY <1>1, <1>5, <2>1
      <4>2. ~(s.n < n /\ s.n % NKeys = n % NKeys)
        BY <1>1, <1>4
      <4> QED
        BY <1>1, <4>1, <4>2
    <3> QED
      BY <2>2, <3>1 DEF LossesVisible, FirstIsOldest, GapsShort
  <2>4. nlost[s.w] = NKeys * Cardinality(Gaps(got[s.w], first[s.w], written[s.w]))
    BY <1>0, <1>1, <2>3 DEF LossDetected, Missing, Gaps
  <2>5. PICK x \in 1 .. written[s.w] + NKeys :
           Expected(s.w, s.key, x) /\ eseq[s.w][s.key] = x % Modulus
    BY <1>0, <1>1, <1>5 DEF EseqInv
  <2>6. /\ x \in Int /\ x % NKeys = s.n % NKeys
        /\ \/ /\ x - NKeys \in got[s.w]
              /\ \A n \in got[s.w] : n % NKeys = s.n % NKeys => n < x
           \/ /\ x \in first[s.w] + 1 .. first[s.w] + NKeys
              /\ \A n \in got[s.w] : n % NKeys # s.n % NKeys
    BY <1>2, <2>5 DEF Expected
  <2>7. /\ x >= first[s.w] + 1
        /\ \E q \in Nat : GrowsBy(got[s.w], first[s.w], written[s.w], s.n, x, q)
    <3>1. Latest(got[s.w], first[s.w], written[s.w], s.n)
      BY <1>1, <1>2, <1>4, <2>1, <2>2 DEF Latest
    <3>2. Awaited(got[s.w], first[s.w], s.n, x)
      BY <2>6 DEF Awaited
    <3> QED
      BY <3>1, <3>2, GapsGrow
  <2>8. PICK q \in Nat :
             /\ s.n = x + NKeys * q
             /\ Cardinality(Gaps(got[s.w] \cup {s.n}, first[s.w], written[s.w]))
                  = Cardinality(Gaps(got[s.w], first[s.w], written[s.w])) + q
    BY <2>7 DEF GrowsBy
\* The number of the sample lies at most the range of the numbers after the expected one.
  <2>9. s.n - x \in 0 .. Modulus - 1
    <3>1. s.n - x >= 0 /\ s.n - x \in Int
      <4>1. NKeys * q >= 0 /\ NKeys * q \in Int
        BY <1>3
      <4> QED
        BY <1>1, <2>6, <2>8, <4>1
    <3>2. CASE s.n <= first[s.w] + Modulus
      BY <1>1, <1>3, <1>4, <2>6, <2>7, <3>1, <3>2
    <3>3. CASE \E m \in got'[s.w] : m < s.n /\ m % NKeys = s.n % NKeys /\ s.n - m < Modulus + NKeys
      <4>1. PICK m \in got[s.w] : m % NKeys = s.n % NKeys /\ s.n - m < Modulus + NKeys
        BY <1>1, <3>3
      <4>2. m \in Int /\ m < x /\ m % NKeys = x % NKeys
        BY <1>4, <2>6, <4>1
      <4>3. m <= x - NKeys
        BY <1>3, <2>6, <4>2, CongruentApart
      <4> QED
        BY <1>1, <1>3, <2>6, <3>1, <4>1, <4>2, <4>3
    <3> QED
      BY <2>2, <3>2, <3>3
  <2>10. LostBefore(s) = NKeys * q
    <3>1. s.n \in Int
      BY <1>1
    <3>2. ((s.n % Modulus) - (x % Modulus)) % Modulus = s.n - x
      BY <1>3, <2>6, <2>9, <3>1, RemainderOfDistance
    <3>3. LostBefore(s) = s.n - x
      BY <1>2, <2>5, <3>2 DEF LostBefore
    <3> QED
      BY <1>3, <2>6, <2>8, <3>3
  <2>11. Cardinality(Gaps(got[s.w], first[s.w], written[s.w])) \in Nat
    <3>1. IsFiniteSet(first[s.w] + 1 .. written[s.w] - 1)
      <4>1. first[s.w] + 1 \in Int /\ written[s.w] - 1 \in Int
        BY <1>2, <1>4
      <4> QED
        BY <4>1, FS_Interval
    <3>2. Gaps(got[s.w], first[s.w], written[s.w]) \in SUBSET (first[s.w] + 1 .. written[s.w] - 1)
      BY DEF Gaps
    <3>3. IsFiniteSet(Gaps(got[s.w], first[s.w], written[s.w]))
      BY <3>1, <3>2, FS_Subset
    <3> QED
      BY <3>3, FS_CardinalityType
  <2>12. Exact(s.w)
    <3>1. nlost'[s.w] = nlost[s.w] + NKeys * q
      BY <2>1, <2>10
    <3> DEFINE c == Cardinality(Gaps(got[s.w], first[s.w], written[s.w]))
    <3>2. Cardinality(Gaps(got'[s.w], first'[s.w], written[s.w])) = c + q
      BY <1>1, <2>1, <2>8
    <3>3. c \in Nat /\ nlost[s.w] = NKeys * c
      BY <2>4, <2>11
    <3> HIDE DEF c
    <3>4. NKeys * (c + q) = NKeys * c + NKeys * q
      BY <1>3, <3>3
    <3> QED
      BY <3>1, <3>2, <3>3, <3>4
  <2> QED
    BY <2>12
<1>6. ASSUME ~KnownPublication(s.w) PROVE Exact(s.w)
  <2>1. got[s.w] = {} /\ first'[s.w] = s.n /\ nlost'[s.w] = nlost[s.w]
    BY <1>6, CheckUnknown
  <2> HIDE DEF s
  <2>2. nlost[s.w] = 0
    <3>1. LossesVisible(s.w) /\ Missing(s.w) = {}
      BY <2>1 DEF LossesVisible, FirstIsOldest, GapsShort, Missing
    <3>2. nlost[s.w] = NKeys * Cardinality(Missing(s.w))
      BY <1>0, <1>1, <3>1 DEF LossDetected
    <3>3. Cardinality(Missing(s.w)) = 0 /\ NKeys * 0 = 0
      BY <1>3, <3>1, FS_EmptySet
    <3> QED
      BY <3>2, <3>3
  <2>3. Gaps(got'[s.w], first'[s.w], written[s.w]) = {}
    <3>1. \A n \in s.n + 1 .. written[s.w] - 1 : ~(s.n > n)
      BY <1>1, <1>2
    <3> QED
      BY <1>1, <2>1, <3>1 DEF Gaps
  <2>4. Cardinality({}) = 0 /\ NKeys * 0 = 0
    BY <1>3, FS_EmptySet
  <2> QED
    BY <2>1, <2>2, <2>3, <2>4
<1>7. ASSUME NEW v \in Writer, v # s.w, LossesVisible(v)' PROVE Exact(v)
  <2>1. got'[v] = got[v] /\ first'[v] = first[v] /\ nlost'[v] = nlost[v]
    BY <1>1, <1>7
  <2> HIDE DEF s
  <2>2. LossesVisible(v)
    BY <1>7, <2>1 DEF LossesVisible, FirstIsOldest, GapsShort
  <2> QED
    BY <1>0, <2>1, <2>2 DEF LossDetected, Missing, Gaps
<1> HIDE DEF s
<1>8. ASSUME NEW v \in Writer, LossesVisible(v)' PROVE Exact(v)
  <2>1. Oldest(v) /\ Short(v)
    BY <1>8 DEF LossesVisible, FirstIsOldest, GapsShort
  <2> HIDE DEF Exact, Oldest, Short
  <2>2. CASE v = s.w
    BY <1>5, <1>6, <2>1, <2>2
  <2>3. CASE v # s.w
    BY <1>7, <1>8, <2>3
  <2> QED
    BY <2>2, <2>3
<1> QED
  BY <1>1, <1>8 DEF LossDetected, Missing, Gaps

LEMMA CheckStep ==
  ASSUME IInv, CheckEseq
  PROVE  IInv'
<1>1. StatusInv'
  BY CheckFacts DEF StatusInv
<1> QED
  BY <1>1, CheckTypes, CheckReader, CheckProcessed, CheckEseqTable, CheckLosses DEF IInv

----------------------------------------------------------------------------
(* The end.                                                                *)

LEMMA ExitStep ==
  ASSUME IInv, Exit
  PROVE  IInv'
<1>1. /\ UNCHANGED <<seq, keyval, written, cache, order, batch, ph, eseq, nrecv, nlost, got, first>>
      /\ batch = <<>>
      /\ status' = IF (SomeLost /\ Reliable /\ HistDepth = 0) \/ ~ReceivedOk THEN "1" ELSE "0"
  BY DEF Exit, pubVars, readerVars, eseqVars
<1>2. StatusInv'
  BY <1>1 DEF StatusInv, SomeLost, ReceivedOk
<1>3. TypeOK' /\ PubInv'
  BY <1>1 DEF IInv, TypeOK, PubInv
<1>4. ReaderInv' /\ InOrder'
  BY <1>1 DEF IInv, ReaderInv, InOrder, Genuine, After, AfterProcessed
<1>5. ProcessedInv' /\ EseqInv'
  BY <1>1 DEF IInv, ProcessedInv, EseqInv, KnownPublication, Expected
<1>6. LossDetected'
  BY <1>1 DEF IInv, LossDetected, LossesVisible, FirstIsOldest, GapsShort, Missing
<1> QED
  BY <1>2, <1>3, <1>4, <1>5, <1>6 DEF IInv

LEMMA StutterStep ==
  ASSUME IInv, UNCHANGED vars
  PROVE  IInv'
<1>1. UNCHANGED <<seq, keyval, written, cache, order, batch, ph, eseq, nrecv, nlost, got, first, status>>
  BY DEF vars, pubVars, readerVars, eseqVars
<1>2. StatusInv' /\ TypeOK' /\ PubInv'
  BY <1>1 DEF IInv, StatusInv, SomeLost, ReceivedOk, TypeOK, PubInv
<1>3. ReaderInv' /\ InOrder'
  BY <1>1 DEF IInv, ReaderInv, InOrder, Genuine, After, AfterProcessed
<1>4. ProcessedInv' /\ EseqInv'
  BY <1>1 DEF IInv, ProcessedInv, EseqInv, KnownPublication, Expected
<1>5. LossDetected'
  BY <1>1 DEF IInv, LossDetected, LossesVisible, FirstIsOldest, GapsShort, Missing
<1> QED
  BY <1>2, <1>3, <1>4, <1>5 DEF IInv

LEMMA NextIInv == IInv /\ [Next]_vars => IInv'
  BY WriteStep, TakeStep, CheckStep, ExitStep, StutterStep DEF Next, Exited

LEMMA SpecIInv == Spec => []IInv
  BY InitIInv, NextIInv, PTL DEF Spec

\* The tables, the reader and the sequence numbers of any range keep their types: the numbers
\* stay in the range they are sent with.
THEOREM TypeCorrect == Spec => []TypeOK
<1>1. IInv => TypeOK
  BY DEF IInv
<1> QED
  BY <1>1, SpecIInv, PTL

\* For any number of publications and keys, any range of the sequence numbers (a multiple of
\* the number of keys or not) and any depth of history, check_eseq counts exactly the samples
\* that are missing, as long as the gaps are shorter than the range.
THEOREM LossesExact == Spec => []LossDetected
<1>1. IInv => LossDetected
  BY DEF IInv
<1> QED
  BY <1>1, SpecIInv, PTL

\* The exit status of the subscriber tells whether any publication lost a sample or sent too
\* few, whatever the mix of publications.
THEOREM ExitCorrect == Spec => []ExitTellsLoss
<1>1. IInv => ExitTellsLoss
  <2> SUFFICES ASSUME IInv, status # "none", \A w \in Writer : LossesVisible(w)
               PROVE  status = "0" <=> \A i \in DOMAIN ph :
                        /\ Reliable /\ HistDepth = 0 => Missing(ph[i]) = {}
                        /\ Cardinality(got[ph[i]]) >= MinReceived
    BY DEF ExitTellsLoss
  <2>1. \A i \in DOMAIN ph : ph[i] \in Writer
    <3>1. ph \in Seq(Writer)
      BY DEF IInv, TypeOK
    <3> QED
      BY <3>1, LenProperties, ElementOfSeq
  <2>2. \A w \in Writer : nlost[w] = NKeys * Cardinality(Missing(w)) /\ nrecv[w] = Cardinality(got[w])
    BY DEF IInv, LossDetected, ProcessedInv
  <2>3. \A w \in Writer : nlost[w] > 0 <=> Missing(w) # {}
    <3> SUFFICES ASSUME NEW w \in Writer PROVE nlost[w] > 0 <=> Missing(w) # {}
      OBVIOUS
    <3>1. IsFiniteSet(Missing(w))
      <4>1. first[w] + 1 \in Int /\ written[w] - 1 \in Int
        BY Types DEF IInv
      <4>2. IsFiniteSet(first[w] + 1 .. written[w] - 1)
        BY <4>1, FS_Interval
      <4>3. Missing(w) \in SUBSET (first[w] + 1 .. written[w] - 1)
        BY DEF Missing
      <4> QED
        BY <4>2, <4>3, FS_Subset
    <3> DEFINE c == Cardinality(Missing(w))
    <3>2. c \in Nat /\ (c = 0 <=> Missing(w) = {}) /\ nlost[w] = NKeys * c
      BY <2>2, <3>1, FS_CardinalityType, FS_EmptySet
    <3> HIDE DEF c
    <3>3. NKeys * c > 0 <=> c # 0
      BY <3>2, ConstantsAssumption
    <3> QED
      BY <3>2, <3>3
  <2>4. SomeLost <=> \E i \in DOMAIN ph : Missing(ph[i]) # {}
    BY <2>1, <2>3 DEF SomeLost
  <2>5. ReceivedOk <=> \A i \in DOMAIN ph : Cardinality(got[ph[i]]) >= MinReceived
    BY <2>1, <2>2 DEF ReceivedOk
  <2>6. status = IF (SomeLost /\ Reliable /\ HistDepth = 0) \/ ~ReceivedOk THEN "1" ELSE "0"
    BY DEF IInv, StatusInv
  <2> QED
    BY <2>4, <2>5, <2>6
<1> QED
  BY <1>1, SpecIInv, PTL
=============================================================================
