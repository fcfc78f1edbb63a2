----------------------------- MODULE SumTheorems -----------------------------
(***************************************************************************)
(* What SumFunctionOnSet of the community modules computes: the sum of the *)
(* values of a function of integers over a finite part of its domain.  It  *)
(* folds over the set in the order that CHOOSE makes, and the sum does not *)
(* depend on it.                                                           *)
(*                                                                         *)
(* The proofs are by induction on the set, in the form of a smallest set   *)
(* that is a counterexample.                                               *)
(***************************************************************************)
EXTENDS Integers, FiniteSets, Functions, FiniteSetTheorems, WellFoundedInduction, TLAPS

\* The element of s that is added first.
First(s) == CHOOSE x \in s : TRUE

\* f has integers to sum for the elements of S.
Summable(f, S) ==
    /\ S \subseteq DOMAIN f /\ \A x \in S : f[x] \in Int
    /\ IsFiniteSet(S)

\* g has the sum of f over every subset of S.
Sums(f, S, g) ==
    /\ g \in [SUBSET S -> Int]
    /\ \A s \in SUBSET S : g[s] = IF s = {} THEN 0 ELSE f[First(s)] + g[s \ {First(s)}]

LEMMA FirstElement ==
  ASSUME NEW s, s # {}
  PROVE  First(s) \in s
  BY DEF First

\* A set of subsets of a finite set has a smallest one.
LEMMA SmallestSubset ==
  ASSUME NEW S, IsFiniteSet(S), NEW T \in SUBSET SUBSET S, T # {}
  PROVE  \E x \in T : \A y \in SUBSET S : y \subseteq x /\ y # x => y \notin T
<1>1. IsWellFoundedOn(StrictSubsetOrdering(S), SUBSET S)
  BY FS_StrictSubsetOrderingWellFounded, FS_FiniteSubsetsOfFinite
<1>2. \E x \in T : \A y \in T : ~ (<<y, x>> \in StrictSubsetOrdering(S))
  BY <1>1, WFMin
<1> QED
  BY <1>2 DEF StrictSubsetOrdering

LEMMA SummablePart ==
  ASSUME NEW f, NEW S, Summable(f, S), NEW R, R \subseteq S
  PROVE  Summable(f, R) /\ IsFiniteSet(R)
  BY FS_Subset DEF Summable

LEMMA SumsUnique ==
  ASSUME NEW f, NEW S, NEW R, R \subseteq S, IsFiniteSet(S),
         NEW g, NEW h, Sums(f, R, g), Sums(f, S, h)
  PROVE  g[R] = h[R] /\ \A s \in SUBSET R : g[s] = h[s]
<1> DEFINE T == {s \in SUBSET R : g[s] # h[s]}
<1>1. SUFFICES ASSUME T # {} PROVE FALSE
  OBVIOUS
<1>2. IsFiniteSet(R)
  BY FS_Subset
<1>3. PICK s \in T : \A y \in SUBSET R : y \subseteq s /\ y # s => y \notin T
  <2> HIDE DEF T
  <2>1. T \in SUBSET SUBSET R
    BY DEF T
  <2> QED
    BY <1>1, <1>2, <2>1, SmallestSubset
<1>4. CASE s = {}
  BY <1>4 DEF Sums
<1>5. CASE s # {}
  <2> DEFINE r == s \ {First(s)}
  <2>1. r \in SUBSET R /\ r \subseteq s /\ r # s
    BY <1>5, FirstElement
  <2>2. g[r] = h[r]
    BY <1>3, <2>1
  <2> QED
    BY <1>5, <2>1, <2>2 DEF Sums
<1> QED
  BY <1>4, <1>5

LEMMA SumsExist ==
  ASSUME NEW f, NEW S, Summable(f, S)
  PROVE  \E g : Sums(f, S, g)
<1> DEFINE T == {s \in SUBSET S : ~\E g : Sums(f, s, g)}
<1>1. SUFFICES ASSUME T # {} PROVE FALSE
  OBVIOUS
<1>2. PICK s \in T : \A y \in SUBSET S : y \subseteq s /\ y # s => y \notin T
  <2> HIDE DEF T
  <2>1. T \in SUBSET SUBSET S /\ IsFiniteSet(S)
    BY DEF T, Summable
  <2> QED
    BY <1>1, <2>1, SmallestSubset
\* Each smaller set has its sums; h puts them together.
<1> DEFINE sol(y) == CHOOSE g : Sums(f, y, g)
           val(y) == IF y = {} THEN 0 ELSE f[First(y)] + sol(y \ {First(y)})[y \ {First(y)}]
           h == [y \in SUBSET s |-> val(y)]
<1>3. ASSUME NEW y \in SUBSET s, y # s PROVE Sums(f, y, sol(y))
  BY <1>2, <1>3
<1>4. ASSUME NEW y \in SUBSET s, y # {}
      PROVE  /\ y \ {First(y)} \in SUBSET s /\ y \ {First(y)} # s
             /\ Sums(f, y \ {First(y)}, sol(y \ {First(y)}))
             /\ sol(y \ {First(y)})[y \ {First(y)}] \in Int
             /\ f[First(y)] \in Int
  <2>1. First(y) \in y /\ y \ {First(y)} \in SUBSET s /\ y \ {First(y)} # s
    BY <1>4, FirstElement
  <2>2. Sums(f, y \ {First(y)}, sol(y \ {First(y)}))
    BY <1>3, <2>1
  <2>3. f[First(y)] \in Int
    BY <2>1 DEF Summable
  <2> HIDE DEF sol
  <2> QED
    BY <2>1, <2>2, <2>3 DEF Sums
<1> HIDE DEF sol
<1>5. h \in [SUBSET s -> Int]
  <2> SUFFICES ASSUME NEW y \in SUBSET s PROVE val(y) \in Int
    OBVIOUS
  <2>1. CASE y = {}
    BY <2>1
  <2>2. CASE y # {}
    BY <1>4, <2>2
  <2> QED
    BY <2>1, <2>2
<1>6. ASSUME NEW y \in SUBSET s, y # s PROVE h[y] = sol(y)[y]
  <2>1. Sums(f, y, sol(y))
    BY <1>3, <1>6
  <2>2. CASE y = {}
    BY <2>1, <2>2 DEF Sums
  <2>3. CASE y # {}
    <3> DEFINE r == y \ {First(y)}
    <3>1. Sums(f, r, sol(r)) /\ r \subseteq y
      BY <1>4, <2>3
    <3>2. IsFiniteSet(y)
      BY SummablePart
    <3>3. sol(r)[r] = sol(y)[r]
      <4> HIDE DEF r
      <4> QED
        BY <2>1, <3>1, <3>2, SumsUnique
    <3>4. sol(y)[y] = f[First(y)] + sol(y)[r]
      BY <2>1, <2>3 DEF Sums
    <3> QED
      BY <2>3, <3>3, <3>4
  <2> QED
    BY <2>2, <2>3
<1>7. ASSUME NEW y \in SUBSET s
      PROVE  h[y] = IF y = {} THEN 0 ELSE f[First(y)] + h[y \ {First(y)}]
  <2>1. CASE y = {}
    BY <2>1
  <2>2. CASE y # {}
    <3> DEFINE r == y \ {First(y)}
    <3>1. r \in SUBSET s /\ r # s
      BY <1>4, <2>2
    <3>2. h[r] = sol(r)[r]
      BY <1>6, <3>1
    <3> QED
      BY <2>2, <3>2
  <2> QED
    BY <2>1, <2>2
<1> HIDE DEF h
<1>8. Sums(f, s, h)
  BY <1>5, <1>7 DEF Sums
<1> QED
  BY <1>2, <1>8

\* SumFunctionOnSet computes what Sums says.
LEMMA SumDefinition ==
  ASSUME NEW f, NEW S, Summable(f, S), NEW g, Sums(f, S, g)
  PROVE  SumFunctionOnSet(f, S) = g[S]
<1> DEFINE Iter(h) == h = [s \in SUBSET S |->
                             IF s = {} THEN 0 ELSE f[First(s)] + h[s \ {First(s)}]]
<1>0. IsFiniteSet(S)
  BY DEF Summable
<1>1. SumFunctionOnSet(f, S) = (CHOOSE h : Iter(h))[S]
  BY DEF SumFunctionOnSet, FoldFunctionOnSet, MapThenFoldSet, First
<1>2. Iter(g)
  BY DEF Sums
<1>3. ASSUME NEW h, Iter(h) PROVE Sums(f, S, h)
  <2> DEFINE T == {s \in SUBSET S : h[s] # g[s]}
  <2>1. ASSUME T # {} PROVE FALSE
    <3>1. PICK s \in T : \A y \in SUBSET S : y \subseteq s /\ y # s => y \notin T
      <4> HIDE DEF T
      <4>1. T \in SUBSET SUBSET S
        BY DEF T
      <4> QED
        BY <1>0, <2>1, <4>1, SmallestSubset
    <3>2. h[s] = IF s = {} THEN 0 ELSE f[First(s)] + h[s \ {First(s)}]
      BY <1>3
    <3>3. g[s] = IF s = {} THEN 0 ELSE f[First(s)] + g[s \ {First(s)}]
      BY DEF Sums
    <3>4. CASE s # {}
      <4>1. s \ {First(s)} \in SUBSET S /\ s \ {First(s)} \subseteq s /\ s \ {First(s)} # s
        BY <3>4, FirstElement
      <4>2. h[s \ {First(s)}] = g[s \ {First(s)}]
        BY <3>1, <4>1
      <4> QED
        BY <3>2, <3>3, <4>2
    <3> QED
      BY <3>2, <3>3, <3>4
  <2>2. \A s \in SUBSET S : h[s] = g[s]
    BY <2>1
  <2>3. DOMAIN h = SUBSET S /\ h = [s \in DOMAIN h |-> h[s]]
    BY <1>3
  <2>4. h = g
    BY <2>2, <2>3 DEF Sums
  <2> QED
    BY <2>4
<1>4. Iter(CHOOSE h : Iter(h))
  BY <1>2
<1> HIDE DEF Iter
<1>5. Sums(f, S, CHOOSE h : Iter(h))
  BY <1>3, <1>4
<1>6. (CHOOSE h : Iter(h))[S] = g[S]
  BY <1>0, <1>5, SumsUnique
<1> QED
  BY <1>1, <1>6

\* The sum is an integer; without an element it is 0, and one element may be taken out.
LEMMA SumFirst ==
  ASSUME NEW f, NEW S, Summable(f, S)
  PROVE  /\ SumFunctionOnSet(f, S) \in Int
         /\ S = {} => SumFunctionOnSet(f, S) = 0
         /\ S # {} => SumFunctionOnSet(f, S)
                        = f[First(S)] + SumFunctionOnSet(f, S \ {First(S)})
<1>1. PICK g : Sums(f, S, g)
  BY SumsExist
<1>2. SumFunctionOnSet(f, S) = g[S]
  BY <1>1, SumDefinition
<1>3. g[S] \in Int /\ g[S] = IF S = {} THEN 0 ELSE f[First(S)] + g[S \ {First(S)}]
  BY <1>1 DEF Sums
<1>4. ASSUME NEW R, R \subseteq S PROVE SumFunctionOnSet(f, R) = g[R]
  <2>1. Summable(f, R) /\ IsFiniteSet(S)
    BY <1>4, SummablePart DEF Summable
  <2>2. PICK h : Sums(f, R, h)
    BY <2>1, SumsExist
  <2>3. SumFunctionOnSet(f, R) = h[R]
    BY <2>1, <2>2, SumDefinition
  <2>4. h[R] = g[R]
    BY <1>1, <1>4, <2>1, <2>2, SumsUnique
  <2> QED
    BY <2>3, <2>4
<1>5. SumFunctionOnSet(f, S \ {First(S)}) = g[S \ {First(S)}]
  BY <1>4
<1> QED
  BY <1>2, <1>3, <1>5

LEMMA SumAdd ==
  ASSUME NEW f, NEW S, NEW x, x \notin S, Summable(f, S \cup {x})
  PROVE  SumFunctionOnSet(f, S \cup {x}) = SumFunctionOnSet(f, S) + f[x]
<1> DEFINE Sum(s) == SumFunctionOnSet(f, s)
           U == S \cup {x}
           T == {s \in SUBSET U : \E y \in U \ s : Sum(s \cup {y}) # Sum(s) + f[y]}
<1>1. SUFFICES ASSUME T # {} PROVE FALSE
  OBVIOUS
<1>0. IsFiniteSet(U)
  BY DEF Summable
<1>2. PICK s \in T : \A y \in SUBSET U : y \subseteq s /\ y # s => y \notin T
  <2> HIDE DEF T, U
  <2>1. T \in SUBSET SUBSET U
    BY DEF T
  <2> QED
    BY <1>0, <1>1, <2>1, SmallestSubset
<1>3. PICK y \in U \ s : Sum(s \cup {y}) # Sum(s) + f[y]
  BY <1>2
<1>4. Summable(f, s) /\ Summable(f, s \cup {y}) /\ \A z \in U : f[z] \in Int
  <2>1. s \subseteq U /\ s \cup {y} \subseteq U
    OBVIOUS
  <2>2. Summable(f, U)
    OBVIOUS
  <2> HIDE DEF U
  <2> QED
    BY <2>1, <2>2, SummablePart DEF Summable
<1>5. PICK z \in s \cup {y} : Sum(s \cup {y}) = f[z] + Sum((s \cup {y}) \ {z})
  <2>1. s \cup {y} # {} /\ First(s \cup {y}) \in s \cup {y}
    BY FirstElement
  <2> QED
    BY <1>4, <2>1, SumFirst
<1>6. Sum(s) \in Int /\ f[y] \in Int
  BY <1>4, SumFirst
<1>8. CASE z = y
  <2>1. (s \cup {y}) \ {z} = s
    BY <1>8
  <2>2. Sum(s \cup {y}) = f[y] + Sum(s)
    BY <1>5, <1>8, <2>1
  <2> HIDE DEF Sum
  <2> QED
    BY <1>3, <1>6, <2>2
<1>9. CASE z # y
  <2> DEFINE r == s \ {z}
  <2>1. /\ z \in s /\ r \in SUBSET U /\ r \subseteq s /\ r # s /\ y \in U \ r /\ z \in U \ r
        /\ (s \cup {y}) \ {z} = r \cup {y} /\ r \cup {z} = s
    BY <1>9
  <2>2. r \notin T
    BY <1>2, <2>1
  <2>3. Sum(r) \in Int /\ f[z] \in Int
    BY <1>4, <2>1, SummablePart, SumFirst
  <2> HIDE DEF r
  <2>5. Sum(r \cup {y}) = Sum(r) + f[y] /\ Sum(r \cup {z}) = Sum(r) + f[z]
    BY <2>1, <2>2
  <2>6. Sum(s \cup {y}) = f[z] + (Sum(r) + f[y]) /\ Sum(s) = Sum(r) + f[z]
    BY <1>5, <2>1, <2>5
  <2> HIDE DEF Sum
  <2> QED
    BY <1>3, <1>6, <2>3, <2>6
<1> QED
  BY <1>8, <1>9

\* The sum of differences is the difference of the sums.
LEMMA SumDifference ==
  ASSUME NEW f, NEW g, NEW h, NEW S, Summable(f, S), Summable(g, S), Summable(h, S),
         \A x \in S : h[x] = f[x] - g[x]
  PROVE  SumFunctionOnSet(h, S) = SumFunctionOnSet(f, S) - SumFunctionOnSet(g, S)
<1> DEFINE Sum(e, s) == SumFunctionOnSet(e, s)
           T == {s \in SUBSET S : Sum(h, s) # Sum(f, s) - Sum(g, s)}
<1>1. SUFFICES ASSUME T # {} PROVE FALSE
  OBVIOUS
<1>2. PICK s \in T : \A y \in SUBSET S : y \subseteq s /\ y # s => y \notin T
  <2> HIDE DEF T
  <2>1. T \in SUBSET SUBSET S /\ IsFiniteSet(S)
    BY DEF T, Summable
  <2> QED
    BY <1>1, <2>1, SmallestSubset
<1>3. Summable(f, s) /\ Summable(g, s) /\ Summable(h, s)
  BY SummablePart
<1>4. CASE s = {}
  <2>1. Sum(f, s) = 0 /\ Sum(g, s) = 0 /\ Sum(h, s) = 0
    BY <1>3, <1>4, SumFirst
  <2>2. Sum(h, s) # Sum(f, s) - Sum(g, s)
    BY <1>2
  <2> HIDE DEF Sum
  <2> QED
    BY <2>1, <2>2
<1>5. CASE s # {}
  <2> DEFINE z == First(s)
             r == s \ {z}
  <2>1. z \in s /\ r \in SUBSET S /\ r \subseteq s /\ r # s
    BY <1>3, <1>5, FirstElement
  <2>2. Sum(f, s) = f[z] + Sum(f, r) /\ Sum(g, s) = g[z] + Sum(g, r) /\ Sum(h, s) = h[z] + Sum(h, r)
    BY <1>3, <1>5, SumFirst
  <2> HIDE DEF z, r
  <2>3. Summable(f, r) /\ Summable(g, r) /\ Summable(h, r)
    BY <1>3, <2>1, SummablePart
  <2>4. /\ Sum(f, r) \in Int /\ Sum(g, r) \in Int /\ Sum(h, r) \in Int
    BY <2>3, SumFirst
  <2>5. /\ f[z] \in Int /\ g[z] \in Int /\ h[z] = f[z] - g[z]
    BY <1>3, <2>1 DEF Summable
  <2>6. Sum(h, r) = Sum(f, r) - Sum(g, r) /\ Sum(h, s) # Sum(f, s) - Sum(g, s)
    BY <1>2, <2>1
  <2> HIDE DEF Sum
  <2> QED
    BY <2>2, <2>4, <2>5, <2>6
<1> QED
  BY <1>4, <1>5

\* The sum of natural numbers is one.
LEMMA SumNatural ==
  ASSUME NEW f, NEW S, Summable(f, S), \A x \in S : f[x] \in Nat
  PROVE  SumFunctionOnSet(f, S) \in Nat
<1> DEFINE Sum(s) == SumFunctionOnSet(f, s)
           T == {s \in SUBSET S : Sum(s) \notin Nat}
<1>1. SUFFICES ASSUME T # {} PROVE FALSE
  OBVIOUS
<1>2. PICK s \in T : \A y \in SUBSET S : y \subseteq s /\ y # s => y \notin T
  <2> HIDE DEF T
  <2>1. T \in SUBSET SUBSET S /\ IsFiniteSet(S)
    BY DEF T, Summable
  <2> QED
    BY <1>1, <2>1, SmallestSubset
<1>3. Summable(f, s) /\ Sum(s) \notin Nat
  BY <1>2, SummablePart
<1>4. CASE s = {}
  <2>1. Sum(s) = 0
    BY <1>3, <1>4, SumFirst
  <2> QED
    BY <1>3, <2>1
<1>5. CASE s # {}
  <2> DEFINE z == First(s)
             r == s \ {z}
  <2>1. z \in s /\ r \in SUBSET S /\ r \subseteq s /\ r # s
    BY <1>5, FirstElement
  <2>2. Sum(s) = f[z] + Sum(r)
    BY <1>3, <1>5, SumFirst
  <2> HIDE DEF z, r
  <2>3. Sum(r) \in Nat /\ f[z] \in Nat
    BY <1>2, <2>1
  <2> HIDE DEF Sum
  <2> QED
    BY <1>3, <2>2, <2>3
<1> QED
  BY <1>4, <1>5

\* The sum depends on the values of the elements only.
LEMMA SumEqual ==
  ASSUME NEW f, NEW g, NEW S, Summable(f, S), Summable(g, S), \A x \in S : f[x] = g[x]
  PROVE  SumFunctionOnSet(f, S) = SumFunctionOnSet(g, S)
<1> DEFINE z == [x \in S |-> 0]
<1>1. Summable(z, S) /\ (\A x \in S : z[x] = z[x] - z[x]) /\ (\A x \in S : f[x] = g[x] - z[x])
  BY DEF Summable
<1> HIDE DEF z
<1>2. SumFunctionOnSet(z, S) = SumFunctionOnSet(z, S) - SumFunctionOnSet(z, S)
  BY <1>1, SumDifference
<1>3. SumFunctionOnSet(f, S) = SumFunctionOnSet(g, S) - SumFunctionOnSet(z, S)
  BY <1>1, SumDifference
<1>4. SumFunctionOnSet(z, S) \in Int /\ SumFunctionOnSet(g, S) \in Int
  BY <1>1, SumFirst
<1> QED
  BY <1>2, <1>3, <1>4
=============================================================================
