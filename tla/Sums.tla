-------------------------------- MODULE Sums --------------------------------
(*************************************************************************)
(* Sums over finite sets.  A fold of the community modules walks a set   *)
(* in an order of its own; a sum does not depend on it.                  *)
(*                                                                       *)
(* The library's induction takes an operator; what is needed here is     *)
(* proved from the least counterexample instead.                         *)
(*************************************************************************)
EXTENDS Integers, FiniteSetTheorems, WellFoundedInduction, TLAPS

\* c takes an element of each set that has one.
Picks(c, S) == \A s \in SUBSET S : s # {} => c[s] \in s

\* g adds up w over the subsets of S, taking their elements in the order of c.
Adds(g, S, w, c) ==
  g = [s \in SUBSET S |-> IF s = {} THEN 0 ELSE w[c[s]] + g[s \ {c[s]}]]

\* The same, adding each element to what came before it.
AddsTo(g, S, w, c) ==
  g = [s \in SUBSET S |-> IF s = {} THEN 0 ELSE g[s \ {c[s]}] + w[c[s]]]

\* g adds up w whichever element is taken first.
AnyOrder(g, S, w) ==
  /\ g \in [SUBSET S -> Int]
  /\ g[{}] = 0
  /\ \A s \in SUBSET S : \A x \in s : g[s] = w[x] + g[s \ {x}]

\* What w comes to over S.
Total(S, w) ==
  LET c == [s \in SUBSET S |-> CHOOSE x \in s : TRUE]
  IN  (CHOOSE g : Adds(g, S, w, c))[S]

-----------------------------------------------------------------------------
(* That a sum exists, and that it is one number *)

\* A set of natural numbers has a least one.
LEMMA LeastExists ==
  ASSUME NEW T, T \subseteq Nat, T # {}
  PROVE  \E n \in T : \A m \in T : n <= m
<1>1. PICK n \in T : \A m \in T : <<m, n>> \notin OpToRel(<, Nat)
  BY NatLessThanWellFounded, WFMin, Zenon
<1>2. ASSUME NEW m \in T, ~(n <= m) PROVE FALSE
  <2>1. <<m, n>> \in Nat \X Nat /\ m < n
    BY <1>2
  <2>2. <<m, n>> \in OpToRel(<, Nat)
    BY <2>1 DEF OpToRel
  <2> QED
    BY <1>1, <2>2
<1> QED
  BY <1>2

\* One element less.
LEMMA Smaller ==
  ASSUME NEW S, IsFiniteSet(S), NEW s \in SUBSET S, NEW x \in s
  PROVE  /\ IsFiniteSet(s) /\ Cardinality(s) \in Nat \ {0}
         /\ s \ {x} \in SUBSET S /\ IsFiniteSet(s \ {x})
         /\ Cardinality(s \ {x}) = Cardinality(s) - 1
<1>1. IsFiniteSet(s)
  BY FS_Subset
<1>2. Cardinality(s) \in Nat /\ Cardinality(s \ {x}) = Cardinality(s) - 1 /\ IsFiniteSet(s \ {x})
  BY <1>1, FS_CardinalityType, FS_RemoveElement
<1>3. Cardinality(s) # 0
  BY <1>1, FS_EmptySet
<1> QED
  BY <1>1, <1>2, <1>3

\* A finite set of natural numbers has a largest one.
LEMMA LargestExists ==
  ASSUME NEW S, S \subseteq Nat, IsFiniteSet(S), S # {}
  PROVE  \E n \in S : \A m \in S : n >= m
<1> DEFINE Above(x) == {y \in S : y > x}
           T == {Above(x) : x \in S}
<1>1. T \subseteq FiniteSubsetsOf(S) /\ T # {}
  <2>1. T \subseteq SUBSET S /\ T # {}
    OBVIOUS
  <2> QED
    BY <2>1, FS_FiniteSubsetsOfFinite
<1>2. PICK a \in T : \A b \in T : <<b, a>> \notin StrictSubsetOrdering(S)
  <2> HIDE DEF T
  <2> QED
    BY <1>1, FS_StrictSubsetOrderingWellFounded, WFMin
<1>3. PICK x \in S : a = Above(x)
  OBVIOUS
<1>4. ASSUME NEW y \in S, y > x PROVE FALSE
  <2>1. \A z \in S : z \in Nat /\ (z > y => z > x)
    BY <1>4
  <2>2. y \in Above(x) /\ y \notin Above(y)
    BY <1>4, <2>1
  <2>4. Above(y) \subseteq Above(x)
    BY <2>1
  <2>3. <<Above(y), Above(x)>> \in StrictSubsetOrdering(S)
    BY <2>2, <2>4 DEF StrictSubsetOrdering
  <2> QED
    BY <2>3, <1>2, <1>3
<1> QED
  BY <1>4

\* Of the subsets of a finite set that a set holds, one has no smaller one in it.
LEMMA SmallestExists ==
  ASSUME NEW S, IsFiniteSet(S), NEW B, B \subseteq SUBSET S, B # {}
  PROVE  \E s \in B : \A x \in s : s \ {x} \notin B
<1>1. B \subseteq FiniteSubsetsOf(S)
  BY FS_FiniteSubsetsOfFinite
<1>2. PICK s \in B : \A r \in B : <<r, s>> \notin StrictSubsetOrdering(S)
  BY <1>1, FS_StrictSubsetOrderingWellFounded, WFMin
<1>3. ASSUME NEW x \in s, s \ {x} \in B PROVE FALSE
  BY <1>2, <1>3 DEF StrictSubsetOrdering
<1> QED
  BY <1>3

\* Some function adds up: for sets of at most n elements, one step of n after the other.
LEMMA AddsExists ==
  ASSUME NEW S, IsFiniteSet(S), NEW w, \A x \in S : w[x] \in Int,
         NEW c, Picks(c, S)
  PROVE  \E g \in [SUBSET S -> Int] : Adds(g, S, w, c)
<1> DEFINE Upto(n) == {s \in SUBSET S : Cardinality(s) <= n}
           Sum(g, n) == g = [s \in Upto(n) |->
                               IF s = {} THEN 0 ELSE w[c[s]] + g[s \ {c[s]}]]
           Bad == {n \in Nat : ~ \E g \in [Upto(n) -> Int] : Sum(g, n)}
<1>1. Bad = {}
  <2> SUFFICES ASSUME Bad # {} PROVE FALSE
    OBVIOUS
  <2>1. PICK n \in Bad : \A m \in Bad : n <= m
    BY LeastExists
  <2>2. CASE n = 0
    <3>1. Upto(0) = {{}}
      <4>1. \A s \in SUBSET S : IsFiniteSet(s) /\ Cardinality(s) \in Nat
        BY FS_Subset, FS_CardinalityType
      <4>2. \A s \in SUBSET S : Cardinality(s) <= 0 <=> s = {}
        BY <4>1, FS_EmptySet
      <4> QED
        BY <4>2
    <3>2. [s \in Upto(0) |-> 0] \in [Upto(0) -> Int] /\ Sum([s \in Upto(0) |-> 0], 0)
      BY <3>1
    <3> QED
      BY <2>1, <2>2, <3>2
  <2>3. CASE n # 0
    <3>1. n - 1 \in Nat /\ n - 1 \notin Bad
      <4>1. n \in Nat /\ ~(n <= n - 1)
        OBVIOUS
      <4> HIDE DEF Bad
      <4> QED
        BY <2>1, <2>3, <4>1
    <3>2. PICK g \in [Upto(n - 1) -> Int] : Sum(g, n - 1)
      BY <3>1
    <3> DEFINE h == [s \in Upto(n) |-> IF s = {} THEN 0 ELSE w[c[s]] + g[s \ {c[s]}]]
    <3>3. \A s \in Upto(n) : s # {} => /\ c[s] \in S
                                       /\ s \ {c[s]} \in Upto(n - 1) /\ s \ {c[s]} \in Upto(n)
      <4> SUFFICES ASSUME NEW s \in Upto(n), s # {}
                   PROVE  c[s] \in S /\ s \ {c[s]} \in Upto(n - 1) /\ s \ {c[s]} \in Upto(n)
        OBVIOUS
      <4>1. PICK x : x = c[s] /\ x \in s /\ s \in SUBSET S
        BY DEF Picks
      <4> HIDE DEF Upto
      <4>2. /\ Cardinality(s) \in Nat /\ s \ {x} \in SUBSET S
            /\ Cardinality(s \ {x}) = Cardinality(s) - 1
        <5>1. \A q \in SUBSET S : \A y \in q : /\ Cardinality(q) \in Nat /\ q \ {y} \in SUBSET S
                                              /\ Cardinality(q \ {y}) = Cardinality(q) - 1
          BY Smaller
        <5> QED
          BY <4>1, <5>1
      <4> USE DEF Upto
      <4>3. n \in Nat /\ Cardinality(s) <= n
        OBVIOUS
      <4> QED
        BY <4>1, <4>2, <4>3
    <3>4. h \in [Upto(n) -> Int]
      BY <3>3
    <3>5. \A s \in Upto(n - 1) : h[s] = g[s]
      <4>1. \A s \in Upto(n - 1) : s \in Upto(n)
        BY <2>1, FS_Subset, FS_CardinalityType
      <4> QED
        BY <3>2, <4>1
    <3>6. Sum(h, n)
      BY <3>3, <3>5
    <3> QED
      BY <2>1, <3>4, <3>6
  <2> QED
    BY <2>2, <2>3
<1>2. Cardinality(S) \in Nat
  BY FS_CardinalityType
<1>3. Upto(Cardinality(S)) = SUBSET S
  BY FS_Subset
<1>4. PICK g \in [Upto(Cardinality(S)) -> Int] : Sum(g, Cardinality(S))
  BY <1>1, <1>2
<1> QED
  BY <1>3, <1>4 DEF Adds

\* Whatever adds up adds up to integers.
LEMMA AddsInt ==
  ASSUME NEW S, IsFiniteSet(S), NEW w, \A x \in S : w[x] \in Int,
         NEW c, Picks(c, S), NEW g, Adds(g, S, w, c)
  PROVE  g \in [SUBSET S -> Int]
<1> DEFINE Bad == {s \in SUBSET S : g[s] \notin Int}
<1>1. Bad = {}
  <2> SUFFICES ASSUME Bad # {} PROVE FALSE
    OBVIOUS
  <2>1. PICK s \in Bad : \A x \in s : s \ {x} \notin Bad
    BY SmallestExists
  <2>2. CASE s = {}
    BY <2>1, <2>2 DEF Adds
  <2>3. CASE s # {}
    <3>1. c[s] \in s /\ s \in SUBSET S /\ s \ {c[s]} \in SUBSET S
      BY <2>3 DEF Picks
    <3>2. g[s \ {c[s]}] \in Int /\ w[c[s]] \in Int
      BY <2>1, <3>1
    <3>3. g[s] = w[c[s]] + g[s \ {c[s]}]
      BY <2>3, <3>1 DEF Adds
    <3> QED
      BY <2>1, <3>2, <3>3
  <2> QED
    BY <2>2, <2>3
<1> QED
  BY <1>1 DEF Adds

\* Any element may be taken first.
LEMMA AnyFirst ==
  ASSUME NEW S, IsFiniteSet(S), NEW w, \A x \in S : w[x] \in Int,
         NEW c, Picks(c, S), NEW g, Adds(g, S, w, c)
  PROVE  AnyOrder(g, S, w)
<1> DEFINE Bad == {s \in SUBSET S : \E x \in s : g[s] # w[x] + g[s \ {x}]}
<1>1. Bad = {}
  <2> SUFFICES ASSUME Bad # {} PROVE FALSE
    OBVIOUS
  <2>1. PICK s \in Bad : \A x \in s : s \ {x} \notin Bad
    BY SmallestExists
  <2>2. PICK x \in s : g[s] # w[x] + g[s \ {x}]
    BY <2>1
  <2>3. PICK y : y = c[s]
    OBVIOUS
  <2>4. /\ y \in s /\ s \in SUBSET S /\ s \ {x} \in SUBSET S /\ s \ {y} \in SUBSET S
        /\ (s \ {x}) \ {y} = (s \ {y}) \ {x} /\ (s \ {x}) \ {y} \in SUBSET S
    BY <2>2, <2>3 DEF Picks
  <2>5. g[s] = w[y] + g[s \ {y}]
    BY <2>3, <2>4 DEF Adds
  <2>6. x # y
    BY <2>2, <2>5
  <2>7. s \ {x} \notin Bad /\ s \ {y} \notin Bad
    BY <2>1, <2>2, <2>4
  <2>8. g[s \ {x}] = w[y] + g[(s \ {x}) \ {y}] /\ g[s \ {y}] = w[x] + g[(s \ {x}) \ {y}]
    <3>1. y \in s \ {x} /\ x \in s \ {y}
      BY <2>2, <2>4, <2>6
    <3> QED
      BY <2>4, <2>7, <3>1
  <2>9. w[x] \in Int /\ w[y] \in Int /\ g[(s \ {x}) \ {y}] \in Int
    <3>1. g \in [SUBSET S -> Int]
      BY AddsInt
    <3>2. x \in S /\ y \in S
      BY <2>2, <2>4
    <3> QED
      BY <2>4, <3>1, <3>2
  <2> HIDE DEF Bad
  <2> QED
    BY <2>2, <2>5, <2>8, <2>9
<1>2. g \in [SUBSET S -> Int]
  BY AddsInt
<1>3. g[{}] = 0
  <2>1. {} \in SUBSET S
    OBVIOUS
  <2> QED
    BY <2>1 DEF Adds
<1> QED
  BY <1>1, <1>2, <1>3 DEF AnyOrder

\* Two functions that add up the same numbers come to the same.
LEMMA OneSum ==
  ASSUME NEW S, IsFiniteSet(S), NEW w, \A x \in S : w[x] \in Int,
         NEW c, Picks(c, S), NEW g, Adds(g, S, w, c),
         NEW R, IsFiniteSet(R), NEW v, \A x \in R : v[x] \in Int,
         NEW d, Picks(d, R), NEW h, Adds(h, R, v, d),
         NEW T, T \subseteq S, T \subseteq R, \A x \in T : w[x] = v[x]
  PROVE  g[T] = h[T]
<1> DEFINE Bad == {s \in SUBSET T : g[s] # h[s]}
<1>1. Bad = {}
  <2> SUFFICES ASSUME Bad # {} PROVE FALSE
    OBVIOUS
  <2>0. IsFiniteSet(T)
    BY FS_Subset
  <2>1. PICK s \in Bad : \A x \in s : s \ {x} \notin Bad
    BY <2>0, SmallestExists
  <2>2. CASE s = {}
    BY <2>1, <2>2 DEF Adds
  <2>3. CASE s # {}
    <3>1. PICK x : x \in s
      BY <2>3
    <3>2. s \in SUBSET T /\ s \in SUBSET S /\ s \in SUBSET R /\ s \ {x} \in SUBSET T
      OBVIOUS
    <3>3. g[s] = w[x] + g[s \ {x}]
      <4>1. AnyOrder(g, S, w)
        BY AnyFirst
      <4> QED
        BY <3>1, <3>2, <4>1 DEF AnyOrder
    <3>4. h[s] = v[x] + h[s \ {x}]
      <4>1. AnyOrder(h, R, v)
        BY AnyFirst
      <4> QED
        BY <3>1, <3>2, <4>1 DEF AnyOrder
    <3>5. g[s \ {x}] = h[s \ {x}]
      BY <2>1, <3>1, <3>2
    <3>6. w[x] = v[x]
      BY <3>1, <3>2
    <3> QED
      BY <2>1, <3>3, <3>4, <3>5, <3>6
  <2> QED
    BY <2>2, <2>3
<1> QED
  BY <1>1

-----------------------------------------------------------------------------
(* What a sum comes to *)

\* Whatever adds up comes to the total.
LEMMA TotalIs ==
  ASSUME NEW S, IsFiniteSet(S), NEW w, \A x \in S : w[x] \in Int,
         NEW c, Picks(c, S), NEW g, Adds(g, S, w, c)
  PROVE  g[S] = Total(S, w)
<1> DEFINE d == [s \in SUBSET S |-> CHOOSE x \in s : TRUE]
           h == CHOOSE f : Adds(f, S, w, d)
<1>1. Picks(d, S)
  BY DEF Picks
<1>2. \E f : Adds(f, S, w, d)
  <2> HIDE DEF d
  <2> QED
    BY <1>1, AddsExists
<1>3. Adds(h, S, w, d)
  <2> HIDE DEF d
  <2> QED
    BY <1>2
<1>4. g[S] = h[S]
  <2> HIDE DEF d, h
  <2> QED
    BY <1>1, <1>3, OneSum
<1> QED
  BY <1>4 DEF Total

\* There is something that adds up to it, from any element of any subset on.
LEMMA TotalAdds ==
  ASSUME NEW S, IsFiniteSet(S), NEW w, \A x \in S : w[x] \in Int
  PROVE  \E g : AnyOrder(g, S, w) /\ \A s \in SUBSET S : g[s] = Total(s, w)
<1> DEFINE c == [s \in SUBSET S |-> CHOOSE x \in s : TRUE]
<1>1. Picks(c, S)
  BY DEF Picks
<1> HIDE DEF c
<1>2. PICK g \in [SUBSET S -> Int] : Adds(g, S, w, c)
  BY <1>1, AddsExists
<1>3. AnyOrder(g, S, w)
  BY <1>1, <1>2, AnyFirst
<1>4. ASSUME NEW s \in SUBSET S PROVE g[s] = Total(s, w)
  <2> DEFINE d == [r \in SUBSET s |-> CHOOSE x \in r : TRUE]
  <2>1. Picks(d, s)
    BY DEF Picks
  <2> HIDE DEF d
  <2>2. IsFiniteSet(s) /\ \A x \in s : w[x] \in Int
    BY FS_Subset
  <2>3. PICK h \in [SUBSET s -> Int] : Adds(h, s, w, d)
    BY <2>1, <2>2, AddsExists
  <2>4. g[s] = h[s]
    BY <1>1, <1>2, <2>1, <2>2, <2>3, OneSum
  <2>5. h[s] = Total(s, w)
    BY <2>1, <2>2, <2>3, TotalIs
  <2> QED
    BY <2>4, <2>5
<1> QED
  BY <1>3, <1>4

\* Nothing comes to nothing.
LEMMA TotalEmpty ==
  ASSUME NEW w
  PROVE  Total({}, w) = 0
<1>1. IsFiniteSet({}) /\ \A x \in {} : w[x] \in Int
  BY FS_EmptySet
<1>2. PICK g : AnyOrder(g, {}, w) /\ \A s \in SUBSET {} : g[s] = Total(s, w)
  BY <1>1, TotalAdds
<1> QED
  BY <1>2 DEF AnyOrder

\* A sum of integers is one.
LEMMA TotalInt ==
  ASSUME NEW S, IsFiniteSet(S), NEW w, \A x \in S : w[x] \in Int
  PROVE  Total(S, w) \in Int
<1>1. PICK g : AnyOrder(g, S, w) /\ \A s \in SUBSET S : g[s] = Total(s, w)
  BY TotalAdds
<1> QED
  BY <1>1 DEF AnyOrder

\* An element adds what it weighs.
LEMMA TotalStep ==
  ASSUME NEW S, IsFiniteSet(S), NEW w, \A x \in S : w[x] \in Int, NEW x \in S
  PROVE  Total(S, w) = w[x] + Total(S \ {x}, w)
<1>1. PICK g : AnyOrder(g, S, w) /\ \A s \in SUBSET S : g[s] = Total(s, w)
  BY TotalAdds
<1>2. S \in SUBSET S /\ S \ {x} \in SUBSET S
  OBVIOUS
<1> QED
  BY <1>1, <1>2 DEF AnyOrder

\* Only what the elements weigh matters.
LEMMA TotalSame ==
  ASSUME NEW S, IsFiniteSet(S), NEW w, NEW v, \A x \in S : w[x] \in Int /\ v[x] = w[x]
  PROVE  Total(S, v) = Total(S, w)
<1> DEFINE c == [s \in SUBSET S |-> CHOOSE x \in s : TRUE]
<1>1. Picks(c, S)
  BY DEF Picks
<1> HIDE DEF c
<1>2. (\A x \in S : w[x] \in Int) /\ \A x \in S : v[x] \in Int
  OBVIOUS
<1>3. PICK g \in [SUBSET S -> Int] : Adds(g, S, w, c)
  BY <1>1, <1>2, AddsExists
<1>4. PICK h \in [SUBSET S -> Int] : Adds(h, S, v, c)
  BY <1>1, <1>2, AddsExists
<1>5. g[S] = h[S]
  BY <1>1, <1>2, <1>3, <1>4, OneSum
<1>6. g[S] = Total(S, w) /\ h[S] = Total(S, v)
  BY <1>1, <1>2, <1>3, <1>4, TotalIs
<1> QED
  BY <1>5, <1>6

\* What weighs no less comes to no less.
LEMMA TotalAtMost ==
  ASSUME NEW S, IsFiniteSet(S), NEW w, NEW v,
         \A x \in S : w[x] \in Int /\ v[x] \in Int /\ w[x] <= v[x]
  PROVE  Total(S, w) <= Total(S, v)
<1>1. (\A x \in S : w[x] \in Int) /\ \A x \in S : v[x] \in Int
  OBVIOUS
<1>2. PICK g : AnyOrder(g, S, w) /\ \A s \in SUBSET S : g[s] = Total(s, w)
  BY <1>1, TotalAdds
<1>3. PICK h : AnyOrder(h, S, v) /\ \A s \in SUBSET S : h[s] = Total(s, v)
  BY <1>1, TotalAdds
<1> DEFINE Bad == {s \in SUBSET S : ~(g[s] <= h[s])}
<1>4. Bad = {}
  <2> SUFFICES ASSUME Bad # {} PROVE FALSE
    OBVIOUS
  <2>1. PICK s \in Bad : \A x \in s : s \ {x} \notin Bad
    BY SmallestExists
  <2>2. PICK x : x \in s
    <3>1. g[{}] = 0 /\ h[{}] = 0
      BY <1>2, <1>3 DEF AnyOrder
    <3>2. ~(g[s] <= h[s])
      OBVIOUS
    <3> QED
      BY <3>1, <3>2
  <2>3. x \in S /\ s \in SUBSET S /\ s \ {x} \in SUBSET S
    BY <2>2
  <2>4. g[s \ {x}] <= h[s \ {x}]
    BY <2>1, <2>2, <2>3
  <2>5. g[s] = w[x] + g[s \ {x}] /\ h[s] = v[x] + h[s \ {x}]
    BY <1>2, <1>3, <2>2, <2>3 DEF AnyOrder
  <2>6. /\ w[x] \in Int /\ v[x] \in Int /\ w[x] <= v[x]
        /\ g[s \ {x}] \in Int /\ h[s \ {x}] \in Int
    BY <1>2, <1>3, <2>3 DEF AnyOrder
  <2>7. g[s] <= h[s]
    BY <2>4, <2>5, <2>6
  <2> QED
    BY <2>1, <2>7
<1> QED
  BY <1>2, <1>3, <1>4

\* Nothing weighs nothing.
LEMMA TotalZero ==
  ASSUME NEW S, IsFiniteSet(S), NEW w, \A x \in S : w[x] = 0
  PROVE  Total(S, w) = 0
<1>0. \A x \in S : w[x] \in Int
  OBVIOUS
<1>1. PICK g : AnyOrder(g, S, w) /\ \A s \in SUBSET S : g[s] = Total(s, w)
  BY <1>0, TotalAdds
<1> DEFINE Bad == {s \in SUBSET S : g[s] # 0}
<1>2. Bad = {}
  <2> SUFFICES ASSUME Bad # {} PROVE FALSE
    OBVIOUS
  <2>1. PICK s \in Bad : \A x \in s : s \ {x} \notin Bad
    BY SmallestExists
  <2>2. PICK x : x \in s
    BY <1>1, <2>1 DEF AnyOrder
  <2>3. s \in SUBSET S /\ s \ {x} \in SUBSET S /\ w[x] = 0
    BY <2>2
  <2> QED
    <3>1. g[s] = w[x] + g[s \ {x}]
      BY <1>1, <2>2, <2>3 DEF AnyOrder
    <3>2. g[s \ {x}] = 0
      BY <2>1, <2>2, <2>3
    <3> QED
      BY <2>1, <2>3, <3>1, <3>2
<1> QED
  BY <1>1, <1>2

\* Natural numbers come to one, and none of them is more than all.
LEMMA TotalNat ==
  ASSUME NEW S, IsFiniteSet(S), NEW w, \A x \in S : w[x] \in Nat
  PROVE  Total(S, w) \in Nat /\ \A x \in S : w[x] <= Total(S, w)
<1> DEFINE z == [x \in S |-> 0]
<1>1. ASSUME NEW T \in SUBSET S PROVE Total(T, w) \in Nat
  <2>1. IsFiniteSet(T)
    BY FS_Subset
  <2>2. Total(T, z) = 0
    BY <2>1, TotalZero
  <2>3. Total(T, z) <= Total(T, w)
    <3>1. \A x \in T : z[x] \in Int /\ w[x] \in Int /\ z[x] <= w[x]
      OBVIOUS
    <3> HIDE DEF z
    <3> QED
      BY <2>1, <3>1, TotalAtMost
  <2>4. Total(T, w) \in Int
    BY <2>1, TotalInt
  <2> QED
    BY <2>2, <2>3, <2>4
<1>2. ASSUME NEW x \in S PROVE w[x] <= Total(S, w)
  <2>1. Total(S, w) = w[x] + Total(S \ {x}, w)
    BY TotalStep
  <2>2. Total(S \ {x}, w) \in Nat
    BY <1>1
  <2> QED
    BY <2>1, <2>2
<1> QED
  BY <1>1, <1>2

\* Elements that weigh nothing may be left out.
LEMMA TotalSparse ==
  ASSUME NEW S, IsFiniteSet(S), NEW w, \A x \in S : w[x] \in Int,
         NEW T \in SUBSET S, \A x \in S \ T : w[x] = 0
  PROVE  Total(S, w) = Total(T, w)
<1>1. PICK g : AnyOrder(g, S, w) /\ \A s \in SUBSET S : g[s] = Total(s, w)
  BY TotalAdds
<1> DEFINE Bad == {s \in SUBSET S : T \subseteq s /\ g[s] # g[T]}
<1>2. Bad = {}
  <2> SUFFICES ASSUME Bad # {} PROVE FALSE
    OBVIOUS
  <2>0. PICK B : B = Bad
    OBVIOUS
  <2>1. PICK s \in B : \A x \in s : s \ {x} \notin B
    <3>1. B \subseteq SUBSET S /\ B # {}
      BY <2>0
    <3> HIDE DEF Bad
    <3> QED
      BY <3>1, SmallestExists
  <2>a. s \in SUBSET S /\ T \subseteq s /\ g[s] # g[T]
    BY <2>0, <2>1
  <2>b. s # T
    BY <2>a
  <2>2. PICK x : x \in s /\ x \notin T
    BY <2>a, <2>b
  <2>3. s \in SUBSET S /\ s \ {x} \in SUBSET S /\ T \subseteq s \ {x} /\ w[x] = 0
    BY <2>a, <2>2
  <2>4. g[s] = w[x] + g[s \ {x}] /\ g[s \ {x}] \in Int
    BY <1>1, <2>2, <2>3 DEF AnyOrder
  <2>5. g[s \ {x}] = g[T]
    <3>1. s \ {x} \notin Bad
      BY <2>0, <2>1, <2>2
    <3> QED
      BY <2>3, <3>1
  <2> QED
    BY <2>a, <2>3, <2>4, <2>5
<1>3. S \in SUBSET S /\ S \notin Bad
  BY <1>2
<1> QED
  BY <1>1, <1>3

\* One element comes to what it weighs.
LEMMA TotalOne ==
  ASSUME NEW w, NEW x, w[x] \in Int
  PROVE  Total({x}, w) = w[x]
<1>1. IsFiniteSet({x}) /\ \A y \in {x} : w[y] \in Int
  BY FS_Singleton
<1>2. Total({x}, w) = w[x] + Total({x} \ {x}, w)
  BY <1>1, TotalStep
<1>3. {x} \ {x} = {}
  OBVIOUS
<1> QED
  BY <1>2, <1>3, TotalEmpty

\* A sum moves by what one of its elements moves.
LEMMA TotalChanged ==
  ASSUME NEW S, IsFiniteSet(S), NEW w, NEW v, NEW y \in S,
         \A x \in S : w[x] \in Int, \A x \in S : v[x] \in Int,
         \A x \in S \ {y} : v[x] = w[x]
  PROVE  Total(S, v) = v[y] + Total(S, w) - w[y]
<1>1. Total(S, w) = w[y] + Total(S \ {y}, w) /\ Total(S, v) = v[y] + Total(S \ {y}, v)
  BY TotalStep
<1>2. IsFiniteSet(S \ {y}) /\ \A x \in S \ {y} : w[x] \in Int /\ v[x] = w[x]
  BY FS_Subset
<1>3. Total(S \ {y}, v) = Total(S \ {y}, w)
  BY <1>2, TotalSame
<1>4. Total(S \ {y}, w) \in Int
  BY <1>2, TotalInt
<1> QED
  BY <1>1, <1>3, <1>4

\* What weighs at least -b each comes to at least that many times -b.
LEMMA TotalAtLeast ==
  ASSUME NEW S, IsFiniteSet(S), NEW w, NEW b \in Nat,
         \A x \in S : w[x] \in Int /\ -b <= w[x]
  PROVE  -(Cardinality(S) * b) <= Total(S, w)
<1>1. \A x \in S : w[x] \in Int
  OBVIOUS
<1>2. PICK g : AnyOrder(g, S, w) /\ \A s \in SUBSET S : g[s] = Total(s, w)
  BY <1>1, TotalAdds
<1> DEFINE Bad == {s \in SUBSET S : ~(-(Cardinality(s) * b) <= g[s])}
<1>3. Bad = {}
  <2> SUFFICES ASSUME Bad # {} PROVE FALSE
    OBVIOUS
  <2>1. PICK s \in Bad : \A x \in s : s \ {x} \notin Bad
    BY SmallestExists
  <2>2. CASE s = {}
    <3>1. Cardinality({}) = 0 /\ g[{}] = 0
      BY <1>2, FS_EmptySet DEF AnyOrder
    <3>2. -(Cardinality(s) * b) <= g[s]
      BY <2>2, <3>1
    <3> QED
      BY <3>2
  <2>3. CASE s # {}
    <3>1. PICK x : x \in s
      BY <2>3
    <3>2. s \in SUBSET S /\ s \ {x} \in SUBSET S /\ x \in S
      BY <3>1
    <3>3. PICK n : n = Cardinality(s)
      OBVIOUS
    <3>4. n \in Nat /\ Cardinality(s \ {x}) = n - 1
      <4>1. \A q \in SUBSET S : \A y \in q : /\ Cardinality(q) \in Nat
                                            /\ Cardinality(q \ {y}) = Cardinality(q) - 1
        BY Smaller
      <4> QED
        BY <3>1, <3>2, <3>3, <4>1
    <3>5. -((n - 1) * b) <= g[s \ {x}]
      BY <2>1, <3>1, <3>2, <3>4
    <3>6. g[s] = w[x] + g[s \ {x}] /\ g[s \ {x}] \in Int /\ w[x] \in Int /\ -b <= w[x]
      BY <1>2, <3>1, <3>2 DEF AnyOrder
    <3>7. (n - 1) * b = n * b - b /\ n * b \in Int
      BY <3>4
    <3>8. -(n * b) <= g[s]
      BY <3>5, <3>6, <3>7
    <3> QED
      BY <3>3, <3>8
  <2> QED
    BY <2>2, <2>3
<1> QED
  BY <1>2, <1>3

\* It does not matter on which side an element is added.
LEMMA Commutes ==
  ASSUME NEW S, NEW w, \A x \in S : w[x] \in Int, NEW c, Picks(c, S),
         NEW h \in [SUBSET S -> Int]
  PROVE  Adds(h, S, w, c) <=> AddsTo(h, S, w, c)
<1>1. ASSUME NEW s \in SUBSET S, s # {}
      PROVE  w[c[s]] + h[s \ {c[s]}] = h[s \ {c[s]}] + w[c[s]]
  <2>1. c[s] \in S /\ s \ {c[s]} \in SUBSET S
    BY <1>1 DEF Picks
  <2>2. w[c[s]] \in Int /\ h[s \ {c[s]}] \in Int
    BY <2>1
  <2> QED
    BY <2>2
<1> QED
  BY <1>1 DEF Adds, AddsTo

\* There is a fold that adds each element to what came before it.
LEMMA FoldExists ==
  ASSUME NEW S, IsFiniteSet(S), NEW w, \A x \in S : w[x] \in Int, NEW c, Picks(c, S)
  PROVE  \E g : AddsTo(g, S, w, c)
<1>1. PICK h \in [SUBSET S -> Int] : Adds(h, S, w, c)
  BY AddsExists
<1> QED
  BY <1>1, Commutes

\* A fold that adds each element to what came before it comes to the total.
THEOREM FoldIs ==
  ASSUME NEW S, IsFiniteSet(S), NEW w, \A x \in S : w[x] \in Int,
         NEW c, Picks(c, S), NEW g, AddsTo(g, S, w, c)
  PROVE  g[S] = Total(S, w)
<1>1. g \in [SUBSET S -> Int]
  <2> DEFINE Bad == {s \in SUBSET S : g[s] \notin Int}
  <2>1. Bad = {}
    <3> SUFFICES ASSUME Bad # {} PROVE FALSE
      OBVIOUS
    <3>1. PICK s \in Bad : \A x \in s : s \ {x} \notin Bad
      BY SmallestExists
    <3>2. CASE s = {}
      <4>1. {} \in SUBSET S
        OBVIOUS
      <4> QED
        BY <3>1, <3>2, <4>1 DEF AddsTo
    <3>3. CASE s # {}
      <4>1. c[s] \in s /\ s \in SUBSET S /\ s \ {c[s]} \in SUBSET S
        BY <3>3 DEF Picks
      <4>2. g[s \ {c[s]}] \in Int /\ w[c[s]] \in Int
        BY <3>1, <4>1
      <4>3. g[s] = g[s \ {c[s]}] + w[c[s]]
        BY <3>3, <4>1 DEF AddsTo
      <4> QED
        BY <3>1, <4>2, <4>3
    <3> QED
      BY <3>2, <3>3
  <2> QED
    BY <2>1 DEF AddsTo
<1> QED
  BY <1>1, Commutes, TotalIs
=============================================================================
