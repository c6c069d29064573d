-------------------------------- MODULE Sums --------------------------------
(***************************************************************************)
(* Lemmas about sums over finite sets and about the greatest and the least *)
(* of some numbers, as the community modules define them. They are proved  *)
(* from smallest counterexamples: a set of which something is not so, and of *)
(* whose smaller subsets it is.                                            *)
(***************************************************************************)
EXTENDS Integers, FiniteSets, FiniteSetsExt, FiniteSetTheorems, WellFoundedInduction, TLAPS

\* Of the subsets of a finite set some are smallest.
LEMMA SmallestSubset ==
  ASSUME NEW S, IsFiniteSet(S), NEW B, B \subseteq SUBSET S, B # {}
  PROVE  \E T \in B : \A U \in B : U \subseteq T => U = T
<1>1. IsWellFoundedOn(StrictSubsetOrdering(S), SUBSET S)
  BY FS_StrictSubsetOrderingWellFounded, FS_FiniteSubsetsOfFinite
<1>2. PICK T \in B : \A U \in B : <<U, T>> \notin StrictSubsetOrdering(S)
  BY <1>1, WFMin
<1>3. ASSUME NEW U \in B, U \subseteq T
      PROVE  U = T
  <2>1. <<U, T>> \in (SUBSET S) \X (SUBSET S)
    OBVIOUS
  <2> QED
    BY <1>2, <1>3, <2>1 DEF StrictSubsetOrdering
<1> QED
  BY <1>3

\* Of some natural numbers one is the least.
LEMMA Least ==
  ASSUME NEW B, B \subseteq Nat, B # {}
  PROVE  \E n \in B : \A m \in B : n <= m
<1>1. PICK n \in B : \A m \in B : <<m, n>> \notin OpToRel(<, Nat)
  BY NatLessThanWellFounded, WFMin
<1>2. \A m \in B : ~ (m < n)
  BY <1>1 DEF OpToRel
<1> QED
  BY <1>2

\* The greatest of some numbers that stay below a bound.
LEMMA MaxIs ==
  ASSUME NEW n \in Nat, NEW S, S \subseteq 0 .. n, S # {}
  PROVE  Max(S) \in S /\ \A y \in S : y <= Max(S)
<1> DEFINE B == {x \in Nat : \E y \in S : x = n - y}
<1>1. PICK y \in S : TRUE
  OBVIOUS
<1>2. n - y \in B
  BY <1>1
<1>3. B \subseteq Nat /\ B # {}
  BY <1>2
<1> HIDE DEF B
<1>4. PICK x \in B : \A m \in B : x <= m
  BY <1>3, Least
<1>5. \E m \in S : \A z \in S : m >= z
  BY <1>4 DEF B
<1> QED
  BY <1>5 DEF Max

\* The smaller of two numbers.
LEMMA MinOfTwo ==
  ASSUME NEW a \in Nat, NEW b \in Nat
  PROVE  Min({a, b}) \in {a, b} /\ Min({a, b}) <= a /\ Min({a, b}) <= b
<1>1. \E x \in {a, b} : \A y \in {a, b} : x <= y
  BY DEF Min
<1> QED
  BY <1>1 DEF Min

-----------------------------------------------------------------------------
(* Sums                                                                    *)

\* What a sum makes of the sums of smaller sets.
Summed(f, g, s) == IF s = {} THEN 0 ELSE f[CHOOSE x \in s : TRUE] + g[s \ {CHOOSE x \in s : TRUE}]

\* The sums of f over the subsets of S.
AreSums(f, S, g) == \A s \in SUBSET S : g[s] = Summed(f, g, s)

\* Those of at most n elements.
AreSumsUpTo(n, f, S, g) ==
  \A s \in SUBSET S : Cardinality(s) <= n => g[s] = Summed(f, g, s)

\* The chosen element is one.
LEMMA AllChosen == \A s : s # {} => (CHOOSE x \in s : TRUE) \in s
  OBVIOUS

\* What is summed is a number.
LEMMA SummedType ==
  ASSUME NEW S, NEW f, \A x \in S : f[x] \in Int, NEW g \in [SUBSET S -> Int],
         NEW s \in SUBSET S
  PROVE  Summed(f, g, s) \in Int
<1>1. CASE s = {}
  BY <1>1 DEF Summed
<1>2. CASE s # {}
  <2>1. PICK x \in s : x = CHOOSE y \in s : TRUE
    BY <1>2
  <2>2. Summed(f, g, s) = f[x] + g[s \ {x}]
    BY <1>2, <2>1 DEF Summed
  <2> QED
    BY <2>2
<1> QED
  BY <1>1, <1>2

\* There are such sums: of sets of n elements, when there are those of fewer.
LEMMA SumsExist ==
  ASSUME NEW S, IsFiniteSet(S), NEW f, \A x \in S : f[x] \in Int
  PROVE  \E g \in [SUBSET S -> Int] : AreSums(f, S, g)
<1> DEFINE B == {n \in Nat : ~ \E g \in [SUBSET S -> Int] : AreSumsUpTo(n, f, S, g)}
<1>0. \A s \in SUBSET S : IsFiniteSet(s) /\ Cardinality(s) \in Nat /\ Cardinality(s) <= Cardinality(S)
  BY FS_Subset, FS_CardinalityType
<1>1. 0 \notin B
  <2> DEFINE g == [s \in SUBSET S |-> 0]
  <2>1. g \in [SUBSET S -> Int]
    OBVIOUS
  <2>2. AreSumsUpTo(0, f, S, g)
    <3> SUFFICES ASSUME NEW s \in SUBSET S, Cardinality(s) <= 0
                 PROVE  g[s] = Summed(f, g, s)
      BY DEF AreSumsUpTo
    <3>1. s = {}
      BY <1>0, FS_EmptySet
    <3> QED
      BY <3>1 DEF Summed
  <2> QED
    BY <2>1, <2>2
<1>2. ASSUME NEW n \in Nat, n # 0, n - 1 \notin B
      PROVE  n \notin B
  <2>1. PICK g \in [SUBSET S -> Int] : AreSumsUpTo(n - 1, f, S, g)
    <3>1. n - 1 \in Nat
      BY <1>2
    <3> QED
      BY <1>2, <3>1
  <2> DEFINE h == [s \in SUBSET S |-> Summed(f, g, s)]
  <2>2. h \in [SUBSET S -> Int]
    BY SummedType
  <2>3. AreSumsUpTo(n, f, S, h)
    <3> SUFFICES ASSUME NEW s \in SUBSET S, Cardinality(s) <= n
                 PROVE  h[s] = Summed(f, h, s)
      BY DEF AreSumsUpTo
    <3>1. CASE s = {}
      BY <3>1 DEF Summed
    <3>2. CASE s # {}
      <4>1. PICK x \in s : x = CHOOSE y \in s : TRUE
        BY <3>2
      <4>2. s \ {x} \in SUBSET S /\ Cardinality(s \ {x}) = Cardinality(s) - 1
        BY <1>0, FS_RemoveElement
      <4>3. h[s \ {x}] = g[s \ {x}]
        BY <4>2, <1>0, <2>1 DEF AreSumsUpTo
      <4> QED
        BY <3>2, <4>1, <4>2, <4>3 DEF Summed
    <3> QED
      BY <3>1, <3>2
  <2> HIDE DEF h
  <2> QED
    BY <2>2, <2>3
<1> HIDE DEF B
<1>3. B = {}
  <2> SUFFICES ASSUME B # {} PROVE FALSE
    OBVIOUS
  <2>1. B \subseteq Nat
    BY DEF B
  <2>2. PICK n \in B : \A m \in B : n <= m
    BY <2>1, Least
  <2>3. n # 0 /\ n - 1 \notin B /\ n \in Nat
    BY <1>1, <2>1, <2>2
  <2> QED
    BY <1>2, <2>2, <2>3
<1>4. PICK g \in [SUBSET S -> Int] : AreSumsUpTo(Cardinality(S), f, S, g)
  BY <1>0, <1>3, FS_CardinalityType DEF B
<1>5. AreSums(f, S, g)
  BY <1>0, <1>4 DEF AreSums, AreSumsUpTo
<1> QED
  BY <1>5

\* They are the only ones, whatever the set the subsets are of.
LEMMA SumsAreUnique ==
  ASSUME NEW S, IsFiniteSet(S), NEW f, NEW T, NEW g, NEW h,
         AreSums(f, S, g), AreSums(f, T, h)
  PROVE  \A s \in SUBSET (S \cap T) : g[s] = h[s]
<1> DEFINE B == {s \in SUBSET (S \cap T) : g[s] # h[s]}
<1> SUFFICES ASSUME B # {} PROVE FALSE
  OBVIOUS
<1>1. PICK s \in B : \A u \in B : u \subseteq s => u = s
  <2>1. B \subseteq SUBSET S
    OBVIOUS
  <2> HIDE DEF B
  <2> QED
    BY <2>1, SmallestSubset
<1>2. s \in SUBSET S /\ s \in SUBSET T /\ g[s] = Summed(f, g, s) /\ h[s] = Summed(f, h, s)
  BY DEF AreSums
<1>3. CASE s = {}
  BY <1>2, <1>3 DEF Summed
<1>4. CASE s # {}
  <2>1. PICK x \in s : x = CHOOSE y \in s : TRUE
    BY <1>4
  <2>2. g[s \ {x}] = h[s \ {x}]
    <3>1. s \ {x} \in SUBSET (S \cap T) /\ s \ {x} # s /\ s \ {x} \subseteq s
      BY <1>2
    <3> QED
      BY <1>1, <3>1
  <2> QED
    BY <1>2, <1>4, <2>1, <2>2 DEF Summed
<1> QED
  BY <1>3, <1>4

\* The sums of the subsets of S, as the community modules define them.
SumsOver(f, S) ==
  LET iter[s \in SUBSET S] ==
        IF s = {} THEN 0
        ELSE LET x == CHOOSE y \in s : TRUE
             IN  f[x] + iter[s \ {x}]
  IN  iter

\* A sum is that of the whole set.
LEMMA SumIs ==
  ASSUME NEW f, NEW S
  PROVE  SumFunctionOnSet(f, S) = SumsOver(f, S)[S]
  BY DEF SumFunctionOnSet, FoldFunctionOnSet, MapThenFoldSet, SumsOver

\* They are sums: there are such functions, and they are equal.
LEMMA SumsOverAre ==
  ASSUME NEW S, IsFiniteSet(S), NEW f, \A x \in S : f[x] \in Int
  PROVE  AreSums(f, S, SumsOver(f, S)) /\ SumsOver(f, S) \in [SUBSET S -> Int]
<1>1. PICK g \in [SUBSET S -> Int] : AreSums(f, S, g)
  BY SumsExist
<1> DEFINE Step(h) == [s \in SUBSET S |->
             IF s = {} THEN 0
             ELSE f[CHOOSE y \in s : TRUE] + h[s \ {CHOOSE y \in s : TRUE}]]
<1>2. g = Step(g)
  BY <1>1 DEF AreSums, Summed
<1>3. SumsOver(f, S) = CHOOSE h : h = Step(h)
  BY DEF SumsOver
<1>4. SumsOver(f, S) = Step(SumsOver(f, S))
  <2> HIDE DEF Step
  <2> QED
    BY <1>2, <1>3
<1> DEFINE k == SumsOver(f, S)
<1>5. \A s \in SUBSET S : k[s] = Summed(f, k, s)
  BY <1>4 DEF Summed
<1>6. AreSums(f, S, k)
  BY <1>5 DEF AreSums
<1>7. \A s \in SUBSET S : k[s] = g[s]
  BY <1>1, <1>6, SumsAreUnique
<1>8. k = [s \in SUBSET S |-> k[s]]
  BY <1>4
<1> QED
  BY <1>1, <1>6, <1>7, <1>8

\* A sum over a set is the same seen from any finite set around it.
LEMMA SumWithin ==
  ASSUME NEW S, IsFiniteSet(S), NEW f, \A x \in S : f[x] \in Int, NEW s \in SUBSET S
  PROVE  /\ SumFunctionOnSet(f, s) = SumsOver(f, S)[s]
         /\ SumFunctionOnSet(f, s) \in Int
<1>1. IsFiniteSet(s)
  BY FS_Subset
<1>2. AreSums(f, s, SumsOver(f, s)) /\ AreSums(f, S, SumsOver(f, S))
      /\ SumsOver(f, S) \in [SUBSET S -> Int]
  BY <1>1, SumsOverAre
<1>3. SumsOver(f, s)[s] = SumsOver(f, S)[s]
  BY <1>2, SumsAreUnique
<1> QED
  BY <1>2, <1>3, SumIs

\* Any element may be the one that is added.
AnyIsLast(f, g, t) == \A z \in t : g[t] = f[z] + g[t \ {z}]

\* The order of the elements does not matter.
LEMMA SumsInAnyOrder ==
  ASSUME NEW S, IsFiniteSet(S), NEW f, \A x \in S : f[x] \in Int,
         NEW g \in [SUBSET S -> Int], AreSums(f, S, g),
         NEW s \in SUBSET S
  PROVE  AnyIsLast(f, g, s)
<1> DEFINE B == {t \in SUBSET S : ~AnyIsLast(f, g, t)}
<1> SUFFICES ASSUME B # {} PROVE FALSE
  OBVIOUS
<1>1. PICK t \in B : \A u \in B : u \subseteq t => u = t
  <2>1. B \subseteq SUBSET S
    OBVIOUS
  <2> HIDE DEF B
  <2> QED
    BY <2>1, SmallestSubset
<1>2. PICK z \in t : g[t] # f[z] + g[t \ {z}]
  BY DEF AnyIsLast
<1>3. PICK x \in t : x = CHOOSE u \in t : TRUE
  BY <1>2
<1>4. g[t] = f[x] + g[t \ {x}]
  BY <1>3 DEF AreSums, Summed
<1>5. x # z
  BY <1>2, <1>4
<1>6. AnyIsLast(f, g, t \ {x}) /\ AnyIsLast(f, g, t \ {z})
  <2>1. t \ {x} \in SUBSET S /\ t \ {x} # t /\ t \ {z} \in SUBSET S /\ t \ {z} # t
    OBVIOUS
  <2> QED
    BY <1>1, <2>1
<1>7. /\ g[t \ {x}] = f[z] + g[(t \ {x}) \ {z}]
      /\ g[t \ {z}] = f[x] + g[(t \ {z}) \ {x}]
  BY <1>5, <1>6 DEF AnyIsLast
<1>8. PICK rest \in Int : rest = g[(t \ {x}) \ {z}] /\ rest = g[(t \ {z}) \ {x}]
  <2>1. (t \ {x}) \ {z} = (t \ {z}) \ {x} /\ (t \ {x}) \ {z} \in SUBSET S
    OBVIOUS
  <2>2. g[(t \ {x}) \ {z}] \in Int
    BY <2>1
  <2> HIDE DEF B
  <2> QED
    BY <2>1, <2>2
<1>9. f[x] \in Int /\ f[z] \in Int
  OBVIOUS
<1>10. g[t] = f[x] + (f[z] + rest) /\ g[t \ {z}] = f[x] + rest
  BY <1>4, <1>7, <1>8
<1> HIDE DEF B
<1> QED
  BY <1>2, <1>8, <1>9, <1>10

\* Nothing adds up to 0.
LEMMA SumOfNone ==
  ASSUME NEW f
  PROVE  SumFunctionOnSet(f, {}) = 0
<1>1. IsFiniteSet({})
  BY FS_EmptySet
<1>2. AreSums(f, {}, SumsOver(f, {}))
  BY <1>1, SumsOverAre
<1> QED
  BY <1>2, SumIs DEF AreSums, Summed

\* A sum less one of its numbers.
LEMMA SumWithout ==
  ASSUME NEW S, IsFiniteSet(S), NEW f, \A x \in S : f[x] \in Int, NEW y \in S
  PROVE  /\ SumFunctionOnSet(f, S) = f[y] + SumFunctionOnSet(f, S \ {y})
         /\ SumFunctionOnSet(f, S) \in Int /\ SumFunctionOnSet(f, S \ {y}) \in Int
<1>1. AreSums(f, S, SumsOver(f, S)) /\ SumsOver(f, S) \in [SUBSET S -> Int]
  BY SumsOverAre
<1>2. AnyIsLast(f, SumsOver(f, S), S)
  BY <1>1, SumsInAnyOrder
<1>3. SumsOver(f, S)[S] = f[y] + SumsOver(f, S)[S \ {y}]
  BY <1>2 DEF AnyIsLast
<1> QED
  BY <1>3, SumWithin

\* Equal numbers, equal sums.
LEMMA SumsAgree ==
  ASSUME NEW S, IsFiniteSet(S), NEW f, NEW h, \A x \in S : f[x] \in Int /\ h[x] = f[x]
  PROVE  SumFunctionOnSet(h, S) = SumFunctionOnSet(f, S)
<1> DEFINE B == {t \in SUBSET S : SumFunctionOnSet(h, t) # SumFunctionOnSet(f, t)}
<1> SUFFICES ASSUME B # {} PROVE FALSE
  OBVIOUS
<1>1. PICK t \in B : \A u \in B : u \subseteq t => u = t
  <2>1. B \subseteq SUBSET S
    OBVIOUS
  <2> HIDE DEF B
  <2> QED
    BY <2>1, SmallestSubset
<1>2. t # {}
  BY SumOfNone
<1>3. PICK y \in t : TRUE
  BY <1>2
<1>4. SumFunctionOnSet(h, t \ {y}) = SumFunctionOnSet(f, t \ {y})
  BY <1>1, <1>3
<1>5. IsFiniteSet(t) /\ \A x \in t : f[x] \in Int /\ h[x] \in Int
  BY FS_Subset
<1>6. /\ SumFunctionOnSet(h, t) = h[y] + SumFunctionOnSet(h, t \ {y})
      /\ SumFunctionOnSet(f, t) = f[y] + SumFunctionOnSet(f, t \ {y})
  BY <1>3, <1>5, SumWithout
<1> QED
  BY <1>3, <1>4, <1>5, <1>6

\* The numbers that are 0 may be left out.
LEMMA SumOfTheOthers ==
  ASSUME NEW S, IsFiniteSet(S), NEW f, \A x \in S : f[x] \in Int,
         NEW T, T \subseteq S, \A x \in S \ T : f[x] = 0
  PROVE  SumFunctionOnSet(f, S) = SumFunctionOnSet(f, T)
<1> DEFINE B == {t \in SUBSET S : T \subseteq t /\ SumFunctionOnSet(f, t) # SumFunctionOnSet(f, T)}
<1> SUFFICES ASSUME B # {} PROVE FALSE
  OBVIOUS
<1>1. PICK t \in B : \A u \in B : u \subseteq t => u = t
  <2>1. B \subseteq SUBSET S
    OBVIOUS
  <2> HIDE DEF B
  <2> QED
    BY <2>1, SmallestSubset
<1>2. PICK y \in t : y \notin T
  OBVIOUS
<1>3. SumFunctionOnSet(f, t \ {y}) = SumFunctionOnSet(f, T)
  <2>1. t \ {y} \in SUBSET S /\ T \subseteq t \ {y} /\ t \ {y} # t
    BY <1>2
  <2> QED
    BY <1>1, <2>1
<1>4. IsFiniteSet(t) /\ f[y] = 0
  BY <1>2, FS_Subset
<1>5. /\ SumFunctionOnSet(f, t) = f[y] + SumFunctionOnSet(f, t \ {y})
      /\ SumFunctionOnSet(f, t \ {y}) \in Int
  BY <1>2, <1>4, SumWithout
<1> QED
  BY <1>3, <1>4, <1>5

\* The same numbers in other places: p takes each place to its own.
LEMMA SumElsewhere ==
  ASSUME NEW S, IsFiniteSet(S), NEW h, \A x \in S : h[x] \in Int,
         NEW p, \A x, y \in S : p[x] = p[y] => x = y,
         NEW f, \A x \in S : f[p[x]] = h[x],
         IsFiniteSet({p[x] : x \in S})
  PROVE  SumFunctionOnSet(f, {p[x] : x \in S}) = SumFunctionOnSet(h, S)
<1> DEFINE Image(t) == {p[x] : x \in t}
           B == {t \in SUBSET S : SumFunctionOnSet(f, Image(t)) # SumFunctionOnSet(h, t)}
<1> SUFFICES ASSUME B # {} PROVE FALSE
  OBVIOUS
<1>1. PICK t \in B : \A u \in B : u \subseteq t => u = t
  <2>1. B \subseteq SUBSET S
    OBVIOUS
  <2> HIDE DEF B
  <2> QED
    BY <2>1, SmallestSubset
<1>2. t # {}
  <2>1. Image({}) = {}
    OBVIOUS
  <2> QED
    BY <2>1, SumOfNone
<1>3. PICK y \in t : TRUE
  BY <1>2
<1>4. SumFunctionOnSet(f, Image(t \ {y})) = SumFunctionOnSet(h, t \ {y})
  BY <1>1, <1>3
<1>5. IsFiniteSet(t) /\ \A x \in t : h[x] \in Int
  BY FS_Subset
<1>6. SumFunctionOnSet(h, t) = h[y] + SumFunctionOnSet(h, t \ {y})
  BY <1>3, <1>5, SumWithout
<1>7. IsFiniteSet(Image(t)) /\ p[y] \in Image(t) /\ \A z \in Image(t) : f[z] \in Int
  <2>1. IsFiniteSet(Image(t))
    <3>1. Image(t) \subseteq Image(S)
      OBVIOUS
    <3> QED
      BY <3>1, FS_Subset
  <2> QED
    BY <1>3, <2>1
<1>8. Image(t) \ {p[y]} = Image(t \ {y})
  BY <1>3
<1>9. SumFunctionOnSet(f, Image(t)) = f[p[y]] + SumFunctionOnSet(f, Image(t) \ {p[y]})
  BY <1>7, SumWithout
<1> QED
  BY <1>3, <1>4, <1>6, <1>8, <1>9

=============================================================================
