----------------------------- MODULE FiniteSums -----------------------------
(***************************************************************************)
(* Sums over finite sets, for the books and the balances that are one: the *)
(* library's MapThenSumSet recurs over subsets, and these lemmas say what  *)
(* the proofs need of it.  A sum exists, moves by the change of one        *)
(* summand, and is 0 of zeros.                                             *)
(***************************************************************************)
EXTENDS Integers, FiniteSetsExt, FiniteSetTheorems, WellFoundedInduction,
        NaturalsInduction, TLAPS

\* The element the library's fold takes next, the recursion it defines, the sum.
Some(t) == CHOOSE x \in t : TRUE
SumRecursion(S, u, g) ==
    g = [t \in SUBSET S |-> IF t = {} THEN 0 ELSE u[Some(t)] + g[t \ {Some(t)}]]
SumOver(S, u) == MapThenSumSet(LAMBDA x : u[x], S)

\* MapThenSumSet, unfolded.
LEMMA SumUnfolded ==
  ASSUME NEW S, NEW u
  PROVE SumOver(S, u) = (CHOOSE g : SumRecursion(S, u, g))[S]
  BY Zenon DEF SumOver, MapThenSumSet, MapThenFoldSet, SumRecursion, Some

\* Induction without a predicate parameter: a set has a smallest member.
LEMMA LeastMember ==
  ASSUME NEW T, T \subseteq Nat, T # {}
  PROVE \E n \in T : \A m \in T : ~ (m < n)
<1>1. PICK n \in T : \A m \in T : ~ (<<m, n>> \in OpToRel(<, Nat))
  BY WFMin, NatLessThanWellFounded
<1> QED BY <1>1 DEF OpToRel

\* The same for finite sets.
LEMMA SmallestSubset ==
  ASSUME NEW S, IsFiniteSet(S), NEW F, F \subseteq SUBSET S, F # {}
  PROVE \E t \in F : \A x \in t : t \ {x} \notin F
<1>1. \A t \in F : IsFiniteSet(t) /\ Cardinality(t) \in Nat
  BY FS_Subset, FS_CardinalityType
<1> DEFINE T == {Cardinality(t) : t \in F}
<1>2. PICK n \in T : \A m \in T : ~ (m < n)
  <2>1. T \subseteq Nat /\ T # {} BY <1>1
  <2> HIDE DEF T
  <2> QED BY <2>1, LeastMember
<1>3. PICK t \in F : n = Cardinality(t) OBVIOUS
<1>4. ASSUME NEW x \in t, t \ {x} \in F PROVE FALSE
  <2>1. Cardinality(t \ {x}) = n - 1 BY <1>1, <1>3, FS_RemoveElement
  <2>2. n - 1 \in T BY <1>4, <2>1
  <2> QED BY <2>2, <1>1, <1>2, <1>3
<1> QED BY <1>4

\* The recursion restricted to subsets of at most n elements.
Small(S, n) == {t \in SUBSET S : Cardinality(t) <= n}
Rec(S, u, n, g) ==
    g = [t \in Small(S, n) |->
            IF t = {} THEN 0 ELSE u[Some(t)] + g[t \ {Some(t)}]]
Failing(S, u) == {n \in Nat : ~ \E g : Rec(S, u, n, g)}

\* The recursion defines a function: extend one for k - 1 to one for k.
LEMMA RecursionDefined ==
  ASSUME NEW S, NEW u, IsFiniteSet(S), NEW n \in Nat
  PROVE \E g : Rec(S, u, n, g)
<1>1. Failing(S, u) \subseteq Nat BY DEF Failing
<1>2. SUFFICES ASSUME NEW k \in Failing(S, u), \A m \in Failing(S, u) : ~ (m < k)
               PROVE FALSE
  <2>1. Failing(S, u) = {} BY <1>1, <1>2, LeastMember
  <2> QED BY <2>1, Zenon DEF Failing
<1>3. ASSUME NEW t \in SUBSET S, t # {}
      PROVE /\ IsFiniteSet(t) /\ Cardinality(t) \in Nat /\ Some(t) \in t
            /\ Cardinality(t) # 0
            /\ t \ {Some(t)} \in SUBSET S
            /\ Cardinality(t \ {Some(t)}) = Cardinality(t) - 1
  <2>1. IsFiniteSet(t) /\ Cardinality(t) \in Nat BY FS_Subset, FS_CardinalityType
  <2>2. Some(t) \in t BY <1>3 DEF Some
  <2> QED BY <1>3, <2>1, <2>2, FS_RemoveElement, FS_EmptySet
<1>4. k # 0
  <2>1. SUFFICES ASSUME k = 0 PROVE FALSE OBVIOUS
  <2> DEFINE g == [t \in Small(S, 0) |-> 0]
  <2>2. ASSUME NEW t \in Small(S, 0) PROVE t = {}
    <3>1. t \in SUBSET S /\ Cardinality(t) <= 0 BY DEF Small
    <3>2. CASE t # {}
      <4>1. Cardinality(t) \in Nat /\ Cardinality(t) # 0 BY <1>3, <3>1, <3>2
      <4> QED BY <4>1, <3>1
    <3> QED BY <3>2
  <2>3. Rec(S, u, 0, g)
    BY <2>2 DEF Rec
  <2> QED BY <1>2, <2>1, <2>3 DEF Failing
<1>5. PICK g : Rec(S, u, k - 1, g)
  BY <1>2, <1>4 DEF Failing
<1> DEFINE h == [t \in Small(S, k) |-> IF t = {} THEN 0 ELSE u[Some(t)] + g[t \ {Some(t)}]]
<1>6. k \in Nat BY <1>2 DEF Failing
<1>7. ASSUME NEW t \in Small(S, k), t # {} PROVE t \ {Some(t)} \in Small(S, k - 1)
  BY <1>3, <1>6, <1>7 DEF Small
<1>8. ASSUME NEW t \in Small(S, k - 1) PROVE h[t] = g[t]
  <2>1. t \in Small(S, k) /\ t \in SUBSET S BY <1>8, <1>6, FS_Subset, FS_CardinalityType DEF Small
  <2>2. g[t] = IF t = {} THEN 0 ELSE u[Some(t)] + g[t \ {Some(t)}]
    BY <1>5, <1>8 DEF Rec
  <2> QED BY <2>1, <2>2
<1>9. Rec(S, u, k, h)
  <2>1. ASSUME NEW t \in Small(S, k), t # {} PROVE h[t \ {Some(t)}] = g[t \ {Some(t)}]
    BY <1>7, <1>8, <2>1
  <2> QED BY <2>1 DEF Rec
<1> QED BY <1>9, <1>2, Zenon DEF Failing

\* Hence the sum is the value of a function that satisfies the recursion.
LEMMA SumDefined ==
  ASSUME NEW S, NEW u, IsFiniteSet(S)
  PROVE \E g : SumRecursion(S, u, g) /\ SumOver(S, u) = g[S]
<1>1. Cardinality(S) \in Nat BY FS_CardinalityType
<1>2. PICK h : Rec(S, u, Cardinality(S), h) BY <1>1, RecursionDefined
<1>3. Small(S, Cardinality(S)) = SUBSET S BY FS_Subset DEF Small
<1>4. SumRecursion(S, u, h) BY <1>2, <1>3 DEF Rec, SumRecursion
<1>5. SumRecursion(S, u, CHOOSE g : SumRecursion(S, u, g)) BY <1>4, Zenon
<1> QED BY <1>5, SumUnfolded, Zenon

\* A sum is an integer, and moves by as much as the one summand that changes.
LEMMA SumChanged ==
  ASSUME NEW S, IsFiniteSet(S), NEW u \in [S -> Int], NEW v \in [S -> Int],
         NEW s \in S, \A x \in S \ {s} : v[x] = u[x]
  PROVE /\ SumOver(S, u) \in Int
        /\ SumOver(S, v) = SumOver(S, u) + (v[s] - u[s])
<1>1. PICK g : SumRecursion(S, u, g) /\ SumOver(S, u) = g[S] BY SumDefined, Zenon
<1>2. PICK h : SumRecursion(S, v, h) /\ SumOver(S, v) = h[S] BY SumDefined, Zenon
<1> DEFINE Good(t) == /\ g[t] \in Int
                      /\ h[t] = g[t] + (IF s \in t THEN v[s] - u[s] ELSE 0)
           F == {t \in SUBSET S : ~ Good(t)}
<1>3. ASSUME NEW t \in F, \A x \in t : t \ {x} \notin F PROVE FALSE
  <2>1. t \in SUBSET S OBVIOUS
  <2>2. CASE t = {}
    <3>1. g[t] = 0 /\ h[t] = 0 BY <1>1, <1>2, <2>1, <2>2 DEF SumRecursion
    <3> QED BY <3>1, <2>2
  <2>3. CASE t # {}
    <3> DEFINE x == Some(t)
    <3>1. x \in t /\ x \in S BY <2>1, <2>3 DEF Some
    <3>2. g[t] = u[x] + g[t \ {x}] /\ h[t] = v[x] + h[t \ {x}]
      BY <1>1, <1>2, <2>1, <2>3 DEF SumRecursion
    <3> HIDE DEF x
    <3>3. Good(t \ {x}) BY <1>3, <2>1, <3>1
    <3>4. u[x] \in Int /\ v[x] \in Int /\ u[s] \in Int /\ v[s] \in Int BY <3>1
    <3>5. x # s => v[x] = u[x] BY <3>1
    <3>6. Good(t)
      <4>1. CASE x = s BY <4>1, <3>1, <3>2, <3>3, <3>4
      <4>2. CASE x # s BY <4>2, <3>1, <3>2, <3>3, <3>4, <3>5
      <4> QED BY <4>1, <4>2
    <3> QED BY <3>6
  <2> QED BY <2>2, <2>3
<1>4. F = {}
  <2>1. F \subseteq SUBSET S OBVIOUS
  <2> HIDE DEF F
  <2> QED BY <1>3, <2>1, SmallestSubset
<1>5. Good(S) BY <1>4
<1> QED BY <1>1, <1>2, <1>5

\* A sum of zeros.
LEMMA SumOfZeros ==
  ASSUME NEW S, IsFiniteSet(S)
  PROVE SumOver(S, [x \in S |-> 0]) = 0
<1> DEFINE u == [x \in S |-> 0]
<1>1. PICK g : SumRecursion(S, u, g) /\ SumOver(S, u) = g[S]
  <2> HIDE DEF u
  <2> QED BY SumDefined, Zenon
<1> DEFINE F == {t \in SUBSET S : g[t] # 0}
<1>2. ASSUME NEW t \in F, \A x \in t : t \ {x} \notin F PROVE FALSE
  <2>2. CASE t = {} BY <1>1, <2>2 DEF SumRecursion
  <2>3. CASE t # {}
    <3>1. Some(t) \in t /\ Some(t) \in S BY <2>3 DEF Some
    <3>2. g[t] = u[Some(t)] + g[t \ {Some(t)}] BY <1>1, <2>3 DEF SumRecursion
    <3>3. g[t \ {Some(t)}] = 0 BY <1>2, <3>1
    <3> QED BY <3>1, <3>2, <3>3
  <2> QED BY <2>2, <2>3
<1>3. F = {}
  <2>1. F \subseteq SUBSET S OBVIOUS
  <2> HIDE DEF F
  <2> QED BY <1>2, <2>1, SmallestSubset
<1> QED BY <1>1, <1>3
=============================================================================
