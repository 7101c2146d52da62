---------------------------- MODULE BaseProofs -----------------------------
(***************************************************************************)
(* What the proofs of several modules rest on.  Induction over numbers and *)
(* finite sets, stated about sets instead of predicates so that it can be  *)
(* applied by naming the set, and with it the laws of SumOf, which is      *)
(* defined by recursion over subsets; sequences of anything; and the       *)
(* Merkle tree, whose proofs show their leaf and no other.                 *)
(***************************************************************************)
EXTENDS Sums, Merkle, FiniteSetTheorems, SequenceTheorems, TLAPS

----------------------------------------------------------------------------
(* Induction.                                                              *)

\* A set of naturals that is not empty has a least element.
LEMMA LeastNumber ==
  ASSUME NEW T \in SUBSET Nat, T # {}
  PROVE  \E n \in T : \A m \in T : n <= m
<1> DEFINE Less == {p \in Nat \X Nat : p[1] < p[2]}
<1>1. IsWellFoundedOn(Less, Nat)
  BY NatLessThanWellFounded DEF OpToRel
<1> HIDE DEF Less
<1>2. PICK n \in T : \A m \in T : ~(<<m, n>> \in Less)
  BY <1>1, WFMin
<1>3. \A m \in T : ~(m < n)
  BY <1>2 DEF Less
<1> QED
  BY <1>3

\* A set that has 0 and with every number the next one has all of them.
LEMMA NumberInduction ==
  ASSUME NEW P, 0 \in P, \A n \in Nat : n \in P => n + 1 \in P
  PROVE  \A n \in Nat : n \in P
<1> SUFFICES ASSUME NEW k \in Nat, k \notin P PROVE FALSE
  OBVIOUS
<1> DEFINE T == {n \in Nat : n \notin P}
<1>1. PICK n \in T : \A m \in T : n <= m
  BY LeastNumber
<1>2. n # 0 /\ n - 1 \in Nat /\ n - 1 \notin T
  BY <1>1
<1>3. n - 1 \in P
  BY <1>2
<1>4. (n - 1) + 1 \in P
  BY <1>2, <1>3
<1> QED
  BY <1>1, <1>2, <1>4

\* A set of subsets of a finite set that has the empty one, and with every subset the
\* ones with one element more, has the whole set.
LEMMA FiniteInduction ==
  ASSUME NEW S, IsFiniteSet(S), NEW P, {} \in P,
         \A T \in SUBSET S, x \in S : T \in P /\ x \notin T => T \cup {x} \in P
  PROVE  S \in P
<1> DEFINE Q == {n \in Nat : \A T \in SUBSET S : Cardinality(T) = n => T \in P}
<1>1. 0 \in Q
  BY FS_Subset, FS_EmptySet
<1>2. ASSUME NEW n \in Nat, n \in Q PROVE n + 1 \in Q
  <2> SUFFICES ASSUME NEW T \in SUBSET S, Cardinality(T) = n + 1 PROVE T \in P
    OBVIOUS
  <2>1. IsFiniteSet(T) /\ T # {}
    BY FS_Subset, FS_EmptySet
  <2>2. PICK x \in T : TRUE
    BY <2>1
  <2>3. Cardinality(T \ {x}) = n
    <3>1. Cardinality(T \ {x}) = Cardinality(T) - 1
      BY <2>1, <2>2, FS_RemoveElement
    <3> QED
      BY <3>1
  <2>4. T \ {x} \in P /\ T \ {x} \in SUBSET S /\ x \notin T \ {x} /\ x \in S
    BY <1>2, <2>2, <2>3
  <2>5. (T \ {x}) \cup {x} \in P
    BY <2>4
  <2>6. (T \ {x}) \cup {x} = T
    BY <2>2
  <2> QED
    BY <2>5, <2>6
<1> HIDE DEF Q
<1>3. \A n \in Nat : n \in Q
  BY <1>1, <1>2, NumberInduction
<1>4. Cardinality(S) \in Q
  BY <1>3, FS_CardinalityType
<1> QED
  BY <1>4 DEF Q

Recurses(f, zero, step, n) ==
    f = [k \in 0 .. n |-> IF k = 0 THEN zero ELSE step[<<k, f[k - 1]>>]]

\* A recursion over an interval has a solution.
LEMMA Recursion ==
  ASSUME NEW zero, NEW step
  PROVE  \A n \in Nat : \E f : Recurses(f, zero, step, n)
<1> DEFINE P == {n \in Nat : \E f : Recurses(f, zero, step, n)}
<1>1. 0 \in P
  <2> DEFINE f == [k \in 0 .. 0 |-> zero]
  <2>1. \A k \in 0 .. 0 : k = 0
    OBVIOUS
  <2>2. Recurses(f, zero, step, 0)
    BY <2>1 DEF Recurses
  <2> QED
    BY <2>2
<1>2. ASSUME NEW n \in Nat, n \in P PROVE n + 1 \in P
  <2>1. PICK f : Recurses(f, zero, step, n)
    BY <1>2
  <2>2. \A k \in 0 .. n : f[k] = IF k = 0 THEN zero ELSE step[<<k, f[k - 1]>>]
    BY <2>1 DEF Recurses
  <2> DEFINE g == [k \in 0 .. n + 1 |-> IF k = n + 1 THEN step[<<n + 1, f[n]>>] ELSE f[k]]
  <2>3. ASSUME NEW k \in 0 .. n + 1
        PROVE  g[k] = IF k = 0 THEN zero ELSE step[<<k, g[k - 1]>>]
    <3>1. CASE k = n + 1
      <4>1. k # 0 /\ k - 1 = n /\ n \in 0 .. n + 1 /\ n # n + 1
        BY <3>1
      <4>2. g[n] = f[n] /\ g[k] = step[<<n + 1, f[n]>>]
        BY <3>1, <4>1
      <4> HIDE DEF g
      <4> QED
        BY <3>1, <4>1, <4>2
    <3>2. CASE k # n + 1
      <4>1. k \in 0 .. n /\ (k # 0 => k - 1 \in 0 .. n + 1 /\ k - 1 # n + 1)
        BY <3>2
      <4>2. g[k] = f[k] /\ (k # 0 => g[k - 1] = f[k - 1])
        BY <3>2, <4>1
      <4> HIDE DEF g
      <4> QED
        BY <2>2, <4>1, <4>2
    <3> QED
      BY <3>1, <3>2
  <2>4. DOMAIN g = 0 .. n + 1 /\ g = [k \in 0 .. n + 1 |-> g[k]]
    OBVIOUS
  <2> HIDE DEF g
  <2>5. Recurses(g, zero, step, n + 1)
    BY <2>3, <2>4 DEF Recurses
  <2> QED
    BY <2>5
<1> HIDE DEF P
<1>3. \A n \in Nat : n \in P
  BY <1>1, <1>2, NumberInduction
<1> QED
  BY <1>3 DEF P

----------------------------------------------------------------------------
(* The recursion behind SumOf.                                             *)

Pick(s) == CHOOSE x \in s : TRUE

\* g adds up f over the subsets of S, one element after the other.
AddsUp(g, f, S) ==
    g = [s \in SUBSET S |-> IF s = {} THEN 0 ELSE f[Pick(s)] + g[s \ {Pick(s)}]]

Numbers(f, S) == \A x \in S : f[x] \in Nat

LEMMA PickIn ==
  ASSUME NEW s, s # {}
  PROVE  Pick(s) \in s
  BY DEF Pick

LEMMA SumIsRecursive ==
  ASSUME NEW f, NEW S
  PROVE  SumOf(f, S) = (CHOOSE g : AddsUp(g, f, S))[S]
  BY DEF SumOf, MapThenSumSet, MapThenFoldSet, AddsUp, Pick

\* The same for sets of at most n elements.
AddsUpTo(g, f, S, n) ==
    \A s \in SUBSET S :
        Cardinality(s) <= n =>
            /\ g[s] \in Nat
            /\ g[s] = IF s = {} THEN 0 ELSE f[Pick(s)] + g[s \ {Pick(s)}]

\* The recursion has a solution.
LEMMA SumExists ==
  ASSUME NEW f, NEW S, IsFiniteSet(S), Numbers(f, S)
  PROVE  \E g : AddsUp(g, f, S) /\ g \in [SUBSET S -> Nat]
<1> DEFINE P == {n \in Nat : \E g : AddsUpTo(g, f, S, n)}
<1>0. ASSUME NEW s \in SUBSET S, s # {}
      PROVE  /\ Pick(s) \in s /\ f[Pick(s)] \in Nat /\ s \ {Pick(s)} \in SUBSET S
             /\ Cardinality(s \ {Pick(s)}) = Cardinality(s) - 1
             /\ Cardinality(s) \in Nat /\ Cardinality(s \ {Pick(s)}) \in Nat
  <2>1. Pick(s) \in s
    BY <1>0, PickIn
  <2>2. IsFiniteSet(s)
    BY FS_Subset
  <2>3. Cardinality(s \ {Pick(s)}) = Cardinality(s) - 1 /\ IsFiniteSet(s \ {Pick(s)})
    BY <2>1, <2>2, FS_RemoveElement
  <2> QED
    BY <2>1, <2>2, <2>3, FS_CardinalityType DEF Numbers
<1>1. 0 \in P
  <2> DEFINE g == [s \in SUBSET S |-> 0]
  <2>1. ASSUME NEW s \in SUBSET S, Cardinality(s) <= 0
        PROVE  s = {}
    <3>1. IsFiniteSet(s) /\ Cardinality(s) \in Nat
      BY FS_Subset, FS_CardinalityType
    <3>2. Cardinality(s) = 0
      BY <2>1, <3>1
    <3> QED
      BY <3>1, <3>2, FS_EmptySet
  <2>2. AddsUpTo(g, f, S, 0)
    BY <2>1 DEF AddsUpTo
  <2> QED
    BY <2>2
<1>2. ASSUME NEW n \in Nat, n \in P PROVE n + 1 \in P
  <2>1. PICK g : AddsUpTo(g, f, S, n)
    BY <1>2
  <2> DEFINE h == [s \in SUBSET S |-> IF s = {} THEN 0 ELSE f[Pick(s)] + g[s \ {Pick(s)}]]
  <2>2. ASSUME NEW s \in SUBSET S, Cardinality(s) <= n
        PROVE  h[s] = g[s] /\ g[s] \in Nat
    BY <2>1, <2>2 DEF AddsUpTo
  <2>3. ASSUME NEW s \in SUBSET S, Cardinality(s) <= n + 1
        PROVE  /\ h[s] \in Nat
               /\ h[s] = IF s = {} THEN 0 ELSE f[Pick(s)] + h[s \ {Pick(s)}]
    <3>1. CASE s = {}
      BY <3>1
    <3>2. CASE s # {}
      <4> DEFINE t == s \ {Pick(s)}
      <4>1. t \in SUBSET S /\ Cardinality(t) <= n /\ f[Pick(s)] \in Nat
        BY <1>0, <2>3, <3>2
      <4>2. h[t] = g[t] /\ g[t] \in Nat
        BY <2>2, <4>1
      <4>3. h[s] = f[Pick(s)] + g[t]
        BY <3>2
      <4> QED
        BY <3>2, <4>1, <4>2, <4>3
    <3> QED
      BY <3>1, <3>2
  <2>4. AddsUpTo(h, f, S, n + 1)
    BY <2>3 DEF AddsUpTo
  <2> QED
    BY <2>4
<1> HIDE DEF P
<1>3. Cardinality(S) \in P
  BY <1>1, <1>2, NumberInduction, FS_CardinalityType
<1>4. PICK g : AddsUpTo(g, f, S, Cardinality(S))
  BY <1>3 DEF P
<1> DEFINE h == [s \in SUBSET S |-> g[s]]
<1>5. ASSUME NEW s \in SUBSET S
      PROVE  h[s] \in Nat /\ h[s] = IF s = {} THEN 0 ELSE f[Pick(s)] + h[s \ {Pick(s)}]
  BY <1>4, FS_Subset DEF AddsUpTo
<1>6. AddsUp(h, f, S) /\ h \in [SUBSET S -> Nat]
  BY <1>5 DEF AddsUp
<1> QED
  BY <1>6

\* Two solutions agree on the sets they share.
LEMMA SumUnique ==
  ASSUME NEW f, NEW S, NEW T \in SUBSET S, IsFiniteSet(S),
         NEW g, NEW h, AddsUp(g, f, S), AddsUp(h, f, T)
  PROVE  g[T] = h[T]
<1> DEFINE P == {n \in Nat : \A s \in SUBSET T : Cardinality(s) = n => g[s] = h[s]}
<1>0. \A s \in SUBSET T : IsFiniteSet(s) /\ Cardinality(s) \in Nat
  BY FS_Subset, FS_CardinalityType
<1>1. 0 \in P
  <2> SUFFICES ASSUME NEW s \in SUBSET T, Cardinality(s) = 0 PROVE g[s] = h[s]
    OBVIOUS
  <2>1. s = {}
    BY <1>0, FS_EmptySet
  <2> QED
    BY <2>1 DEF AddsUp
<1>2. ASSUME NEW n \in Nat, n \in P PROVE n + 1 \in P
  <2> SUFFICES ASSUME NEW s \in SUBSET T, Cardinality(s) = n + 1 PROVE g[s] = h[s]
    OBVIOUS
  <2> DEFINE t == s \ {Pick(s)}
  <2>1. s # {}
    BY FS_EmptySet
  <2>2. Pick(s) \in s
    BY <2>1, PickIn
  <2>3. Cardinality(t) = Cardinality(s) - 1
    BY <1>0, <2>2, FS_RemoveElement
  <2>4. t \in SUBSET T /\ Cardinality(t) = n
    BY <2>3
  <2>5. g[t] = h[t]
    BY <1>2, <2>4
  <2>6. g[s] = f[Pick(s)] + g[t] /\ h[s] = f[Pick(s)] + h[t]
    <3>1. s \in SUBSET S /\ s \in SUBSET T
      OBVIOUS
    <3> QED
      BY <2>1, <3>1 DEF AddsUp
  <2> QED
    BY <2>5, <2>6
<1> HIDE DEF P
<1>3. Cardinality(T) \in P
  BY <1>0, <1>1, <1>2, NumberInduction
<1> QED
  BY <1>3 DEF P

\* One function gives the sums over all subsets.
LEMMA SumSolution ==
  ASSUME NEW f, NEW S, IsFiniteSet(S), Numbers(f, S)
  PROVE  \E g \in [SUBSET S -> Nat] :
            AddsUp(g, f, S) /\ \A T \in SUBSET S : SumOf(f, T) = g[T]
<1>1. PICK g : AddsUp(g, f, S) /\ g \in [SUBSET S -> Nat]
  BY SumExists
<1>2. ASSUME NEW T \in SUBSET S PROVE SumOf(f, T) = g[T]
  <2>1. IsFiniteSet(T) /\ Numbers(f, T)
    BY FS_Subset DEF Numbers
  <2>2. \E h : AddsUp(h, f, T)
    BY <2>1, SumExists
  <2>3. AddsUp(CHOOSE h : AddsUp(h, f, T), f, T)
    BY <2>2
  <2>4. g[T] = (CHOOSE h : AddsUp(h, f, T))[T]
    BY <1>1, <2>3, SumUnique
  <2> QED
    BY <2>4, SumIsRecursive
<1> QED
  BY <1>1, <1>2

----------------------------------------------------------------------------
(* The laws of sums.                                                       *)

\* A sum of naturals is one, and nothing adds up to 0.
LEMMA SumType ==
  ASSUME NEW f, NEW S, IsFiniteSet(S), Numbers(f, S)
  PROVE  SumOf(f, S) \in Nat
<1>1. PICK g \in [SUBSET S -> Nat] :
        AddsUp(g, f, S) /\ \A T \in SUBSET S : SumOf(f, T) = g[T]
  BY SumSolution
<1>2. S \in SUBSET S
  OBVIOUS
<1> QED
  BY <1>1, <1>2

LEMMA SumEmpty ==
  ASSUME NEW f
  PROVE  SumOf(f, {}) = 0
<1>1. IsFiniteSet({}) /\ Numbers(f, {})
  BY FS_EmptySet DEF Numbers
<1>2. PICK g : AddsUp(g, f, {}) /\ SumOf(f, {}) = g[{}]
  BY <1>1, SumSolution
<1> QED
  BY <1>2 DEF AddsUp

\* Any element can be taken out, not just the one that the recursion takes.
LEMMA SumRemove ==
  ASSUME NEW f, NEW S, IsFiniteSet(S), Numbers(f, S), NEW x \in S
  PROVE  SumOf(f, S) = f[x] + SumOf(f, S \ {x})
<1>1. PICK g \in [SUBSET S -> Nat] :
        AddsUp(g, f, S) /\ \A T \in SUBSET S : SumOf(f, T) = g[T]
  BY SumSolution
<1> DEFINE P == {n \in Nat : \A s \in SUBSET S : Cardinality(s) = n =>
                                 \A y \in s : g[s] = f[y] + g[s \ {y}]}
<1>0. \A s \in SUBSET S : IsFiniteSet(s) /\ Cardinality(s) \in Nat
  BY FS_Subset, FS_CardinalityType
<1>2. 0 \in P
  BY <1>0, FS_EmptySet
<1>3. ASSUME NEW n \in Nat, n \in P PROVE n + 1 \in P
  <2> SUFFICES ASSUME NEW s \in SUBSET S, Cardinality(s) = n + 1, NEW y \in s
               PROVE  g[s] = f[y] + g[s \ {y}]
    OBVIOUS
  <2> DEFINE z == Pick(s)
  <2>1. z \in s
    BY PickIn
  <2>2. g[s] = f[z] + g[s \ {z}]
    BY <1>1, <2>1 DEF AddsUp
  <2>3. CASE y = z
    BY <2>2, <2>3
  <2>4. CASE y # z
    <3>1. Cardinality(s \ {z}) = Cardinality(s) - 1 /\ Cardinality(s \ {y}) = Cardinality(s) - 1
      BY <1>0, <2>1, FS_RemoveElement
    <3>2. Cardinality(s \ {z}) = n /\ Cardinality(s \ {y}) = n
      BY <3>1
    <3>3. /\ s \ {z} \in SUBSET S /\ y \in s \ {z}
          /\ s \ {y} \in SUBSET S /\ z \in s \ {y}
      BY <2>1, <2>4
    <3>4. g[s \ {z}] = f[y] + g[(s \ {z}) \ {y}]
      BY <1>3, <3>2, <3>3
    <3>5. g[s \ {y}] = f[z] + g[(s \ {y}) \ {z}]
      BY <1>3, <3>2, <3>3
    <3>6. (s \ {z}) \ {y} = (s \ {y}) \ {z} /\ (s \ {y}) \ {z} \in SUBSET S
      OBVIOUS
    <3>7. f[y] \in Nat /\ f[z] \in Nat /\ g[(s \ {y}) \ {z}] \in Nat
      BY <1>1, <2>1, <3>6 DEF Numbers
    <3> DEFINE rest == g[(s \ {y}) \ {z}]
    <3>8. g[s] = f[z] + (f[y] + rest) /\ g[s \ {y}] = f[z] + rest /\ rest \in Nat
      BY <2>2, <3>4, <3>5, <3>6, <3>7
    <3> HIDE DEF rest, z
    <3> QED
      BY <3>7, <3>8
  <2> QED
    BY <2>3, <2>4
<1> HIDE DEF P
<1>4. Cardinality(S) \in P
  BY <1>0, <1>2, <1>3, NumberInduction
<1>5. g[S] = f[x] + g[S \ {x}]
  BY <1>4 DEF P
<1> QED
  BY <1>1, <1>5

\* One element more.
LEMMA SumAdd ==
  ASSUME NEW f, NEW S, IsFiniteSet(S), NEW x, x \notin S, Numbers(f, S \cup {x})
  PROVE  SumOf(f, S \cup {x}) = f[x] + SumOf(f, S)
<1>1. IsFiniteSet(S \cup {x})
  BY FS_AddElement
<1>2. (S \cup {x}) \ {x} = S
  OBVIOUS
<1> QED
  BY <1>1, <1>2, SumRemove

\* The sum depends only on the values of f in S.
LEMMA SumCongruent ==
  ASSUME NEW f, NEW h, NEW S, IsFiniteSet(S), Numbers(f, S), \A x \in S : h[x] = f[x]
  PROVE  SumOf(h, S) = SumOf(f, S)
<1> DEFINE P == {T \in SUBSET S : SumOf(h, T) = SumOf(f, T)}
<1>1. {} \in P
  BY SumEmpty
<1>2. ASSUME NEW T \in SUBSET S, NEW x \in S, T \in P, x \notin T
      PROVE  T \cup {x} \in P
  <2>1. IsFiniteSet(T) /\ Numbers(f, T \cup {x}) /\ Numbers(h, T \cup {x})
    BY FS_Subset DEF Numbers
  <2>2. SumOf(f, T \cup {x}) = f[x] + SumOf(f, T)
    BY <1>2, <2>1, SumAdd
  <2>3. SumOf(h, T \cup {x}) = h[x] + SumOf(h, T)
    BY <1>2, <2>1, SumAdd
  <2> QED
    BY <1>2, <2>2, <2>3
<1> HIDE DEF P
<1>3. S \in P
  BY <1>1, <1>2, FiniteInduction
<1> QED
  BY <1>3 DEF P

\* Sums over disjoint sets add up.
LEMMA SumDisjoint ==
  ASSUME NEW f, NEW S, NEW U, IsFiniteSet(S), IsFiniteSet(U),
         Numbers(f, S \cup U), S \cap U = {}
  PROVE  SumOf(f, S \cup U) = SumOf(f, S) + SumOf(f, U)
<1> DEFINE P == {T \in SUBSET U : SumOf(f, S \cup T) = SumOf(f, S) + SumOf(f, T)}
<1>0. SumOf(f, S) \in Nat
  BY SumType DEF Numbers
<1>1. {} \in P
  BY <1>0, SumEmpty
<1>2. ASSUME NEW T \in SUBSET U, NEW x \in U, T \in P, x \notin T
      PROVE  T \cup {x} \in P
  <2>1. /\ IsFiniteSet(T) /\ IsFiniteSet(S \cup T) /\ x \notin S \cup T
        /\ Numbers(f, T \cup {x}) /\ Numbers(f, (S \cup T) \cup {x}) /\ Numbers(f, T)
    BY <1>2, FS_Subset, FS_Union DEF Numbers
  <2>2. SumOf(f, T \cup {x}) = f[x] + SumOf(f, T)
    BY <1>2, <2>1, SumAdd
  <2>3. SumOf(f, (S \cup T) \cup {x}) = f[x] + SumOf(f, S \cup T)
    BY <2>1, SumAdd
  <2>4. S \cup (T \cup {x}) = (S \cup T) \cup {x}
    OBVIOUS
  <2>5. f[x] \in Nat /\ SumOf(f, T) \in Nat
    BY <2>1, SumType DEF Numbers
  <2>6. SumOf(f, S \cup T) = SumOf(f, S) + SumOf(f, T)
    BY <1>2
  <2>7. SumOf(f, S \cup (T \cup {x})) = SumOf(f, S) + SumOf(f, T \cup {x})
    <3> DEFINE a == SumOf(f, S)
    <3> DEFINE b == SumOf(f, T)
    <3>1. SumOf(f, S \cup (T \cup {x})) = f[x] + (a + b)
      BY <2>3, <2>4, <2>6
    <3>2. a + SumOf(f, T \cup {x}) = a + (f[x] + b)
      BY <2>2
    <3>3. a \in Nat /\ b \in Nat
      BY <1>0, <2>5
    <3> HIDE DEF a, b
    <3>4. f[x] + (a + b) = a + (f[x] + b)
      BY <2>5, <3>3
    <3> QED
      BY <3>1, <3>2, <3>4 DEF a
  <2> QED
    BY <2>7
<1> HIDE DEF P
<1>3. U \in P
  BY <1>1, <1>2, FiniteInduction
<1> QED
  BY <1>3 DEF P

\* A part adds up to no more than the whole.
LEMMA SumMonotone ==
  ASSUME NEW f, NEW S, NEW T \in SUBSET S, IsFiniteSet(S), Numbers(f, S)
  PROVE  SumOf(f, T) <= SumOf(f, S)
<1>1. /\ IsFiniteSet(T) /\ IsFiniteSet(S \ T) /\ T \cup (S \ T) = S
      /\ Numbers(f, T) /\ Numbers(f, S \ T) /\ T \cap (S \ T) = {}
  BY FS_Subset DEF Numbers
<1>2. SumOf(f, S) = SumOf(f, T) + SumOf(f, S \ T)
  BY <1>1, SumDisjoint
<1>3. SumOf(f, T) \in Nat /\ SumOf(f, S \ T) \in Nat
  BY <1>1, SumType
<1> QED
  BY <1>2, <1>3

\* One value of f changes and the sum with it.
LEMMA SumUpdate ==
  ASSUME NEW f, NEW h, NEW S, IsFiniteSet(S), NEW x \in S,
         Numbers(f, S), h[x] \in Nat, \A y \in S \ {x} : h[y] = f[y]
  PROVE  SumOf(h, S) + f[x] = SumOf(f, S) + h[x]
<1> DEFINE T == S \ {x}
<1>1. IsFiniteSet(T) /\ Numbers(f, T) /\ Numbers(h, S) /\ f[x] \in Nat
  BY FS_Subset DEF Numbers
<1>2. SumOf(h, T) = SumOf(f, T)
  BY <1>1, SumCongruent
<1>3. SumOf(f, S) = f[x] + SumOf(f, T) /\ SumOf(h, S) = h[x] + SumOf(h, T)
  BY <1>1, SumRemove
<1>4. SumOf(f, T) \in Nat
  BY <1>1, SumType
<1> HIDE DEF T
<1> QED
  BY <1>1, <1>2, <1>3, <1>4

\* Sums add up term by term.
LEMMA SumPlus ==
  ASSUME NEW f, NEW g, NEW h, NEW S, IsFiniteSet(S), Numbers(f, S), Numbers(g, S),
         \A x \in S : h[x] = f[x] + g[x]
  PROVE  SumOf(h, S) = SumOf(f, S) + SumOf(g, S)
<1> DEFINE P == {T \in SUBSET S : SumOf(h, T) = SumOf(f, T) + SumOf(g, T)}
<1>1. {} \in P
  BY SumEmpty
<1>2. ASSUME NEW T \in SUBSET S, NEW x \in S, T \in P, x \notin T
      PROVE  T \cup {x} \in P
  <2>1. /\ IsFiniteSet(T) /\ Numbers(f, T) /\ Numbers(g, T)
        /\ Numbers(f, T \cup {x}) /\ Numbers(g, T \cup {x}) /\ Numbers(h, T \cup {x})
        /\ f[x] \in Nat /\ g[x] \in Nat
    BY FS_Subset DEF Numbers
  <2>2. SumOf(f, T \cup {x}) = f[x] + SumOf(f, T)
    BY <1>2, <2>1, SumAdd
  <2>3. SumOf(g, T \cup {x}) = g[x] + SumOf(g, T)
    BY <1>2, <2>1, SumAdd
  <2>4. SumOf(h, T \cup {x}) = (f[x] + g[x]) + (SumOf(f, T) + SumOf(g, T))
    BY <1>2, <2>1, SumAdd
  <2>5. SumOf(f, T) \in Nat /\ SumOf(g, T) \in Nat
    BY <2>1, SumType
  <2>6. (f[x] + g[x]) + (SumOf(f, T) + SumOf(g, T))
           = (f[x] + SumOf(f, T)) + (g[x] + SumOf(g, T))
    BY <2>1, <2>5
  <2> QED
    BY <2>2, <2>3, <2>4, <2>6
<1> HIDE DEF P
<1>3. S \in P
  BY <1>1, <1>2, FiniteInduction
<1> QED
  BY <1>3 DEF P

\* Nothing but zeros adds up to 0.
LEMMA SumZero ==
  ASSUME NEW f, NEW S, IsFiniteSet(S), \A x \in S : f[x] = 0
  PROVE  SumOf(f, S) = 0
<1> DEFINE P == {T \in SUBSET S : SumOf(f, T) = 0}
<1>1. {} \in P
  BY SumEmpty
<1>2. ASSUME NEW T \in SUBSET S, NEW x \in S, T \in P, x \notin T
      PROVE  T \cup {x} \in P
  <2>1. IsFiniteSet(T) /\ Numbers(f, T \cup {x})
    BY FS_Subset DEF Numbers
  <2>2. SumOf(f, T \cup {x}) = f[x] + SumOf(f, T)
    BY <1>2, <2>1, SumAdd
  <2> QED
    BY <1>2, <2>2
<1> HIDE DEF P
<1>3. S \in P
  BY <1>1, <1>2, FiniteInduction
<1> QED
  BY <1>3 DEF P

\* Elements that count for nothing may be left out.
LEMMA SumSupport ==
  ASSUME NEW f, NEW S, NEW T \in SUBSET S, IsFiniteSet(S), Numbers(f, S),
         \A x \in S \ T : f[x] = 0
  PROVE  SumOf(f, S) = SumOf(f, T)
<1>1. /\ IsFiniteSet(T) /\ IsFiniteSet(S \ T) /\ T \cup (S \ T) = S
      /\ Numbers(f, T) /\ T \cap (S \ T) = {}
  BY FS_Subset DEF Numbers
<1>2. SumOf(f, S) = SumOf(f, T) + SumOf(f, S \ T)
  BY <1>1, SumDisjoint
<1>3. SumOf(f, S \ T) = 0
  BY <1>1, SumZero
<1>4. SumOf(f, T) \in Nat
  BY <1>1, SumType
<1> QED
  BY <1>2, <1>3, <1>4

----------------------------------------------------------------------------
(* Strings: sequences of anything.                                         *)

\* A sequence over some set is a byte string or list in the sense of the model.
LEMMA SeqIs == ASSUME NEW S, NEW s \in Seq(S) PROVE IsSeq(s)
  BY DEF IsSeq

\* Its length is a number and its positions are 1 to that length.
LEMMA LenIs ==
  ASSUME NEW s, IsSeq(s)
  PROVE  Len(s) \in Nat /\ DOMAIN s = 1 .. Len(s)
  BY DEF IsSeq

\* What two strings one after the other hold, and where.
LEMMA Concat ==
  ASSUME NEW s, NEW t, IsSeq(s), IsSeq(t)
  PROVE  /\ IsSeq(s \o t) /\ Len(s \o t) = Len(s) + Len(t)
         /\ \A i \in 1 .. Len(s) : (s \o t)[i] = s[i]
         /\ \A i \in 1 .. Len(t) : (s \o t)[Len(s) + i] = t[i]
<1> DEFINE S == {s[i] : i \in DOMAIN s} \cup {t[i] : i \in DOMAIN t}
<1>1. s \in Seq(S) /\ t \in Seq(S)
  BY DEF IsSeq
<1> HIDE DEF S
<1>2. /\ s \o t \in Seq(S) /\ Len(s \o t) = Len(s) + Len(t)
      /\ \A i \in 1 .. Len(s) + Len(t) : (s \o t)[i] = IF i <= Len(s) THEN s[i] ELSE t[i - Len(s)]
  BY <1>1, ConcatProperties
<1>3. Len(s) \in Nat /\ Len(t) \in Nat
  BY LenIs
<1>4. \A i \in 1 .. Len(t) : (s \o t)[Len(s) + i] = t[i]
  <2> SUFFICES ASSUME NEW i \in 1 .. Len(t) PROVE (s \o t)[Len(s) + i] = t[i]
    OBVIOUS
  <2>1. Len(s) + i \in 1 .. Len(s) + Len(t) /\ ~(Len(s) + i <= Len(s)) /\ (Len(s) + i) - Len(s) = i
    BY <1>3
  <2> QED
    BY <1>2, <2>1
<1>5. \A i \in 1 .. Len(s) : (s \o t)[i] = s[i]
  BY <1>2, <1>3
<1> QED
  BY <1>2, <1>4, <1>5, SeqIs

\* What a part of a string holds.
LEMMA Sub ==
  ASSUME NEW s, IsSeq(s), NEW a \in Nat \ {0}, NEW b \in Nat, a <= b + 1, b <= Len(s)
  PROVE  /\ IsSeq(SubSeq(s, a, b)) /\ Len(SubSeq(s, a, b)) = b + 1 - a
         /\ \A i \in 1 .. b + 1 - a : SubSeq(s, a, b)[i] = s[a + i - 1]
<1> DEFINE S == {s[i] : i \in DOMAIN s}
<1>1. \A i \in a .. b : s[i] \in S
  BY LenIs
<1> HIDE DEF S
<1>2. /\ SubSeq(s, a, b) \in Seq(S)
      /\ Len(SubSeq(s, a, b)) = IF a <= b THEN b - a + 1 ELSE 0
      /\ \A i \in 1 .. b - a + 1 : SubSeq(s, a, b)[i] = s[a + i - 1]
  BY <1>1, SubSeqProperties
<1>3. b + 1 - a = b - a + 1 /\ (~(a <= b) => b + 1 - a = 0)
  OBVIOUS
<1>4. IsSeq(SubSeq(s, a, b))
  BY <1>2, SeqIs
<1>5. Len(SubSeq(s, a, b)) = b + 1 - a
  BY <1>2, <1>3, SMTT(40)
<1>6. \A i \in 1 .. b + 1 - a : SubSeq(s, a, b)[i] = s[a + i - 1]
  <2> DEFINE u == SubSeq(s, a, b)
  <2> HIDE DEF u
  <2>1. \A i \in 1 .. b - a + 1 : u[i] = s[a + i - 1]
    BY <1>2 DEF u
  <2>2. 1 .. b + 1 - a = 1 .. b - a + 1
    BY <1>3
  <2>3. \A i \in 1 .. b + 1 - a : u[i] = s[a + i - 1]
    BY <2>1, <2>2, Zenon
  <2> QED
    BY <2>3 DEF u
<1> QED
  BY <1>4, <1>5, <1>6, Zenon

\* Strings of one length with the same symbols are equal.
LEMMA SeqExt ==
  ASSUME NEW s, NEW t, IsSeq(s), IsSeq(t), Len(s) = Len(t), \A i \in 1 .. Len(s) : s[i] = t[i]
  PROVE  s = t
<1> DEFINE S == {s[i] : i \in DOMAIN s} \cup {t[i] : i \in DOMAIN t}
<1>1. s \in Seq(S) /\ t \in Seq(S)
  BY DEF IsSeq
<1> HIDE DEF S
<1> QED
  BY <1>1, SeqEqual, SMTT(40)

\* A function on 1 .. n is a string of length n.
LEMMA MadeSeq ==
  ASSUME NEW n \in Nat, NEW f, f = [i \in 1 .. n |-> f[i]]
  PROVE  IsSeq(f) /\ Len(f) = n
  BY DEF IsSeq

\* Tuples are strings.
LEMMA TupleIs ==
  /\ IsSeq(<<>>) /\ Len(<<>>) = 0
  /\ \A a : IsSeq(<<a>>) /\ Len(<<a>>) = 1
  /\ \A a, b : IsSeq(<<a, b>>) /\ Len(<<a, b>>) = 2
  /\ \A a, b, c : IsSeq(<<a, b, c>>) /\ Len(<<a, b, c>>) = 3
  /\ \A a, b, c, d : IsSeq(<<a, b, c, d>>) /\ Len(<<a, b, c, d>>) = 4
  /\ \A a, b, c, d, e : IsSeq(<<a, b, c, d, e>>) /\ Len(<<a, b, c, d, e>>) = 5
  BY DEF IsSeq

----------------------------------------------------------------------------
(* The Merkle tree.                                                        *)

\* A number is twice its half, or one more.
LEMMA Half ==
  ASSUME NEW i \in Nat
  PROVE  /\ i \div 2 \in Nat
         /\ \/ i % 2 = 0 /\ i = 2 * (i \div 2)
            \/ i % 2 = 1 /\ i = 2 * (i \div 2) + 1
  OBVIOUS

\* The layers of a tree, bottom up.
Rises(f, leaves, n) == f = [k \in 0 .. n |-> IF k = 0 THEN LeafLayer(leaves) ELSE Rise(f[k - 1])]

\* Where the path of a proof starts.
Foot(leaves, index) == [layer |-> LeafLayer(leaves), idx |-> index, siblings |-> <<>>]

\* The path of a proof, bottom up.
Ascends(f, leaves, index, n) ==
    f = [k \in 0 .. n |-> IF k = 0 THEN Foot(leaves, index) ELSE Ascend(f[k - 1])]

\* Where verification starts.
Leaf(x, index) == [acc |-> hash_leaf(x), idx |-> index]

\* The path of a verification, bottom up.
Climbs(f, x, index, sibs, n) ==
    f = [k \in 0 .. n |-> IF k = 0 THEN Leaf(x, index) ELSE Climb(f[k - 1], sibs[k])]

\* The recursion has a solution.
LEMMA RisesExist ==
  ASSUME NEW leaves
  PROVE  \A n \in Nat : \E f : Rises(f, leaves, n)
<1> DEFINE P == {n \in Nat : \E f : Rises(f, leaves, n)}
<1>1. 0 \in P
  <2> DEFINE f == [k \in 0 .. 0 |-> LeafLayer(leaves)]
  <2>1. Rises(f, leaves, 0)
    BY DEF Rises
  <2> QED
    BY <2>1
<1>2. ASSUME NEW n \in Nat, n \in P PROVE n + 1 \in P
  <2>1. PICK f : Rises(f, leaves, n)
    BY <1>2
  <2> DEFINE Value(h, k) == IF k = 0 THEN LeafLayer(leaves) ELSE Rise(h[k - 1])
  <2>2. \A k \in 0 .. n : f[k] = Value(f, k)
    BY <2>1 DEF Rises
  <2> DEFINE g == [k \in 0 .. n + 1 |-> IF k = n + 1 THEN Value(f, n + 1) ELSE f[k]]
  <2>3. ASSUME NEW k \in 0 .. n + 1 PROVE g[k] = Value(g, k)
    <3>1. k # 0 => k - 1 \in 0 .. n + 1 /\ k - 1 # n + 1
      OBVIOUS
    <3>2. k # 0 => g[k - 1] = f[k - 1]
      BY <3>1
    <3>3. g[k] = IF k = n + 1 THEN Value(f, n + 1) ELSE f[k]
      OBVIOUS
    <3>4. k # n + 1 => f[k] = Value(f, k)
      BY <2>2
    <3> HIDE DEF g
    <3>5. g[k] = Value(f, k)
      BY <3>3, <3>4
    <3>6. Value(g, k) = Value(f, k)
      BY <3>2
    <3> QED
      BY <3>5, <3>6
  <2>4. g = [k \in 0 .. n + 1 |-> g[k]]
    OBVIOUS
  <2> HIDE DEF g
  <2>5. g = [k \in 0 .. n + 1 |-> Value(g, k)]
    BY <2>3, <2>4
  <2>6. Rises(g, leaves, n + 1)
    BY <2>5 DEF Rises
  <2> QED
    BY <2>6
<1> HIDE DEF P
<1>3. \A n \in Nat : n \in P
  BY <1>1, <1>2, NumberInduction
<1> QED
  BY <1>3 DEF P

\* The recursion has a solution.
LEMMA AscendsExist ==
  ASSUME NEW leaves, NEW index
  PROVE  \A n \in Nat : \E f : Ascends(f, leaves, index, n)
<1> DEFINE P == {n \in Nat : \E f : Ascends(f, leaves, index, n)}
<1>1. 0 \in P
  <2> DEFINE f == [k \in 0 .. 0 |-> Foot(leaves, index)]
  <2>1. Ascends(f, leaves, index, 0)
    BY DEF Ascends
  <2> QED
    BY <2>1
<1>2. ASSUME NEW n \in Nat, n \in P PROVE n + 1 \in P
  <2>1. PICK f : Ascends(f, leaves, index, n)
    BY <1>2
  <2> DEFINE Value(h, k) == IF k = 0 THEN Foot(leaves, index) ELSE Ascend(h[k - 1])
  <2>2. \A k \in 0 .. n : f[k] = Value(f, k)
    BY <2>1 DEF Ascends
  <2> DEFINE g == [k \in 0 .. n + 1 |-> IF k = n + 1 THEN Value(f, n + 1) ELSE f[k]]
  <2>3. ASSUME NEW k \in 0 .. n + 1 PROVE g[k] = Value(g, k)
    <3>1. k # 0 => k - 1 \in 0 .. n + 1 /\ k - 1 # n + 1
      OBVIOUS
    <3>2. k # 0 => g[k - 1] = f[k - 1]
      BY <3>1
    <3>3. g[k] = IF k = n + 1 THEN Value(f, n + 1) ELSE f[k]
      OBVIOUS
    <3>4. k # n + 1 => f[k] = Value(f, k)
      BY <2>2
    <3> HIDE DEF g
    <3>5. g[k] = Value(f, k)
      BY <3>3, <3>4
    <3>6. Value(g, k) = Value(f, k)
      BY <3>2
    <3> QED
      BY <3>5, <3>6
  <2>4. g = [k \in 0 .. n + 1 |-> g[k]]
    OBVIOUS
  <2> HIDE DEF g
  <2>5. g = [k \in 0 .. n + 1 |-> Value(g, k)]
    BY <2>3, <2>4
  <2>6. Ascends(g, leaves, index, n + 1)
    BY <2>5 DEF Ascends
  <2> QED
    BY <2>6
<1> HIDE DEF P
<1>3. \A n \in Nat : n \in P
  BY <1>1, <1>2, NumberInduction
<1> QED
  BY <1>3 DEF P

\* The recursion has a solution.
LEMMA ClimbsExist ==
  ASSUME NEW x, NEW index, NEW sibs
  PROVE  \A n \in Nat : \E f : Climbs(f, x, index, sibs, n)
<1> DEFINE P == {n \in Nat : \E f : Climbs(f, x, index, sibs, n)}
<1>1. 0 \in P
  <2> DEFINE f == [k \in 0 .. 0 |-> Leaf(x, index)]
  <2>1. Climbs(f, x, index, sibs, 0)
    BY DEF Climbs
  <2> QED
    BY <2>1
<1>2. ASSUME NEW n \in Nat, n \in P PROVE n + 1 \in P
  <2>1. PICK f : Climbs(f, x, index, sibs, n)
    BY <1>2
  <2> DEFINE Value(h, k) == IF k = 0 THEN Leaf(x, index) ELSE Climb(h[k - 1], sibs[k])
  <2>2. \A k \in 0 .. n : f[k] = Value(f, k)
    BY <2>1 DEF Climbs
  <2> DEFINE g == [k \in 0 .. n + 1 |-> IF k = n + 1 THEN Value(f, n + 1) ELSE f[k]]
  <2>3. ASSUME NEW k \in 0 .. n + 1 PROVE g[k] = Value(g, k)
    <3>1. k # 0 => k - 1 \in 0 .. n + 1 /\ k - 1 # n + 1
      OBVIOUS
    <3>2. k # 0 => g[k - 1] = f[k - 1]
      BY <3>1
    <3>3. g[k] = IF k = n + 1 THEN Value(f, n + 1) ELSE f[k]
      OBVIOUS
    <3>4. k # n + 1 => f[k] = Value(f, k)
      BY <2>2
    <3> HIDE DEF g
    <3>5. g[k] = Value(f, k)
      BY <3>3, <3>4
    <3>6. Value(g, k) = Value(f, k)
      BY <3>2
    <3> QED
      BY <3>5, <3>6
  <2>4. g = [k \in 0 .. n + 1 |-> g[k]]
    OBVIOUS
  <2> HIDE DEF g
  <2>5. g = [k \in 0 .. n + 1 |-> Value(g, k)]
    BY <2>3, <2>4
  <2>6. Climbs(g, x, index, sibs, n + 1)
    BY <2>5 DEF Climbs
  <2> QED
    BY <2>6
<1> HIDE DEF P
<1>3. \A n \in Nat : n \in P
  BY <1>1, <1>2, NumberInduction
<1> QED
  BY <1>3 DEF P

\* compute_root by Rises.
LEMMA ComputeRootIs ==
  ASSUME NEW leaves, IsSeq(leaves), leaves # <<>>
  PROVE  \E f : Rises(f, leaves, Len(leaves)) /\ compute_root(leaves) = f[Len(leaves)][1]
<1> DEFINE f == CHOOSE c : Rises(c, leaves, Len(leaves))
<1>1. compute_root(leaves) = f[Len(leaves)][1]
  BY DEF compute_root, Rises
<1>2. \E g : Rises(g, leaves, Len(leaves))
  BY LenIs, RisesExist
<1> QED
  BY <1>1, <1>2

\* merkle_prove by Ascends.
LEMMA MerkleProveIs ==
  ASSUME NEW leaves, IsSeq(leaves), NEW index
  PROVE  \E f : /\ Ascends(f, leaves, index, Len(leaves))
                /\ merkle_prove(leaves, index)
                     = [leaf_index |-> index, siblings |-> f[Len(leaves)].siblings]
<1> DEFINE f == CHOOSE c : Ascends(c, leaves, index, Len(leaves))
<1>1. merkle_prove(leaves, index) = [leaf_index |-> index, siblings |-> f[Len(leaves)].siblings]
  BY DEF merkle_prove, Ascends, Foot
<1>2. \E g : Ascends(g, leaves, index, Len(leaves))
  BY LenIs, AscendsExist
<1> QED
  BY <1>1, <1>2

\* Where a verification ends.
ClimbTo(x, index, sibs) == (CHOOSE f : Climbs(f, x, index, sibs, Len(sibs)))[Len(sibs)]

\* merkle_verify compares that with the root.
LEMMA MerkleVerifyIs ==
  ASSUME NEW x, NEW proof, NEW root
  PROVE  merkle_verify(x, proof, root) <=> ClimbTo(x, proof.leaf_index, proof.siblings).acc = root
  BY DEF merkle_verify, ClimbTo, Climbs, Leaf

\* ClimbTo by Climbs.
LEMMA ClimbToIs ==
  ASSUME NEW x, NEW index, NEW sibs, IsSeq(sibs)
  PROVE  \E f : Climbs(f, x, index, sibs, Len(sibs)) /\ ClimbTo(x, index, sibs) = f[Len(sibs)]
<1> DEFINE f == CHOOSE c : Climbs(c, x, index, sibs, Len(sibs))
<1>1. \E g : Climbs(g, x, index, sibs, Len(sibs))
  BY LenIs, ClimbsExist
<1>2. ClimbTo(x, index, sibs) = f[Len(sibs)]
  BY DEF ClimbTo
<1> QED
  BY <1>1, <1>2

\* Without siblings it ends where it starts.
LEMMA ClimbNone ==
  ASSUME NEW x, NEW index
  PROVE  ClimbTo(x, index, <<>>) = Leaf(x, index)
<1>1. IsSeq(<<>>) /\ Len(<<>>) = 0
  BY TupleIs
<1>2. PICK f : Climbs(f, x, index, <<>>, Len(<<>>)) /\ ClimbTo(x, index, <<>>) = f[Len(<<>>)]
  BY <1>1, ClimbToIs
<1>3. f = [k \in 0 .. 0 |-> IF k = 0 THEN Leaf(x, index) ELSE Climb(f[k - 1], <<>>[k])]
  BY <1>1, <1>2 DEF Climbs
<1>4. f[0] = Leaf(x, index)
  BY <1>3
<1> QED
  BY <1>1, <1>2, <1>4

\* One sibling more is one step more.
LEMMA ClimbMore ==
  ASSUME NEW x, NEW index, NEW s, NEW t, IsSeq(s), IsSeq(t), Len(t) = Len(s) + 1,
         \A i \in 1 .. Len(s) : t[i] = s[i]
  PROVE  ClimbTo(x, index, t) = Climb(ClimbTo(x, index, s), t[Len(t)])
<1> DEFINE n == Len(s)
<1>1. n \in Nat
  BY LenIs
<1>2. PICK f : Climbs(f, x, index, s, n) /\ ClimbTo(x, index, s) = f[n]
  BY ClimbToIs
<1>3. PICK g : Climbs(g, x, index, t, n + 1) /\ ClimbTo(x, index, t) = g[n + 1]
  BY ClimbToIs
<1>4. \A k \in 0 .. n : f[k] = IF k = 0 THEN Leaf(x, index) ELSE Climb(f[k - 1], s[k])
  BY <1>2 DEF Climbs
<1>5. \A k \in 0 .. n + 1 : g[k] = IF k = 0 THEN Leaf(x, index) ELSE Climb(g[k - 1], t[k])
  BY <1>3 DEF Climbs
<1> HIDE DEF n
<1> DEFINE P == {k \in Nat : k <= n => g[k] = f[k]}
<1>6. 0 \in P
  BY <1>1, <1>4, <1>5
<1>7. ASSUME NEW k \in Nat, k \in P PROVE k + 1 \in P
  <2> SUFFICES ASSUME k + 1 <= n PROVE g[k + 1] = f[k + 1]
    OBVIOUS
  <2>1. g[k] = f[k]
    BY <1>1, <1>7
  <2>2. k + 1 \in 1 .. n /\ k + 1 \in 0 .. n /\ k + 1 \in 0 .. n + 1 /\ k + 1 # 0 /\ (k + 1) - 1 = k
    BY <1>1
  <2>3. f[k + 1] = Climb(f[k], s[k + 1]) /\ g[k + 1] = Climb(g[k], t[k + 1])
    BY <1>4, <1>5, <2>2
  <2>4. t[k + 1] = s[k + 1]
    BY <2>2 DEF n
  <2> QED
    BY <2>1, <2>3, <2>4
<1> HIDE DEF P
<1>8. n \in P
  BY <1>1, <1>6, <1>7, NumberInduction
<1>9. g[n] = f[n]
  BY <1>1, <1>8 DEF P
<1>10. g[n + 1] = Climb(g[n], t[n + 1])
  <2>1. n + 1 \in 0 .. n + 1 /\ n + 1 # 0 /\ (n + 1) - 1 = n
    BY <1>1
  <2> QED
    BY <1>5, <2>1
<1> QED
  BY <1>2, <1>3, <1>9, <1>10 DEF n

\* Two leaves that end in one hash are equal: the hash is ideal.
LEMMA ClimbInjective ==
  ASSUME NEW x, NEW y, NEW index, NEW sibs, IsSeq(sibs),
         ClimbTo(x, index, sibs).acc = ClimbTo(y, index, sibs).acc
  PROVE  x = y
<1> DEFINE n == Len(sibs)
<1>1. n \in Nat
  BY LenIs
<1>2. PICK f : Climbs(f, x, index, sibs, n) /\ ClimbTo(x, index, sibs) = f[n]
  BY ClimbToIs
<1>3. PICK g : Climbs(g, y, index, sibs, n) /\ ClimbTo(y, index, sibs) = g[n]
  BY ClimbToIs
<1>4. \A k \in 0 .. n : f[k] = IF k = 0 THEN Leaf(x, index) ELSE Climb(f[k - 1], sibs[k])
  BY <1>2 DEF Climbs
<1>5. \A k \in 0 .. n : g[k] = IF k = 0 THEN Leaf(y, index) ELSE Climb(g[k - 1], sibs[k])
  BY <1>3 DEF Climbs
<1> HIDE DEF n
<1> DEFINE P == {k \in Nat : k <= n => f[k].idx = g[k].idx /\ (f[k].acc = g[k].acc => x = y)}
<1>6. 0 \in P
  <2>1. f[0] = Leaf(x, index) /\ g[0] = Leaf(y, index)
    BY <1>1, <1>4, <1>5
  <2> QED
    BY <2>1 DEF Leaf, hash_leaf
<1>7. ASSUME NEW k \in Nat, k \in P PROVE k + 1 \in P
  <2> SUFFICES ASSUME k + 1 <= n
               PROVE  f[k + 1].idx = g[k + 1].idx /\ (f[k + 1].acc = g[k + 1].acc => x = y)
    OBVIOUS
  <2>1. f[k].idx = g[k].idx /\ (f[k].acc = g[k].acc => x = y)
    BY <1>1, <1>7
  <2>2. k + 1 \in 0 .. n /\ k + 1 # 0 /\ (k + 1) - 1 = k
    BY <1>1
  <2>3. f[k + 1] = Climb(f[k], sibs[k + 1]) /\ g[k + 1] = Climb(g[k], sibs[k + 1])
    BY <1>4, <1>5, <2>2
  <2> DEFINE a == f[k]
  <2> DEFINE b == g[k]
  <2> DEFINE z == sibs[k + 1]
  <2> HIDE DEF a, b, z
  <2>4. /\ Climb(a, z).idx = a.idx \div 2 /\ Climb(b, z).idx = b.idx \div 2
        /\ Climb(a, z).acc = IF a.idx % 2 = 0 THEN <<1, a.acc, z>> ELSE <<1, z, a.acc>>
        /\ Climb(b, z).acc = IF b.idx % 2 = 0 THEN <<1, b.acc, z>> ELSE <<1, z, b.acc>>
    BY DEF Climb, hash_branch
  <2>5. a.idx = b.idx /\ (a.acc = b.acc => x = y)
    BY <2>1 DEF a, b
  <2>6. Climb(a, z).idx = Climb(b, z).idx /\ (Climb(a, z).acc = Climb(b, z).acc => a.acc = b.acc)
    BY <2>4, <2>5
  <2> QED
    BY <2>3, <2>5, <2>6 DEF a, b, z
<1> HIDE DEF P
<1>8. n \in P
  BY <1>1, <1>6, <1>7, NumberInduction
<1> QED
  BY <1>1, <1>2, <1>3, <1>8 DEF P

\* A layer made even.
LEMMA EvenedIs ==
  ASSUME NEW s, IsSeq(s), Len(s) >= 1
  PROVE  /\ IsSeq(Evened(s)) /\ Len(Evened(s)) = 2 * ((Len(s) + 1) \div 2)
         /\ Len(Evened(s)) \div 2 = (Len(s) + 1) \div 2
         /\ \A i \in 1 .. Len(s) : Evened(s)[i] = s[i]
<1>1. Len(s) \in Nat
  BY LenIs
<1>2. CASE Len(s) % 2 = 1
  <2> DEFINE x == s[Len(s)]
  <2> DEFINE S == {s[i] : i \in DOMAIN s} \cup {x}
  <2>1. s \in Seq(S) /\ x \in S
    BY DEF IsSeq
  <2>2. Evened(s) = Append(s, x)
    BY <1>2 DEF Evened
  <2> HIDE DEF x, S
  <2>3. /\ Append(s, x) \in Seq(S) /\ Len(Append(s, x)) = Len(s) + 1
        /\ \A i \in 1 .. Len(s) : Append(s, x)[i] = s[i]
    BY <2>1, AppendProperties
  <2>4. IsSeq(Append(s, x))
    BY <2>3, SeqIs
  <2>5. Len(s) + 1 = 2 * ((Len(s) + 1) \div 2) /\ (Len(s) + 1) \div 2 = (Len(s) + 1) \div 2
    BY <1>1, <1>2
  <2> QED
    BY <2>2, <2>3, <2>4, <2>5
<1>3. CASE Len(s) % 2 # 1
  <2>1. Evened(s) = s
    BY <1>3 DEF Evened
  <2>2. Len(s) = 2 * ((Len(s) + 1) \div 2) /\ Len(s) \div 2 = (Len(s) + 1) \div 2
    BY <1>1, <1>3
  <2> QED
    BY <2>1, <2>2
<1> QED
  BY <1>2, <1>3

\* The layer above it.
LEMMA NextLayerIs ==
  ASSUME NEW s, IsSeq(s), Len(s) >= 1
  PROVE  /\ IsSeq(NextLayer(s)) /\ Len(NextLayer(s)) = (Len(s) + 1) \div 2
         /\ \A i \in 1 .. (Len(s) + 1) \div 2 :
              NextLayer(s)[i] = hash_branch(Evened(s)[2 * i - 1], Evened(s)[2 * i])
<1> DEFINE n == (Len(s) + 1) \div 2
<1> DEFINE f == NextLayer(s)
<1>1. Len(Evened(s)) \div 2 = n
  BY EvenedIs
<1>2. n \in Nat
  BY LenIs
<1> HIDE DEF n
<1>3. f = [i \in 1 .. n |-> hash_branch(Evened(s)[2 * i - 1], Evened(s)[2 * i])]
  BY <1>1 DEF NextLayer
<1> HIDE DEF f
<1>4. f = [i \in 1 .. n |-> f[i]]
  BY <1>3
<1>5. IsSeq(f) /\ Len(f) = n
  BY <1>2, <1>4, MadeSeq
<1> QED
  BY <1>3, <1>5 DEF f, n

\* A state of the prover and the climb that it stands for.
OnPath(s, x, index, n, k) ==
    /\ IsSeq(s.layer) /\ Len(s.layer) >= 1
    /\ Len(s.layer) = 1 \/ Len(s.layer) + k <= n
    /\ s.idx \in Nat /\ s.idx < Len(s.layer)
    /\ IsSeq(s.siblings)
    /\ ClimbTo(x, index, s.siblings) = [acc |-> s.layer[s.idx + 1], idx |-> s.idx]

\* One layer up, the path still leads from the leaf to the layer.
LEMMA OnPathStep ==
  ASSUME NEW s, NEW x, NEW index, NEW n \in Nat, NEW k \in Nat, OnPath(s, x, index, n, k)
  PROVE  /\ OnPath(Ascend(s), x, index, n, k + 1)
         /\ Ascend(s).layer = Rise(s.layer)
<1>0. /\ IsSeq(s.layer) /\ Len(s.layer) >= 1 /\ s.idx \in Nat /\ s.idx < Len(s.layer)
      /\ Len(s.layer) = 1 \/ Len(s.layer) + k <= n
      /\ IsSeq(s.siblings)
      /\ ClimbTo(x, index, s.siblings) = [acc |-> s.layer[s.idx + 1], idx |-> s.idx]
  BY DEF OnPath
<1>1. CASE Len(s.layer) = 1
  <2>1. Ascend(s) = s /\ Rise(s.layer) = s.layer
    BY <1>1 DEF Ascend, Rise
  <2> QED
    BY <1>1, <2>1 DEF OnPath
<1>2. CASE Len(s.layer) # 1
  <2> DEFINE a == s.layer
  <2> DEFINE i == s.idx
  <2> DEFINE sib == IF i % 2 = 0 THEN i + 1 ELSE i - 1
  <2> DEFINE e == Evened(a)
  <2> DEFINE y == e[sib + 1]
  <2> DEFINE b == NextLayer(a)
  <2> DEFINE t == Append(s.siblings, y)
  <2> DEFINE u == [layer |-> b, idx |-> i \div 2, siblings |-> t]
  <2>1. Ascend(s) = u /\ Rise(s.layer) = b
    BY <1>2 DEF Ascend, Rise
  <2>2. u.layer = b /\ u.idx = i \div 2 /\ u.siblings = t
    OBVIOUS
  <2>3. Len(a) \in Nat /\ Len(a) >= 2 /\ i \in Nat /\ i < Len(a) /\ Len(a) + k <= n /\ IsSeq(a)
    <3>1. IsSeq(a)
      BY <1>0
    <3>2. Len(a) \in Nat
      BY <3>1, LenIs
    <3> HIDE DEF a
    <3>3. /\ Len(a) >= 1 /\ i \in Nat /\ i < Len(a) /\ Len(a) # 1
          /\ Len(a) = 1 \/ Len(a) + k <= n
      BY <1>0, <1>2 DEF a
    <3> DEFINE l == Len(a)
    <3>4. /\ l \in Nat /\ l >= 1 /\ i \in Nat /\ i < l /\ l # 1
          /\ l = 1 \/ l + k <= n
      BY <3>2, <3>3
    <3> HIDE DEF l, i
    <3>5. l \in Nat /\ l >= 2 /\ i \in Nat /\ i < l /\ l + k <= n
      BY <3>4
    <3> QED
      BY <3>1, <3>5 DEF l
  <2> HIDE DEF u, t, b, a, i, y
  <2>4. /\ IsSeq(b) /\ Len(b) = (Len(a) + 1) \div 2
        /\ \A j \in 1 .. (Len(a) + 1) \div 2 : b[j] = hash_branch(e[2 * j - 1], e[2 * j])
    BY <2>3, NextLayerIs DEF b
  <2>5. \A j \in 1 .. Len(a) : e[j] = a[j]
    BY <2>3, EvenedIs
  <2> HIDE DEF e
  <2>6. /\ Len(b) >= 1 /\ Len(b) + (k + 1) <= n /\ i \div 2 \in Nat /\ i \div 2 < Len(b)
        /\ i \div 2 + 1 \in 1 .. (Len(a) + 1) \div 2
    BY <2>3, <2>4
  <2>7. b[i \div 2 + 1] = hash_branch(e[2 * (i \div 2 + 1) - 1], e[2 * (i \div 2 + 1)])
    BY <2>4, <2>6
  <2>8. e[i + 1] = a[i + 1]
    <3>1. i + 1 \in 1 .. Len(a)
      BY <2>3
    <3> QED
      BY <2>5, <3>1
  <2>9. /\ IsSeq(t) /\ Len(t) = Len(s.siblings) + 1 /\ t[Len(t)] = y
        /\ \A j \in 1 .. Len(s.siblings) : t[j] = s.siblings[j]
    <3> DEFINE r == s.siblings
    <3> DEFINE S == {r[j] : j \in DOMAIN r} \cup {y}
    <3>1. r \in Seq(S) /\ y \in S
      BY <1>0 DEF IsSeq
    <3> HIDE DEF r, S
    <3>2. /\ Append(r, y) \in Seq(S) /\ Len(Append(r, y)) = Len(r) + 1
          /\ \A j \in 1 .. Len(r) : Append(r, y)[j] = r[j]
          /\ Append(r, y)[Len(r) + 1] = y
      BY <3>1, AppendProperties
    <3>3. IsSeq(Append(r, y))
      BY <3>2, SeqIs
    <3> QED
      BY <3>2, <3>3 DEF r, t
  <2>10. ClimbTo(x, index, t) = Climb(ClimbTo(x, index, s.siblings), y)
    BY <1>0, <2>9, ClimbMore
  <2>11. ClimbTo(x, index, t) = Climb([acc |-> a[i + 1], idx |-> i], y)
    BY <1>0, <2>10 DEF a, i
  <2>12. Climb([acc |-> a[i + 1], idx |-> i], y) = [acc |-> b[i \div 2 + 1], idx |-> i \div 2]
    <3>1. CASE i % 2 = 0
      <4>1. sib + 1 = i + 2 /\ 2 * (i \div 2 + 1) - 1 = i + 1 /\ 2 * (i \div 2 + 1) = i + 2
        BY <2>3, <3>1
      <4>2. y = e[i + 2] /\ b[i \div 2 + 1] = hash_branch(a[i + 1], e[i + 2])
        BY <2>7, <2>8, <4>1 DEF y
      <4> QED
        BY <3>1, <4>2 DEF Climb
    <3>2. CASE i % 2 # 0
      <4>1. sib + 1 = i /\ 2 * (i \div 2 + 1) - 1 = i /\ 2 * (i \div 2 + 1) = i + 1
        BY <2>3, <3>2
      <4>2. y = e[i] /\ b[i \div 2 + 1] = hash_branch(e[i], a[i + 1])
        BY <2>7, <2>8, <4>1 DEF y
      <4> QED
        BY <3>2, <4>2 DEF Climb
    <3> QED
      BY <3>1, <3>2
  <2>13. OnPath(u, x, index, n, k + 1)
    BY <2>2, <2>4, <2>6, <2>9, <2>11, <2>12 DEF OnPath
  <2> QED
    BY <2>1, <2>2, <2>13
<1> QED
  BY <1>1, <1>2

\* The proof of a leaf verifies that leaf and no other, at every index of every
\* tree (merkle::prove, merkle::verify).
LEMMA MerkleComplete ==
  ASSUME NEW leaves, IsSeq(leaves), Len(leaves) >= 1, NEW index \in 0 .. Len(leaves) - 1,
         NEW proof, proof = merkle_prove(leaves, index)
  PROVE  /\ proof = [leaf_index |-> index, siblings |-> proof.siblings] /\ IsSeq(proof.siblings)
         /\ \A x : merkle_verify(x, proof, compute_root(leaves)) <=> x = leaves[index + 1]
<1> DEFINE n == Len(leaves)
<1> DEFINE x == leaves[index + 1]
<1>1. n \in Nat /\ n >= 1
  BY LenIs
<1>2. leaves # <<>>
  BY TupleIs
<1>3. PICK f : Rises(f, leaves, n) /\ compute_root(leaves) = f[n][1]
  BY <1>2, ComputeRootIs
<1>4. PICK g : Ascends(g, leaves, index, n) /\ proof = [leaf_index |-> index, siblings |-> g[n].siblings]
  BY MerkleProveIs
<1>5. \A k \in 0 .. n : f[k] = IF k = 0 THEN LeafLayer(leaves) ELSE Rise(f[k - 1])
  BY <1>3 DEF Rises
<1>6. \A k \in 0 .. n : g[k] = IF k = 0 THEN Foot(leaves, index) ELSE Ascend(g[k - 1])
  BY <1>4 DEF Ascends
<1> DEFINE P == {k \in Nat : k <= n => OnPath(g[k], x, index, n, k) /\ g[k].layer = f[k]}
<1>7. 0 \in P
  <2> DEFINE l == LeafLayer(leaves)
  <2> DEFINE s == Foot(leaves, index)
  <2>1. g[0] = s /\ f[0] = l
    BY <1>1, <1>5, <1>6
  <2>2. s.layer = l /\ s.idx = index /\ s.siblings = <<>>
    BY DEF Foot
  <2>3. IsSeq(l) /\ Len(l) = n
    <3>1. l = [i \in 1 .. n |-> l[i]]
      BY DEF LeafLayer
    <3> HIDE DEF l, n
    <3> QED
      BY <1>1, <3>1, MadeSeq
  <2>4. index \in Nat /\ index < n /\ index + 1 \in 1 .. n
    BY <1>1
  <2>5. l[index + 1] = hash_leaf(x)
    BY <2>4 DEF LeafLayer
  <2>6. ClimbTo(x, index, <<>>) = [acc |-> hash_leaf(x), idx |-> index]
    BY ClimbNone DEF Leaf
  <2>7. IsSeq(<<>>)
    BY TupleIs
  <2> HIDE DEF l, s, n, x
  <2>8. OnPath(s, x, index, n, 0)
    BY <1>1, <2>2, <2>3, <2>4, <2>5, <2>6, <2>7 DEF OnPath
  <2> QED
    BY <2>1, <2>2, <2>8
<1> HIDE DEF n, x
<1>8. ASSUME NEW k \in Nat, k \in P PROVE k + 1 \in P
  <2> SUFFICES ASSUME k + 1 <= n
               PROVE  OnPath(g[k + 1], x, index, n, k + 1) /\ g[k + 1].layer = f[k + 1]
    OBVIOUS
  <2>1. OnPath(g[k], x, index, n, k) /\ g[k].layer = f[k]
    BY <1>1, <1>8
  <2>2. k + 1 \in 0 .. n /\ k + 1 # 0 /\ (k + 1) - 1 = k
    BY <1>1
  <2>3. g[k + 1] = Ascend(g[k]) /\ f[k + 1] = Rise(f[k])
    BY <1>5, <1>6, <2>2
  <2>4. OnPath(Ascend(g[k]), x, index, n, k + 1) /\ Ascend(g[k]).layer = Rise(g[k].layer)
    BY <1>1, <2>1, OnPathStep
  <2> QED
    BY <2>1, <2>3, <2>4
<1> HIDE DEF P
<1>9. n \in P
  BY <1>1, <1>7, <1>8, NumberInduction
<1> DEFINE s == g[n]
<1>10. OnPath(s, x, index, n, n) /\ s.layer = f[n]
  BY <1>1, <1>9 DEF P
<1> HIDE DEF s
<1>11. /\ IsSeq(s.siblings) /\ s.idx = 0
       /\ ClimbTo(x, index, s.siblings) = [acc |-> s.layer[s.idx + 1], idx |-> s.idx]
  <2>1. /\ IsSeq(s.layer) /\ Len(s.layer) >= 1 /\ s.idx \in Nat /\ s.idx < Len(s.layer)
        /\ Len(s.layer) = 1 \/ Len(s.layer) + n <= n
        /\ IsSeq(s.siblings)
        /\ ClimbTo(x, index, s.siblings) = [acc |-> s.layer[s.idx + 1], idx |-> s.idx]
    BY <1>10 DEF OnPath
  <2>2. Len(s.layer) \in Nat
    BY <2>1, LenIs
  <2>3. s.idx = 0
    BY <1>1, <2>1, <2>2
  <2> QED
    BY <2>1, <2>3
<1>12. ClimbTo(x, index, s.siblings).acc = compute_root(leaves)
  <2>1. s.idx + 1 = 1
    BY <1>11
  <2>2. ClimbTo(x, index, s.siblings).acc = s.layer[1]
    BY <1>11, <2>1
  <2> QED
    BY <1>3, <1>10, <2>2 DEF s
<1>13. proof.leaf_index = index /\ proof.siblings = s.siblings
  BY <1>4 DEF s
<1>14. \A z : merkle_verify(z, proof, compute_root(leaves)) <=>
                ClimbTo(z, index, s.siblings).acc = compute_root(leaves)
  BY <1>13, MerkleVerifyIs
<1>15. \A z : ClimbTo(z, index, s.siblings).acc = ClimbTo(x, index, s.siblings).acc => z = x
  BY <1>11, ClimbInjective
<1>16. \A z : merkle_verify(z, proof, compute_root(leaves)) <=> z = x
  BY <1>12, <1>14, <1>15
<1> QED
  BY <1>4, <1>11, <1>13, <1>16 DEF x, s
=============================================================================
