------------------------ MODULE ModuleLoadingProofs -------------------------
(***************************************************************************)
(* Proofs about the loading of modules, for any value of the constants:    *)
(* their preparation in the execution host (ModulePreparation) and the     *)
(* artifact cache (ArtifactCache).  Both count bytes, and share the facts  *)
(* about finite sums.                                                      *)
(***************************************************************************)
EXTENDS ModulePreparation, ArtifactCache, FiniteSetTheorems, WellFoundedInduction, TLAPS

-----------------------------------------------------------------------------
(* Counts and sums.  A sum is the number of blocks in a bar chart,         *)
(* and what is true of every step to a larger set is true of the set.      *)

\* How often l is counted among the members of S.
One(l, S) == IF l \in S THEN 1 ELSE 0

\* A set that changes in one place changes its count by that place.
LEMMA CountStep ==
  ASSUME NEW S, NEW T, IsFiniteSet(S), NEW l, \A k : k # l => (k \in S <=> k \in T)
  PROVE  /\ IsFiniteSet(T)
         /\ Cardinality(T) = Cardinality(S) + One(l, T) - One(l, S)
<1>1. Cardinality(S) \in Nat  BY Zenon, FS_CardinalityType
<1>2. CASE l \in T
  <2>1. T = S \cup {l}  BY Zenon, <1>2
  <2>2. /\ IsFiniteSet(S \cup {l})
        /\ Cardinality(S \cup {l}) = IF l \in S THEN Cardinality(S) ELSE Cardinality(S) + 1
    BY Zenon, FS_AddElement
  <2> QED  BY <1>1, <1>2, <2>1, <2>2 DEF One
<1>3. CASE l \notin T
  <2>1. T = S \ {l}  BY Zenon, <1>3
  <2>2. /\ IsFiniteSet(S \ {l})
        /\ Cardinality(S \ {l}) = IF l \in S THEN Cardinality(S) - 1 ELSE Cardinality(S)
    BY Zenon, FS_RemoveElement
  <2> QED  BY <1>1, <1>3, <2>1, <2>2 DEF One
<1> QED  BY Zenon, <1>2, <1>3

\* Permits and holders: a permit given back is one holder fewer.
LEMMA PermitMoves ==
  ASSUME NEW p \in Nat, NEW S, NEW T, NEW l, Cardinality(S) \in Nat,
         Cardinality(T) = Cardinality(S) + One(l, T) - One(l, S)
  PROVE  (p + One(l, S) - One(l, T)) + Cardinality(T) = p + Cardinality(S)
<1>1. One(l, S) \in {0, 1} /\ One(l, T) \in {0, 1}  BY Zenon DEF One
<1> QED  BY <1>1

\* Subtraction of integers, for the provers that do no arithmetic.
LEMMA AddTake ==
  /\ \A a, h, n \in Nat : a + n - h = a - h + n
  /\ \A a, b \in Int : a - b \in Int
  OBVIOUS

\* A nonempty collection of subsets of a finite set has a minimal one.
LEMMA LeastSubset ==
    ASSUME NEW S, IsFiniteSet(S), NEW C, C \subseteq SUBSET S, C # {}
    PROVE  \E T \in C : \A U \in C : ~(U \subseteq T /\ U # T)
<1>1. IsWellFoundedOn(StrictSubsetOrdering(S), SUBSET S)
  BY Zenon, FS_StrictSubsetOrderingWellFounded, FS_FiniteSubsetsOfFinite
<1>2. PICK T \in C : \A U \in C : <<U, T>> \notin StrictSubsetOrdering(S)
  BY Zenon, <1>1, WFMin
<1> QED
  BY Zenon, <1>2 DEF StrictSubsetOrdering

\* One block for every unit of f at a member of S.
Blocks(f, S) == {p \in S \X Nat : p[2] < f[p[1]]}

\* The blocks of one more member are its own and those of the rest.
LEMMA BlocksAdd ==
    ASSUME NEW S, NEW x \in S, NEW f, f[x] \in Nat, IsFiniteSet(Blocks(f, S \ {x}))
    PROVE  /\ IsFiniteSet(Blocks(f, S))
           /\ Cardinality(Blocks(f, S)) = f[x] + Cardinality(Blocks(f, S \ {x}))
<1> DEFINE B == {x} \X (0..(f[x] - 1))
           R == Blocks(f, S \ {x})
<1>1. IsFiniteSet({x}) /\ Cardinality({x}) = 1
  BY Zenon, FS_Singleton
<1>2. IsFiniteSet(0..(f[x] - 1)) /\ Cardinality(0..(f[x] - 1)) = f[x]
  <2>1. ASSUME NEW b \in Int
        PROVE  IsFiniteSet(0..b) /\ Cardinality(0..b) = IF 0 > b THEN 0 ELSE b - 0 + 1
    <3>1. 0 \in Int
      OBVIOUS
    <3>2. QED
      BY Zenon, <2>1, <3>1, FS_Interval
  <2>2. f[x] - 1 \in Int /\ (IF 0 > f[x] - 1 THEN 0 ELSE (f[x] - 1) - 0 + 1) = f[x]
    OBVIOUS
  <2> QED
    BY Zenon, <2>1, <2>2
<1>3. IsFiniteSet(B) /\ Cardinality(B) = 1 * f[x]
  <2> DEFINE I == 0..(f[x] - 1)
  <2> HIDE DEF I
  <2>1. ASSUME NEW U, IsFiniteSet(U)
        PROVE  /\ IsFiniteSet({x} \X U)
               /\ Cardinality({x} \X U) = Cardinality({x}) * Cardinality(U)
    BY Zenon, <1>1, <2>1, FS_Product
  <2>2. IsFiniteSet(I) /\ Cardinality(I) = f[x]
    BY Zenon, <1>2 DEF I
  <2>3. IsFiniteSet({x} \X I) /\ Cardinality({x} \X I) = Cardinality({x}) * Cardinality(I)
    BY Zenon, <2>1, <2>2
  <2>4. IsFiniteSet({x} \X I) /\ Cardinality({x} \X I) = 1 * f[x]
    BY Zenon, <1>1, <2>2, <2>3
  <2> QED
    BY Zenon, <2>4 DEF I
<1>4. Blocks(f, S) = B \cup R
  <2>1. \A p \in Blocks(f, S) : p \in B \cup R
    BY DEF Blocks
  <2>2. \A p \in B \cup R : p \in Blocks(f, S)
    BY DEF Blocks
  <2> QED
    BY Zenon, <2>1, <2>2
<1>5. B \cap R = {}
  BY Zenon DEF Blocks
<1>6. Cardinality(B \cap R) = 0 /\ Cardinality(R) \in Nat
  BY Zenon, <1>5, FS_EmptySet, FS_CardinalityType
<1> HIDE DEF B, R
<1>7. IsFiniteSet(B \cup R) /\ Cardinality(B \cup R) = Cardinality(B) + Cardinality(R) - Cardinality(B \cap R)
  BY Zenon, <1>3, FS_Union DEF R
<1> QED
  BY <1>3, <1>4, <1>6, <1>7 DEF R

\* A finite set has finitely many blocks: a minimal counterexample would have a smaller one.
LEMMA BlocksFinite ==
    ASSUME NEW S, IsFiniteSet(S), NEW f, \A x \in S : f[x] \in Nat
    PROVE  IsFiniteSet(Blocks(f, S))
<1> DEFINE C == {T \in SUBSET S : ~IsFiniteSet(Blocks(f, T))}
<1> SUFFICES ASSUME C # {} PROVE FALSE
  BY Zenon
<1>0. C \subseteq SUBSET S
  BY Zenon
<1>1. PICK T \in C : \A U \in C : ~(U \subseteq T /\ U # T)
  <2> HIDE DEF C
  <2> QED
    BY <1>0, LeastSubset
<1>2. CASE T = {}
  <2>1. Blocks(f, T) = {}
    BY Zenon, <1>2 DEF Blocks
  <2> QED
    BY Zenon, <1>1, <2>1, FS_EmptySet
<1>3. CASE T # {}
  <2>1. PICK x \in T : TRUE
    BY Zenon, <1>3
  <2>2. T \ {x} \in SUBSET S /\ T \ {x} \subseteq T /\ T \ {x} # T
    BY Zenon, <1>1
  <2>3. IsFiniteSet(Blocks(f, T \ {x}))
    BY Zenon, <1>1, <2>2
  <2> QED
    BY Zenon, <1>1, <2>3, BlocksAdd
<1> QED
  BY Zenon, <1>2, <1>3

\* The community modules' sum, a recursive function on subsets, counts the blocks.
LEMMA SumIsBlocks ==
    ASSUME NEW S, IsFiniteSet(S), NEW f, \A x \in S : f[x] \in Nat
    PROVE  SumFunctionOnSet(f, S) = Cardinality(Blocks(f, S))
<1> DEFINE Rec(g) == [s \in SUBSET S |-> IF s = {} THEN 0
                        ELSE f[CHOOSE x \in s : TRUE] + g[s \ {CHOOSE x \in s : TRUE}]]
           g == CHOOSE h : h = Rec(h)
           w == [s \in SUBSET S |-> Cardinality(Blocks(f, s))]
<1>1. ASSUME NEW s \in SUBSET S PROVE IsFiniteSet(s) /\ IsFiniteSet(Blocks(f, s))
  BY Zenon, FS_Subset, BlocksFinite
<1>0. Cardinality(Blocks(f, {})) = 0
  <2>1. Blocks(f, {}) = {}
    BY Zenon DEF Blocks
  <2> QED
    BY Zenon, <2>1, FS_EmptySet
<1>2. ASSUME NEW s \in SUBSET S, s # {}
      PROVE  LET x == CHOOSE x \in s : TRUE
             IN  x \in s /\ s \ {x} \in SUBSET S /\ f[x] \in Nat /\ w[s] = f[x] + w[s \ {x}]
  <2> DEFINE x == CHOOSE y \in s : TRUE
  <2>1. x \in s
    BY Zenon, <1>2
  <2> HIDE DEF x
  <2>2. s \ {x} \in SUBSET S /\ f[x] \in Nat
    BY Zenon, <2>1
  <2>3. w[s] = f[x] + w[s \ {x}]
    BY Zenon, <1>1, <2>1, <2>2, BlocksAdd
  <2> QED
    BY Zenon, <2>1, <2>2, <2>3 DEF x
<1>3. w = Rec(w)
  BY Zenon, <1>0, <1>2
<1>4. g = Rec(g)
  BY Zenon, <1>3
<1> HIDE DEF g
<1>5. g[S] = w[S]
  <2> DEFINE C == {T \in SUBSET S : g[T] # w[T]}
  <2> SUFFICES ASSUME C # {} PROVE FALSE
    BY Zenon
  <2>0. C \subseteq SUBSET S
    BY Zenon
  <2>1. PICK T \in C : \A U \in C : ~(U \subseteq T /\ U # T)
    <3> HIDE DEF C
    <3> QED
      BY <2>0, LeastSubset
  <2>2. CASE T = {}
    BY Zenon, <1>0, <1>4, <2>1, <2>2
  <2>3. CASE T # {}
    <3> DEFINE x == CHOOSE y \in T : TRUE
    <3>1. x \in T /\ T \ {x} \in SUBSET S /\ w[T] = f[x] + w[T \ {x}]
      BY Zenon, <1>2, <2>1, <2>3
    <3>2. g[T] = f[x] + g[T \ {x}]
      BY Zenon, <1>4, <2>1, <2>3
    <3> HIDE DEF x
    <3>3. g[T \ {x}] = w[T \ {x}]
      <4>1. T \ {x} \notin C
        BY Zenon, <2>1, <3>1
      <4> QED
        BY Zenon, <3>1, <4>1
    <3> QED
      BY Zenon, <2>1, <3>1, <3>2, <3>3
  <2> QED
    BY Zenon, <2>2, <2>3
<1>6. SumFunctionOnSet(f, S) = g[S]
  BY Zenon DEF SumFunctionOnSet, FoldFunctionOnSet, MapThenFoldSet, g
<1> QED
  BY Zenon, <1>5, <1>6

\* The sum of naturals over a finite set is a natural number.
LEMMA SumType ==
    ASSUME NEW S, IsFiniteSet(S), NEW f, \A x \in S : f[x] \in Nat
    PROVE  SumFunctionOnSet(f, S) \in Nat
  BY Zenon, SumIsBlocks, BlocksFinite, FS_CardinalityType

\* The empty sum.
LEMMA SumEmpty == ASSUME NEW f PROVE SumFunctionOnSet(f, {}) = 0
<1>1. Blocks(f, {}) = {}  BY Zenon DEF Blocks
<1> QED  BY Zenon, <1>1, SumIsBlocks, FS_EmptySet

\* A sum splits along a subset.
LEMMA SumSplit ==
    ASSUME NEW S, IsFiniteSet(S), NEW T \in SUBSET S, NEW f, \A x \in S : f[x] \in Nat
    PROVE  SumFunctionOnSet(f, S) = SumFunctionOnSet(f, T) + SumFunctionOnSet(f, S \ T)
<1>1. IsFiniteSet(T) /\ IsFiniteSet(S \ T)  BY Zenon, FS_Subset
<1> DEFINE B == Blocks(f, T)
           R == Blocks(f, S \ T)
<1>2. IsFiniteSet(B) /\ IsFiniteSet(R)  BY Zenon, <1>1, BlocksFinite
<1>3. Blocks(f, S) = B \cup R  BY Zenon DEF Blocks
<1>4. B \cap R = {}  BY Zenon DEF Blocks
<1>5. Cardinality(B \cap R) = 0 /\ Cardinality(B) \in Nat /\ Cardinality(R) \in Nat
  BY Zenon, <1>2, <1>4, FS_EmptySet, FS_CardinalityType
<1>6. /\ SumFunctionOnSet(f, S) = Cardinality(Blocks(f, S))
      /\ SumFunctionOnSet(f, T) = Cardinality(B) /\ SumFunctionOnSet(f, S \ T) = Cardinality(R)
  BY Zenon, <1>1, SumIsBlocks
<1> HIDE DEF B, R
<1>7. Cardinality(B \cup R) = Cardinality(B) + Cardinality(R) - Cardinality(B \cap R)
  BY Zenon, <1>2, FS_Union
<1> QED  BY <1>3, <1>5, <1>6, <1>7

\* One member more or less.
LEMMA SumAdd ==
    ASSUME NEW S, IsFiniteSet(S), NEW x \in S, NEW f, \A y \in S : f[y] \in Nat
    PROVE  SumFunctionOnSet(f, S) = f[x] + SumFunctionOnSet(f, S \ {x})
<1>1. IsFiniteSet(S \ {x})  BY Zenon, FS_Subset
<1>2. IsFiniteSet(Blocks(f, S \ {x}))  BY Zenon, <1>1, BlocksFinite
<1>3. Cardinality(Blocks(f, S)) = f[x] + Cardinality(Blocks(f, S \ {x}))  BY Zenon, <1>2, BlocksAdd
<1> QED  BY Zenon, <1>1, <1>3, SumIsBlocks

\* A sum only depends on the values at the members.
LEMMA SumSame ==
    ASSUME NEW S, IsFiniteSet(S), NEW f, NEW g, \A x \in S : f[x] \in Nat /\ g[x] = f[x]
    PROVE  SumFunctionOnSet(g, S) = SumFunctionOnSet(f, S)
<1>1. Blocks(g, S) = Blocks(f, S)  BY Zenon DEF Blocks
<1>2. \A x \in S : g[x] \in Nat  BY Zenon
<1> QED  BY Zenon, <1>1, <1>2, SumIsBlocks

-----------------------------------------------------------------------------
(* The cache's store.                                                      *)

\* No element occurs twice.
NoRepeats(r) == \A i, j \in 1..Len(r) : r[i] = r[j] => i = j

\* A nonempty set of bounded naturals has a smallest element, and Min is it.
LEMMA MinOfNaturals ==
  ASSUME NEW m \in Nat, NEW S, S \subseteq 0..m, S # {}
  PROVE  Min(S) \in S /\ \A n \in S : Min(S) <= n
<1> DEFINE M == 0..m
           C == {0..n : n \in S}
<1>0. \A n \in S : 0..n \subseteq 0..m  OBVIOUS
<1>1. C \subseteq SUBSET M  BY Zenon, <1>0
<1>6. C # {}  BY Zenon
<1>2. IsFiniteSet(M)  BY FS_Interval
<1>3. PICK T \in C : \A U \in C : ~(U \subseteq T /\ U # T)
  <2> HIDE DEF C, M
  <2> QED  BY <1>1, <1>2, <1>6, LeastSubset
<1>4. PICK x \in S : T = 0..x  BY Zenon
<1>5. ASSUME NEW y \in S PROVE x <= y
  <2> SUFFICES ASSUME y < x PROVE FALSE  OBVIOUS
  <2>1. 0..y \in C  BY Zenon
  <2>2. 0..y \subseteq T /\ x \in T /\ x \notin 0..y  BY <1>4
  <2> QED  BY Zenon, <1>3, <2>1, <2>2
<1> QED  BY Zenon, <1>5 DEF Min

\* Two sequences one after the other.
LEMMA ConcatFacts ==
  ASSUME NEW A, NEW a \in Seq(A), NEW b \in Seq(A)
  PROVE  /\ a \o b \in Seq(A) /\ Len(a \o b) = Len(a) + Len(b)
         /\ \A k \in 1..(Len(a) + Len(b)) :
              (a \o b)[k] = IF k <= Len(a) THEN a[k] ELSE b[k - Len(a)]
OBVIOUS

\* Removing the one occurrence of d.
LEMMA WithoutFacts ==
  ASSUME NEW A, NEW r \in Seq(A), NoRepeats(r), NEW d
  PROVE  /\ Without(r, d) \in Seq(A) /\ NoRepeats(Without(r, d))
         /\ Range(Without(r, d)) = Range(r) \ {d}
<1>1. CASE ~\E i \in 1..Len(r) : r[i] = d
  <2>1. {i \in 1..Len(r) : r[i] = d} = {}  BY Zenon, <1>1
  <2>2. Without(r, d) = r  BY Zenon, <2>1 DEF Without
  <2>3. DOMAIN r = 1..Len(r)  OBVIOUS
  <2>4. d \notin Range(r)  BY Zenon, <1>1, <2>3 DEF Range
  <2> QED  BY Zenon, <2>2, <2>4
<1>2. CASE \E i \in 1..Len(r) : r[i] = d
  <2>1. PICK i \in 1..Len(r) : r[i] = d
    BY Zenon, <1>2
  <2> DEFINE I == {j \in 1..Len(r) : r[j] = d}
  <2>2. Min(I) = i
    <3>1. I = {i}  BY Zenon, <2>1 DEF NoRepeats
    <3>2. Len(r) \in Nat /\ {i} \subseteq 0..Len(r) /\ {i} # {}  BY <2>1
    <3>3. Min({i}) \in {i}  BY Zenon, <3>2, MinOfNaturals
    <3> QED  BY Zenon, <3>1, <3>3
  <2>3. Without(r, d) = SubSeq(r, 1, i-1) \o SubSeq(r, i+1, Len(r))
    BY Zenon, <1>2, <2>1, <2>2 DEF Without
  <2> DEFINE a == SubSeq(r, 1, i-1)
             b == SubSeq(r, i+1, Len(r))
             q == a \o b
  <2>4. /\ a \in Seq(A) /\ Len(a) = i - 1 /\ \A k \in 1..(i-1) : a[k] = r[k]
        /\ b \in Seq(A) /\ Len(b) = Len(r) - i /\ \A k \in 1..(Len(r) - i) : b[k] = r[i + k]
    BY <2>1
  <2> HIDE DEF a, b
  <2>5. q \in Seq(A) /\ Len(q) = Len(r) - 1
    BY <2>1, <2>4, ConcatFacts
  <2>6. \A k \in 1..Len(q) : q[k] = r[IF k < i THEN k ELSE k + 1]
    <3> SUFFICES ASSUME NEW k \in 1..Len(q) PROVE q[k] = r[IF k < i THEN k ELSE k + 1]
      BY Zenon
    <3>1. q[k] = IF k <= Len(a) THEN a[k] ELSE b[k - Len(a)]  BY <2>4, <2>5, ConcatFacts
    <3>2. CASE k < i  BY <2>4, <3>1, <3>2
    <3>3. CASE ~(k < i)
      <4>1. k - Len(a) \in 1..(Len(r) - i) /\ i + (k - Len(a)) = k + 1  BY <2>4, <2>5, <3>3
      <4> QED  BY <2>4, <3>1, <3>3, <4>1
    <3> QED  BY Zenon, <3>2, <3>3
  <2> HIDE DEF q
  <2>7. NoRepeats(q)
    <3> SUFFICES ASSUME NEW k \in 1..Len(q), NEW l \in 1..Len(q), q[k] = q[l] PROVE k = l
      BY Zenon DEF NoRepeats
    <3> DEFINE from(n) == IF n < i THEN n ELSE n + 1
    <3>1. from(k) \in 1..Len(r) /\ from(l) \in 1..Len(r)  BY <2>1, <2>5
    <3>2. r[from(k)] = r[from(l)]  BY Zenon, <2>6
    <3>3. from(k) = from(l)  BY Zenon, <3>1, <3>2 DEF NoRepeats
    <3> QED  BY <2>1, <2>5, <3>3
  <2>8. Range(q) = Range(r) \ {d}
    <3>1. ASSUME NEW x \in Range(q) PROVE x \in Range(r) \ {d}
      <4>1. PICK k \in 1..Len(q) : x = q[k]  BY <2>5 DEF Range
      <4> DEFINE m == IF k < i THEN k ELSE k + 1
      <4>2. m \in 1..Len(r) /\ m # i /\ x = r[m]  BY <2>1, <2>5, <2>6, <4>1
      <4> HIDE DEF m
      <4>3. x # d  BY Zenon, <2>1, <4>2 DEF NoRepeats
      <4> QED  BY <4>2, <4>3 DEF Range
    <3>2. ASSUME NEW x \in Range(r) \ {d} PROVE x \in Range(q)
      <4>1. PICK k \in 1..Len(r) : x = r[k]  BY DEF Range
      <4>2. CASE k < i
        <5>1. k \in 1..Len(q) /\ q[k] = x  BY <2>1, <2>5, <2>6, <4>1, <4>2
        <5> QED  BY <2>5, <5>1 DEF Range
      <4>3. CASE ~(k < i)
        <5>1. k # i  BY Zenon, <2>1, <4>1
        <5>2. k - 1 \in 1..Len(q) /\ ~(k - 1 < i) /\ (k - 1) + 1 = k  BY <2>1, <2>5, <4>3, <5>1
        <5>3. q[k - 1] = x  BY Zenon, <2>6, <4>1, <5>2
        <5> QED  BY <2>5, <5>2, <5>3 DEF Range
      <4> QED  BY Zenon, <4>2, <4>3
    <3> QED  BY Zenon, <3>1, <3>2
  <2> QED  BY Zenon, <2>3, <2>5, <2>7, <2>8 DEF q, a, b
<1> QED  BY Zenon, <1>1, <1>2

\* Touching moves d to the end, or queues it there, once.
LEMMA TouchFacts ==
  ASSUME NEW A, NEW r \in Seq(A), NoRepeats(r), NEW d \in A
  PROVE  /\ Touch(r, d) \in Seq(A) /\ NoRepeats(Touch(r, d))
         /\ Range(Touch(r, d)) = Range(r) \cup {d}
<1> DEFINE q == Without(r, d)
           t == Append(q, d)
<1>1. q \in Seq(A) /\ NoRepeats(q) /\ Range(q) = Range(r) \ {d}
  BY Zenon, WithoutFacts
<1> HIDE DEF q
<1>2. t \in Seq(A) /\ Len(t) = Len(q) + 1 /\ t[Len(t)] = d /\ \A i \in 1..Len(q) : t[i] = q[i]
  BY <1>1
<1> HIDE DEF t
<1>3. \A i \in 1..Len(q) : q[i] # d  BY <1>1 DEF Range
<1>4. NoRepeats(t)
  <2> SUFFICES ASSUME NEW i \in 1..Len(t), NEW j \in 1..Len(t), t[i] = t[j] PROVE i = j
    BY Zenon DEF NoRepeats
  <2>1. Len(q) \in Nat /\ Len(t) = Len(q) + 1  BY <1>1, <1>2
  <2>2. CASE i = Len(t) /\ j # Len(t)
    <3>1. j \in 1..Len(q)  BY <2>1, <2>2
    <3> QED  BY Zenon, <1>2, <1>3, <2>2, <3>1
  <2>3. CASE i # Len(t) /\ j = Len(t)
    <3>1. i \in 1..Len(q)  BY <2>1, <2>3
    <3> QED  BY Zenon, <1>2, <1>3, <2>3, <3>1
  <2>4. CASE i # Len(t) /\ j # Len(t)
    <3>1. i \in 1..Len(q) /\ j \in 1..Len(q)  BY <2>1, <2>4
    <3> QED  BY Zenon, <1>1, <1>2, <3>1 DEF NoRepeats
  <2> QED  BY Zenon, <2>2, <2>3, <2>4
<1>5. Range(t) = Range(q) \cup {d}
  <2>1. ASSUME NEW x \in Range(t) PROVE x \in Range(q) \cup {d}
    BY <1>1, <1>2 DEF Range
  <2>2. d \in Range(t)
    <3>1. Len(t) \in 1..Len(t)  BY <1>1, <1>2
    <3> QED  BY <1>2, <3>1 DEF Range
  <2>3. ASSUME NEW x \in Range(q) PROVE x \in Range(t)
    BY <1>1, <1>2 DEF Range
  <2> QED  BY Zenon, <2>1, <2>2, <2>3
<1>6. d \in Range(r) \/ Range(r) \ {d} = Range(r)  BY Zenon
<1> QED  BY Zenon, <1>1, <1>2, <1>4, <1>5 DEF Touch, t, q

\* What is left after the first n were popped.
LEMMA SuffixFacts ==
  ASSUME NEW A, NEW r \in Seq(A), NoRepeats(r), NEW n \in 0..Len(r)
  PROVE  LET q == SubSeq(r, n + 1, Len(r))
         IN /\ q \in Seq(A) /\ NoRepeats(q)
            /\ Range(q) = Range(r) \ {r[i] : i \in 1..n}
<1> DEFINE q == SubSeq(r, n + 1, Len(r))
<1>1. q \in Seq(A) /\ Len(q) = Len(r) - n /\ \A k \in 1..Len(q) : q[k] = r[n + k]
  OBVIOUS
<1> HIDE DEF q
<1>2. NoRepeats(q)  BY <1>1 DEF NoRepeats
<1>3. Range(q) = Range(r) \ {r[i] : i \in 1..n}
  <2>1. ASSUME NEW x \in Range(q) PROVE x \in Range(r) \ {r[i] : i \in 1..n}
    <3>1. PICK k \in 1..Len(q) : x = q[k]  BY <1>1 DEF Range
    <3>2. x = r[n + k] /\ n + k \in 1..Len(r) /\ n + k \notin 1..n  BY <1>1, <3>1
    <3> QED  BY <3>2 DEF Range, NoRepeats
  <2>2. ASSUME NEW x \in Range(r) \ {r[i] : i \in 1..n} PROVE x \in Range(q)
    <3>1. PICK k \in 1..Len(r) : x = r[k]  BY DEF Range
    <3>2. k - n \in 1..Len(q) /\ q[k - n] = x  BY <1>1, <3>1
    <3> QED  BY <1>1, <3>2 DEF Range
  <2> QED  BY Zenon, <2>1, <2>2
<1> QED  BY Zenon, <1>1, <1>2, <1>3 DEF q

\* A sequence without repeats has as many places as elements.
LEMMA NoRepeatsCounts ==
  ASSUME NEW A, NEW r \in Seq(A), NoRepeats(r)
  PROVE  IsFiniteSet(Range(r)) /\ Cardinality(Range(r)) = Len(r)
<1>1. r \in Bijection(1..Len(r), Range(r))
  <2>1. r \in [1..Len(r) -> Range(r)]  BY DEF Range
  <2>2. \A i, j \in 1..Len(r) : r[i] = r[j] => i = j  BY Zenon DEF NoRepeats
  <2>3. \A x \in Range(r) : \E i \in 1..Len(r) : r[i] = x  BY DEF Range
  <2> QED  BY Zenon, <2>1, <2>2, <2>3 DEF Bijection, Injection, Surjection, IsInjective
<1>2. Len(r) \in Nat /\ ExistsBijection(1..Len(r), Range(r))
  BY <1>1 DEF ExistsBijection
<1> QED  BY Zenon, <1>2, FS_NatBijection, FS_CountingElements

\* The store in step: no digest is queued twice, the queued digests are the
\* entries, every entry is the artifact its digest names, and both limits hold.
StoreInv ==
  /\ recency \in Seq(Artifacts) /\ NoRepeats(recency) /\ Range(recency) = DOMAIN entries
  /\ \A d \in DOMAIN entries : entries[d] = d
  /\ bytes = SumFunctionOnSet(Size, DOMAIN entries) /\ bytes <= MaxBytes
  /\ Cardinality(DOMAIN entries) <= MaxEntries
  /\ impossible = {}

\* What the queue says of the entries.
LEMMA StoreFacts ==
  ASSUME StoreInv
  PROVE  /\ DOMAIN entries \subseteq Artifacts
         /\ IsFiniteSet(DOMAIN entries) /\ Cardinality(DOMAIN entries) = Len(recency)
         /\ \A d \in DOMAIN entries : Size[d] \in Nat /\ Size[d] > 0
<1>1. DOMAIN entries \subseteq Artifacts  BY DEF StoreInv, Range
<1> QED  BY <1>1, CacheLimits, NoRepeatsCounts DEF StoreInv

\* The sum of the module is the sum of the lemmas.
LEMMA SizeSum ==
  ASSUME NEW D PROVE MapThenSumSet(LAMBDA e : Size[e], D) = SumFunctionOnSet(Size, D)
  BY Zenon DEF MapThenSumSet, SumFunctionOnSet, FoldFunctionOnSet, MapThenFoldSet

\* Popping n digests leaves the bytes of the others.
LEMMA RemainingFacts ==
  ASSUME StoreInv, NEW n \in 0..Len(recency)
  PROVE  /\ Remaining(n) = SumFunctionOnSet(Size, DOMAIN entries \ Popped(n))
         /\ Remaining(n) \in Nat
<1> DEFINE D == DOMAIN entries
           P == Popped(n)
<1>1. IsFiniteSet(D) /\ \A d \in D : Size[d] \in Nat  BY Zenon, StoreFacts
<1>2. P \in SUBSET D  BY Zenon DEF Popped
<1>3. bytes = SumFunctionOnSet(Size, D)  BY Zenon DEF StoreInv
<1>4. Remaining(n) = bytes - SumFunctionOnSet(Size, P)  BY Zenon, SizeSum DEF Remaining
<1> HIDE DEF D, P
<1>5. IsFiniteSet(P) /\ IsFiniteSet(D \ P)  BY Zenon, <1>1, <1>2, FS_Subset
<1>6. SumFunctionOnSet(Size, D) = SumFunctionOnSet(Size, P) + SumFunctionOnSet(Size, D \ P)
  BY Zenon, <1>1, <1>2, SumSplit
<1>7. SumFunctionOnSet(Size, P) \in Nat /\ SumFunctionOnSet(Size, D \ P) \in Nat
  BY Zenon, <1>1, <1>2, <1>5, SumType
<1> QED  BY <1>3, <1>4, <1>6, <1>7 DEF D, P

\* Store::insert never runs out of digests to pop: an artifact within both limits
\* fits at the latest once all are gone, and Evictions is a number that works.
LEMMA EvictionFits ==
  ASSUME StoreInv, NEW b \in Artifacts, Size[b] <= MaxBytes, MaxEntries > 0
  PROVE  /\ Evictions(b) \in 0..Len(recency) /\ FitsAfter(Evictions(b), b)
         /\ \E n \in 0..Len(recency) : FitsAfter(n, b)
<1> DEFINE S == {n \in 0..Len(recency) : FitsAfter(n, b)}
           m == Len(recency)
<1>1. m \in Nat  BY DEF StoreInv
<1>2. Popped(m) = DOMAIN entries
  <2>1. DOMAIN recency = 1..m  BY DEF StoreInv
  <2>2. {recency[i] : i \in 1..m} = DOMAIN entries  BY Zenon, <2>1 DEF StoreInv, Range
  <2> QED  BY Zenon, <2>2 DEF Popped
<1>3. Remaining(m) = 0
  <2>1. DOMAIN entries \ Popped(m) = {}  BY Zenon, <1>2
  <2>2. m \in 0..Len(recency)  BY <1>1
  <2>3. Remaining(m) = SumFunctionOnSet(Size, DOMAIN entries \ Popped(m))
    <3> HIDE DEF m
    <3> QED  BY Zenon, <2>2, RemainingFacts
  <2> QED  BY Zenon, <2>1, <2>3, SumEmpty
<1>4. Cardinality(DOMAIN entries \ Popped(m)) = 0
  <2>1. DOMAIN entries \ Popped(m) = {}  BY Zenon, <1>2
  <2> QED  BY Zenon, <2>1, FS_EmptySet
<1>5. FitsAfter(m, b)
  BY <1>3, <1>4, CacheLimits DEF FitsAfter
<1>6. m \in S  BY <1>1, <1>5
<1>7. S \subseteq 0..m  BY Zenon
<1>8. Min(S) \in S
  <2> HIDE DEF S, m
  <2> QED  BY Zenon, <1>1, <1>6, <1>7, MinOfNaturals
<1>9. Evictions(b) = Min(S)  BY Zenon DEF Evictions
<1> QED  BY Zenon, <1>6, <1>8, <1>9

\* An insertion evicts, counts and queues in step.
LEMMA InsertInv ==
  ASSUME StoreInv, NEW d \in Artifacts, d \notin DOMAIN entries, Size[d] <= MaxBytes, MaxEntries > 0,
         Insert(d, d), UNCHANGED impossible
  PROVE  StoreInv'
<1> DEFINE n == Evictions(d)
           q == SubSeq(recency, n + 1, Len(recency))
           K == DOMAIN entries \ Popped(n)
<1>1. n \in 0..Len(recency) /\ FitsAfter(n, d)  BY Zenon, EvictionFits
<1>2. /\ recency' = Touch(q, d)
      /\ entries' = [e \in K \cup {d} |-> IF e = d THEN d ELSE entries[e]]
      /\ bytes' = Remaining(n) + Size[d]
  BY Zenon DEF Insert
<1>3. Remaining(n) = SumFunctionOnSet(Size, K) /\ Remaining(n) \in Nat
  BY Zenon, <1>1, RemainingFacts
<1>4. Remaining(n) + Size[d] <= MaxBytes /\ Cardinality(K) < MaxEntries
  BY Zenon, <1>1 DEF FitsAfter
<1>5. q \in Seq(Artifacts) /\ NoRepeats(q) /\ Range(q) = K
  <2>1. q \in Seq(Artifacts) /\ NoRepeats(q) /\ Range(q) = Range(recency) \ {recency[i] : i \in 1..n}
    <3> HIDE DEF n
    <3> QED  BY Zenon, <1>1, SuffixFacts DEF StoreInv
  <2>2. Range(recency) \ {recency[i] : i \in 1..n} = K
    BY Zenon DEF StoreInv, Popped
  <2> QED  BY Zenon, <2>1, <2>2
<1>6. IsFiniteSet(K) /\ \A e \in K : Size[e] \in Nat
  BY Zenon, StoreFacts, FS_Subset
<1>7. d \notin K /\ \A e \in K : e \in DOMAIN entries  BY Zenon
<1> HIDE DEF n, q, K
<1>8. recency' \in Seq(Artifacts) /\ NoRepeats(recency') /\ Range(recency') = K \cup {d}
  BY <1>2, <1>5, TouchFacts
<1>9. DOMAIN entries' = K \cup {d} /\ \A e \in DOMAIN entries' : entries'[e] = e
  BY Zenon, <1>2, <1>7 DEF StoreInv
<1>10. SumFunctionOnSet(Size, K \cup {d}) = Size[d] + SumFunctionOnSet(Size, K)
  <2>1. IsFiniteSet(K \cup {d}) /\ (K \cup {d}) \ {d} = K  BY Zenon, <1>6, <1>7, FS_AddElement
  <2>2. \A e \in K \cup {d} : Size[e] \in Nat  BY Zenon, <1>6, CacheLimits
  <2>3. SumFunctionOnSet(Size, K \cup {d}) = Size[d] + SumFunctionOnSet(Size, (K \cup {d}) \ {d})
    BY Zenon, <2>1, <2>2, SumAdd
  <2> QED  BY Zenon, <2>1, <2>3
<1>11. Cardinality(K \cup {d}) <= MaxEntries
  <2>1. Cardinality(K) \in Nat /\ MaxEntries \in Nat  BY Zenon, <1>6, FS_CardinalityType, CacheLimits
  <2>2. Cardinality(K \cup {d}) = Cardinality(K) + 1  BY Zenon, <1>6, <1>7, FS_AddElement
  <2> QED  BY <1>4, <2>1, <2>2
<1>12. Size[d] \in Nat  BY Zenon, CacheLimits
<1>13. bytes' = SumFunctionOnSet(Size, DOMAIN entries') /\ bytes' <= MaxBytes
  BY <1>2, <1>3, <1>4, <1>9, <1>10, <1>12
<1> QED  BY Zenon, <1>8, <1>9, <1>11, <1>13 DEF StoreInv

\* Touching an entry.
LEMMA TouchInv ==
  ASSUME StoreInv, NEW d \in DOMAIN entries, recency' = Touch(recency, d),
         UNCHANGED <<entries, bytes, impossible>>
  PROVE  StoreInv'
<1>1. d \in Artifacts  BY Zenon, StoreFacts
<1>2. recency' \in Seq(Artifacts) /\ NoRepeats(recency') /\ Range(recency') = DOMAIN entries
  <2>1. recency \in Seq(Artifacts) /\ NoRepeats(recency) /\ Range(recency) = DOMAIN entries
    BY Zenon DEF StoreInv
  <2>2. /\ Touch(recency, d) \in Seq(Artifacts) /\ NoRepeats(Touch(recency, d))
        /\ Range(Touch(recency, d)) = Range(recency) \cup {d}
    BY <1>1, <2>1, TouchFacts
  <2> QED  BY Zenon, <2>1, <2>2
<1> QED  BY Zenon, <1>2 DEF StoreInv

\* A verified upload keeps the store in step, whatever it is answered; the
\* replies for a conflicting entry and for an exhausted queue are not given.
LEMMA StoreStep ==
  ASSUME StoreInv, NEW d \in Artifacts, NEW status, Store(d, d, status)
  PROVE  StoreInv'
<1>1. CASE d \in DOMAIN entries
  <2>1. recency' = Touch(recency, d) /\ UNCHANGED <<entries, bytes, impossible>>
    BY Zenon, <1>1 DEF Store, StoreInv
  <2> QED  BY Zenon, <1>1, <2>1, TouchInv
<1>2. CASE d \notin DOMAIN entries /\ (Size[d] > MaxBytes \/ MaxEntries = 0)
  <2>1. Size[d] \in Nat /\ MaxBytes \in Nat /\ MaxEntries \in Nat  BY Zenon, CacheLimits
  <2>2. UNCHANGED <<store, impossible>>
    BY <1>2, <2>1 DEF Store
  <2> QED  BY Zenon, <2>2 DEF StoreInv, store
<1>3. CASE d \notin DOMAIN entries /\ Size[d] <= MaxBytes /\ MaxEntries > 0
  <2>1. Size[d] \in Nat /\ MaxBytes \in Nat /\ MaxEntries \in Nat  BY Zenon, CacheLimits
  <2>2. \E n \in 0..Len(recency) : FitsAfter(n, d)  BY Zenon, <1>3, EvictionFits
  <2>3. Insert(d, d) /\ UNCHANGED impossible
    BY <1>3, <2>1, <2>2 DEF Store
  <2> QED  BY Zenon, <1>3, <2>3, InsertInv
<1>4. Size[d] \in Nat /\ MaxBytes \in Nat /\ MaxEntries \in Nat  BY Zenon, CacheLimits
<1> QED  BY <1>1, <1>2, <1>3, <1>4

-----------------------------------------------------------------------------
(* The server's permits.                                                   *)

\* What a request of kind k can look like inside the server.
SlotOK(k, s) ==
  /\ s \in Slot
  /\ k = "get" => s.at # "body"
  /\ k = "put" => s.at # "sending" /\ (s.at \in {"auth", "body"} => s.digest \in Artifacts)

SlotInv ==
  /\ server \in [Clients -> [Kinds -> Slot]]
  /\ \A c \in Clients, k \in Kinds : SlotOK(k, server[c][k])

Inside(k, where) == {c \in Clients : server[c][k].at = where}
Moves(c, k, s) == server' = [server EXCEPT ![c][k] = s]
Takes(s, where) == IF s.at = where THEN 1 ELSE 0

\* Permits are conserved: each one is free or held by a request in its place.
PermitInv ==
  /\ auth \in Nat /\ uploads \in Nat /\ responses \in Nat
  /\ IsFiniteSet(Inside("get", "auth")) /\ IsFiniteSet(Inside("put", "auth"))
  /\ IsFiniteSet(Inside("put", "body")) /\ IsFiniteSet(Inside("get", "sending"))
  /\ auth + Cardinality(Inside("get", "auth")) + Cardinality(Inside("put", "auth")) = MaxAuth
  /\ uploads + Cardinality(Inside("put", "body")) = MaxUploads
  /\ responses + Cardinality(Inside("get", "sending")) = MaxResponses

\* One request moves; the others stay.
LEMMA SlotUpdate ==
  ASSUME SlotInv, NEW c \in Clients, NEW k \in Kinds, NEW s, SlotOK(k, s),
         Moves(c, k, s)
  PROVE  /\ SlotInv'
         /\ server'[c][k] = s
         /\ \A x \in Clients, j \in Kinds : x # c \/ j # k => server'[x][j] = server[x][j]
<1>1. s \in Slot  BY Zenon DEF SlotOK
<1>2. server' \in [Clients -> [Kinds -> Slot]]  BY Zenon, <1>1 DEF SlotInv, Moves
<1>3. server'[c][k] = s  BY Zenon DEF SlotInv, Moves
<1>4. \A x \in Clients, j \in Kinds : x # c \/ j # k => server'[x][j] = server[x][j]
  BY Zenon DEF SlotInv, Moves
<1>5. \A x \in Clients, j \in Kinds : SlotOK(j, server'[x][j])
  <2> SUFFICES ASSUME NEW x \in Clients, NEW j \in Kinds PROVE SlotOK(j, server'[x][j])
    BY Zenon
  <2>1. CASE x = c /\ j = k  BY Zenon, <1>3, <2>1
  <2>2. CASE x # c \/ j # k
    <3>1. server'[x][j] = server[x][j]  BY Zenon, <1>4, <2>2
    <3> QED  BY Zenon, <3>1 DEF SlotInv
  <2> QED  BY Zenon, <2>1, <2>2
<1>6. SlotInv'  BY Zenon, <1>2, <1>5 DEF SlotInv, SlotOK
<1> QED  BY Zenon, <1>3, <1>4, <1>6

\* How many requests of kind j are where, when one of kind k moves.
LEMMA InsideUpdate ==
  ASSUME SlotInv, NEW c \in Clients, NEW k \in Kinds, NEW s, SlotOK(k, s),
         Moves(c, k, s),
         NEW j \in Kinds, NEW where, IsFiniteSet(Inside(j, where))
  PROVE  /\ IsFiniteSet(Inside(j, where)')
         /\ Cardinality(Inside(j, where)') = Cardinality(Inside(j, where)) +
              (IF j = k THEN Takes(s, where) - Takes(server[c][k], where) ELSE 0)
<1> DEFINE I == Inside(j, where)
           J == {x \in Clients : server'[x][j].at = where}
<1>1. /\ server'[c][k] = s
      /\ \A x \in Clients, i \in Kinds : x # c \/ i # k => server'[x][i] = server[x][i]
  BY Zenon, SlotUpdate
<1>2. Cardinality(I) \in Nat  BY Zenon, FS_CardinalityType
<1>6. Inside(j, where)' = J  BY Zenon DEF Inside
<1>3. CASE j # k
  <2>1. J = I  BY Zenon, <1>1, <1>3 DEF Inside
  <2> HIDE DEF I, J
  <2> QED  BY <1>2, <1>3, <1>6, <2>1 DEF I
<1>4. CASE j = k /\ s.at = where
  <2>1. J = I \cup {c}  BY Zenon, <1>1, <1>4 DEF Inside
  <2>2. c \in I <=> server[c][k].at = where  BY Zenon, <1>4 DEF Inside
  <2>3. /\ IsFiniteSet(I \cup {c})
        /\ Cardinality(I \cup {c}) = IF c \in I THEN Cardinality(I) ELSE Cardinality(I) + 1
    BY Zenon, FS_AddElement
  <2>4. /\ Takes(s, where) = 1
        /\ Takes(server[c][k], where) = IF c \in I THEN 1 ELSE 0
    BY Zenon, <1>4, <2>2 DEF Takes
  <2> HIDE DEF I, J
  <2>5. Cardinality(J) = Cardinality(I) + (Takes(s, where) - Takes(server[c][k], where))
    BY <1>2, <2>1, <2>3, <2>4
  <2> QED  BY Zenon, <1>4, <1>6, <2>1, <2>3, <2>5 DEF I
<1>5. CASE j = k /\ s.at # where
  <2>1. J = I \ {c}  BY Zenon, <1>1, <1>5 DEF Inside
  <2>2. c \in I <=> server[c][k].at = where  BY Zenon, <1>5 DEF Inside
  <2>3. /\ IsFiniteSet(I \ {c})
        /\ Cardinality(I \ {c}) = IF c \in I THEN Cardinality(I) - 1 ELSE Cardinality(I)
    BY Zenon, FS_RemoveElement
  <2> HIDE DEF I, J
  <2> QED  BY <1>2, <1>5, <1>6, <2>1, <2>2, <2>3 DEF I, Takes
<1> QED  BY Zenon, <1>3, <1>4, <1>5

\* A request that moves, with the permits its old and its new place account for.
LEMMA RequestStep ==
  ASSUME SlotInv, PermitInv, NEW c \in Clients, NEW k \in Kinds, NEW s, SlotOK(k, s),
         Moves(c, k, s),
         auth' \in Nat, uploads' \in Nat, responses' \in Nat,
         auth' = auth + Takes(server[c][k], "auth") - Takes(s, "auth"),
         uploads' = uploads + Takes(server[c][k], "body") - Takes(s, "body"),
         responses' = responses + Takes(server[c][k], "sending") - Takes(s, "sending")
  PROVE  SlotInv' /\ PermitInv'
<1>1. SlotInv'  BY Zenon, SlotUpdate
<1>2. SlotOK(k, server[c][k])  BY Zenon DEF SlotInv
<1>3. k = "get" \/ k = "put"  BY Zenon DEF Kinds
<1>4. "get" \in Kinds /\ "put" \in Kinds  BY Zenon DEF Kinds
<1> DEFINE N(j, w) == Cardinality(Inside(j, w))
           D(j, w) == IF j = k THEN Takes(s, w) - Takes(server[c][k], w) ELSE 0
<1>5. /\ IsFiniteSet(Inside("get", "auth")') /\ N("get", "auth")' = N("get", "auth") + D("get", "auth")
      /\ IsFiniteSet(Inside("put", "auth")') /\ N("put", "auth")' = N("put", "auth") + D("put", "auth")
      /\ IsFiniteSet(Inside("put", "body")') /\ N("put", "body")' = N("put", "body") + D("put", "body")
      /\ IsFiniteSet(Inside("get", "sending")')
      /\ N("get", "sending")' = N("get", "sending") + D("get", "sending")
  <2>1. /\ IsFiniteSet(Inside("get", "auth")) /\ IsFiniteSet(Inside("put", "auth"))
        /\ IsFiniteSet(Inside("put", "body")) /\ IsFiniteSet(Inside("get", "sending"))
    BY Zenon DEF PermitInv
  <2>2. /\ IsFiniteSet(Inside("get", "auth")')
        /\ N("get", "auth")' = N("get", "auth") + D("get", "auth")
    BY SMTT(30), <1>4, <2>1, InsideUpdate
  <2>3. /\ IsFiniteSet(Inside("put", "auth")')
        /\ N("put", "auth")' = N("put", "auth") + D("put", "auth")
    BY SMTT(30), <1>4, <2>1, InsideUpdate
  <2>4. /\ IsFiniteSet(Inside("put", "body")')
        /\ N("put", "body")' = N("put", "body") + D("put", "body")
    BY SMTT(30), <1>4, <2>1, InsideUpdate
  <2>5. /\ IsFiniteSet(Inside("get", "sending")')
        /\ N("get", "sending")' = N("get", "sending") + D("get", "sending")
    BY SMTT(30), <1>4, <2>1, InsideUpdate
  <2> QED  BY Zenon, <2>2, <2>3, <2>4, <2>5
<1>6. /\ N("get", "auth") \in Nat /\ N("put", "auth") \in Nat
      /\ N("put", "body") \in Nat /\ N("get", "sending") \in Nat
  BY Zenon, FS_CardinalityType DEF PermitInv
<1>7. \A w \in {"auth", "body", "sending"} : Takes(s, w) \in Int /\ Takes(server[c][k], w) \in Int
  BY DEF Takes
<1>8. D("get", "auth") + D("put", "auth") = Takes(s, "auth") - Takes(server[c][k], "auth")
  <2> DEFINE X == Takes(s, "auth") - Takes(server[c][k], "auth")
  <2>1. \/ D("get", "auth") = X /\ D("put", "auth") = 0
        \/ D("get", "auth") = 0 /\ D("put", "auth") = X
    BY Zenon, <1>3
  <2>2. X \in Int  BY Zenon, <1>7, AddTake
  <2> HIDE DEF X, D
  <2>3. D("get", "auth") + D("put", "auth") = X  BY <2>1, <2>2
  <2> QED  BY Zenon, <2>3 DEF X
<1>9. /\ D("put", "body") = Takes(s, "body") - Takes(server[c][k], "body")
      /\ D("get", "sending") = Takes(s, "sending") - Takes(server[c][k], "sending")
  BY <1>2, <1>3 DEF SlotOK, Takes
<1>10. D("get", "auth") \in Int /\ D("put", "auth") \in Int  BY <1>7
<1> HIDE DEF D, N
<1>11. /\ auth' + N("get", "auth")' + N("put", "auth")' = MaxAuth
       /\ uploads' + N("put", "body")' = MaxUploads
       /\ responses' + N("get", "sending")' = MaxResponses
  <2>1. /\ auth + N("get", "auth") + N("put", "auth") = MaxAuth
        /\ uploads + N("put", "body") = MaxUploads
        /\ responses + N("get", "sending") = MaxResponses
        /\ auth \in Nat /\ uploads \in Nat /\ responses \in Nat
    BY Zenon DEF PermitInv, N
  <2> QED  BY <1>5, <1>6, <1>7, <1>8, <1>9, <1>10, <2>1
<1> QED  BY Zenon, <1>1, <1>5, <1>11 DEF PermitInv, N

-----------------------------------------------------------------------------
(* The preparations, and the cache as a whole.                             *)

\* A preparation under way has a digest, and what it goes on with is that artifact.
DigestInv ==
  /\ pc \in [Clients -> {"idle", "get", "pull", "hit", "pulled", "put"}]
  /\ art \in [Clients -> Contents] /\ got \in [Clients -> Contents]
  /\ \A c \in Clients : pc[c] # "idle" => art[c] \in Artifacts
  /\ \A c \in Clients : pc[c] \in {"hit", "pulled", "put"} => got[c] = art[c]

CacheInv == ready \in BOOLEAN /\ StoreInv /\ SlotInv /\ PermitInv /\ DigestInv

\* Each part only depends on its own variables.
LEMMA CacheFrames ==
  /\ StoreInv /\ UNCHANGED <<store, impossible>> => StoreInv'
  /\ SlotInv /\ PermitInv /\ UNCHANGED <<server, admission>> => SlotInv' /\ PermitInv'
  /\ DigestInv /\ UNCHANGED preparation => DigestInv'
<1>1. StoreInv /\ UNCHANGED <<store, impossible>> => StoreInv'  BY Zenon DEF StoreInv, store
<1>2. SlotInv /\ UNCHANGED <<server, admission>> => SlotInv'  BY Zenon DEF SlotInv
<1>3. PermitInv /\ UNCHANGED <<server, admission>> => PermitInv'
  BY Zenon DEF PermitInv, admission, Inside
<1>4. DigestInv /\ UNCHANGED preparation => DigestInv'  BY Zenon DEF DigestInv, preparation
<1> QED  BY Zenon, <1>1, <1>2, <1>3, <1>4

\* An answer holds no permit and any request may be given it.
LEMMA ReplyFacts ==
  ASSUME NEW k \in Kinds, NEW status \in {"none", "missing", "refused", "ok"}
  PROVE  LET s == [Nothing EXCEPT !.at = status]
         IN /\ SlotOK(k, s) /\ s.at = status
            /\ Takes(s, "auth") = 0 /\ Takes(s, "body") = 0 /\ Takes(s, "sending") = 0
  BY Zenon DEF SlotOK, Slot, Nothing, Contents, Takes

\* Answering a request that waits for its token review.
LEMMA RefuseInv ==
  ASSUME SlotInv, PermitInv, NEW c \in Clients, NEW k \in Kinds, At(c, k, "auth"),
         NEW status \in {"missing", "refused"}, Reply(c, k, status),
         auth' = auth + 1, UNCHANGED <<uploads, responses>>
  PROVE  SlotInv' /\ PermitInv'
<1> DEFINE s == [Nothing EXCEPT !.at = status]
<1>1. /\ SlotOK(k, s)
      /\ Takes(s, "auth") = 0 /\ Takes(s, "body") = 0 /\ Takes(s, "sending") = 0
  BY Zenon, ReplyFacts
<1>2. Moves(c, k, s)  BY Zenon DEF Moves, Reply
<1>3. /\ Takes(server[c][k], "auth") = 1 /\ Takes(server[c][k], "body") = 0
      /\ Takes(server[c][k], "sending") = 0
  BY Zenon DEF Takes, At
<1>4. auth \in Nat /\ uploads \in Nat /\ responses \in Nat  BY Zenon DEF PermitInv
<1> HIDE DEF s
<1> QED  BY <1>1, <1>2, <1>3, <1>4, RequestStep

\* A request enters the server.
LEMMA ArriveInv ==
  ASSUME SlotInv, PermitInv, NEW c \in Clients, NEW k \in Kinds, At(c, k, "none"),
         NEW d \in Artifacts, NEW b \in Contents, Arrive(c, k, d, b),
         UNCHANGED <<uploads, responses>>
  PROVE  SlotInv' /\ PermitInv'
<1>1. /\ Takes(server[c][k], "auth") = 0 /\ Takes(server[c][k], "body") = 0
      /\ Takes(server[c][k], "sending") = 0
  BY Zenon DEF Takes, At
<1>2. auth \in Nat /\ uploads \in Nat /\ responses \in Nat  BY Zenon DEF PermitInv
<1>3. CASE auth = 0
  <2> DEFINE s == [Nothing EXCEPT !.at = "refused"]
  <2>1. /\ SlotOK(k, s)
        /\ Takes(s, "auth") = 0 /\ Takes(s, "body") = 0 /\ Takes(s, "sending") = 0
    BY Zenon, ReplyFacts
  <2>2. Moves(c, k, s) /\ auth' = auth  BY Zenon, <1>3 DEF Moves, Reply, Arrive
  <2> HIDE DEF s
  <2> QED  BY <1>1, <1>2, <2>1, <2>2, RequestStep
<1>4. CASE auth # 0
  <2> DEFINE s == [at |-> "auth", digest |-> d, bytes |-> b]
  <2>1. /\ SlotOK(k, s)
        /\ Takes(s, "auth") = 1 /\ Takes(s, "body") = 0 /\ Takes(s, "sending") = 0
    BY Zenon DEF SlotOK, Slot, Contents, Takes
  <2>2. Moves(c, k, s) /\ auth' = auth - 1  BY Zenon, <1>4 DEF Moves, Arrive
  <2>3. auth' \in Nat  BY <1>2, <1>4, <2>2
  <2> HIDE DEF s
  <2> QED  BY <1>1, <1>2, <2>1, <2>2, <2>3, RequestStep
<1> QED  BY Zenon, <1>3, <1>4

\* A request leaves the server with the permits it holds.
LEMMA LeaveInv ==
  ASSUME SlotInv, PermitInv, NEW c \in Clients, NEW k \in Kinds, Leave(c, k)
  PROVE  SlotInv' /\ PermitInv'
<1> DEFINE s == [Nothing EXCEPT !.at = "none"]
<1>1. /\ SlotOK(k, s)
      /\ Takes(s, "auth") = 0 /\ Takes(s, "body") = 0 /\ Takes(s, "sending") = 0
  BY Zenon, ReplyFacts
<1>2. s = Nothing  BY DEF Nothing
<1>3. Moves(c, k, s)  BY Zenon, <1>2 DEF Moves, Leave
<1>4. auth \in Nat /\ uploads \in Nat /\ responses \in Nat  BY Zenon DEF PermitInv
<1>5. \A w \in {"auth", "body", "sending"} :
        Holding(c, k, w) = Takes(server[c][k], w) /\ Takes(server[c][k], w) \in Nat
  BY Zenon DEF Holding, Takes, At
<1>6. /\ auth' = auth + Takes(server[c][k], "auth")
      /\ uploads' = uploads + Takes(server[c][k], "body")
      /\ responses' = responses + Takes(server[c][k], "sending")
  BY Zenon, <1>5 DEF Leave
<1> HIDE DEF s
<1> QED  BY <1>1, <1>3, <1>4, <1>5, <1>6, RequestStep

\* The handlers keep the cache's invariant.
LEMMA GetModuleInv ==
  ASSUME CacheInv, NEW c \in Clients, GetModule(c)  PROVE CacheInv'
<1> DEFINE d == server[c]["get"].digest
<1>1. ready' = ready /\ DigestInv'
  BY Zenon, CacheFrames DEF CacheInv, GetModule
<1>2. "get" \in Kinds  BY Zenon DEF Kinds
<1>3. CASE d \notin DOMAIN entries
  <2>1. Reply(c, "get", "missing") /\ UNCHANGED <<store, impossible, uploads, responses>>
    BY Zenon, <1>3 DEF GetModule, store
  <2>2. SlotInv' /\ PermitInv'  BY Zenon, <1>2, <2>1, RefuseInv DEF CacheInv, GetModule
  <2> QED  BY Zenon, <1>1, <2>1, <2>2, CacheFrames DEF CacheInv
<1>4. CASE d \in DOMAIN entries
  <2>1. recency' = Touch(recency, d) /\ UNCHANGED <<entries, bytes, impossible, uploads>>
    BY Zenon, <1>4 DEF GetModule
  <2>2. StoreInv'
    <3> HIDE DEF d
    <3> QED  BY Zenon, <1>4, <2>1, TouchInv DEF CacheInv
  <2>3. CASE responses = 0
    <3>1. Reply(c, "get", "refused") /\ responses' = responses
      BY Zenon, <1>4, <2>3 DEF GetModule
    <3>2. SlotInv' /\ PermitInv'  BY Zenon, <1>2, <2>1, <3>1, RefuseInv DEF CacheInv, GetModule
    <3> QED  BY Zenon, <1>1, <2>2, <3>2 DEF CacheInv
  <2>4. CASE responses # 0
    <3> DEFINE s == [server[c]["get"] EXCEPT !.at = "sending", !.bytes = entries[d]]
    <3>1. /\ responses' = responses - 1 /\ auth' = auth + 1
          /\ server' = [server EXCEPT ![c]["get"].at = "sending", ![c]["get"].bytes = entries[d]]
      BY Zenon, <1>4, <2>4 DEF GetModule
    <3>2. server \in [Clients -> [Kinds -> Slot]] /\ server[c]["get"] \in Slot
      BY Zenon, <1>2 DEF CacheInv, SlotInv
    <3>3. Moves(c, "get", s)  BY Zenon, <1>2, <3>1, <3>2 DEF Moves
    <3>4. entries[d] \in Contents
      BY Zenon, <1>4, StoreFacts DEF CacheInv, StoreInv, Contents
    <3>5. /\ SlotOK("get", s)
          /\ Takes(s, "auth") = 0 /\ Takes(s, "body") = 0 /\ Takes(s, "sending") = 1
      BY Zenon, <3>2, <3>4 DEF SlotOK, Slot, Takes
    <3>6. /\ Takes(server[c]["get"], "auth") = 1 /\ Takes(server[c]["get"], "body") = 0
          /\ Takes(server[c]["get"], "sending") = 0
      BY Zenon DEF GetModule, At, Takes
    <3>7. /\ auth \in Nat /\ uploads \in Nat /\ responses \in Nat /\ SlotInv /\ PermitInv
          /\ uploads' = uploads
      BY Zenon, <2>1 DEF CacheInv, PermitInv
    <3>8. responses' \in Nat /\ auth' \in Nat /\ uploads' \in Nat  BY <2>4, <3>1, <3>7
    <3> HIDE DEF s
    <3>9. SlotInv' /\ PermitInv'
      BY <1>2, <3>1, <3>3, <3>5, <3>6, <3>7, <3>8, RequestStep
    <3> QED  BY Zenon, <1>1, <2>2, <3>9 DEF CacheInv
  <2> QED  BY Zenon, <2>3, <2>4
<1> QED  BY Zenon, <1>3, <1>4

\* The upload handlers: admission, the body that is verified and stored, the body
\* that breaks off.
LEMMA PutModuleInv ==
  ASSUME CacheInv, NEW c \in Clients, PutModule(c)  PROVE CacheInv'
<1>1. ready' = ready /\ DigestInv' /\ StoreInv' /\ auth' = auth + 1 /\ responses' = responses
  BY Zenon, CacheFrames DEF CacheInv, PutModule
<1>2. "put" \in Kinds  BY Zenon DEF Kinds
<1>3. CASE uploads = 0
  <2>1. Reply(c, "put", "refused") /\ UNCHANGED <<uploads, responses>> /\ At(c, "put", "auth")
    BY Zenon, <1>3 DEF PutModule
  <2>2. SlotInv' /\ PermitInv'  BY Zenon, <1>1, <1>2, <2>1, RefuseInv DEF CacheInv
  <2> QED  BY Zenon, <1>1, <2>2 DEF CacheInv
<1>4. CASE uploads # 0
  <2> DEFINE s == [server[c]["put"] EXCEPT !.at = "body"]
  <2>1. server' = [server EXCEPT ![c]["put"].at = "body"] /\ uploads' = uploads - 1
    BY Zenon, <1>4 DEF PutModule, Becomes
  <2>2. /\ server \in [Clients -> [Kinds -> Slot]] /\ server[c]["put"] \in Slot
        /\ SlotOK("put", server[c]["put"])
    BY Zenon, <1>2 DEF CacheInv, SlotInv
  <2>3. Moves(c, "put", s)  BY Zenon, <1>2, <2>1, <2>2 DEF Moves
  <2>4. server[c]["put"].at = "auth"  BY Zenon DEF PutModule, At
  <2>5. /\ SlotOK("put", s)
        /\ Takes(s, "auth") = 0 /\ Takes(s, "body") = 1 /\ Takes(s, "sending") = 0
    BY Zenon, <2>2, <2>4 DEF SlotOK, Slot, Takes
  <2>6. /\ Takes(server[c]["put"], "auth") = 1 /\ Takes(server[c]["put"], "body") = 0
        /\ Takes(server[c]["put"], "sending") = 0
    BY Zenon, <2>4 DEF Takes
  <2>7. auth \in Nat /\ uploads \in Nat /\ responses \in Nat /\ SlotInv /\ PermitInv
    BY Zenon DEF CacheInv, PermitInv
  <2>8. uploads' \in Nat /\ auth' \in Nat /\ responses' \in Nat  BY <1>1, <1>4, <2>1, <2>7
  <2> HIDE DEF s
  <2>9. SlotInv' /\ PermitInv'
    BY <1>1, <1>2, <2>1, <2>3, <2>5, <2>6, <2>7, <2>8, RequestStep
  <2> QED  BY Zenon, <1>1, <2>9 DEF CacheInv
<1> QED  BY Zenon, <1>3, <1>4

\* Answering an upload whose body is being read.
LEMMA BodyInv ==
  ASSUME SlotInv, PermitInv, NEW c \in Clients, At(c, "put", "body"), uploads' = uploads + 1,
         NEW status \in {"ok", "refused"}, Reply(c, "put", status), UNCHANGED <<auth, responses>>
  PROVE  SlotInv' /\ PermitInv'
<1> DEFINE s == [Nothing EXCEPT !.at = status]
<1>1. /\ SlotOK("put", s) /\ "put" \in Kinds
      /\ Takes(s, "auth") = 0 /\ Takes(s, "body") = 0 /\ Takes(s, "sending") = 0
  BY Zenon, ReplyFacts DEF Kinds
<1>2. Moves(c, "put", s)  BY Zenon DEF Moves, Reply
<1>3. /\ Takes(server[c]["put"], "auth") = 0 /\ Takes(server[c]["put"], "body") = 1
      /\ Takes(server[c]["put"], "sending") = 0
  BY Zenon DEF Takes, At
<1>4. auth \in Nat /\ uploads \in Nat /\ responses \in Nat  BY Zenon DEF PermitInv
<1> HIDE DEF s
<1> QED  BY <1>1, <1>2, <1>3, <1>4, RequestStep

\* Only the bytes the digest names reach the store.
LEMMA ReceiveBodyInv ==
  ASSUME CacheInv, NEW c \in Clients, NEW damaged \in BOOLEAN, ReceiveBody(c, damaged)
  PROVE  CacheInv'
<1> DEFINE d == server[c]["put"].digest
           b == IF damaged THEN Corrupt ELSE server[c]["put"].bytes
<1>1. ready' = ready /\ DigestInv' /\ At(c, "put", "body") /\ uploads' = uploads + 1
      /\ UNCHANGED <<auth, responses>>
  BY Zenon, CacheFrames DEF CacheInv, ReceiveBody
<1>2. CASE Verified(d, b)
  <2>1. PICK status \in {"ok", "refused"} : Store(d, b, status) /\ Reply(c, "put", status)
    BY Zenon, <1>2 DEF ReceiveBody
  <2>2. b = d  BY Zenon, <1>2 DEF Verified
  <2>3. d \in Artifacts  BY Zenon, <1>1 DEF CacheInv, SlotInv, SlotOK, At, Kinds
  <2> HIDE DEF b, d
  <2>4. StoreInv'  BY Zenon, <2>1, <2>2, <2>3, StoreStep DEF CacheInv
  <2>5. SlotInv' /\ PermitInv'  BY Zenon, <1>1, <2>1, BodyInv DEF CacheInv
  <2> QED  BY Zenon, <1>1, <2>4, <2>5 DEF CacheInv
<1>3. CASE ~Verified(d, b)
  <2>1. Reply(c, "put", "refused") /\ UNCHANGED <<store, impossible>>
    BY Zenon, <1>3 DEF ReceiveBody
  <2>2. SlotInv' /\ PermitInv'  BY Zenon, <1>1, <2>1, BodyInv DEF CacheInv
  <2> QED  BY Zenon, <1>1, <2>1, <2>2, CacheFrames DEF CacheInv
<1> QED  BY Zenon, <1>2, <1>3

\* The server's other steps: refusals, broken bodies, lost connections.
LEMMA ServerInv ==
  ASSUME CacheInv, NEW c \in Clients, NEW k \in Kinds,
         AuthRefused(c, k) \/ Dropped(c, k) \/ BodyFails(c)
  PROVE  CacheInv'
<1>1. ready' = ready /\ DigestInv' /\ StoreInv'
  BY Zenon, CacheFrames DEF CacheInv, AuthRefused, Dropped, BodyFails
<1>2. CASE AuthRefused(c, k)
  <2>1. SlotInv' /\ PermitInv'  BY Zenon, <1>2, RefuseInv DEF AuthRefused, CacheInv
  <2> QED  BY Zenon, <1>1, <2>1 DEF CacheInv
<1>3. CASE Dropped(c, k)
  <2>1. SlotInv' /\ PermitInv'  BY Zenon, <1>3, LeaveInv DEF Dropped, CacheInv
  <2> QED  BY Zenon, <1>1, <2>1 DEF CacheInv
<1>4. CASE BodyFails(c)
  <2>1. SlotInv' /\ PermitInv'  BY Zenon, <1>4, BodyInv DEF BodyFails, CacheInv
  <2> QED  BY Zenon, <1>1, <2>1 DEF CacheInv
<1> QED  BY Zenon, <1>2, <1>3, <1>4

\* The end of a preparation.
LEMMA EndInv ==
  ASSUME DigestInv, NEW c \in Clients, EndPreparation(c)  PROVE DigestInv'
  BY Zenon DEF DigestInv, EndPreparation, Goto, Contents

\* The preparations' own steps.
LEMMA PreparationStepsInv ==
  ASSUME CacheInv, NEW c \in Clients,
         \/ \E d \in Artifacts : Prepare(c, d)
         \/ \E damaged \in BOOLEAN : LookupHit(c, damaged)
         \/ LookupFails(c) \/ \E b \in Contents : Pull(c, b)
         \/ Compiled(c) \/ WriteBack(c) \/ WriteAnswered(c) \/ ClientTimesOut(c)
  PROVE  CacheInv'
<1>1. ready' = ready /\ StoreInv'
  BY Zenon, CacheFrames
     DEF CacheInv, Prepare, LookupHit, LookupFails, Pull, Compiled, WriteBack, WriteAnswered,
         ClientTimesOut
<1>2. "get" \in Kinds /\ "put" \in Kinds /\ SlotInv /\ PermitInv /\ DigestInv
  BY Zenon DEF Kinds, CacheInv
<1>3. CASE \E d \in Artifacts : Prepare(c, d)
  <2>1. PICK d \in Artifacts : Prepare(c, d)  BY Zenon, <1>3
  <2>2. DigestInv'  BY Zenon, <1>2, <2>1 DEF Prepare, DigestInv, Goto, Contents
  <2>3. CASE Arrive(c, "get", d, Corrupt)
    <3>1. SlotInv' /\ PermitInv'  BY Zenon, <1>2, <2>1, <2>3, ArriveInv DEF Prepare, Contents
    <3> QED  BY Zenon, <1>1, <2>2, <3>1 DEF CacheInv
  <2>4. CASE UNCHANGED <<server, auth>>
    <3>1. SlotInv' /\ PermitInv'  BY Zenon, <1>2, <2>1, <2>4, CacheFrames DEF Prepare, admission
    <3> QED  BY Zenon, <1>1, <2>2, <3>1 DEF CacheInv
  <2> QED  BY Zenon, <2>1, <2>3, <2>4 DEF Prepare
<1>4. CASE \E damaged \in BOOLEAN : LookupHit(c, damaged)
  <2>1. PICK damaged \in BOOLEAN : LookupHit(c, damaged)  BY Zenon, <1>4
  <2>2. SlotInv' /\ PermitInv'  BY Zenon, <1>2, <2>1, LeaveInv DEF LookupHit
  <2>3. DigestInv'  BY Zenon, <1>2, <2>1 DEF LookupHit, DigestInv, Goto, Contents, Verified
  <2> QED  BY Zenon, <1>1, <2>2, <2>3 DEF CacheInv
<1>5. CASE LookupFails(c)
  <2>1. SlotInv' /\ PermitInv'  BY Zenon, <1>2, <1>5, LeaveInv DEF LookupFails
  <2>2. DigestInv'  BY Zenon, <1>2, <1>5 DEF LookupFails, DigestInv, Goto
  <2> QED  BY Zenon, <1>1, <2>1, <2>2 DEF CacheInv
<1>6. CASE \E b \in Contents : Pull(c, b)
  <2>1. SlotInv' /\ PermitInv'  BY Zenon, <1>2, <1>6, CacheFrames DEF Pull
  <2>2. DigestInv'  BY <1>2, <1>6 DEF Pull, DigestInv, Goto, Contents, Verified
  <2> QED  BY Zenon, <1>1, <2>1, <2>2 DEF CacheInv
<1>7. CASE Compiled(c)
  <2>1. SlotInv' /\ PermitInv' /\ DigestInv'  BY Zenon, <1>2, <1>7, CacheFrames, EndInv DEF Compiled
  <2> QED  BY Zenon, <1>1, <2>1 DEF CacheInv
<1>8. CASE WriteBack(c)
  <2>1. DigestInv'  BY Zenon, <1>2, <1>8 DEF WriteBack, DigestInv, Goto
  <2>2. art[c] \in Artifacts /\ got[c] \in Contents  BY Zenon, <1>2, <1>8 DEF WriteBack, DigestInv
  <2>3. SlotInv' /\ PermitInv'  BY Zenon, <1>2, <1>8, <2>2, ArriveInv DEF WriteBack
  <2> QED  BY Zenon, <1>1, <2>1, <2>3 DEF CacheInv
<1>9. CASE WriteAnswered(c)
  <2>1. SlotInv' /\ PermitInv' /\ DigestInv'  BY Zenon, <1>2, <1>9, LeaveInv, EndInv DEF WriteAnswered
  <2> QED  BY Zenon, <1>1, <2>1 DEF CacheInv
<1>10. CASE ClientTimesOut(c)
  <2>1. SlotInv' /\ PermitInv'  BY Zenon, <1>2, <1>10, CacheFrames DEF ClientTimesOut
  <2>2. CASE pc[c] = "put" /\ EndPreparation(c)  BY Zenon, <1>1, <1>2, <2>1, <2>2, EndInv DEF CacheInv
  <2>3. CASE pc[c] = "get" /\ Goto(c, "pull") /\ UNCHANGED <<art, got>>
    <3>1. DigestInv'  BY Zenon, <1>2, <2>3 DEF DigestInv, Goto
    <3> QED  BY Zenon, <1>1, <2>1, <3>1 DEF CacheInv
  <2> QED  BY Zenon, <1>10, <2>2, <2>3 DEF ClientTimesOut
<1> QED  BY Zenon, <1>3, <1>4, <1>5, <1>6, <1>7, <1>8, <1>9, <1>10

\* A server without requests in a permit's place has every permit.
LEMMA EmptyServer ==
  ASSUME \A c \in Clients, k \in Kinds : server[c][k].at \in {"none", "refused"},
         auth = MaxAuth, uploads = MaxUploads, responses = MaxResponses
  PROVE  PermitInv
<1>1. /\ Inside("get", "auth") = {} /\ Inside("put", "auth") = {}
      /\ Inside("put", "body") = {} /\ Inside("get", "sending") = {}
  BY Zenon DEF Inside, Kinds
<1>2. MaxAuth \in Nat /\ MaxUploads \in Nat /\ MaxResponses \in Nat  BY Zenon, CacheLimits
<1> QED  BY <1>1, <1>2, FS_EmptySet DEF PermitInv

\* An empty store is in step.
LEMMA EmptyStore ==
  ASSUME entries = << >>, recency = << >>, bytes = 0, impossible = {}
  PROVE  StoreInv
<1>1. DOMAIN entries = {} /\ Range(recency) = {} /\ recency \in Seq(Artifacts) /\ NoRepeats(recency)
  BY DEF Range, NoRepeats
<1>2. 0 <= MaxBytes /\ 0 <= MaxEntries  BY CacheLimits
<1> QED  BY Zenon, <1>1, <1>2, SumEmpty, FS_EmptySet DEF StoreInv

\* The pod starts and restarts with an empty store and all permits.
LEMMA CacheInvInit == CacheInit => CacheInv
<1> SUFFICES ASSUME CacheInit PROVE CacheInv  BY Zenon
<1>1. StoreInv  BY Zenon, EmptyStore DEF CacheInit
<1>2. SlotInv  BY Zenon DEF CacheInit, SlotInv, SlotOK, Slot, Nothing, Contents
<1>3. \A c \in Clients, k \in Kinds : server[c][k].at \in {"none", "refused"}
  BY Zenon DEF CacheInit, Nothing
<1>4. PermitInv  BY Zenon, <1>3, EmptyServer DEF CacheInit
<1>5. DigestInv  BY Zenon DEF CacheInit, DigestInv, Contents
<1> QED  BY Zenon, <1>1, <1>2, <1>4, <1>5 DEF CacheInit, CacheInv

\* Shutdown and restart.
LEMMA LifecycleInv ==
  ASSUME CacheInv, Shutdown \/ Restart  PROVE CacheInv'
<1>1. CASE Shutdown  BY Zenon, <1>1, CacheFrames DEF CacheInv, Shutdown
<1>2. CASE Restart
  <2>1. DigestInv' /\ ready' \in BOOLEAN  BY Zenon, <1>2, CacheFrames DEF CacheInv, Restart
  <2>2. StoreInv'
    <3>1. /\ DOMAIN entries' = {} /\ Range(recency') = {} /\ recency' \in Seq(Artifacts)
          /\ NoRepeats(recency')
      BY <1>2 DEF Restart, Range, NoRepeats
    <3>2. 0 <= MaxBytes /\ 0 <= MaxEntries  BY CacheLimits
    <3>3. impossible' = {} /\ bytes' = 0  BY Zenon, <1>2 DEF Restart, CacheInv, StoreInv
    <3> QED  BY Zenon, <3>1, <3>2, <3>3, SumEmpty, FS_EmptySet DEF StoreInv
  <2>3. /\ server' \in [Clients -> [Kinds -> Slot]]
        /\ \A c \in Clients, k \in Kinds : server'[c][k].at \in {"none", "refused"}
    BY Zenon, <1>2 DEF Restart, Nothing, Slot, Contents
  <2>4. SlotInv'  BY Zenon, <2>3 DEF SlotInv, SlotOK
  <2>5. /\ Inside("get", "auth")' = {} /\ Inside("put", "auth")' = {}
        /\ Inside("put", "body")' = {} /\ Inside("get", "sending")' = {}
    BY Zenon, <2>3 DEF Inside, Kinds
  <2>6. MaxAuth \in Nat /\ MaxUploads \in Nat /\ MaxResponses \in Nat  BY Zenon, CacheLimits
  <2>7. PermitInv'
    <3>1. IsFiniteSet({}) /\ Cardinality({}) = 0  BY Zenon, FS_EmptySet
    <3>2. auth' = MaxAuth /\ uploads' = MaxUploads /\ responses' = MaxResponses
      BY Zenon, <1>2 DEF Restart
    <3>3. /\ IsFiniteSet(Inside("get", "auth")') /\ Cardinality(Inside("get", "auth")') = 0
          /\ IsFiniteSet(Inside("put", "auth")') /\ Cardinality(Inside("put", "auth")') = 0
          /\ IsFiniteSet(Inside("put", "body")') /\ Cardinality(Inside("put", "body")') = 0
          /\ IsFiniteSet(Inside("get", "sending")') /\ Cardinality(Inside("get", "sending")') = 0
      BY Zenon, <2>5, <3>1
    <3> QED  BY <2>6, <3>2, <3>3 DEF PermitInv
  <2> QED  BY Zenon, <2>1, <2>2, <2>4, <2>7 DEF CacheInv
<1> QED  BY Zenon, <1>1, <1>2

\* Every reachable state of the cache satisfies the invariant.
LEMMA CacheInvHolds == CacheSpec => []CacheInv
<1>1. CacheInv /\ [CacheNext]_cacheVars => CacheInv'
  <2> SUFFICES ASSUME CacheInv, [CacheNext]_cacheVars PROVE CacheInv'  BY Zenon
  <2>1. CASE UNCHANGED cacheVars  BY Zenon, <2>1, CacheFrames DEF CacheInv, cacheVars
  <2>2. CASE Shutdown \/ Restart  BY Zenon, <2>2, LifecycleInv
  <2>3. ASSUME NEW c \in Clients, NEW k \in Kinds,
               AuthRefused(c, k) \/ Dropped(c, k) \/ BodyFails(c)
        PROVE  CacheInv'
    BY Zenon, <2>3, ServerInv
  <2>4. ASSUME NEW c \in Clients, GetModule(c) PROVE CacheInv'  BY Zenon, <2>4, GetModuleInv
  <2>5. ASSUME NEW c \in Clients, PutModule(c) PROVE CacheInv'  BY Zenon, <2>5, PutModuleInv
  <2>6. ASSUME NEW c \in Clients, NEW damaged \in BOOLEAN, ReceiveBody(c, damaged) PROVE CacheInv'
    BY Zenon, <2>6, ReceiveBodyInv
  <2>7. ASSUME NEW c \in Clients,
               \/ \E d \in Artifacts : Prepare(c, d)
               \/ \E damaged \in BOOLEAN : LookupHit(c, damaged)
               \/ LookupFails(c) \/ \E b \in Contents : Pull(c, b)
               \/ Compiled(c) \/ WriteBack(c) \/ WriteAnswered(c) \/ ClientTimesOut(c)
        PROVE  CacheInv'
    BY Zenon, <2>7, PreparationStepsInv
  <2>8. "get" \in Kinds  BY Zenon DEF Kinds
  <2> QED  BY Zenon, <2>1, <2>2, <2>3, <2>4, <2>5, <2>6, <2>7, <2>8 DEF CacheNext
<1> QED  BY <1>1, CacheInvInit, PTL DEF CacheSpec

\* For any artifacts, sizes, limits and number of preparations, through touches,
\* evictions, restarts and uploads whose client has gone: every entry is queued for
\* eviction exactly once, the byte count is what the entries weigh, both limits hold,
\* permits are conserved, and Store::insert never answers that the store is broken.
THEOREM StoreHolds == CacheSpec => []StoreInStep
<1>1. CacheInv => StoreInStep
  <2> SUFFICES ASSUME CacheInv PROVE StoreInStep  BY Zenon
  <2>1. /\ DOMAIN entries \subseteq Artifacts /\ IsFiniteSet(DOMAIN entries)
        /\ Cardinality(DOMAIN entries) = Len(recency)
        /\ \A d \in DOMAIN entries : Size[d] \in Nat
    BY Zenon, StoreFacts DEF CacheInv
  <2>2. bytes \in Nat /\ bytes = MapThenSumSet(LAMBDA d : Size[d], DOMAIN entries)
    BY Zenon, <2>1, SumType, SizeSum DEF CacheInv, StoreInv
  <2>3. \A k \in Kinds, w \in {"auth", "body", "sending"} :
          {c \in Clients : At(c, k, w)} = Inside(k, w)
    BY Zenon DEF At, Inside
  <2>4. /\ Cardinality(Inside("get", "auth")) \in Nat /\ Cardinality(Inside("put", "auth")) \in Nat
        /\ Cardinality(Inside("put", "body")) \in Nat
        /\ Cardinality(Inside("get", "sending")) \in Nat
    BY Zenon, FS_CardinalityType DEF CacheInv, PermitInv
  <2>5. auth \in 0..MaxAuth /\ uploads \in 0..MaxUploads /\ responses \in 0..MaxResponses
    BY <2>4, CacheLimits DEF CacheInv, PermitInv
  <2>6. CacheTypeOK
    BY Zenon, <2>1, <2>2, <2>5 DEF CacheTypeOK, CacheInv, StoreInv, SlotInv, DigestInv, Contents
  <2>7. /\ auth + Cardinality({c \in Clients : At(c, "get", "auth")})
             + Cardinality({c \in Clients : At(c, "put", "auth")}) = MaxAuth
        /\ uploads + Cardinality({c \in Clients : At(c, "put", "body")}) = MaxUploads
        /\ responses + Cardinality({c \in Clients : At(c, "get", "sending")}) = MaxResponses
    BY Zenon, <2>3 DEF CacheInv, PermitInv, Kinds
  <2> QED  BY Zenon, <2>1, <2>2, <2>6, <2>7 DEF StoreInStep, CacheInv, StoreInv
<1> QED  BY <1>1, CacheInvHolds, PTL

\* Whatever the transport and the registry deliver, the compiler is only given the
\* artifact its manifest named, and the store holds nothing else.
THEOREM OnlyVerifiedHolds == CacheSpec => []OnlyVerifiedCompiles
<1>1. CacheInv => OnlyVerifiedCompiles
  BY Zenon DEF CacheInv, OnlyVerifiedCompiles, StoreInv, DigestInv
<1> QED  BY <1>1, CacheInvHolds, PTL

-----------------------------------------------------------------------------
(* Module preparation: loads, permits and accounting.                      *)

\* What the accounting, the deadline and the position of one load say of each other.
LoadOK(at, st, gone, late) ==
  /\ st.cancellation # "none" \/ gone => late
  /\ at \in {"none", "acquire", "fetch"} => ~st.started /\ ~gone /\ st.cancellation = "none"
  /\ at = "none" => st.stage = "none" /\ ~late
  /\ at = "acquire" => st.stage = "queued"
  /\ at = "fetch" => st.stage = "preparing"
  /\ at \in {"spawned", "compiled"} =>
       /\ ~st.started
       /\ st.stage = IF st.cancellation = "none" THEN "preparing" ELSE "terminating"
  /\ at = "compiling" =>
       /\ st.started
       /\ st.stage = IF st.cancellation = "none" THEN "compiling" ELSE "terminating"
  /\ at \in {"spawned", "compiling"} /\ gone => st.cancellation # "none"
  /\ at = "compiled" => ~gone
  /\ at = "put" => st.stage \in {"preparing", "terminating"} /\ ~st.started
  /\ at = "drop" => st.stage # "none" /\ (st.stage = "queued" => ~st.started)
  /\ at \in {"drop_active", "drop_record", "done"} => st.stage = "none" /\ ~st.started

\* The loads that hold a record, and the load that holds the active permit.
RecordPositions == Positions \ {"none", "done"}
ActivePositions == {"fetch", "spawned", "compiling", "compiled", "put", "drop", "drop_active"}
Active(at, st) == at \in ActivePositions /\ (at = "drop" => st.stage # "queued")

RecordHolders(t) == {l \in Loads : t[l] \in RecordPositions}
ActiveHolders(t, st) == {l \in Loads : Active(t[l], st[l])}

LoadInv ==
  /\ task \in [Loads -> Positions] /\ state \in [Loads -> PreparationState]
  /\ detached \in [Loads -> BOOLEAN] /\ expired \in [Loads -> BOOLEAN]
  /\ \A l \in Loads : LoadOK(task[l], state[l], detached[l], expired[l])

\* Both semaphores are conserved.
LoadPermitInv ==
  /\ records \in Nat /\ active \in Nat
  /\ records + Cardinality(RecordHolders(task)) = MaxRecords
  /\ active + Cardinality(ActiveHolders(task, state)) = 1

\* The constants of the module as the proofs use them.
LEMMA PreparationConstants ==
  /\ MaxLoads \in Nat /\ MaxRecords \in Nat /\ MaxRecords > 0
  /\ MaxComponents \in Nat /\ MaxNativeBytes \in Nat /\ Sizes \subseteq Nat
  /\ IsFiniteSet(Functions) /\ Functions # {}
  /\ IsFiniteSet(Loads) /\ Loads \subseteq Nat
<1>1. /\ MaxLoads \in Nat /\ MaxRecords \in Nat /\ MaxRecords > 0
      /\ MaxComponents \in Nat /\ MaxNativeBytes \in Nat /\ Sizes \subseteq Nat
      /\ IsFiniteSet(Functions) /\ Functions # {}
  BY PreparationLimits
<1>2. IsFiniteSet(Loads)  BY <1>1, FS_Interval DEF Loads
<1> QED  BY <1>1, <1>2 DEF Loads

\* Stages only exist where a permit is held, so the gauges stay within the limits
\* of the semaphores.
LEMMA WithinLimits ==
  ASSUME NEW t, NEW st \in [Loads -> PreparationState], NEW det, NEW exp,
         \A l \in Loads : t[l] \in Positions /\ LoadOK(t[l], st[l], det[l], exp[l]),
         Cardinality(RecordHolders(t)) <= MaxRecords, Cardinality(ActiveHolders(t, st)) <= 1,
         NEW kind \in {"queued", "active", "tracked", "compiling"}
  PROVE  ~(Occupancy(st, kind) > Limit(kind))
<1> DEFINE In(S) == {l \in Loads : st[l].stage \in S}
           W == WorkState \ {"none"}
<1>1. IsFiniteSet(RecordHolders(t)) /\ IsFiniteSet(ActiveHolders(t, st))
  BY Zenon, PreparationConstants, FS_Subset DEF RecordHolders, ActiveHolders
<1>2. In(W) \subseteq RecordHolders(t)
  BY Zenon DEF RecordHolders, RecordPositions, LoadOK, WorkState, PreparationState, Positions
<1>3. In({"queued"}) \subseteq In(W)
  BY Zenon DEF WorkState
<1>4. In({"preparing", "compiling", "terminating"}) \subseteq ActiveHolders(t, st)
  BY Zenon DEF ActiveHolders, Active, ActivePositions, LoadOK, Positions, PreparationState
<1>5. {l \in Loads : st[l].started} \subseteq ActiveHolders(t, st)
  BY Zenon DEF ActiveHolders, Active, ActivePositions, LoadOK, Positions, PreparationState
<1>6. ASSUME NEW A, NEW B, A \subseteq B, IsFiniteSet(B)
      PROVE  Cardinality(A) \in Nat /\ Cardinality(B) \in Nat /\ Cardinality(A) <= Cardinality(B)
  BY Zenon, <1>6, FS_Subset, FS_CardinalityType
<1>7. MaxRecords \in Nat  BY Zenon, PreparationConstants
<1>8. CASE kind = "queued"
  <2>1. Occupancy(st, kind) = Cardinality(In({"queued"})) /\ Limit(kind) = MaxRecords
    BY Zenon, <1>8 DEF Occupancy, Limit
  <2>2. In({"queued"}) \subseteq RecordHolders(t)  BY Zenon, <1>2, <1>3
  <2> HIDE DEF In
  <2> QED  BY <1>1, <1>6, <1>7, <2>1, <2>2
<1>9. CASE kind = "tracked"
  <2>1. Occupancy(st, kind) = Cardinality(In(W)) /\ Limit(kind) = MaxRecords
    BY Zenon, <1>9 DEF Occupancy, Limit
  <2> HIDE DEF In, W
  <2> QED  BY <1>1, <1>2, <1>6, <1>7, <2>1
<1>10. CASE kind = "active"
  <2>1. /\ Occupancy(st, kind) = Cardinality(In({"preparing", "compiling", "terminating"}))
        /\ Limit(kind) = 1
    BY Zenon, <1>10 DEF Occupancy, Limit
  <2> HIDE DEF In
  <2> QED  BY <1>1, <1>4, <1>6, <2>1
<1>11. CASE kind = "compiling"
  <2> DEFINE A == {l \in Loads : st[l].started}
  <2>1. Occupancy(st, kind) = Cardinality(A) /\ Limit(kind) = 1
    BY Zenon, <1>11 DEF Occupancy, Limit
  <2>2. A \subseteq ActiveHolders(t, st)  BY Zenon, <1>5
  <2> HIDE DEF A
  <2> QED  BY <1>1, <1>6, <2>1, <2>2
<1> QED  BY Zenon, <1>8, <1>9, <1>10, <1>11

\* One load changes; its permits follow its position.
Changes(l, at, st, gone, late) ==
  /\ task' = [task EXCEPT ![l] = at] /\ state' = [state EXCEPT ![l] = st]
  /\ detached' = [detached EXCEPT ![l] = gone] /\ expired' = [expired EXCEPT ![l] = late]

RecordsOf(at) == IF at \in RecordPositions THEN 1 ELSE 0
ActiveOf(at, st) == IF Active(at, st) THEN 1 ELSE 0

\* A step of one load that accounts for its permits keeps both semaphores, the
\* correspondence of position and stage, and every gauge within its limit.
LEMMA LoadChange ==
  ASSUME LoadInv, LoadPermitInv, NEW l \in Loads, NEW at \in Positions, NEW st \in PreparationState,
         NEW gone \in BOOLEAN, NEW late \in BOOLEAN, LoadOK(at, st, gone, late),
         Changes(l, at, st, gone, late), records' \in Nat, active' \in Nat,
         records' = records + RecordsOf(task[l]) - RecordsOf(at),
         active' = active + ActiveOf(task[l], state[l]) - ActiveOf(at, st)
  PROVE  /\ LoadInv' /\ LoadPermitInv'
         /\ \A kind \in {"queued", "active", "tracked", "compiling"} :
              ~(Occupancy(state', kind) > Limit(kind))
<1>1. /\ task' \in [Loads -> Positions] /\ state' \in [Loads -> PreparationState]
      /\ detached' \in [Loads -> BOOLEAN] /\ expired' \in [Loads -> BOOLEAN]
  BY Zenon DEF LoadInv, Changes
<1>2. task'[l] = at /\ state'[l] = st /\ detached'[l] = gone /\ expired'[l] = late
  BY Zenon DEF LoadInv, Changes
<1>3. \A k \in Loads : k # l => /\ task'[k] = task[k] /\ state'[k] = state[k]
                               /\ detached'[k] = detached[k] /\ expired'[k] = expired[k]
  BY Zenon DEF LoadInv, Changes
<1>4. \A k \in Loads : LoadOK(task'[k], state'[k], detached'[k], expired'[k])
  <2> SUFFICES ASSUME NEW k \in Loads
               PROVE  LoadOK(task'[k], state'[k], detached'[k], expired'[k])
    BY Zenon
  <2>1. CASE k = l  BY Zenon, <1>2, <2>1
  <2>2. CASE k # l
    <3>1. LoadOK(task[k], state[k], detached[k], expired[k])  BY Zenon DEF LoadInv
    <3> QED  BY Zenon, <1>3, <2>2, <3>1
  <2> QED  BY Zenon, <2>1, <2>2
<1>5. LoadInv'  BY Zenon, <1>1, <1>4 DEF LoadInv, LoadOK
<1> DEFINE R == RecordHolders(task)
           Rn == RecordHolders(task')
           A == ActiveHolders(task, state)
           An == ActiveHolders(task', state')
<1>6. IsFiniteSet(R) /\ IsFiniteSet(A)
  BY Zenon, PreparationConstants, FS_Subset DEF RecordHolders, ActiveHolders
<1>7. \A k : k # l => (k \in R <=> k \in Rn)  BY Zenon, <1>3 DEF RecordHolders
<1>8. \A k : k # l => (k \in A <=> k \in An)  BY Zenon, <1>3 DEF ActiveHolders
<1>9. (l \in R <=> task[l] \in RecordPositions) /\ (l \in Rn <=> at \in RecordPositions)
  BY Zenon, <1>2 DEF RecordHolders
<1>10. (l \in A <=> Active(task[l], state[l])) /\ (l \in An <=> Active(at, st))
  BY Zenon, <1>2 DEF ActiveHolders
<1>11. /\ records + Cardinality(R) = MaxRecords /\ active + Cardinality(A) = 1
       /\ records \in Nat /\ active \in Nat
  BY Zenon DEF LoadPermitInv
<1>12. LoadPermitInv' <=> /\ records' \in Nat /\ active' \in Nat
                          /\ records' + Cardinality(Rn) = MaxRecords
                          /\ active' + Cardinality(An) = 1
  BY Zenon DEF LoadPermitInv
<1> HIDE DEF R, Rn, A, An
<1>13. /\ IsFiniteSet(Rn)
       /\ Cardinality(Rn) = Cardinality(R) + One(l, Rn) - One(l, R)
  BY Zenon, <1>6, <1>7, CountStep
<1>14. /\ IsFiniteSet(An)
       /\ Cardinality(An) = Cardinality(A) + One(l, An) - One(l, A)
  BY Zenon, <1>6, <1>8, CountStep
<1>15. /\ Cardinality(R) \in Nat /\ Cardinality(A) \in Nat
       /\ Cardinality(Rn) \in Nat /\ Cardinality(An) \in Nat
  BY Zenon, <1>6, <1>13, <1>14, FS_CardinalityType
<1>16. records' + Cardinality(Rn) = MaxRecords
  <2>1. /\ RecordsOf(task[l]) = One(l, R)
        /\ RecordsOf(at) = One(l, Rn)
    BY Zenon, <1>9 DEF RecordsOf, One
  <2>2. records' = records + One(l, R) - One(l, Rn)  BY Zenon, <2>1
  <2>3. (records + One(l, R) - One(l, Rn)) + Cardinality(Rn) = records + Cardinality(R)
    BY <1>11, <1>13, <1>15, PermitMoves
  <2> QED  BY Zenon, <1>11, <2>2, <2>3
<1>17. active' + Cardinality(An) = 1
  <2>1. /\ ActiveOf(task[l], state[l]) = One(l, A)
        /\ ActiveOf(at, st) = One(l, An)
    BY Zenon, <1>10 DEF ActiveOf, One
  <2>2. active' = active + One(l, A) - One(l, An)  BY Zenon, <2>1
  <2>3. (active + One(l, A) - One(l, An)) + Cardinality(An) = active + Cardinality(A)
    BY <1>11, <1>14, <1>15, PermitMoves
  <2> QED  BY Zenon, <1>11, <2>2, <2>3
<1>18. Cardinality(Rn) <= MaxRecords /\ Cardinality(An) <= 1
  BY <1>15, <1>16, <1>17, PreparationConstants
<1>19. ASSUME NEW kind \in {"queued", "active", "tracked", "compiling"}
       PROVE  ~(Occupancy(state', kind) > Limit(kind))
  <2>1. \A k \in Loads : task'[k] \in Positions /\ LoadOK(task'[k], state'[k], detached'[k], expired'[k])
    BY Zenon, <1>1, <1>4
  <2> QED  BY Zenon, <1>1, <1>18, <2>1, WithinLimits DEF Rn, An
<1> QED  BY Zenon, <1>5, <1>12, <1>16, <1>17, <1>19

-----------------------------------------------------------------------------
(* Module preparation: the registry.                                       *)

\* What is retained under a function, and what all of it weighs.
Retains(comp) == {f \in Functions : comp[f] # 0}
Weight(comp, sz) == [f \in Retains(comp) |-> sz[comp[f]]]
Share(comp, sz, f) == IF comp[f] = 0 THEN 0 ELSE sz[comp[f]]

\* The retained set is finite and the weight of each member is a number.
LEMMA WeightFacts ==
  ASSUME NEW comp, NEW sz, \A f \in Functions : comp[f] # 0 => sz[comp[f]] \in Nat
  PROVE  /\ IsFiniteSet(Retains(comp))
         /\ \A f \in Retains(comp) : Weight(comp, sz)[f] \in Nat /\ Weight(comp, sz)[f] = sz[comp[f]]
         /\ SumFunction(Weight(comp, sz)) = SumFunctionOnSet(Weight(comp, sz), Retains(comp))
         /\ SumFunction(Weight(comp, sz)) \in Nat
<1>1. IsFiniteSet(Retains(comp))  BY Zenon, PreparationConstants, FS_Subset DEF Retains
<1>2. \A f \in Retains(comp) : Weight(comp, sz)[f] \in Nat /\ Weight(comp, sz)[f] = sz[comp[f]]
  BY Zenon DEF Retains, Weight
<1>3. SumFunction(Weight(comp, sz)) = SumFunctionOnSet(Weight(comp, sz), Retains(comp))
  <2>1. DOMAIN Weight(comp, sz) = Retains(comp)  BY Zenon DEF Weight
  <2> QED  BY Zenon, <2>1 DEF SumFunction
<1>4. SumFunctionOnSet(Weight(comp, sz), Retains(comp)) \in Nat  BY Zenon, <1>1, <1>2, SumType
<1> QED  BY Zenon, <1>1, <1>2, <1>3, <1>4

\* The weight is one function's share and that of the others.
LEMMA WeightSplit ==
  ASSUME NEW comp, NEW sz, \A g \in Functions : comp[g] # 0 => sz[comp[g]] \in Nat,
         NEW f \in Functions
  PROVE  LET rest == SumFunctionOnSet(Weight(comp, sz), Retains(comp) \ {f})
         IN /\ SumFunction(Weight(comp, sz)) = Share(comp, sz, f) + rest
            /\ Share(comp, sz, f) \in Nat /\ rest \in Nat
<1> DEFINE w == Weight(comp, sz)
           K == Retains(comp)
<1>1. /\ IsFiniteSet(K) /\ \A g \in K : w[g] \in Nat /\ w[g] = sz[comp[g]]
      /\ SumFunction(w) = SumFunctionOnSet(w, K)
  BY Zenon, WeightFacts
<1>2. f \in K <=> comp[f] # 0  BY Zenon DEF Retains
<1>3. Share(comp, sz, f) \in Nat  BY Zenon DEF Share
<1> HIDE DEF w, K
<1>4. IsFiniteSet(K \ {f})  BY Zenon, <1>1, FS_Subset
<1>5. SumFunctionOnSet(w, K \ {f}) \in Nat  BY Zenon, <1>1, <1>4, SumType
<1>6. CASE f \in K
  <2>1. SumFunctionOnSet(w, K) = w[f] + SumFunctionOnSet(w, K \ {f})  BY Zenon, <1>1, <1>6, SumAdd
  <2>2. w[f] = Share(comp, sz, f)  BY Zenon, <1>1, <1>2, <1>6 DEF Share
  <2> QED  BY Zenon, <1>1, <1>3, <1>5, <2>1, <2>2 DEF w, K
<1>7. CASE f \notin K
  <2>1. Share(comp, sz, f) = 0  BY Zenon, <1>2, <1>7 DEF Share
  <2>2. K \ {f} = K  BY Zenon, <1>7
  <2>3. SumFunction(w) = SumFunctionOnSet(w, K \ {f})  BY Zenon, <1>1, <2>2
  <2> QED  BY <1>3, <1>5, <2>1, <2>3 DEF w, K
<1> QED  BY Zenon, <1>6, <1>7

\* Replacing, adding or removing what one function retains.
LEMMA WeightChange ==
  ASSUME NEW comp, NEW new, NEW sz, NEW f \in Functions,
         \A g \in Functions : comp[g] # 0 => sz[comp[g]] \in Nat,
         \A g \in Functions : new[g] # 0 => sz[new[g]] \in Nat,
         \A g \in Functions : g # f => new[g] = comp[g]
  PROVE  /\ SumFunction(Weight(new, sz)) =
              SumFunction(Weight(comp, sz)) - Share(comp, sz, f) + Share(new, sz, f)
         /\ SumFunction(Weight(comp, sz)) \in Nat /\ SumFunction(Weight(new, sz)) \in Nat
         /\ SumFunction(Weight(comp, sz)) - Share(comp, sz, f) \in Nat
         /\ Share(comp, sz, f) \in Nat /\ Share(new, sz, f) \in Nat
<1> DEFINE K == Retains(comp) \ {f}
           v == SumFunctionOnSet(Weight(comp, sz), K)
           n == SumFunctionOnSet(Weight(new, sz), Retains(new) \ {f})
<1>1. SumFunction(Weight(comp, sz)) = Share(comp, sz, f) + v /\ Share(comp, sz, f) \in Nat /\ v \in Nat
  BY Zenon, WeightSplit
<1>2. SumFunction(Weight(new, sz)) = Share(new, sz, f) + n /\ Share(new, sz, f) \in Nat /\ n \in Nat
  BY Zenon, WeightSplit
<1>3. Retains(new) \ {f} = K  BY Zenon DEF Retains
<1>4. /\ IsFiniteSet(K)
      /\ \A g \in K : Weight(comp, sz)[g] \in Nat /\ Weight(new, sz)[g] = Weight(comp, sz)[g]
  <2>1. IsFiniteSet(K)  BY Zenon, WeightFacts, FS_Subset
  <2>2. \A g \in K : g \in Retains(comp) /\ g \in Retains(new) /\ new[g] = comp[g]
    BY Zenon DEF Retains
  <2>3. \A g \in K : Weight(comp, sz)[g] = sz[comp[g]] /\ Weight(new, sz)[g] = sz[new[g]]
    BY Zenon, <2>2 DEF Weight
  <2>4. \A g \in K : sz[comp[g]] \in Nat  BY Zenon DEF Retains
  <2> HIDE DEF K
  <2> QED  BY <2>1, <2>2, <2>3, <2>4
<1>5. n = v
  <2> HIDE DEF K
  <2> QED  BY Zenon, <1>3, <1>4, SumSame
<1> HIDE DEF n, v
<1> QED  BY <1>1, <1>2, <1>5

-----------------------------------------------------------------------------
(* Module preparation: what the registry serves.                           *)

FlightPositions == {"acquire", "fetch", "spawned", "compiling", "compiled"}

\* A load that was registered is past its deadline's reach, was never abandoned,
\* and is a success once its cache write is over.
Served(at, st, gone) ==
  /\ at \in {"put", "drop", "drop_active", "drop_record", "done"}
  /\ ~gone /\ st.cancellation = "none"
  /\ at # "put" => st.outcome = "success"

RegistryInv ==
  /\ submitted \in 0..MaxLoads /\ fn \in [Loads -> Functions]
  /\ components \in [Functions -> 0..submitted] /\ size \in [Loads -> {0} \cup Sizes]
  /\ \A f \in Functions : components[f] # 0 =>
       LET l == components[f] IN fn[l] = f /\ Served(task[l], state[l], detached[l])
  /\ native_bytes = SumFunction(Weight(components, size)) /\ native_bytes <= MaxNativeBytes
  /\ Cardinality(Retains(components)) <= MaxComponents

\* A fenced function: only the load last asked for is retained or can still be.
HistoryInv ==
  /\ caller \in {"idle", "waiting"}
  /\ desired \in [Functions -> 0..submitted] /\ unfenced \in [Functions -> BOOLEAN]
  /\ caller = "waiting" => /\ submitted > 0 /\ task[submitted] = "none"
                           /\ desired[fn[submitted]] = submitted
  /\ \A l \in Loads : l > submitted => task[l] = "none"
  /\ \A f \in Functions : ~unfenced[f] =>
       components[f] \in {0, desired[f]} /\ InFlight(f) \subseteq {desired[f]}

PreparationInv ==
  LoadInv /\ LoadPermitInv /\ RegistryInv /\ HistoryInv /\ alarms = {}

\* The numbers of loads are positions of the functions that describe them.
LEMMA SubmittedLoads ==
  ASSUME RegistryInv
  PROVE  /\ 1..submitted \subseteq Loads /\ submitted \in Nat
         /\ \A f \in Functions : components[f] # 0 =>
              components[f] \in 1..submitted /\ components[f] \in Loads /\ size[components[f]] \in Nat
<1>1. submitted \in 0..MaxLoads /\ MaxLoads \in Nat /\ Sizes \subseteq Nat
  BY Zenon, PreparationConstants DEF RegistryInv
<1>2. 1..submitted \subseteq Loads /\ submitted \in Nat  BY <1>1 DEF Loads
<1>3. ASSUME NEW f \in Functions, components[f] # 0
      PROVE  components[f] \in 1..submitted
  BY <1>1, <1>3 DEF RegistryInv
<1>4. \A l \in Loads : size[l] \in Nat
  <2>1. size \in [Loads -> {0} \cup Sizes]  BY Zenon DEF RegistryInv
  <2>2. ASSUME NEW l \in Loads PROVE size[l] \in {0} \cup Sizes  BY Zenon, <2>1
  <2>3. \A n \in {0} \cup Sizes : n \in Nat  BY <1>1
  <2> QED  BY Zenon, <2>2, <2>3
<1> QED  BY Zenon, <1>2, <1>3, <1>4

\* A step of a load that leaves the registry alone.
LEMMA RegistryQuiet ==
  ASSUME RegistryInv, LoadInv, NEW l \in 1..submitted, NEW at, NEW st, NEW gone, NEW late,
         Changes(l, at, st, gone, late), UNCHANGED <<submitted, fn, components, native_bytes>>,
         size' \in [Loads -> {0} \cup Sizes], \A k \in Loads : k # l => size'[k] = size[k],
         components[fn[l]] = l => size'[l] = size[l] /\ Served(at, st, gone)
  PROVE  RegistryInv'
<1>1. l \in Loads  BY Zenon, SubmittedLoads
<1>2. task'[l] = at /\ state'[l] = st /\ detached'[l] = gone
  BY Zenon, <1>1 DEF LoadInv, Changes
<1>3. \A k \in Loads : k # l => task'[k] = task[k] /\ state'[k] = state[k] /\ detached'[k] = detached[k]
  BY Zenon DEF LoadInv, Changes
<1>4. ASSUME NEW f \in Functions, components[f] # 0
      PROVE  /\ size'[components[f]] = size[components[f]]
             /\ fn[components[f]] = f
             /\ Served(task'[components[f]], state'[components[f]], detached'[components[f]])
  <2>1. components[f] \in Loads /\ fn[components[f]] = f  BY Zenon, <1>4, SubmittedLoads DEF RegistryInv
  <2>2. CASE components[f] = l  BY Zenon, <1>2, <2>1, <2>2
  <2>3. CASE components[f] # l
    <3>1. Served(task[components[f]], state[components[f]], detached[components[f]])
      BY Zenon, <1>4 DEF RegistryInv
    <3>2. /\ task'[components[f]] = task[components[f]] /\ state'[components[f]] = state[components[f]]
          /\ detached'[components[f]] = detached[components[f]]
      BY Zenon, <1>3, <2>1, <2>3
    <3> QED  BY Zenon, <2>1, <2>3, <3>1, <3>2
  <2> QED  BY Zenon, <2>2, <2>3
<1>5. Weight(components, size') = Weight(components, size)
  <2>1. \A f \in Retains(components) : size'[components[f]] = size[components[f]]
    BY Zenon, <1>4 DEF Retains
  <2> QED  BY Zenon, <2>1 DEF Weight
<1> QED  BY Zenon, <1>4, <1>5 DEF RegistryInv

\* A step of a load that does not bring it back into flight.
LEMMA HistoryQuiet ==
  ASSUME HistoryInv, RegistryInv, LoadInv, NEW l \in 1..submitted, NEW at, NEW st, NEW gone, NEW late,
         Changes(l, at, st, gone, late), UNCHANGED <<caller, submitted, fn, components, history>>,
         task[l] # "none",
         at \in FlightPositions /\ ~gone => task[l] \in FlightPositions /\ ~detached[l]
  PROVE  HistoryInv'
<1>1. l \in Loads /\ 1..submitted \subseteq Loads /\ submitted \in Nat  BY Zenon, SubmittedLoads
<1>2. task'[l] = at /\ detached'[l] = gone
  BY Zenon, <1>1 DEF LoadInv, Changes
<1>3. \A k \in Loads : k # l => task'[k] = task[k] /\ detached'[k] = detached[k]
  BY Zenon DEF LoadInv, Changes
<1>4. \A f \in Functions : InFlight(f)' \subseteq InFlight(f)
  <2> SUFFICES ASSUME NEW f \in Functions, NEW k \in InFlight(f)' PROVE k \in InFlight(f)
    BY Zenon
  <2>1. k \in 1..submitted /\ fn[k] = f /\ ~detached'[k] /\ task'[k] \in FlightPositions
    BY Zenon DEF InFlight, FlightPositions
  <2>2. CASE k = l  BY Zenon, <1>2, <2>1, <2>2 DEF InFlight, FlightPositions
  <2>3. CASE k # l  BY Zenon, <1>1, <1>3, <2>1, <2>3 DEF InFlight, FlightPositions
  <2> QED  BY Zenon, <2>2, <2>3
<1>5. caller = "waiting" => task'[submitted] = "none"
  <2> SUFFICES ASSUME caller = "waiting" PROVE task'[submitted] = "none"  BY Zenon
  <2>1. task[submitted] = "none" /\ submitted \in 1..submitted  BY <1>1 DEF HistoryInv
  <2> QED  BY Zenon, <1>1, <1>3, <2>1
<1>6. \A k \in Loads : k > submitted => task'[k] = "none"
  BY Zenon, <1>1, <1>3 DEF HistoryInv
<1> QED  BY Zenon, <1>4, <1>5, <1>6 DEF HistoryInv, history

\* A step of load l that accounts for its permits, leaves registry and history
\* alone, and gives no alarm if the gauges are within their limits.
QuietPermits(l, at, st) ==
  /\ records' \in Nat /\ active' \in Nat
  /\ records' = records + RecordsOf(task[l]) - RecordsOf(at)
  /\ active' = active + ActiveOf(task[l], state[l]) - ActiveOf(at, st)

QuietRegistry(l, at, st, gone) ==
  /\ size' \in [Loads -> {0} \cup Sizes] /\ \A k \in Loads : k # l => size'[k] = size[k]
  /\ components[fn[l]] = l => size'[l] = size[l] /\ Served(at, st, gone)
  /\ task[l] # "none"
  /\ at \in FlightPositions /\ ~gone => task[l] \in FlightPositions /\ ~detached[l]
  /\ UNCHANGED <<caller, submitted, fn, components, native_bytes, history>>

Unalarmed ==
  (\A kind \in {"queued", "active", "tracked", "compiling"} :
     ~(Occupancy(state', kind) > Limit(kind))) => alarms' = {}

\* Such a step keeps the invariant.
LEMMA QuietStep ==
  ASSUME PreparationInv, NEW l \in 1..submitted,
         NEW at \in Positions, NEW st \in PreparationState, NEW gone \in BOOLEAN, NEW late \in BOOLEAN,
         LoadOK(at, st, gone, late), Changes(l, at, st, gone, late),
         QuietPermits(l, at, st), QuietRegistry(l, at, st, gone), Unalarmed
  PROVE  PreparationInv'
<1>1. LoadInv /\ LoadPermitInv /\ RegistryInv /\ HistoryInv /\ l \in Loads
  BY Zenon, SubmittedLoads DEF PreparationInv
<1>2. LoadInv' /\ LoadPermitInv' /\ alarms' = {}  BY Zenon, <1>1, LoadChange DEF QuietPermits, Unalarmed
<1>3. RegistryInv'  BY Zenon, <1>1, RegistryQuiet DEF QuietRegistry
<1>4. HistoryInv'  BY Zenon, <1>1, HistoryQuiet DEF QuietRegistry
<1> QED  BY Zenon, <1>2, <1>3, <1>4 DEF PreparationInv

\* What an action of load l starts from.
LoadedOK(l) ==
  /\ l \in Loads /\ LoadOK(task[l], state[l], detached[l], expired[l])
  /\ task[l] \in Positions /\ state[l] \in PreparationState
  /\ detached[l] \in BOOLEAN /\ expired[l] \in BOOLEAN
  /\ task \in [Loads -> Positions] /\ state \in [Loads -> PreparationState]
  /\ detached \in [Loads -> BOOLEAN] /\ expired \in [Loads -> BOOLEAN]
  /\ size \in [Loads -> {0} \cup Sizes]
  /\ records \in Nat /\ active \in Nat /\ alarms = {}
  /\ components[fn[l]] = l => Served(task[l], state[l], detached[l])

\* It follows from the invariant.
LEMMA LoadFacts ==
  ASSUME PreparationInv, NEW l \in 1..submitted  PROVE LoadedOK(l)
<1>1. LoadInv /\ LoadPermitInv /\ RegistryInv /\ l \in Loads
  BY Zenon, SubmittedLoads DEF PreparationInv
<1>2. size \in [Loads -> {0} \cup Sizes] /\ fn[l] \in Functions  BY Zenon, <1>1 DEF RegistryInv
<1>3. components[fn[l]] = l => Served(task[l], state[l], detached[l])
  <2>1. l # 0  BY PreparationConstants DEF RegistryInv, PreparationInv
  <2> QED  BY Zenon, <1>1, <1>2, <2>1 DEF RegistryInv
<1>4. records \in Nat /\ active \in Nat /\ alarms = {}  BY Zenon DEF PreparationInv, LoadPermitInv
<1>5. /\ LoadOK(task[l], state[l], detached[l], expired[l])
      /\ task[l] \in Positions /\ state[l] \in PreparationState
      /\ detached[l] \in BOOLEAN /\ expired[l] \in BOOLEAN
  BY Zenon, <1>1 DEF LoadInv
<1> QED  BY Zenon, <1>1, <1>2, <1>3, <1>4, <1>5 DEF LoadInv, LoadedOK

\* The load takes the active permit.
LEMMA AcquireActiveInv ==
  ASSUME PreparationInv, NEW l \in 1..submitted, AcquireActive(l)  PROVE PreparationInv'
<1> DEFINE st == [state[l] EXCEPT !.stage = "preparing", !.outcome = "error"]
<1>1. LoadedOK(l)  BY Zenon, LoadFacts
<1>2. /\ task[l] = "acquire" /\ task' = [task EXCEPT ![l] = "fetch"]
      /\ active > 0 /\ active' = active - 1 /\ records' = records
      /\ state' = [state EXCEPT ![l] = st]
      /\ UNCHANGED <<caller, submitted, fn, detached, expired, components, size, native_bytes, history>>
  BY Zenon DEF AcquireActive, Step, Report, NoSubmission, registry
<1>3. st \in PreparationState
  BY Zenon, <1>1 DEF LoadedOK, PreparationState, WorkState, PreparationOutcome
<1>4. LoadOK("fetch", st, detached[l], expired[l])
  BY Zenon, <1>1, <1>2 DEF LoadedOK, LoadOK, PreparationState
<1>5. Changes(l, "fetch", st, detached[l], expired[l])  BY Zenon, <1>1, <1>2 DEF LoadedOK, Changes
<1>6. QuietPermits(l, "fetch", st)
  BY <1>1, <1>2
     DEF LoadedOK, QuietPermits, RecordsOf, RecordPositions, Positions, ActiveOf, Active, ActivePositions
<1>7. state[l].stage = "queued"  BY Zenon, <1>1, <1>2 DEF LoadedOK, LoadOK
<1>8. Unalarmed  BY Zenon, <1>1, <1>2, <1>7 DEF LoadedOK, AcquireActive, Report, Unalarmed
<1>9. QuietRegistry(l, "fetch", st, detached[l])
  BY Zenon, <1>1, <1>2 DEF LoadedOK, QuietRegistry, Served, FlightPositions, LoadOK
<1>10. "fetch" \in Positions /\ detached[l] \in BOOLEAN /\ expired[l] \in BOOLEAN
  BY Zenon, <1>1 DEF Positions, LoadedOK
<1> HIDE DEF st
<1> QED  BY Zenon, <1>3, <1>4, <1>5, <1>6, <1>8, <1>9, <1>10, QuietStep

\* The states an accounting call of preparation_metrics.rs returns are states.
LEMMA AccountingTypes ==
  ASSUME NEW p \in PreparationState, NEW late \in BOOLEAN
  PROVE  /\ TerminateIf(p, late) \in PreparationState /\ Terminate(p, "timeout") \in PreparationState
         /\ Compiling(p) \in PreparationState /\ CompilationFinished(p) \in PreparationState
         /\ Ended(p) \in PreparationState /\ Idle \in PreparationState
         /\ \A o \in PreparationOutcome : [p EXCEPT !.outcome = o] \in PreparationState
<1> USE DEF PreparationState, WorkState, PreparationOutcome
<1>1. Terminate(p, "timeout") \in PreparationState  BY Zenon DEF Terminate
<1>2. TerminateIf(p, late) \in PreparationState  BY <1>1 DEF TerminateIf
<1>3. Compiling(p) \in PreparationState  BY Zenon DEF Compiling
<1>4. CompilationFinished(p) \in PreparationState  BY Zenon DEF CompilationFinished
<1>5. Ended(p) \in PreparationState  BY Zenon DEF Ended
<1>6. Idle \in PreparationState  BY Zenon DEF Idle
<1>7. \A o \in PreparationOutcome : [p EXCEPT !.outcome = o] \in PreparationState  BY Zenon
<1> QED  BY Zenon, <1>1, <1>2, <1>3, <1>4, <1>5, <1>6, <1>7

\* The fetch ends.
LEMMA FetchInv ==
  ASSUME PreparationInv, NEW l \in 1..submitted, NEW ok \in BOOLEAN, Fetch(l, ok)
  PROVE  PreparationInv'
<1> DEFINE at == IF ok THEN "spawned" ELSE "drop"
<1>1. LoadedOK(l)  BY Zenon, LoadFacts
<1>2. /\ task[l] = "fetch" /\ task' = [task EXCEPT ![l] = at]
      /\ UNCHANGED <<caller, submitted, fn, detached, expired, state, alarms, permits, components, size,
                     native_bytes, history>>
  BY Zenon DEF Fetch, Step, NoSubmission, registry
<1>3. LoadOK(at, state[l], detached[l], expired[l])  BY Zenon, <1>1, <1>2 DEF LoadedOK, LoadOK, PreparationState
<1>4. Changes(l, at, state[l], detached[l], expired[l])  BY Zenon, <1>1, <1>2 DEF LoadedOK, Changes
<1>5. QuietPermits(l, at, state[l])
  BY <1>1, <1>2
     DEF LoadedOK, LoadOK, QuietPermits, RecordsOf, RecordPositions, Positions, ActiveOf, Active,
         ActivePositions, permits
<1>6. Unalarmed  BY Zenon, <1>1, <1>2 DEF LoadedOK, Unalarmed
<1>7. QuietRegistry(l, at, state[l], detached[l])
  BY Zenon, <1>1, <1>2 DEF LoadedOK, QuietRegistry, Served, FlightPositions, LoadOK
<1>8. /\ at \in Positions /\ detached[l] \in BOOLEAN /\ expired[l] \in BOOLEAN
      /\ state[l] \in PreparationState
  BY Zenon, <1>1 DEF Positions, LoadedOK
<1> HIDE DEF at
<1> QED  BY Zenon, <1>3, <1>4, <1>5, <1>6, <1>7, <1>8, QuietStep

\* The blocking thread starts.
LEMMA StartCompileInv ==
  ASSUME PreparationInv, NEW l \in 1..submitted, StartCompile(l)  PROVE PreparationInv'
<1> DEFINE p == TerminateIf(state[l], expired[l])
           st == Compiling(p)
<1>1. LoadedOK(l)  BY Zenon, LoadFacts
<1>2. /\ task[l] = "spawned" /\ task' = [task EXCEPT ![l] = "compiling"]
      /\ state' = [state EXCEPT ![l] = st]
      /\ UNCHANGED <<caller, submitted, fn, detached, expired, permits, components, size,
                     native_bytes, history>>
  BY Zenon DEF StartCompile, Step, Report, NoSubmission, registry
<1>3. st \in PreparationState  BY Zenon, <1>1, AccountingTypes DEF LoadedOK
<1>4. /\ p.stage \in {"preparing", "terminating"} /\ (p.stage = "terminating" => p.cancellation # "none")
      /\ p.cancellation # "none" => expired[l]
      /\ detached[l] => p.cancellation # "none"
  BY Zenon, <1>1, <1>2 DEF LoadedOK, LoadOK, TerminateIf, Terminate, PreparationState
<1>5. LoadOK("compiling", st, detached[l], expired[l])
  <2>1. p \in PreparationState  BY Zenon, <1>1, AccountingTypes DEF LoadedOK
  <2> HIDE DEF p
  <2> QED  BY Zenon, <1>1, <1>4, <2>1 DEF LoadedOK, LoadOK, Compiling, PreparationState
<1>6. Changes(l, "compiling", st, detached[l], expired[l])  BY Zenon, <1>1, <1>2 DEF LoadedOK, Changes
<1>7. QuietPermits(l, "compiling", st)
  BY <1>1, <1>2
     DEF LoadedOK, QuietPermits, RecordsOf, RecordPositions, Positions, ActiveOf, Active,
         ActivePositions, permits
<1>8. Unalarmed
  <2>1. alarms' = alarms \cup {k \in {"active", "compiling"} : Occupancy(state', k) > Limit(k)}
    BY Zenon, <1>2, <1>4 DEF StartCompile, Report
  <2> QED  BY Zenon, <1>1, <2>1 DEF LoadedOK, Unalarmed
<1>9. QuietRegistry(l, "compiling", st, detached[l])
  BY Zenon, <1>1, <1>2 DEF LoadedOK, QuietRegistry, Served, FlightPositions
<1>10. "compiling" \in Positions /\ detached[l] \in BOOLEAN /\ expired[l] \in BOOLEAN
  BY Zenon, <1>1 DEF Positions, LoadedOK
<1> HIDE DEF st
<1> QED  BY Zenon, <1>3, <1>5, <1>6, <1>7, <1>8, <1>9, <1>10, QuietStep

\* The compiler returns; a detached load's result goes with its permits.
LEMMA FinishCompileInv ==
  ASSUME PreparationInv, NEW l \in 1..submitted, NEW n \in {0} \cup Sizes, FinishCompile(l, n)
  PROVE  PreparationInv'
<1> DEFINE q == TerminateIf(state[l], expired[l])
           p == CompilationFinished(q)
           st == IF n = 0 THEN p ELSE [p EXCEPT !.outcome = "cancelled"]
           at == IF n = 0 \/ detached[l] THEN "drop" ELSE "compiled"
<1>1. LoadedOK(l)  BY Zenon, LoadFacts
<1>2. /\ task[l] = "compiling" /\ task' = [task EXCEPT ![l] = at]
      /\ state' = [state EXCEPT ![l] = st] /\ size' = [size EXCEPT ![l] = n]
      /\ UNCHANGED <<caller, submitted, fn, detached, expired, permits, components,
                     native_bytes, history>>
  BY Zenon DEF FinishCompile, Step, Report, NoSubmission
<1>3. q \in PreparationState /\ p \in PreparationState  BY Zenon, <1>1, AccountingTypes DEF LoadedOK
<1>4. /\ q.stage = IF q.cancellation = "none" THEN "compiling" ELSE "terminating"
      /\ q.cancellation # "none" => expired[l]
  BY Zenon, <1>1, <1>2 DEF LoadedOK, LoadOK, TerminateIf, Terminate, PreparationState
<1>5. /\ p.stage = IF p.cancellation = "none" THEN "preparing" ELSE "terminating"
      /\ p.cancellation # "none" => expired[l]
      /\ ~p.started
  <2> HIDE DEF q
  <2> QED  BY Zenon, <1>3, <1>4 DEF CompilationFinished, PreparationState
<1> HIDE DEF p
<1>6. /\ st \in PreparationState /\ ~st.started /\ (st.cancellation # "none" => expired[l])
      /\ st.stage = IF st.cancellation = "none" THEN "preparing" ELSE "terminating"
  BY Zenon, <1>3, <1>5 DEF PreparationState, PreparationOutcome
<1> HIDE DEF st
<1>7. LoadOK(at, st, detached[l], expired[l])
  BY Zenon, <1>1, <1>2, <1>6 DEF LoadedOK, LoadOK, PreparationState
<1>8. Changes(l, at, st, detached[l], expired[l])  BY Zenon, <1>1, <1>2 DEF LoadedOK, Changes
<1>9. QuietPermits(l, at, st)
  BY <1>1, <1>2, <1>6
     DEF LoadedOK, QuietPermits, RecordsOf, RecordPositions, Positions, ActiveOf, Active,
         ActivePositions, permits
<1>10. Unalarmed
  <2>1. state[l].started  BY Zenon, <1>1, <1>2 DEF LoadedOK, LoadOK
  <2>2. alarms' = alarms \cup {k \in {} : Occupancy(state', k) > Limit(k)}
    BY Zenon, <1>2, <2>1 DEF FinishCompile, Report
  <2> QED  BY Zenon, <1>1, <2>2 DEF LoadedOK, Unalarmed
<1>11. QuietRegistry(l, at, st, detached[l])
  BY Zenon, <1>1, <1>2 DEF LoadedOK, QuietRegistry, Served, FlightPositions
<1>12. at \in Positions /\ detached[l] \in BOOLEAN /\ expired[l] \in BOOLEAN
  BY Zenon, <1>1 DEF Positions, LoadedOK
<1> HIDE DEF at
<1> QED  BY Zenon, <1>6, <1>7, <1>8, <1>9, <1>10, <1>11, <1>12, QuietStep

\* Steps that only note an outcome on the way to the drop: a panic of the compiler,
\* a component that is not registered, the end of the cache write.
LEMMA ToDropInv ==
  ASSUME PreparationInv, NEW l \in 1..submitted, CompilePanics(l) \/ NotRegistered(l) \/ PutDone(l)
  PROVE  PreparationInv'
<1> DEFINE q == TerminateIf(state[l], expired[l])
           st == IF task[l] = "compiling" THEN [state[l] EXCEPT !.outcome = "panic"]
                 ELSE IF task[l] = "put" THEN [state[l] EXCEPT !.outcome = "success"]
                 ELSE [q EXCEPT !.outcome = "error"]
<1>1. LoadedOK(l)  BY Zenon, LoadFacts
<1>2. /\ task[l] \in {"compiling", "compiled", "put"} /\ task' = [task EXCEPT ![l] = "drop"]
      /\ UNCHANGED <<caller, submitted, fn, detached, expired, alarms, permits, components, size,
                     native_bytes, history>>
  BY Zenon DEF CompilePanics, NotRegistered, PutDone, Step, NoSubmission, registry
<1>3. state' = [state EXCEPT ![l] = st]
  BY Zenon, <1>1 DEF CompilePanics, NotRegistered, PutDone, Step, LoadedOK, PreparationState
<1>4. q \in PreparationState  BY Zenon, <1>1, AccountingTypes DEF LoadedOK
<1>5. q.stage \in {"preparing", "compiling", "terminating"} /\ (q.cancellation # "none" => expired[l])
  BY Zenon, <1>1, <1>2 DEF LoadedOK, LoadOK, TerminateIf, Terminate, PreparationState
<1> HIDE DEF q
<1>6. /\ st \in PreparationState /\ st.stage \in {"preparing", "compiling", "terminating"}
      /\ st.cancellation # "none" => expired[l]
      /\ task[l] = "put" => st.cancellation = state[l].cancellation /\ st.outcome = "success"
  BY <1>1, <1>2, <1>4, <1>5 DEF PreparationState, PreparationOutcome, LoadedOK, LoadOK
<1> HIDE DEF st
<1>7. LoadOK("drop", st, detached[l], expired[l])
  BY Zenon, <1>1, <1>6 DEF LoadedOK, LoadOK, PreparationState
<1>8. Changes(l, "drop", st, detached[l], expired[l])  BY Zenon, <1>1, <1>2, <1>3 DEF LoadedOK, Changes
<1>9. QuietPermits(l, "drop", st)
  BY <1>1, <1>2, <1>6
     DEF LoadedOK, QuietPermits, RecordsOf, RecordPositions, Positions, ActiveOf, Active,
         ActivePositions, permits
<1>10. Unalarmed  BY Zenon, <1>1, <1>2 DEF LoadedOK, Unalarmed
<1>11. QuietRegistry(l, "drop", st, detached[l])
  BY Zenon, <1>1, <1>2, <1>6 DEF LoadedOK, QuietRegistry, Served, FlightPositions
<1>12. "drop" \in Positions /\ detached[l] \in BOOLEAN /\ expired[l] \in BOOLEAN
  BY Zenon, <1>1 DEF Positions, LoadedOK
<1> QED  BY Zenon, <1>6, <1>7, <1>8, <1>9, <1>10, <1>11, <1>12, QuietStep

\* The select sees the deadline, in whichever position the load is.
LEMMA DeadlineFiresInv ==
  ASSUME PreparationInv, NEW l \in 1..submitted, DeadlineFires(l)  PROVE PreparationInv'
<1> DEFINE st == Terminate(state[l], "timeout")
           at == IF task[l] \in {"spawned", "compiling"} THEN task[l] ELSE "drop"
<1>1. LoadedOK(l)  BY Zenon, LoadFacts
<1>2. /\ expired[l] /\ task[l] \in FlightPositions
      /\ task' = [task EXCEPT ![l] = at] /\ state' = [state EXCEPT ![l] = st]
      /\ detached' = [detached EXCEPT ![l] = TRUE]
      /\ UNCHANGED <<caller, submitted, fn, expired, permits, components, size, native_bytes, history>>
  BY Zenon, <1>1 DEF DeadlineFires, Report, NoSubmission, registry, FlightPositions, LoadedOK
<1>3. st \in PreparationState  BY Zenon, <1>1, AccountingTypes DEF LoadedOK
<1>4. LoadOK(at, st, TRUE, expired[l])
  BY Zenon, <1>1, <1>2 DEF LoadedOK, LoadOK, Terminate, PreparationState, FlightPositions
<1>5. Changes(l, at, st, TRUE, expired[l])  BY Zenon, <1>1, <1>2 DEF LoadedOK, Changes
<1>6. (task[l] = "acquire" => st.stage = "queued") /\ (task[l] # "acquire" => st.stage # "queued")
  BY Zenon, <1>1, <1>2 DEF LoadedOK, LoadOK, Terminate, PreparationState, FlightPositions
<1> HIDE DEF st
<1>7. QuietPermits(l, at, st)
  BY <1>1, <1>2, <1>6
     DEF LoadedOK, QuietPermits, RecordsOf, RecordPositions, Positions, ActiveOf, Active,
         ActivePositions, permits, FlightPositions
<1>8. Unalarmed
  <2>1. alarms' = alarms \cup {k \in {"active"} : Occupancy(state', k) > Limit(k)}
    BY Zenon, <1>2 DEF DeadlineFires, Report, st
  <2> QED  BY Zenon, <1>1, <2>1 DEF LoadedOK, Unalarmed
<1>9. QuietRegistry(l, at, st, TRUE)
  BY Zenon, <1>1, <1>2 DEF LoadedOK, QuietRegistry, Served, FlightPositions
<1>10. at \in Positions /\ expired[l] \in BOOLEAN
  BY Zenon, <1>1 DEF Positions, LoadedOK
<1> HIDE DEF at
<1> QED  BY Zenon, <1>3, <1>4, <1>5, <1>7, <1>8, <1>9, <1>10, QuietStep

\* The accounting ends before the permits return.
LEMMA EndWorkInv ==
  ASSUME PreparationInv, NEW l \in 1..submitted, EndWork(l)  PROVE PreparationInv'
<1> DEFINE st == Ended(state[l])
           at == IF state[l].stage = "queued" THEN "drop_record" ELSE "drop_active"
<1>1. LoadedOK(l)  BY Zenon, LoadFacts
<1>2. /\ task[l] = "drop" /\ task' = [task EXCEPT ![l] = at]
      /\ state' = [state EXCEPT ![l] = st]
      /\ UNCHANGED <<caller, submitted, fn, detached, expired, alarms, permits, components, size,
                     native_bytes, history>>
  BY Zenon, <1>1 DEF EndWork, Step, NoSubmission, registry, LoadedOK
<1>3. st \in PreparationState  BY Zenon, <1>1, AccountingTypes DEF LoadedOK
<1>4. /\ st.stage = "none" /\ ~st.started /\ st.cancellation = state[l].cancellation
      /\ state[l].cancellation = "none" => st.outcome = state[l].outcome
  BY Zenon, <1>1 DEF LoadedOK, Ended, PreparationState
<1> HIDE DEF st
<1>5. LoadOK(at, st, detached[l], expired[l])  BY Zenon, <1>1, <1>2, <1>4 DEF LoadedOK, LoadOK
<1>6. Changes(l, at, st, detached[l], expired[l])  BY Zenon, <1>1, <1>2 DEF LoadedOK, Changes
<1>7. QuietPermits(l, at, st)
  BY <1>1, <1>2
     DEF LoadedOK, QuietPermits, RecordsOf, RecordPositions, Positions, ActiveOf, Active,
         ActivePositions, permits
<1>8. Unalarmed  BY Zenon, <1>1, <1>2 DEF LoadedOK, Unalarmed
<1>9. QuietRegistry(l, at, st, detached[l])
  BY Zenon, <1>1, <1>2, <1>4 DEF LoadedOK, QuietRegistry, Served, FlightPositions
<1>10. at \in Positions /\ detached[l] \in BOOLEAN /\ expired[l] \in BOOLEAN
  BY Zenon, <1>1 DEF Positions, LoadedOK
<1> HIDE DEF at
<1> QED  BY Zenon, <1>3, <1>5, <1>6, <1>7, <1>8, <1>9, <1>10, QuietStep

\* The permits return; a load that is not registered is forgotten.
LEMMA ReleasePermitsInv ==
  ASSUME PreparationInv, NEW l \in 1..submitted, ReleasePermits(l)  PROVE PreparationInv'
<1> DEFINE keep == components[fn[l]] = l
           st == IF keep THEN state[l] ELSE Idle
           gone == IF keep THEN detached[l] ELSE FALSE
           late == IF keep THEN expired[l] ELSE FALSE
<1>1. LoadedOK(l)  BY Zenon, LoadFacts
<1>2. /\ task[l] \in {"drop_active", "drop_record"} /\ task' = [task EXCEPT ![l] = "done"]
      /\ active' = active + (IF task[l] = "drop_active" THEN 1 ELSE 0) /\ records' = records + 1
      /\ UNCHANGED <<caller, submitted, fn, alarms, components, native_bytes, history>>
  BY Zenon DEF ReleasePermits, NoSubmission
<1>3. Changes(l, "done", st, gone, late)
  BY Zenon, <1>1, <1>2 DEF LoadedOK, Changes, ReleasePermits
<1>4. /\ st \in PreparationState /\ gone \in BOOLEAN /\ late \in BOOLEAN /\ "done" \in Positions
  BY Zenon, <1>1, AccountingTypes DEF LoadedOK, Positions
<1>5. LoadOK("done", st, gone, late)  BY Zenon, <1>1, <1>2 DEF LoadedOK, LoadOK, Idle
<1>6. QuietPermits(l, "done", st)
  BY <1>1, <1>2
     DEF LoadedOK, QuietPermits, RecordsOf, RecordPositions, Positions, ActiveOf, Active, ActivePositions
<1>7. Unalarmed  BY Zenon, <1>1, <1>2 DEF LoadedOK, Unalarmed
<1>8. size' = IF keep THEN size ELSE [size EXCEPT ![l] = 0]  BY Zenon DEF ReleasePermits
<1>9. QuietRegistry(l, "done", st, gone)
  BY Zenon, <1>1, <1>2, <1>8 DEF LoadedOK, QuietRegistry, Served, FlightPositions
<1> HIDE DEF st, gone, late
<1> QED  BY Zenon, <1>3, <1>4, <1>5, <1>6, <1>7, <1>9, QuietStep

\* The clock passes the deadline.
LEMMA ExpireInv ==
  ASSUME PreparationInv, NEW l \in 1..submitted, Expire(l)  PROVE PreparationInv'
<1>1. LoadedOK(l)  BY Zenon, LoadFacts
<1>2. /\ task[l] \in FlightPositions /\ expired' = [expired EXCEPT ![l] = TRUE]
      /\ UNCHANGED <<caller, submitted, fn, task, detached, state, alarms, permits, components, size,
                     native_bytes, history>>
  BY Zenon DEF Expire, NoSubmission, registry, FlightPositions
<1>3. Changes(l, task[l], state[l], detached[l], TRUE)
  BY Zenon, <1>1, <1>2 DEF LoadedOK, Changes
<1>4. LoadOK(task[l], state[l], detached[l], TRUE)
  BY Zenon, <1>1, <1>2 DEF LoadedOK, LoadOK, FlightPositions
<1>5. QuietPermits(l, task[l], state[l])
  BY <1>1, <1>2 DEF LoadedOK, QuietPermits, RecordsOf, ActiveOf, permits
<1>6. Unalarmed  BY Zenon, <1>1, <1>2 DEF LoadedOK, Unalarmed
<1>7. QuietRegistry(l, task[l], state[l], detached[l])
  BY Zenon, <1>1, <1>2 DEF LoadedOK, QuietRegistry, FlightPositions
<1>8. task[l] \in Positions /\ state[l] \in PreparationState /\ detached[l] \in BOOLEAN
  BY Zenon, <1>1 DEF LoadedOK
<1> QED  BY Zenon, <1>3, <1>4, <1>5, <1>6, <1>7, <1>8, QuietStep

\* The configuration replaces what a function retains by nothing, or leaves it.
LEMMA RegistryConfigured ==
  ASSUME RegistryInv, NEW f \in Functions, RemoveComponent(f) \/ UNCHANGED registry,
         UNCHANGED <<task, state, detached>>, submitted' \in Nat,
         submitted <= submitted', submitted' <= MaxLoads,
         fn' \in [Loads -> Functions], \A k \in 1..submitted : fn'[k] = fn[k]
  PROVE  RegistryInv'
<1>1. /\ 1..submitted \subseteq Loads /\ submitted \in Nat /\ MaxLoads \in Nat
      /\ \A g \in Functions : components[g] # 0 =>
           components[g] \in 1..submitted /\ components[g] \in Loads /\ size[components[g]] \in Nat
  BY Zenon, SubmittedLoads, PreparationConstants
<1>2. /\ components \in [Functions -> 0..submitted] /\ size \in [Loads -> {0} \cup Sizes]
      /\ native_bytes = SumFunction(Weight(components, size)) /\ native_bytes <= MaxNativeBytes
      /\ Cardinality(Retains(components)) <= MaxComponents
      /\ \A g \in Functions : components[g] # 0 =>
           LET l == components[g] IN fn[l] = g /\ Served(task[l], state[l], detached[l])
  BY Zenon DEF RegistryInv
<1>3. submitted' \in 0..MaxLoads /\ 0..submitted \subseteq 0..submitted'  BY <1>1
<1>4. CASE UNCHANGED registry
  <2>1. components' = components /\ size' = size /\ native_bytes' = native_bytes
    BY Zenon, <1>4 DEF registry
  <2>2. components' \in [Functions -> 0..submitted']  BY Zenon, <1>2, <1>3, <2>1
  <2>3. \A g \in Functions : components'[g] # 0 => fn'[components'[g]] = g
    BY Zenon, <1>1, <1>2, <2>1
  <2> QED  BY Zenon, <1>2, <1>3, <2>1, <2>2, <2>3 DEF RegistryInv
<1>5. CASE RemoveComponent(f)
  <2>1. /\ components' = [components EXCEPT ![f] = 0] /\ size' = size
        /\ native_bytes' = native_bytes - Share(components, size, f)
    BY Zenon, <1>5 DEF RemoveComponent, Share
  <2>2. components'[f] = 0 /\ \A g \in Functions : g # f => components'[g] = components[g]
    BY Zenon, <1>2, <2>1
  <2>3. components' \in [Functions -> 0..submitted']  BY <1>1, <1>2, <1>3, <2>1
  <2>4. /\ SumFunction(Weight(components', size)) = SumFunction(Weight(components, size))
              - Share(components, size, f) + Share(components', size, f)
        /\ SumFunction(Weight(components, size)) \in Nat
        /\ Share(components, size, f) \in Nat
    <3>1. \A g \in Functions : components'[g] # 0 => size[components'[g]] \in Nat
      BY Zenon, <1>1, <2>2
    <3> QED  BY Zenon, <1>1, <2>2, <3>1, WeightChange
  <2>5. native_bytes' = SumFunction(Weight(components', size)) /\ native_bytes' <= MaxNativeBytes
    <3>1. /\ native_bytes = SumFunction(Weight(components, size))
          /\ native_bytes <= MaxNativeBytes /\ MaxNativeBytes \in Nat
      BY Zenon, <1>2, PreparationConstants
    <3>2. Share(components', size, f) = 0  BY Zenon, <2>2 DEF Share
    <3> QED  BY <2>1, <2>4, <3>1, <3>2
  <2>6. Cardinality(Retains(components')) <= MaxComponents
    <3>1. Retains(components') \in SUBSET Retains(components)  BY Zenon, <2>2 DEF Retains
    <3>2. IsFiniteSet(Retains(components))  BY Zenon, <1>1, WeightFacts
    <3>3. IsFiniteSet(Retains(components'))
          /\ Cardinality(Retains(components')) <= Cardinality(Retains(components))
      BY Zenon, <3>1, <3>2, FS_Subset
    <3>4. Cardinality(Retains(components)) \in Nat /\ Cardinality(Retains(components')) \in Nat
      BY Zenon, <3>2, <3>3, FS_CardinalityType
    <3> QED  BY <1>2, <3>3, <3>4, PreparationConstants
  <2>7. ASSUME NEW g \in Functions, components'[g] # 0
        PROVE  LET l == components'[g] IN fn'[l] = g /\ Served(task[l], state[l], detached[l])
    BY Zenon, <1>1, <1>2, <2>2, <2>7
  <2> QED  BY Zenon, <1>2, <1>3, <2>1, <2>3, <2>5, <2>6, <2>7 DEF RegistryInv
<1> QED  BY Zenon, <1>4, <1>5

\* The loads' part only depends on their variables.
LEMMA LoadFrame ==
  LoadInv /\ LoadPermitInv /\ UNCHANGED <<task, state, detached, expired, permits>>
    => LoadInv' /\ LoadPermitInv'
  BY Zenon DEF LoadInv, LoadPermitInv, permits

\* An update deletes a function.
LEMMA DeleteInv ==
  ASSUME PreparationInv, NEW f \in Functions, Delete(f)  PROVE PreparationInv'
<1>1. LoadInv /\ LoadPermitInv /\ RegistryInv /\ HistoryInv /\ alarms = {}  BY Zenon DEF PreparationInv
<1>2. /\ caller = "idle" /\ RemoveComponent(f) /\ desired' = [desired EXCEPT ![f] = 0]
      /\ unfenced' = [unfenced EXCEPT ![f] = InFlight(f) # {}]
      /\ UNCHANGED <<caller, submitted, fn, task, detached, expired, state, alarms, permits>>
  BY Zenon DEF Delete
<1>3. LoadInv' /\ LoadPermitInv' /\ alarms' = {}  BY Zenon, <1>1, <1>2, LoadFrame
<1>4. submitted \in 0..MaxLoads /\ MaxLoads \in Nat /\ fn \in [Loads -> Functions]
      /\ components \in [Functions -> 0..submitted]
  BY Zenon, <1>1, PreparationConstants DEF RegistryInv
<1>5. RegistryInv'  BY <1>1, <1>2, <1>4, RegistryConfigured
<1>6. \A g \in Functions : InFlight(g)' = InFlight(g)  BY Zenon, <1>2 DEF InFlight
<1>7. components'[f] = 0 /\ \A g \in Functions : g # f => components'[g] = components[g]
  BY Zenon, <1>2, <1>4 DEF RemoveComponent
<1>8. ASSUME NEW g \in Functions, ~unfenced'[g]
      PROVE  components'[g] \in {0, desired'[g]} /\ InFlight(g)' \subseteq {desired'[g]}
  <2>1. CASE g = f
    <3>1. InFlight(f) = {}  BY Zenon, <1>1, <1>2, <1>8, <2>1 DEF HistoryInv
    <3> QED  BY Zenon, <1>6, <1>7, <2>1, <3>1
  <2>2. CASE g # f  BY Zenon, <1>1, <1>2, <1>6, <1>7, <1>8, <2>2 DEF HistoryInv
  <2> QED  BY Zenon, <2>1, <2>2
<1>9. HistoryInv'
  <2>1. desired' \in [Functions -> 0..submitted'] /\ unfenced' \in [Functions -> BOOLEAN]
    BY <1>1, <1>2, <1>4 DEF HistoryInv
  <2> QED  BY Zenon, <1>1, <1>2, <1>8, <2>1 DEF HistoryInv
<1> QED  BY Zenon, <1>3, <1>5, <1>9 DEF PreparationInv

\* The configuration names a new module.
LEMMA UpdateInv ==
  ASSUME PreparationInv, NEW f \in Functions, NEW evict \in BOOLEAN, Update(f, evict)
  PROVE  PreparationInv'
<1> DEFINE l == submitted + 1
<1>1. LoadInv /\ LoadPermitInv /\ RegistryInv /\ HistoryInv /\ alarms = {}  BY Zenon DEF PreparationInv
<1>2. /\ caller = "idle" /\ submitted < MaxLoads
      /\ (evict /\ RemoveComponent(f)) \/ (~evict /\ UNCHANGED registry)
      /\ caller' = "waiting" /\ submitted' = l /\ fn' = [fn EXCEPT ![l] = f]
      /\ desired' = [desired EXCEPT ![f] = l]
      /\ unfenced' = [unfenced EXCEPT ![f] = InFlight(f) # {} \/ (~evict /\ components[f] # 0)]
      /\ UNCHANGED <<task, detached, expired, state, alarms, permits>>
  BY Zenon DEF Update
<1>3. LoadInv' /\ LoadPermitInv' /\ alarms' = {}  BY Zenon, <1>1, <1>2, LoadFrame
<1>4. /\ submitted \in 0..MaxLoads /\ MaxLoads \in Nat /\ fn \in [Loads -> Functions]
      /\ components \in [Functions -> 0..submitted]
  BY Zenon, <1>1, PreparationConstants DEF RegistryInv
<1>5. l \in Loads /\ submitted' \in Nat /\ submitted <= submitted' /\ submitted' <= MaxLoads
      /\ 1..submitted' = 1..submitted \cup {l} /\ submitted' > 0
  BY <1>2, <1>4 DEF Loads
<1>6. /\ fn' \in [Loads -> Functions] /\ fn'[l] = f
      /\ \A k \in 1..submitted : k \in Loads /\ k # l /\ fn'[k] = fn[k]
  BY <1>2, <1>4, <1>5 DEF Loads
<1>7. RegistryInv'  BY Zenon, <1>1, <1>2, <1>5, <1>6, RegistryConfigured
<1>8. task[l] = "none" /\ task' = task  BY <1>1, <1>2, <1>4, <1>5 DEF HistoryInv
<1>9. \A g \in Functions : InFlight(g)' \subseteq InFlight(g)
  <2> SUFFICES ASSUME NEW g \in Functions, NEW k \in InFlight(g)' PROVE k \in InFlight(g)  BY Zenon
  <2>1. k \in 1..submitted' /\ fn'[k] = g /\ ~detached[k] /\ task[k] \in FlightPositions
    BY Zenon, <1>2 DEF InFlight, FlightPositions
  <2>2. k # l  BY Zenon, <1>8, <2>1 DEF FlightPositions
  <2> QED  BY Zenon, <1>5, <1>6, <2>1, <2>2 DEF InFlight, FlightPositions
<1>10. \A g \in Functions : g # f => components'[g] = components[g]
  BY Zenon, <1>2, <1>4 DEF RemoveComponent, registry
<1>11. ASSUME NEW g \in Functions, ~unfenced'[g]
       PROVE  components'[g] \in {0, desired'[g]} /\ InFlight(g)' \subseteq {desired'[g]}
  <2>1. CASE g = f
    <3>1. unfenced \in [Functions -> BOOLEAN]  BY Zenon, <1>1 DEF HistoryInv
    <3>2. InFlight(f) = {} /\ (evict \/ components[f] = 0)  BY Zenon, <1>2, <1>11, <2>1, <3>1
    <3>3. components'[f] = 0  BY Zenon, <1>2, <1>4, <3>2 DEF RemoveComponent, registry
    <3>4. InFlight(f)' = {}  BY Zenon, <1>9, <3>2
    <3> QED  BY Zenon, <2>1, <3>3, <3>4
  <2>2. CASE g # f
    <3>1. /\ ~unfenced[g] /\ desired'[g] = desired[g]
      BY Zenon, <1>1, <1>2, <1>11, <2>2 DEF HistoryInv
    <3>2. components[g] \in {0, desired[g]} /\ InFlight(g) \subseteq {desired[g]}
      BY Zenon, <1>1, <3>1 DEF HistoryInv
    <3> QED  BY Zenon, <1>9, <1>10, <2>2, <3>1, <3>2
  <2> QED  BY Zenon, <2>1, <2>2
<1>12. HistoryInv'
  <2>1. desired \in [Functions -> 0..submitted] /\ unfenced \in [Functions -> BOOLEAN]
    BY Zenon, <1>1 DEF HistoryInv
  <2>2. desired' \in [Functions -> 0..submitted']
    <3>1. 0..submitted \subseteq 0..submitted' /\ l \in 0..submitted'  BY <1>2, <1>4
    <3> QED  BY Zenon, <1>2, <2>1, <3>1
  <2>3. desired'[f] = l  BY Zenon, <1>2, <2>1
  <2>4. unfenced' \in [Functions -> BOOLEAN]  BY Zenon, <1>2, <2>1
  <2>5. \A k \in Loads : k > submitted' => task'[k] = "none"
    BY <1>1, <1>2, <1>4 DEF HistoryInv, Loads
  <2> QED  BY Zenon, <1>2, <1>5, <1>6, <1>8, <1>11, <2>2, <2>3, <2>4, <2>5 DEF HistoryInv
<1> QED  BY Zenon, <1>3, <1>7, <1>12 DEF PreparationInv

\* A submission is admitted: its record is taken and its task spawned.
LEMMA AdmittedInv ==
  ASSUME PreparationInv, Admitted  PROVE PreparationInv'
<1> DEFINE l == submitted
           st == [Idle EXCEPT !.stage = "queued"]
<1>1. LoadInv /\ LoadPermitInv /\ RegistryInv /\ HistoryInv /\ alarms = {}  BY Zenon DEF PreparationInv
<1>2. /\ caller = "waiting" /\ records > 0 /\ caller' = "idle" /\ records' = records - 1
      /\ task' = [task EXCEPT ![l] = "acquire"] /\ state' = [state EXCEPT ![l] = st]
      /\ UNCHANGED <<submitted, fn, detached, expired, active, components, size, native_bytes, history>>
  BY Zenon DEF Admitted, Report, registry
<1>3. submitted \in Nat /\ submitted > 0 /\ task[l] = "none" /\ desired[fn[l]] = l
  BY Zenon, <1>1, <1>2, SubmittedLoads DEF HistoryInv
<1>4. l \in 1..submitted /\ l \in Loads  BY <1>1, <1>3, SubmittedLoads
<1>5. LoadedOK(l)  BY Zenon, <1>4, LoadFacts
<1>6. st \in PreparationState
  BY Zenon DEF Idle, PreparationState, WorkState, PreparationOutcome
<1>7. LoadOK("acquire", st, detached[l], expired[l])
  BY Zenon, <1>3, <1>5 DEF LoadedOK, LoadOK, Idle
<1>8. Changes(l, "acquire", st, detached[l], expired[l])
  BY Zenon, <1>2, <1>5 DEF LoadedOK, Changes
<1>9. QuietPermits(l, "acquire", st)
  BY <1>2, <1>3, <1>5
     DEF LoadedOK, QuietPermits, RecordsOf, RecordPositions, Positions, ActiveOf, Active, ActivePositions
<1>10. "acquire" \in Positions /\ detached[l] \in BOOLEAN /\ expired[l] \in BOOLEAN
  BY Zenon, <1>5 DEF Positions, LoadedOK
<1>11. ~(components[fn[l]] = l)  BY Zenon, <1>3, <1>5 DEF LoadedOK, Served
<1>12. alarms' = {k \in {"queued", "tracked"} : Occupancy(state', k) > Limit(k)}
  BY Zenon, <1>1, <1>2 DEF Admitted, Report
<1>13. size' \in [Loads -> {0} \cup Sizes] /\ \A k \in Loads : k # l => size'[k] = size[k]
  BY Zenon, <1>2, <1>5 DEF LoadedOK
<1> HIDE DEF st
<1>14. /\ LoadInv' /\ LoadPermitInv'
       /\ \A kind \in {"queued", "active", "tracked", "compiling"} :
            ~(Occupancy(state', kind) > Limit(kind))
  BY Zenon, <1>1, <1>4, <1>6, <1>7, <1>8, <1>9, <1>10, LoadChange DEF QuietPermits
<1>15. RegistryInv'
  BY Zenon, <1>1, <1>2, <1>4, <1>8, <1>11, <1>13, RegistryQuiet
<1>16. \A k \in Loads : k # l => task'[k] = task[k]  BY Zenon, <1>2, <1>5 DEF LoadedOK
<1>17. \A f \in Functions : ~unfenced[f] => InFlight(f)' \subseteq {desired[f]}
  <2> SUFFICES ASSUME NEW f \in Functions, ~unfenced[f], NEW k \in InFlight(f)'
               PROVE  k = desired[f]
    BY Zenon
  <2>1. k \in 1..submitted /\ k \in Loads /\ fn[k] = f /\ ~detached[k] /\ task'[k] \in FlightPositions
    BY Zenon, <1>1, <1>2, SubmittedLoads DEF InFlight, FlightPositions
  <2>2. CASE k = l  BY Zenon, <1>3, <2>1, <2>2
  <2>3. CASE k # l
    <3>1. k \in InFlight(f)  BY Zenon, <1>16, <2>1, <2>3 DEF InFlight, FlightPositions
    <3> QED  BY Zenon, <1>1, <3>1 DEF HistoryInv
  <2> QED  BY Zenon, <2>2, <2>3
<1>18. \A k \in Loads : k > submitted => task'[k] = "none"
  BY <1>1, <1>3, <1>16 DEF HistoryInv
<1>19. HistoryInv'  BY Zenon, <1>1, <1>2, <1>17, <1>18 DEF HistoryInv, history
<1> QED  BY Zenon, <1>12, <1>14, <1>15, <1>19 DEF PreparationInv

\* A submission that is not admitted leaves everything but the caller.
LEMMA NotAdmittedInv ==
  ASSUME PreparationInv, NotAdmitted  PROVE PreparationInv'
<1>1. caller' = "idle" /\ UNCHANGED <<submitted, fn, task, detached, expired, state, alarms, permits,
                                      components, size, native_bytes, desired, unfenced>>
  BY Zenon DEF NotAdmitted, registry, history
<1>2. LoadInv' /\ LoadPermitInv' /\ alarms' = {}  BY Zenon, <1>1, LoadFrame DEF PreparationInv
<1>3. RegistryInv'  BY Zenon, <1>1 DEF PreparationInv, RegistryInv
<1>4. \A f \in Functions : InFlight(f)' = InFlight(f)  BY Zenon, <1>1 DEF InFlight
<1>5. HistoryInv'  BY Zenon, <1>1, <1>4 DEF PreparationInv, HistoryInv
<1> QED  BY Zenon, <1>2, <1>3, <1>5 DEF PreparationInv

\* A component that fits and is on time is registered: it replaces what its function
\* retained, the byte count follows, and the function is fenced again if this is the
\* load last asked for and no other is in flight.
LEMMA RegisterInv ==
  ASSUME PreparationInv, NEW l \in 1..submitted, NEW miss \in BOOLEAN, Register(l, miss)
  PROVE  PreparationInv'
<1> DEFINE f == fn[l]
           at == IF miss THEN "put" ELSE "drop"
           st == [state[l] EXCEPT !.outcome = IF miss THEN @ ELSE "success"]
<1>1. LoadInv /\ LoadPermitInv /\ RegistryInv /\ HistoryInv /\ alarms = {} /\ LoadedOK(l)
  BY Zenon, LoadFacts DEF PreparationInv
<1>2. /\ ~expired[l] /\ Fits(l) /\ task[l] = "compiled" /\ task' = [task EXCEPT ![l] = at]
      /\ components' = [components EXCEPT ![f] = l] /\ native_bytes' = Retained(l)
      /\ unfenced' = [unfenced EXCEPT ![f] = @ /\ ~(desired[f] = l /\ InFlight(f) = {l})]
      /\ UNCHANGED <<caller, submitted, fn, detached, expired, alarms, permits, size, desired>>
  BY Zenon DEF Register, Step, NoSubmission
<1>3. state' = [state EXCEPT ![l] = st]
  BY Zenon, <1>1 DEF Register, LoadedOK, PreparationState
<1>4. /\ state[l].cancellation = "none" /\ ~detached[l] /\ state[l].stage = "preparing"
      /\ ~state[l].started
  BY Zenon, <1>1, <1>2 DEF LoadedOK, LoadOK
<1>5. /\ st \in PreparationState /\ st.cancellation = "none" /\ st.stage = "preparing" /\ ~st.started
      /\ ~miss => st.outcome = "success"
  BY Zenon, <1>1, <1>4 DEF LoadedOK, PreparationState, PreparationOutcome
<1> HIDE DEF st
<1>6. LoadOK(at, st, detached[l], expired[l])  BY Zenon, <1>4, <1>5 DEF LoadOK
<1>7. Changes(l, at, st, detached[l], expired[l])  BY Zenon, <1>1, <1>2, <1>3 DEF LoadedOK, Changes
<1>8. QuietPermits(l, at, st)
  BY <1>1, <1>2, <1>5
     DEF LoadedOK, QuietPermits, RecordsOf, RecordPositions, Positions, ActiveOf, Active,
         ActivePositions, permits
<1>9. at \in Positions /\ detached[l] \in BOOLEAN /\ expired[l] \in BOOLEAN /\ l \in Loads
  BY Zenon, <1>1 DEF Positions, LoadedOK
<1>10. Served(at, st, detached[l])  BY Zenon, <1>4, <1>5 DEF Served
<1> HIDE DEF at
<1>11. LoadInv' /\ LoadPermitInv'
  BY Zenon, <1>1, <1>5, <1>6, <1>7, <1>8, <1>9, LoadChange DEF QuietPermits
<1>12. /\ submitted \in Nat /\ fn \in [Loads -> Functions] /\ f \in Functions
       /\ components \in [Functions -> 0..submitted]
       /\ \A g \in Functions : components[g] # 0 =>
            components[g] \in 1..submitted /\ components[g] \in Loads /\ size[components[g]] \in Nat
  BY Zenon, <1>1, <1>9, SubmittedLoads DEF RegistryInv
<1>13. /\ components' \in [Functions -> 0..submitted] /\ components'[f] = l /\ l # 0
       /\ \A g \in Functions : g # f => components'[g] = components[g]
  BY <1>2, <1>12
<1>14. RegistryInv'
  <2>1. ASSUME NEW g \in Functions, components'[g] # 0
        PROVE  LET k == components'[g] IN fn'[k] = g /\ Served(task'[k], state'[k], detached'[k])
    <3>1. CASE g = f
      <4>1. task'[l] = at /\ state'[l] = st /\ detached'[l] = detached[l]
        BY Zenon, <1>1, <1>7, <1>9 DEF LoadedOK, Changes
      <4> QED  BY Zenon, <1>2, <1>10, <1>13, <3>1, <4>1
    <3>2. CASE g # f
      <4> DEFINE k == components[g]
      <4>1. components'[g] = k /\ k # 0  BY Zenon, <1>13, <2>1, <3>2
      <4>2. k \in Loads /\ fn[k] = g /\ Served(task[k], state[k], detached[k])
        BY Zenon, <1>1, <1>12, <4>1 DEF RegistryInv
      <4>3. k # l  BY Zenon, <3>2, <4>2
      <4> HIDE DEF k
      <4>4. task'[k] = task[k] /\ state'[k] = state[k] /\ detached'[k] = detached[k]
        BY Zenon, <1>1, <1>7, <1>9, <4>2, <4>3 DEF LoadedOK, Changes
      <4> QED  BY Zenon, <1>2, <4>1, <4>2, <4>4
    <3> QED  BY Zenon, <3>1, <3>2
  <2>2. size[l] \in Nat
    <3>1. size[l] \in {0} \cup Sizes  BY Zenon, <1>1, <1>9 DEF LoadedOK
    <3>2. \A n \in {0} \cup Sizes : n \in Nat  BY PreparationConstants
    <3> QED  BY Zenon, <3>1, <3>2
  <2>3. /\ SumFunction(Weight(components', size)) = SumFunction(Weight(components, size))
              - Share(components, size, f) + Share(components', size, f)
        /\ SumFunction(Weight(components, size)) \in Nat
        /\ Share(components, size, f) \in Nat
    <3>1. \A g \in Functions : components'[g] # 0 => size[components'[g]] \in Nat
      BY Zenon, <1>12, <1>13, <2>2
    <3>2. \A g \in Functions : components[g] # 0 => size[components[g]] \in Nat
      BY Zenon, <1>12
    <3>3. f \in Functions /\ \A g \in Functions : g # f => components'[g] = components[g]
      BY Zenon, <1>12, <1>13
    <3> HIDE DEF f
    <3> QED  BY Zenon, <3>1, <3>2, <3>3, WeightChange
  <2>4. Retained(l) = native_bytes + size[l] - Share(components, size, f)
    BY Zenon DEF Retained, Share
  <2>5. native_bytes = SumFunction(Weight(components, size))  BY Zenon, <1>1 DEF RegistryInv
  <2>6. Share(components', size, f) = size[l]  BY Zenon, <1>13 DEF Share
  <2>7. native_bytes' = SumFunction(Weight(components', size'))
    <3>1. native_bytes' = Retained(l) /\ size' = size  BY Zenon, <1>2
    <3>2. \A a, h, n \in Nat : a + n - h = a - h + n  BY Zenon, AddTake
    <3>3. native_bytes' = SumFunction(Weight(components, size)) - Share(components, size, f) + size[l]
      BY Zenon, <2>2, <2>3, <2>4, <2>5, <3>1, <3>2
    <3> QED  BY Zenon, <2>3, <2>6, <3>1, <3>3
  <2>8. native_bytes' <= MaxNativeBytes  BY Zenon, <1>2 DEF Fits
  <2>9. Cardinality(Retains(components')) <= MaxComponents
    <3> DEFINE K == Retains(components)
    <3>1. Retains(components') = K \cup {f}  BY Zenon, <1>12, <1>13 DEF Retains
    <3>2. IsFiniteSet(K) /\ Cardinality(K) <= MaxComponents
      BY Zenon, <1>1, <1>12, WeightFacts DEF RegistryInv
    <3>3. f \in K \/ Cardinality(K) < MaxComponents
      BY Zenon, <1>2, <1>12 DEF Fits, Retains
    <3> HIDE DEF K
    <3>4. Cardinality(K) \in Nat /\ MaxComponents \in Nat
      BY Zenon, <3>2, FS_CardinalityType, PreparationConstants
    <3>5. Cardinality(K \cup {f}) = IF f \in K THEN Cardinality(K) ELSE Cardinality(K) + 1
      BY Zenon, <3>2, FS_AddElement
    <3> QED  BY <3>1, <3>2, <3>3, <3>4, <3>5
  <2>10. /\ submitted' = submitted /\ submitted \in 0..MaxLoads /\ fn' \in [Loads -> Functions]
         /\ size' \in [Loads -> {0} \cup Sizes]
    BY Zenon, <1>1, <1>2 DEF RegistryInv
  <2> QED  BY Zenon, <1>13, <2>1, <2>7, <2>8, <2>9, <2>10 DEF RegistryInv
<1>15. HistoryInv'
  <2>1. /\ desired \in [Functions -> 0..submitted] /\ unfenced \in [Functions -> BOOLEAN]
        /\ caller \in {"idle", "waiting"}
    BY Zenon, <1>1 DEF HistoryInv
  <2>2. \A k \in Loads : k # l => task'[k] = task[k]  BY Zenon, <1>1, <1>2 DEF LoadedOK
  <2>3. task'[l] \notin FlightPositions
    BY Zenon, <1>1, <1>2, <1>9 DEF LoadedOK, FlightPositions, at
  <2>4. \A g \in Functions : InFlight(g)' \subseteq InFlight(g) \ {l}
    <3> SUFFICES ASSUME NEW g \in Functions, NEW k \in InFlight(g)' PROVE k \in InFlight(g) \ {l}
      BY Zenon
    <3>1. k \in 1..submitted /\ fn[k] = g /\ ~detached[k] /\ task'[k] \in FlightPositions
      BY Zenon, <1>2 DEF InFlight, FlightPositions
    <3>2. k # l /\ k \in Loads  BY Zenon, <1>1, <2>3, <3>1, SubmittedLoads
    <3> QED  BY Zenon, <2>2, <3>1, <3>2 DEF InFlight, FlightPositions
  <2>5. l \in InFlight(f)
    BY Zenon, <1>2, <1>4 DEF InFlight
  <2>6. ASSUME NEW g \in Functions, ~unfenced'[g]
        PROVE  components'[g] \in {0, desired'[g]} /\ InFlight(g)' \subseteq {desired'[g]}
    <3>1. CASE g = f
      <4>1. ~unfenced[f] \/ (desired[f] = l /\ InFlight(f) = {l})
        BY Zenon, <1>2, <1>12, <2>1, <2>6, <3>1
      <4>2. desired[f] = l /\ InFlight(f) \subseteq {l}
        BY Zenon, <1>1, <1>12, <2>5, <4>1 DEF HistoryInv
      <4> QED  BY Zenon, <1>2, <1>12, <1>13, <2>4, <3>1, <4>2
    <3>2. CASE g # f
      <4>1. ~unfenced[g]  BY Zenon, <1>2, <1>12, <2>1, <2>6, <3>2
      <4> QED  BY Zenon, <1>1, <1>2, <1>13, <2>4, <3>2, <4>1 DEF HistoryInv
    <3> QED  BY Zenon, <3>1, <3>2
  <2>7. caller = "waiting" => task'[submitted] = "none"
    <3> SUFFICES ASSUME caller = "waiting" PROVE task'[submitted] = "none"  BY Zenon
    <3>1. task[submitted] = "none" /\ submitted \in 1..submitted  BY <1>1, <1>12 DEF HistoryInv
    <3>2. submitted \in Loads /\ submitted # l  BY Zenon, <1>1, <1>2, <3>1, SubmittedLoads
    <3> QED  BY Zenon, <2>2, <3>1, <3>2
  <2>8. \A k \in Loads : k > submitted => task'[k] = "none"
    BY <1>1, <1>12, <2>2 DEF HistoryInv
  <2>9. unfenced' \in [Functions -> BOOLEAN]
    <3>1. PICK b \in BOOLEAN : b <=> (unfenced[f] /\ ~(desired[f] = l /\ InFlight(f) = {l}))
      BY Zenon
    <3> QED  BY Zenon, <1>2, <2>1, <3>1
  <2> QED  BY Zenon, <1>1, <1>2, <2>1, <2>6, <2>7, <2>8, <2>9 DEF HistoryInv
<1> QED  BY Zenon, <1>1, <1>2, <1>11, <1>14, <1>15 DEF PreparationInv

\* The host starts with nothing loaded.
LEMMA PreparationInvInit == PreparationInit => PreparationInv
<1> SUFFICES ASSUME PreparationInit PROVE PreparationInv  BY Zenon
<1> USE DEF PreparationInit
<1>1. (CHOOSE f \in Functions : TRUE) \in Functions  BY Zenon, PreparationConstants
<1>2. LoadInv
  BY Zenon DEF LoadInv, LoadOK, Idle, Positions, PreparationState, WorkState, PreparationOutcome
<1>3. LoadPermitInv
  <2>1. RecordHolders(task) = {} /\ ActiveHolders(task, state) = {}
    BY Zenon DEF RecordHolders, RecordPositions, ActiveHolders, Active, ActivePositions
  <2>2. Cardinality(RecordHolders(task)) = 0 /\ Cardinality(ActiveHolders(task, state)) = 0
    BY Zenon, <2>1, FS_EmptySet
  <2> QED  BY <2>2, PreparationConstants DEF LoadPermitInv
<1>4. RegistryInv
  <2>1. Retains(components) = {}  BY Zenon DEF Retains
  <2>2. Cardinality(Retains(components)) = 0  BY Zenon, <2>1, FS_EmptySet
  <2>3. SumFunction(Weight(components, size)) = 0
    <3>1. \A f \in Functions : components[f] # 0 => size[components[f]] \in Nat  BY Zenon
    <3>2. SumFunction(Weight(components, size))
            = SumFunctionOnSet(Weight(components, size), Retains(components))
      BY Zenon, <3>1, WeightFacts
    <3> QED  BY Zenon, <2>1, <3>2, SumEmpty
  <2>4. 0 <= MaxNativeBytes /\ 0 <= MaxComponents /\ 0 \in 0..MaxLoads  BY PreparationConstants
  <2> QED  BY <1>1, <2>2, <2>3, <2>4 DEF RegistryInv
<1>5. HistoryInv
  <2>1. \A f \in Functions : InFlight(f) = {}  BY DEF InFlight
  <2> QED  BY <2>1 DEF HistoryInv
<1> QED  BY Zenon, <1>2, <1>3, <1>4, <1>5 DEF PreparationInv

\* Every reachable state of module preparation satisfies the invariant.
LEMMA PreparationInvHolds == PreparationSpec => []PreparationInv
<1>1. PreparationInv /\ [PreparationNext]_preparationVars => PreparationInv'
  <2> SUFFICES ASSUME PreparationInv, [PreparationNext]_preparationVars PROVE PreparationInv'
    BY Zenon
  <2>1. CASE UNCHANGED preparationVars
    <3>1. UNCHANGED <<caller, submitted, fn, task, detached, expired, state, alarms, permits,
                      components, size, native_bytes, desired, unfenced>>
      BY Zenon, <2>1 DEF preparationVars, registry, history
    <3>2. LoadInv' /\ LoadPermitInv' /\ alarms' = {}  BY Zenon, <3>1, LoadFrame DEF PreparationInv
    <3>3. RegistryInv'  BY Zenon, <3>1 DEF PreparationInv, RegistryInv
    <3>4. \A f \in Functions : InFlight(f)' = InFlight(f)  BY Zenon, <3>1 DEF InFlight
    <3>5. HistoryInv'  BY Zenon, <3>1, <3>4 DEF PreparationInv, HistoryInv
    <3> QED  BY Zenon, <3>2, <3>3, <3>5 DEF PreparationInv
  <2>2. CASE \E f \in Functions : Delete(f)  BY Zenon, <2>2, DeleteInv
  <2>3. CASE \E f \in Functions : \E evict \in BOOLEAN : Update(f, evict)  BY Zenon, <2>3, UpdateInv
  <2>4. CASE Admitted \/ NotAdmitted  BY Zenon, <2>4, AdmittedInv, NotAdmittedInv
  <2>5. ASSUME NEW l \in 1..submitted,
               \/ AcquireActive(l) \/ CompilerStep(l) \/ TaskStep(l) \/ Expire(l)
               \/ \E ok \in BOOLEAN : Fetch(l, ok)
        PROVE  PreparationInv'
    <3>1. CASE AcquireActive(l) \/ Expire(l)  BY Zenon, <3>1, AcquireActiveInv, ExpireInv
    <3>2. CASE \E ok \in BOOLEAN : Fetch(l, ok)  BY Zenon, <3>2, FetchInv
    <3>3. CASE CompilerStep(l)
      BY Zenon, <3>3, StartCompileInv, FinishCompileInv, ToDropInv DEF CompilerStep
    <3>4. CASE TaskStep(l)
      BY Zenon, <3>4, RegisterInv, ToDropInv, DeadlineFiresInv, EndWorkInv, ReleasePermitsInv DEF TaskStep
    <3> QED  BY Zenon, <2>5, <3>1, <3>2, <3>3, <3>4
  <2> QED  BY Zenon, <2>1, <2>2, <2>3, <2>4, <2>5 DEF PreparationNext
<1> QED  BY <1>1, PreparationInvInit, PTL DEF PreparationSpec

\* For any number of loads, records and functions: permits are never lost or given
\* twice although they travel between the task, the compiler thread and a dropped
\* result, at most one compiler runs, and the accounting of preparation_metrics.rs
\* never counts a capacity breach or an impossible stage.
THEOREM CapacityHolds == PreparationSpec => []CapacityHeld
<1>1. PreparationInv => CapacityHeld
  <2> SUFFICES ASSUME PreparationInv PROVE CapacityHeld  BY Zenon
  <2>1. LoadInv /\ LoadPermitInv /\ RegistryInv /\ HistoryInv /\ alarms = {}  BY Zenon DEF PreparationInv
  <2> DEFINE A == ActiveHolders(task, state)
             C == {l \in Loads : task[l] = "compiling"}
  <2>2. /\ {l \in Loads : HoldsRecord(l)} = RecordHolders(task)
        /\ {l \in Loads : HoldsActive(l)} = A
    BY Zenon, <2>1 DEF HoldsRecord, HoldsActive, RecordHolders, RecordPositions, ActiveHolders, Active,
         ActivePositions, LoadInv
  <2>3. C \in SUBSET A  BY Zenon DEF ActiveHolders, Active, ActivePositions
  <2>4. IsFiniteSet(A) /\ IsFiniteSet(RecordHolders(task))
    BY Zenon, PreparationConstants, FS_Subset DEF ActiveHolders, RecordHolders
  <2>5. /\ records + Cardinality(RecordHolders(task)) = MaxRecords /\ active + Cardinality(A) = 1
        /\ records \in Nat /\ active \in Nat
    BY Zenon, <2>1 DEF LoadPermitInv
  <2> HIDE DEF A, C
  <2>6. /\ Cardinality(A) \in Nat /\ Cardinality(RecordHolders(task)) \in Nat
        /\ Cardinality(C) \in Nat /\ Cardinality(C) <= Cardinality(A)
    BY Zenon, <2>3, <2>4, FS_Subset, FS_CardinalityType
  <2>7. records \in 0..MaxRecords /\ active \in 0..1 /\ Cardinality(C) <= 1
    BY <2>5, <2>6, PreparationConstants
  <2>8. native_bytes \in 0..MaxNativeBytes
    <3>1. SumFunction(Weight(components, size)) \in Nat  BY Zenon, <2>1, SubmittedLoads, WeightFacts
    <3> QED  BY <2>1, <3>1, PreparationConstants DEF RegistryInv
  <2>9. PreparationTypeOK
    BY Zenon, <2>1, <2>7, <2>8 DEF PreparationTypeOK, LoadInv, RegistryInv, HistoryInv
  <2> QED  BY Zenon, <2>1, <2>2, <2>5, <2>7, <2>9 DEF CapacityHeld, C
<1> QED  BY <1>1, PreparationInvHolds, PTL

\* For any interleaving of updates, loads, compilers and deadlines: a function is
\* served from the module last asked for unless an older load could still register,
\* never from one that was abandoned, and the byte count is what is retained.
THEOREM ServesHolds == PreparationSpec => []ServesWhatIsWanted
<1>1. PreparationInv => ServesWhatIsWanted
  <2> SUFFICES ASSUME PreparationInv PROVE ServesWhatIsWanted  BY Zenon
  <2> DEFINE K == {f \in Functions : components[f] # 0}
  <2>1. RegistryInv /\ HistoryInv  BY Zenon DEF PreparationInv
  <2>2. ASSUME NEW f \in K
        PROVE  LET l == components[f] IN
               /\ unfenced[f] \/ l = desired[f]
               /\ ~detached[l] /\ state[l].cancellation = "none"
               /\ task[l] = "done" => state[l].outcome = "success"
    BY Zenon, <2>1, <2>2 DEF RegistryInv, HistoryInv, Served
  <2>3. K = Retains(components) /\ [f \in K |-> size[components[f]]] = Weight(components, size)
    BY Zenon DEF Retains, Weight
  <2>4. /\ native_bytes = SumFunction([f \in K |-> size[components[f]]])
        /\ Cardinality(K) <= MaxComponents
    BY Zenon, <2>1, <2>3 DEF RegistryInv
  <2> QED  BY Zenon, <2>2, <2>4 DEF ServesWhatIsWanted
<1> QED  BY <1>1, PreparationInvHolds, PTL
=============================================================================
