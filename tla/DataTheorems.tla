---------------------------- MODULE DataTheorems ----------------------------
(***************************************************************************)
(* Facts about the data the models are built from: sums over finite sets.  *)
(* Induction is by the least element of a set of naturals, which           *)
(* WellFoundedInduction gives without an operator parameter.               *)
(***************************************************************************)
EXTENDS Selection, Functions, FiniteSetTheorems, WellFoundedInduction, TLAPS

-----------------------------------------------------------------------------
(* Induction *)

\* A set of naturals that is not empty has a least element.
LEMMA LeastNatural ==
  ASSUME NEW T \in SUBSET Nat, T # {}
  PROVE  \E m \in T : \A k \in T : m <= k
<1> DEFINE R == {ss \in Nat \X Nat : ss[1] < ss[2]}
<1>1. IsWellFoundedOn(R, Nat)
  BY NatLessThanWellFounded DEF OpToRel
<1> HIDE DEF R
<1>2. PICK m \in T : \A k \in T : <<k, m>> \notin R
  BY <1>1, WFMin
<1>3. \A k \in T : ~ (k < m)
  BY <1>2 DEF R
<1> QED
  BY <1>3

\* A set that has 0, and n + 1 when it has n, has every natural number.
LEMMA InductiveSet ==
  ASSUME NEW T, 0 \in T, \A n \in Nat : n \in T => n + 1 \in T
  PROVE  \A n \in Nat : n \in T
<1> SUFFICES ASSUME Nat \ T # {} PROVE FALSE
  OBVIOUS
<1>1. PICK m \in Nat \ T : \A k \in Nat \ T : m <= k
  BY LeastNatural
<1>2. m - 1 \in Nat /\ (m - 1) + 1 = m
  BY <1>1
<1>3. m - 1 \in T
  BY <1>1, <1>2
<1> QED
  BY <1>1, <1>2, <1>3

-----------------------------------------------------------------------------
(* Sums.  SumFunctionOnSet takes the elements of the set in some order; the  *)
(* facts below say that the order does not matter.                           *)

Some(s) == CHOOSE x \in s : TRUE

\* g is the function that the sum's recursion defines on the subsets of S.
SumStep(f, g, s) == IF s = {} THEN 0 ELSE f[Some(s)] + g[s \ {Some(s)}]
Sums(f, S, g) == g = [s \in SUBSET S |-> SumStep(f, g, s)]

\* What is chosen from a set that is not empty is in it.
LEMMA SomeIn == ASSUME NEW s, s # {} PROVE Some(s) \in s
BY DEF Some

\* Removing an element of a finite set leaves a smaller finite set.
LEMMA RemoveOne ==
  ASSUME NEW s, IsFiniteSet(s), NEW x \in s
  PROVE  /\ IsFiniteSet(s \ {x})
         /\ Cardinality(s) \in Nat /\ Cardinality(s \ {x}) \in Nat
         /\ Cardinality(s \ {x}) = Cardinality(s) - 1
BY FS_RemoveElement, FS_CardinalityType

\* The recursion of a sum over a finite set defines a function.
LEMMA SumsExist ==
  ASSUME NEW f, NEW S, IsFiniteSet(S)
  PROVE  \E g : Sums(f, S, g)
<1> DEFINE Upto(n) == {s \in SUBSET S : Cardinality(s) <= n}
           Part(n, g) == g = [s \in Upto(n) |-> SumStep(f, g, s)]
           T == {n \in Nat : \E g : Part(n, g)}
<1>1. \A s \in SUBSET S : IsFiniteSet(s) /\ Cardinality(s) \in Nat
  BY FS_Subset, FS_CardinalityType
<1>2. 0 \in T
  <2>1. \A s \in Upto(0) : s = {}
    BY <1>1, FS_EmptySet
  <2> DEFINE g == [s \in Upto(0) |-> 0]
  <2>2. \A s \in Upto(0) : SumStep(f, g, s) = 0
    BY <2>1 DEF SumStep
  <2>3. Part(0, g)
    BY <2>2
  <2> QED
    BY <2>3
<1>3. ASSUME NEW n \in Nat, n \in T PROVE n + 1 \in T
  <2>1. PICK g : Part(n, g)
    BY <1>3
  <2> DEFINE h == [s \in Upto(n + 1) |-> SumStep(f, g, s)]
  <2>2. \A s \in Upto(n) : s \in Upto(n + 1) /\ h[s] = g[s]
    BY <2>1, <1>1
  <2>3. ASSUME NEW s \in Upto(n + 1) PROVE SumStep(f, g, s) = SumStep(f, h, s)
    <3>1. CASE s = {}
      BY <3>1 DEF SumStep
    <3>2. CASE s # {}
      <4>1. Some(s) \in s
        BY <3>2, SomeIn
      <4>2. s \ {Some(s)} \in Upto(n)
        BY <4>1, <1>1, RemoveOne
      <4> QED
        BY <3>2, <4>2, <2>2 DEF SumStep
    <3> QED
      BY <3>1, <3>2
  <2>4. Part(n + 1, h)
    BY <2>3
  <2>5. \E k : Part(n + 1, k)
    <3> HIDE DEF h, Part
    <3> QED
      BY <2>4
  <2> HIDE DEF Part
  <2> QED
    BY <2>5
<1>4. Cardinality(S) \in T
  <2> HIDE DEF T
  <2> QED
    BY <1>2, <1>3, InductiveSet, FS_CardinalityType
<1>5. PICK g : Part(Cardinality(S), g)
  BY <1>4
<1>6. Upto(Cardinality(S)) = SUBSET S
  BY <1>1, FS_Subset
<1> QED
  BY <1>5, <1>6 DEF Sums

\* Every sum of integers is an integer.
LEMMA SumsType ==
  ASSUME NEW f, NEW S, IsFiniteSet(S), NEW g, Sums(f, S, g),
         \A x \in S : f[x] \in Int
  PROVE  \A s \in SUBSET S : g[s] \in Int
<1> DEFINE T == {n \in Nat : \A s \in SUBSET S : Cardinality(s) = n => g[s] \in Int}
<1>1. \A s \in SUBSET S : IsFiniteSet(s) /\ Cardinality(s) \in Nat
  BY FS_Subset, FS_CardinalityType
<1>2. \A s \in SUBSET S : g[s] = SumStep(f, g, s)
  BY DEF Sums
<1>3. 0 \in T
  <2>1. \A s \in SUBSET S : Cardinality(s) = 0 => s = {}
    BY <1>1, FS_EmptySet
  <2>2. g[{}] = 0
    BY <1>2 DEF SumStep
  <2> QED
    BY <2>1, <2>2
<1>4. ASSUME NEW n \in Nat, n \in T PROVE n + 1 \in T
  <2>1. ASSUME NEW s \in SUBSET S, Cardinality(s) = n + 1 PROVE g[s] \in Int
    <3>1. s # {}
      BY <2>1, FS_EmptySet
    <3>2. Some(s) \in s
      BY <3>1, SomeIn
    <3>3. Cardinality(s \ {Some(s)}) = n
      BY <3>2, <2>1, <1>1, RemoveOne
    <3>4. g[s \ {Some(s)}] \in Int
      BY <3>3, <1>4
    <3> QED
      BY <3>1, <3>2, <3>4, <1>2 DEF SumStep
  <2> QED
    BY <2>1
<1>5. \A n \in Nat : n \in T
  <2> HIDE DEF T
  <2> QED
    BY <1>3, <1>4, InductiveSet
<1> QED
  BY <1>1, <1>5

\* A sum may be taken apart at any of its elements.
LEMMA SumsAnyOrder ==
  ASSUME NEW f, NEW S, IsFiniteSet(S), NEW g, Sums(f, S, g),
         \A x \in S : f[x] \in Int
  PROVE  \A s \in SUBSET S : \A x \in s : g[s] = f[x] + g[s \ {x}]
<1> DEFINE T == {n \in Nat : \A s \in SUBSET S : Cardinality(s) = n =>
                               \A x \in s : g[s] = f[x] + g[s \ {x}]}
<1>1. \A s \in SUBSET S : IsFiniteSet(s) /\ Cardinality(s) \in Nat
  BY FS_Subset, FS_CardinalityType
<1>2. \A s \in SUBSET S : g[s] = SumStep(f, g, s) /\ g[s] \in Int
  BY SumsType DEF Sums
<1>3. 0 \in T
  BY <1>1, FS_EmptySet
<1>4. ASSUME NEW n \in Nat, n \in T PROVE n + 1 \in T
  <2>1. ASSUME NEW s \in SUBSET S, Cardinality(s) = n + 1, NEW x \in s
        PROVE  g[s] = f[x] + g[s \ {x}]
    <3> DEFINE y == Some(s)
    <3>1. y \in s /\ g[s] = f[y] + g[s \ {y}]
      BY <1>2, SomeIn DEF SumStep
    <3> HIDE DEF y
    <3>2. CASE x = y
      BY <3>1, <3>2
    <3>3. CASE x # y
      <4>1. Cardinality(s \ {x}) = n /\ Cardinality(s \ {y}) = n
        BY <2>1, <3>1, <1>1, RemoveOne
      <4>2. g[s \ {y}] = f[x] + g[(s \ {y}) \ {x}]
        BY <4>1, <3>3, <1>4
      <4>3. g[s \ {x}] = f[y] + g[(s \ {x}) \ {y}]
        BY <4>1, <3>1, <3>3, <1>4
      <4> DEFINE rest == g[(s \ {x}) \ {y}]
      <4>4. g[(s \ {y}) \ {x}] = rest
        <5>1. (s \ {y}) \ {x} = (s \ {x}) \ {y}
          OBVIOUS
        <5> QED
          BY <5>1
      <4>5. f[x] \in Int /\ f[y] \in Int /\ rest \in Int
        BY <3>1, <1>2
      <4> HIDE DEF rest
      <4>6. g[s] = f[y] + (f[x] + rest)
        BY <3>1, <4>2, <4>4
      <4>7. g[s \ {x}] = f[y] + rest
        BY <4>3 DEF rest
      <4> QED
        BY <4>5, <4>6, <4>7
    <3> QED
      BY <3>2, <3>3
  <2> QED
    BY <2>1
<1>5. \A n \in Nat : n \in T
  <2> HIDE DEF T
  <2> QED
    BY <1>3, <1>4, InductiveSet
<1> QED
  BY <1>1, <1>5

\* A sum is determined by the values it adds up, not by the set whose subsets
\* the recursion runs over.
LEMMA SumsAgree ==
  ASSUME NEW f, NEW S, IsFiniteSet(S), NEW g, Sums(f, S, g),
         NEW h, NEW U, IsFiniteSet(U), NEW k, Sums(h, U, k),
         \A x \in S \cap U : f[x] = h[x]
  PROVE  \A s \in SUBSET (S \cap U) : g[s] = k[s]
<1> DEFINE T == {n \in Nat : \A s \in SUBSET (S \cap U) : Cardinality(s) = n => g[s] = k[s]}
<1>1. \A s \in SUBSET (S \cap U) : IsFiniteSet(s) /\ Cardinality(s) \in Nat
  BY FS_Subset, FS_CardinalityType
<1>2. \A s \in SUBSET (S \cap U) : g[s] = SumStep(f, g, s) /\ k[s] = SumStep(h, k, s)
  BY DEF Sums
<1>3. 0 \in T
  BY <1>1, <1>2, FS_EmptySet DEF SumStep
<1>4. ASSUME NEW n \in Nat, n \in T PROVE n + 1 \in T
  <2>1. ASSUME NEW s \in SUBSET (S \cap U), Cardinality(s) = n + 1 PROVE g[s] = k[s]
    <3>1. s # {}
      BY <2>1, FS_EmptySet
    <3>2. Some(s) \in s
      BY <3>1, SomeIn
    <3>3. Cardinality(s \ {Some(s)}) = n
      BY <3>2, <2>1, <1>1, RemoveOne
    <3>4. g[s \ {Some(s)}] = k[s \ {Some(s)}]
      BY <3>3, <1>4
    <3> QED
      BY <3>1, <3>2, <3>4, <1>2 DEF SumStep
  <2> QED
    BY <2>1
<1>5. \A n \in Nat : n \in T
  <2> HIDE DEF T
  <2> QED
    BY <1>3, <1>4, InductiveSet
<1> QED
  BY <1>1, <1>5

\* SumFunctionOnSet is the value of that recursion.
LEMMA SumIsSums ==
  ASSUME NEW f, NEW S, IsFiniteSet(S)
  PROVE  \E g : Sums(f, S, g) /\ SumFunctionOnSet(f, S) = g[S]
<1> DEFINE g == CHOOSE g : Sums(f, S, g)
<1>1. Sums(f, S, g)
  BY SumsExist
<1>2. SumFunctionOnSet(f, S) = g[S]
  BY DEF SumFunctionOnSet, FoldFunctionOnSet, MapThenFoldSet, Sums, SumStep, Some
<1> QED
  BY <1>1, <1>2

\* An empty sum is zero.
THEOREM SumEmpty == \A f : SumFunctionOnSet(f, {}) = 0
<1> SUFFICES ASSUME NEW f PROVE SumFunctionOnSet(f, {}) = 0
  OBVIOUS
<1>1. PICK g : Sums(f, {}, g) /\ SumFunctionOnSet(f, {}) = g[{}]
  BY SumIsSums, FS_EmptySet
<1>2. g[{}] = SumStep(f, g, {})
  BY <1>1 DEF Sums
<1> QED
  BY <1>1, <1>2 DEF SumStep

\* A sum of integers is an integer.
THEOREM SumType ==
  ASSUME NEW f, NEW S, IsFiniteSet(S), \A x \in S : f[x] \in Int
  PROVE  SumFunctionOnSet(f, S) \in Int
<1>1. PICK g : Sums(f, S, g) /\ SumFunctionOnSet(f, S) = g[S]
  BY SumIsSums
<1> QED
  BY <1>1, SumsType

\* Functions that agree on a set have the same sum over it.
THEOREM SumAgree ==
  ASSUME NEW f, NEW h, NEW S, IsFiniteSet(S), \A x \in S : f[x] = h[x]
  PROVE  SumFunctionOnSet(f, S) = SumFunctionOnSet(h, S)
<1>1. PICK g : Sums(f, S, g) /\ SumFunctionOnSet(f, S) = g[S]
  BY SumIsSums
<1>2. PICK k : Sums(h, S, k) /\ SumFunctionOnSet(h, S) = k[S]
  BY SumIsSums
<1>3. S \cap S = S
  OBVIOUS
<1> QED
  BY <1>1, <1>2, <1>3, SumsAgree

\* A sum may be taken apart at any element of its set.
THEOREM SumRemove ==
  ASSUME NEW f, NEW S, IsFiniteSet(S), \A x \in S : f[x] \in Int, NEW y \in S
  PROVE  SumFunctionOnSet(f, S) = f[y] + SumFunctionOnSet(f, S \ {y})
<1>1. PICK g : Sums(f, S, g) /\ SumFunctionOnSet(f, S) = g[S]
  BY SumIsSums
<1>2. g[S] = f[y] + g[S \ {y}]
  BY <1>1, SumsAnyOrder
<1>3. IsFiniteSet(S \ {y})
  BY FS_RemoveElement
<1>4. PICK k : Sums(f, S \ {y}, k) /\ SumFunctionOnSet(f, S \ {y}) = k[S \ {y}]
  BY <1>3, SumIsSums
<1>5. S \ {y} \in SUBSET (S \cap (S \ {y}))
  OBVIOUS
<1>6. g[S \ {y}] = k[S \ {y}]
  BY <1>1, <1>3, <1>4, <1>5, SumsAgree
<1> QED
  BY <1>1, <1>2, <1>4, <1>6

\* A new element adds its value.
THEOREM SumAdd ==
  ASSUME NEW f, NEW S, IsFiniteSet(S), \A x \in S : f[x] \in Int,
         NEW y, y \notin S, f[y] \in Int
  PROVE  SumFunctionOnSet(f, S \cup {y}) = SumFunctionOnSet(f, S) + f[y]
<1>1. IsFiniteSet(S \cup {y}) /\ (S \cup {y}) \ {y} = S
  BY FS_AddElement
<1>2. SumFunctionOnSet(f, S \cup {y}) = f[y] + SumFunctionOnSet(f, (S \cup {y}) \ {y})
  BY <1>1, SumRemove
<1>3. SumFunctionOnSet(f, S) \in Int
  BY SumType
<1>4. SumFunctionOnSet(f, S \cup {y}) = f[y] + SumFunctionOnSet(f, S)
  BY <1>1, <1>2
<1> QED
  BY <1>3, <1>4

\* The sum over two sets that have no element in common.
THEOREM SumDisjoint ==
  ASSUME NEW f, NEW S, IsFiniteSet(S), NEW U, IsFiniteSet(U), S \cap U = {},
         \A x \in S \cup U : f[x] \in Int
  PROVE  SumFunctionOnSet(f, S \cup U) = SumFunctionOnSet(f, S) + SumFunctionOnSet(f, U)
<1> DEFINE T == {n \in Nat : \A V \in SUBSET U : Cardinality(V) = n =>
                   SumFunctionOnSet(f, S \cup V) = SumFunctionOnSet(f, S) + SumFunctionOnSet(f, V)}
<1>1. \A V \in SUBSET U : IsFiniteSet(V) /\ Cardinality(V) \in Nat /\ IsFiniteSet(S \cup V)
  BY FS_Subset, FS_CardinalityType, FS_Union
<1>2. \A V \in SUBSET U : SumFunctionOnSet(f, V) \in Int
  BY <1>1, SumType
<1>3. SumFunctionOnSet(f, S) \in Int
  BY SumType
<1>4. 0 \in T
  <2>1. ASSUME NEW V \in SUBSET U, Cardinality(V) = 0
        PROVE  SumFunctionOnSet(f, S \cup V) = SumFunctionOnSet(f, S) + SumFunctionOnSet(f, V)
    <3>1. V = {} /\ S \cup V = S
      BY <2>1, <1>1, FS_EmptySet
    <3> QED
      BY <3>1, <1>3, SumEmpty
  <2> QED
    BY <2>1
<1>5. ASSUME NEW n \in Nat, n \in T PROVE n + 1 \in T
  <2>1. ASSUME NEW V \in SUBSET U, Cardinality(V) = n + 1
        PROVE  SumFunctionOnSet(f, S \cup V) = SumFunctionOnSet(f, S) + SumFunctionOnSet(f, V)
    <3>1. PICK y : y \in V
      BY <2>1, FS_EmptySet
    <3>2. Cardinality(V \ {y}) = n
      <4>1. IsFiniteSet(V)
        BY <1>1
      <4> QED
        BY <2>1, <3>1, <4>1, RemoveOne
    <3>8. V \ {y} \in SUBSET U
      OBVIOUS
    <3>9. IsFiniteSet(V) /\ IsFiniteSet(S \cup V)
      BY <1>1
    <3>10. (\A x \in V : f[x] \in Int) /\ (\A x \in S \cup V : f[x] \in Int)
      OBVIOUS
    <3>3. SumFunctionOnSet(f, S \cup (V \ {y}))
            = SumFunctionOnSet(f, S) + SumFunctionOnSet(f, V \ {y})
      BY <3>2, <3>8, <1>5
    <3>4. SumFunctionOnSet(f, V) = f[y] + SumFunctionOnSet(f, V \ {y})
      BY <3>1, <3>9, <3>10, SumRemove
    <3>5. (S \cup V) \ {y} = S \cup (V \ {y})
      BY <3>1
    <3>6. SumFunctionOnSet(f, S \cup V) = f[y] + SumFunctionOnSet(f, (S \cup V) \ {y})
      <4>1. y \in S \cup V
        BY <3>1
      <4> QED
        BY <4>1, <3>9, <3>10, SumRemove
    <3>7. f[y] \in Int /\ SumFunctionOnSet(f, V \ {y}) \in Int
      BY <3>1, <3>8, <1>2
    <3>11. SumFunctionOnSet(f, S \cup V) = f[y] + (SumFunctionOnSet(f, S) + SumFunctionOnSet(f, V \ {y}))
      BY <3>3, <3>5, <3>6
    <3> QED
      BY <3>4, <3>7, <3>11, <1>3
  <2> QED
    BY <2>1
<1>6. \A n \in Nat : n \in T
  <2> HIDE DEF T
  <2> QED
    BY <1>4, <1>5, InductiveSet
<1> QED
  BY <1>1, <1>6

\* A sum of numbers that are not negative is not negative.
THEOREM SumNat ==
  ASSUME NEW f, NEW S, IsFiniteSet(S), \A x \in S : f[x] \in Nat
  PROVE  SumFunctionOnSet(f, S) \in Nat
<1> DEFINE T == {n \in Nat : \A V \in SUBSET S : Cardinality(V) = n =>
                   SumFunctionOnSet(f, V) \in Nat}
<1>1. \A V \in SUBSET S : IsFiniteSet(V) /\ Cardinality(V) \in Nat
  BY FS_Subset, FS_CardinalityType
<1>2. 0 \in T
  <2>1. \A V \in SUBSET S : Cardinality(V) = 0 => V = {}
    BY <1>1, FS_EmptySet
  <2> QED
    BY <2>1, SumEmpty
<1>3. ASSUME NEW n \in Nat, n \in T PROVE n + 1 \in T
  <2>1. ASSUME NEW V \in SUBSET S, Cardinality(V) = n + 1
        PROVE  SumFunctionOnSet(f, V) \in Nat
    <3>1. PICK y : y \in V
      BY <2>1, FS_EmptySet
    <3>2. Cardinality(V \ {y}) = n /\ V \ {y} \in SUBSET S
      BY <2>1, <3>1, <1>1, RemoveOne
    <3>3. SumFunctionOnSet(f, V \ {y}) \in Nat
      BY <3>2, <1>3
    <3>4. SumFunctionOnSet(f, V) = f[y] + SumFunctionOnSet(f, V \ {y})
      BY <3>1, <1>1, SumRemove
    <3> QED
      BY <3>1, <3>3, <3>4
  <2> QED
    BY <2>1
<1>4. \A n \in Nat : n \in T
  <2> HIDE DEF T
  <2> QED
    BY <1>2, <1>3, InductiveSet
<1> QED
  BY <1>1, <1>4

\* A part of such a sum is not larger than the whole.
THEOREM SumSubset ==
  ASSUME NEW f, NEW S, IsFiniteSet(S), \A x \in S : f[x] \in Nat, NEW U \in SUBSET S
  PROVE  /\ SumFunctionOnSet(f, S) = SumFunctionOnSet(f, U) + SumFunctionOnSet(f, S \ U)
         /\ SumFunctionOnSet(f, U) \in Nat /\ SumFunctionOnSet(f, S \ U) \in Nat
         /\ SumFunctionOnSet(f, U) <= SumFunctionOnSet(f, S)
<1>1. IsFiniteSet(U) /\ IsFiniteSet(S \ U) /\ U \cup (S \ U) = S /\ U \cap (S \ U) = {}
  BY FS_Subset
<1>2. SumFunctionOnSet(f, U) \in Nat /\ SumFunctionOnSet(f, S \ U) \in Nat
  BY <1>1, SumNat
<1>3. \A x \in U \cup (S \ U) : f[x] \in Int
  BY <1>1
<1>4. SumFunctionOnSet(f, U \cup (S \ U)) = SumFunctionOnSet(f, U) + SumFunctionOnSet(f, S \ U)
  BY <1>1, <1>3, SumDisjoint
<1>5. SumFunctionOnSet(f, S) = SumFunctionOnSet(f, U) + SumFunctionOnSet(f, S \ U)
  BY <1>1, <1>4
<1> QED
  BY <1>2, <1>5

-----------------------------------------------------------------------------
(* The indices a filter lets pass *)

\* f collects the indices that pass, up to each place of `keep'.
PickStep(keep, f, n) ==
  IF n = 0 THEN <<>> ELSE IF keep[n] THEN Append(f[n - 1], n) ELSE f[n - 1]
Picks(keep, f) == f = [n \in 0 .. Len(keep) |-> PickStep(keep, f, n)]

\* The recursion of a filter defines a function.
LEMMA PicksExist ==
  ASSUME NEW keep \in Seq(BOOLEAN)
  PROVE  \E f : Picks(keep, f)
<1> DEFINE Part(n, f) == f = [m \in 0 .. n |-> PickStep(keep, f, m)]
           T == {n \in Nat : \E f : Part(n, f)}
<1>1. 0 \in T
  <2> DEFINE f == [m \in 0 .. 0 |-> <<>>]
  <2>1. \A m \in 0 .. 0 : PickStep(keep, f, m) = <<>>
    BY DEF PickStep
  <2>2. Part(0, f)
    BY <2>1
  <2> QED
    BY <2>2
<1>2. ASSUME NEW n \in Nat, n \in T PROVE n + 1 \in T
  <2>1. PICK f : Part(n, f)
    BY <1>2
  <2> DEFINE h == [m \in 0 .. (n + 1) |-> PickStep(keep, f, m)]
  <2>2. \A m \in 0 .. n : h[m] = f[m]
    BY <2>1
  <2>3. ASSUME NEW m \in 0 .. (n + 1) PROVE PickStep(keep, f, m) = PickStep(keep, h, m)
    <3>1. CASE m = 0
      BY <3>1 DEF PickStep
    <3>2. CASE m # 0
      <4>1. m - 1 \in 0 .. n
        BY <3>2
      <4>2. f[m - 1] = h[m - 1]
        BY <2>2, <4>1
      <4> HIDE DEF h
      <4> QED
        BY <3>2, <4>2 DEF PickStep
    <3> QED
      BY <3>1, <3>2
  <2>4. Part(n + 1, h)
    BY <2>3
  <2>5. \E k : Part(n + 1, k)
    <3> HIDE DEF h, Part
    <3> QED
      BY <2>4
  <2> HIDE DEF Part
  <2> QED
    BY <2>5
<1>3. Len(keep) \in T
  <2> HIDE DEF T
  <2> QED
    BY <1>1, <1>2, InductiveSet
<1> QED
  BY <1>3 DEF Picks

Kept(keep) == {k \in 1 .. Len(keep) : keep[k]}

\* A loop with a filter visits exactly the indices that pass, in their order.
THEOREM SelectedIsKept ==
  ASSUME NEW keep \in Seq(BOOLEAN)
  PROVE  /\ Selected(keep) \in Seq(Kept(keep))
         /\ \A k \in Kept(keep) : \E i \in 1 .. Len(Selected(keep)) : Selected(keep)[i] = k
         /\ \A i, j \in 1 .. Len(Selected(keep)) : i < j => Selected(keep)[i] < Selected(keep)[j]
<1> DEFINE f == CHOOSE f : Picks(keep, f)
           Below(n) == {k \in 1 .. n : keep[k]}
           Good(n) == /\ f[n] \in Seq(Below(n))
                      /\ \A k \in Below(n) : \E i \in 1 .. Len(f[n]) : f[n][i] = k
                      /\ \A i, j \in 1 .. Len(f[n]) : i < j => f[n][i] < f[n][j]
           T == {n \in Nat : n <= Len(keep) => Good(n)}
<1>1. Picks(keep, f)
  BY PicksExist
<1>2. Selected(keep) = f[Len(keep)]
  BY DEF Selected, Picks, PickStep
<1> HIDE DEF f
<1>3. \A n \in 0 .. Len(keep) : f[n] = PickStep(keep, f, n)
  BY <1>1 DEF Picks
<1>4. 0 \in T
  <2>1. 0 \in 0 .. Len(keep)
    OBVIOUS
  <2>2. f[0] = PickStep(keep, f, 0)
    BY <1>3, <2>1
  <2>3. f[0] = <<>>
    BY <2>2 DEF PickStep
  <2>4. Good(0)
    BY <2>3
  <2> HIDE DEF Good
  <2> QED
    BY <2>4
<1>5. ASSUME NEW n \in Nat, n \in T, n + 1 <= Len(keep) PROVE Good(n + 1)
  <2>1. Good(n)
    BY <1>5
  <2>2. CASE keep[n + 1]
    <3> DEFINE s == f[n]
    <3>1. f[n + 1] = Append(s, n + 1)
      <4>1. n + 1 \in 0 .. Len(keep) /\ n + 1 # 0 /\ (n + 1) - 1 = n
        BY <1>5
      <4>2. f[n + 1] = PickStep(keep, f, n + 1)
        BY <1>3, <4>1
      <4> QED
        BY <2>2, <4>1, <4>2 DEF PickStep
    <3>2. s \in Seq(Below(n)) /\ n + 1 \in Below(n + 1) /\ s \in Seq(Below(n + 1))
      BY <2>1, <2>2
    <3> HIDE DEF s
    <3>3. Append(s, n + 1) \in Seq(Below(n + 1))
      BY <3>2
    <3>4. \A k \in Below(n + 1) : \E i \in 1 .. Len(Append(s, n + 1)) : Append(s, n + 1)[i] = k
      <4>1. ASSUME NEW k \in Below(n) PROVE \E i \in 1 .. Len(Append(s, n + 1)) : Append(s, n + 1)[i] = k
        <5>1. PICK i \in 1 .. Len(s) : s[i] = k
          BY <2>1, <4>1 DEF s
        <5> QED
          BY <5>1, <3>2
      <4>2. Append(s, n + 1)[Len(s) + 1] = n + 1 /\ Len(s) + 1 \in 1 .. Len(Append(s, n + 1))
        BY <3>2
      <4>3. \A k \in Below(n + 1) : k \in Below(n) \/ k = n + 1
        OBVIOUS
      <4> QED
        BY <4>1, <4>2, <4>3
    <3>5. ASSUME NEW i \in 1 .. Len(Append(s, n + 1)), NEW j \in 1 .. Len(Append(s, n + 1)), i < j
          PROVE  Append(s, n + 1)[i] < Append(s, n + 1)[j]
      <4>1. i \in 1 .. Len(s) /\ Append(s, n + 1)[i] = s[i] /\ s[i] \in 1 .. n
        BY <3>2, <3>5
      <4>2. CASE j = Len(s) + 1
        <5>1. Append(s, n + 1)[j] = n + 1
          BY <4>2, <3>2
        <5> QED
          BY <4>1, <5>1
      <4>3. CASE j # Len(s) + 1
        <5>1. j \in 1 .. Len(s) /\ Append(s, n + 1)[j] = s[j]
          BY <4>3, <3>2
        <5> QED
          BY <4>1, <5>1, <3>5, <2>1 DEF s
      <4> QED
        BY <4>2, <4>3
    <3> QED
      BY <3>1, <3>3, <3>4, <3>5
  <2>3. CASE ~ keep[n + 1]
    <3>1. f[n + 1] = f[n]
      BY <1>3, <2>3, <1>5 DEF PickStep
    <3>2. Below(n + 1) = Below(n)
      BY <2>3
    <3> QED
      BY <3>1, <3>2, <2>1
  <2> QED
    BY <2>2, <2>3
<1>6. \A n \in Nat : n \in T
  <2>1. ASSUME NEW n \in Nat, n \in T PROVE n + 1 \in T
    <3> HIDE DEF Good
    <3> QED
      BY <1>5, <2>1
  <2> HIDE DEF T
  <2> QED
    BY <1>4, <2>1, InductiveSet
<1>7. Good(Len(keep))
  BY <1>6
<1> QED
  BY <1>7, <1>2 DEF Kept

\* The first index it visits is the least that passes, and it visits none only
\* if none passes.
THEOREM SelectedHead ==
  ASSUME NEW keep \in Seq(BOOLEAN)
  PROVE  /\ Selected(keep) = <<>> <=> Kept(keep) = {}
         /\ Selected(keep) # <<>> => /\ Head(Selected(keep)) \in Kept(keep)
                                     /\ \A k \in Kept(keep) : Head(Selected(keep)) <= k
<1> DEFINE s == Selected(keep)
<1>1. /\ s \in Seq(Kept(keep))
      /\ \A k \in Kept(keep) : \E i \in 1 .. Len(s) : s[i] = k
      /\ \A i, j \in 1 .. Len(s) : i < j => s[i] < s[j]
  BY SelectedIsKept
<1> HIDE DEF s
<1>2. s = <<>> <=> Kept(keep) = {}
  <2>1. CASE s = <<>>
    BY <2>1, <1>1
  <2>2. CASE s # <<>>
    BY <2>2, <1>1
  <2> QED
    BY <2>1, <2>2
<1>3. ASSUME s # <<>> PROVE Head(s) \in Kept(keep) /\ \A k \in Kept(keep) : Head(s) <= k
  <2>1. 1 \in 1 .. Len(s) /\ Head(s) = s[1] /\ s[1] \in Kept(keep)
    BY <1>1, <1>3
  <2>2. ASSUME NEW k \in Kept(keep) PROVE s[1] <= k
    <3>1. PICK i \in 1 .. Len(s) : s[i] = k
      BY <1>1
    <3>2. s[1] \in Nat /\ k \in Nat
      BY <2>1 DEF Kept
    <3>3. i = 1 \/ 1 < i
      BY <3>1
    <3> QED
      BY <3>1, <3>2, <3>3, <2>1, <1>1
  <2> QED
    BY <2>1, <2>2
<1> QED
  BY <1>2, <1>3 DEF s
=============================================================================
