---------------------------- MODULE SumTheorems -----------------------------
(***************************************************************************)
(* Facts about SumFunctionOnSet of the community module Functions, the sum *)
(* of f[x] over a finite set of x.  Its definition picks the elements one  *)
(* after the other, in an order of its own; below, that the recursion has a*)
(* solution, and from it what the books of a folio pool and the totals of  *)
(* an invoice rest on: the order does not matter, and a bound that holds   *)
(* for each element adds up.                                               *)
(*                                                                         *)
(* Induction over the finite sets is by the smallest counterexample, which *)
(* needs no theorem that has an operator as its parameter.                 *)
(***************************************************************************)
EXTENDS Functions, FiniteSetTheorems, WellFoundedInduction, TLAPS

\* Any set of subsets of a finite set has one that holds no other.
LEMMA Least ==
    ASSUME NEW S, IsFiniteSet(S), NEW B \in SUBSET SUBSET S, B # {}
    PROVE  \E U \in B : \A V \in B : V \subseteq U => V = U
<1>1. IsWellFoundedOn(StrictSubsetOrdering(S), FiniteSubsetsOf(S))
  BY FS_StrictSubsetOrderingWellFounded
<1>2. B \subseteq FiniteSubsetsOf(S)
  BY FS_Subset DEF FiniteSubsetsOf
<1>3. PICK U \in B : \A V \in B : <<V, U>> \notin StrictSubsetOrdering(S)
  <2> HIDE DEF StrictSubsetOrdering, FiniteSubsetsOf
  <2> QED BY <1>1, <1>2, WFMin
<1>4. \A V \in B : V \subseteq U /\ V # U => <<V, U>> \in StrictSubsetOrdering(S)
  BY DEF StrictSubsetOrdering
<1>5. \A V \in B : V \subseteq U => V = U
  BY <1>3, <1>4
<1> QED BY <1>5

-----------------------------------------------------------------------------
(* The recursion of the sum.                                                 *)

\* The element that is added next.
Pick(s) == CHOOSE x \in s : TRUE

\* What the sums over the subsets of S satisfy, and the sums.
Rec(f, S, g) == [s \in SUBSET S |-> IF s = {} THEN 0
                                    ELSE f[Pick(s)] + g[s \ {Pick(s)}]]
Iter(f, S) == CHOOSE g : g = Rec(f, S, g)

\* The definition of the community module, in these words.
LEMMA SumIsIter ==
    ASSUME NEW f, NEW S
    PROVE  SumFunctionOnSet(f, S) = Iter(f, S)[S]
BY DEF SumFunctionOnSet, FoldFunctionOnSet, MapThenFoldSet, Iter, Rec, Pick

\* Something is picked as long as something is left.
LEMMA PickIn == \A s : s # {} => Pick(s) \in s
BY DEF Pick

\* Solutions over a set and over a part of it agree on the part.
LEMMA RecUnique ==
    ASSUME NEW f, NEW S, IsFiniteSet(S), NEW T \in SUBSET S,
           NEW g, g = Rec(f, S, g), NEW h, h = Rec(f, T, h)
    PROVE  \A s \in SUBSET T : g[s] = h[s]
<1> DEFINE B == {s \in SUBSET T : g[s] # h[s]}
<1> SUFFICES ASSUME B # {} PROVE FALSE
  OBVIOUS
<1>0. IsFiniteSet(T)
  BY FS_Subset
<1>9. B \in SUBSET SUBSET T
  OBVIOUS
<1>1. PICK s \in B : \A V \in B : V \subseteq s => V = s
  <2> HIDE DEF B
  <2> QED BY <1>0, <1>9, Least
<1>2. /\ g[s] = IF s = {} THEN 0 ELSE f[Pick(s)] + g[s \ {Pick(s)}]
      /\ h[s] = IF s = {} THEN 0 ELSE f[Pick(s)] + h[s \ {Pick(s)}]
  BY DEF Rec
<1>3. CASE s = {}
  BY <1>2, <1>3
<1>4. CASE s # {}
  <2>1. Pick(s) \in s
    BY <1>4, PickIn
  <2>2. s \ {Pick(s)} \notin B
    BY <1>1, <2>1
  <2>3. g[s \ {Pick(s)}] = h[s \ {Pick(s)}]
    BY <2>2
  <2> QED BY <1>2, <2>3, <1>4
<1> QED BY <1>3, <1>4

\* There is a solution: a smallest set without one gets it from those of its subsets.
LEMMA RecExists ==
    ASSUME NEW f, NEW S, IsFiniteSet(S)
    PROVE  \E g : g = Rec(f, S, g)
<1> DEFINE B == {s \in SUBSET S : \A g : g # Rec(f, s, g)}
<1> SUFFICES ASSUME B # {} PROVE FALSE
  OBVIOUS
<1>9. B \in SUBSET SUBSET S
  OBVIOUS
<1>1. PICK U \in B : \A V \in B : V \subseteq U => V = U
  <2> HIDE DEF B
  <2> QED BY <1>9, Least
<1>2. \A V \in SUBSET U : V # U => Iter(f, V) = Rec(f, V, Iter(f, V))
  <2> SUFFICES ASSUME NEW V \in SUBSET U, V # U
               PROVE  Iter(f, V) = Rec(f, V, Iter(f, V))
    OBVIOUS
  <2>1. V \notin B
    BY <1>1
  <2>2. \E g : g = Rec(f, V, g)
    BY <2>1
  <2> QED BY <2>2 DEF Iter
<1> DEFINE Below(s) == s \ {Pick(s)}
           g == [s \in SUBSET U |-> IF s = {} THEN 0 ELSE f[Pick(s)] + Iter(f, Below(s))[Below(s)]]
<1>3. \A s \in SUBSET U : s # {} => g[Below(s)] = Iter(f, Below(s))[Below(s)]
  <2> SUFFICES ASSUME NEW s \in SUBSET U, s # {}
               PROVE  g[Below(s)] = Iter(f, Below(s))[Below(s)]
    OBVIOUS
  <2> DEFINE t == Below(s)
  <2>1. t \in SUBSET U /\ t # U
    BY PickIn
  <2>2. Iter(f, t) = Rec(f, t, Iter(f, t))
    BY <2>1, <1>2
  <2>3. Iter(f, t)[t] = IF t = {} THEN 0 ELSE f[Pick(t)] + Iter(f, t)[Below(t)]
    <3> HIDE DEF t
    <3> QED BY <2>2 DEF Rec
  <2>4. ASSUME t # {} PROVE Iter(f, t)[Below(t)] = Iter(f, Below(t))[Below(t)]
    <3>1. Below(t) \in SUBSET t /\ Below(t) # U
      BY <2>1
    <3>2. Iter(f, Below(t)) = Rec(f, Below(t), Iter(f, Below(t)))
      BY <3>1, <2>1, <1>2
    <3>3. IsFiniteSet(t)
      BY <2>1, FS_Subset
    <3>4. Below(t) \in SUBSET Below(t)
      OBVIOUS
    <3> HIDE DEF t, Below
    <3> QED BY <2>2, <3>1, <3>2, <3>3, <3>4, RecUnique
  <2>5. g[t] = IF t = {} THEN 0 ELSE f[Pick(t)] + Iter(f, Below(t))[Below(t)]
    BY <2>1
  <2> HIDE DEF t
  <2> QED BY <2>3, <2>4, <2>5 DEF t
<1>4. g = Rec(f, U, g)
  <2> SUFFICES ASSUME NEW s \in SUBSET U
               PROVE  g[s] = IF s = {} THEN 0 ELSE f[Pick(s)] + g[Below(s)]
    BY DEF Rec
  <2>1. g[s] = IF s = {} THEN 0 ELSE f[Pick(s)] + Iter(f, Below(s))[Below(s)]
    OBVIOUS
  <2> HIDE DEF g, Below
  <2> QED BY <2>1, <1>3
<1> QED
  <2> HIDE DEF g
  <2> QED BY <1>4

\* So the sums satisfy the recursion.
LEMMA IterIsRec ==
    ASSUME NEW f, NEW S, IsFiniteSet(S)
    PROVE  Iter(f, S) = Rec(f, S, Iter(f, S))
BY RecExists DEF Iter

-----------------------------------------------------------------------------
(* The sum.                                                                  *)

\* The sum over nothing.
LEMMA SumOfNone ==
    ASSUME NEW f
    PROVE  SumFunctionOnSet(f, {}) = 0
<1>1. Iter(f, {}) = Rec(f, {}, Iter(f, {}))
  BY IterIsRec, FS_EmptySet
<1>2. Iter(f, {})[{}] = 0
  BY <1>1 DEF Rec
<1> QED BY <1>2, SumIsIter

\* The sum over something is the element that is picked and the sum over the rest.
LEMMA SumPick ==
    ASSUME NEW f, NEW S, IsFiniteSet(S), S # {}
    PROVE  /\ Pick(S) \in S
           /\ SumFunctionOnSet(f, S) = f[Pick(S)] + SumFunctionOnSet(f, S \ {Pick(S)})
<1> DEFINE T == S \ {Pick(S)}
<1>1. IsFiniteSet(T)
  BY FS_Subset
<1>2. Iter(f, S) = Rec(f, S, Iter(f, S)) /\ Iter(f, T) = Rec(f, T, Iter(f, T))
  BY <1>1, IterIsRec
<1>3. Iter(f, S)[S] = f[Pick(S)] + Iter(f, S)[T]
  <2> HIDE DEF T
  <2> QED BY <1>2 DEF Rec, T
<1>4. Iter(f, S)[T] = Iter(f, T)[T]
  <2>1. T \in SUBSET S /\ T \in SUBSET T
    OBVIOUS
  <2> HIDE DEF T
  <2> QED BY <1>2, <2>1, RecUnique
<1> QED BY <1>3, <1>4, SumIsIter, PickIn

\* A sum of integers is one.
LEMMA SumIsInt ==
    ASSUME NEW f, NEW S, IsFiniteSet(S), \A x \in S : f[x] \in Int
    PROVE  SumFunctionOnSet(f, S) \in Int
<1> DEFINE B == {T \in SUBSET S : SumFunctionOnSet(f, T) \notin Int}
<1>1. S \notin B
  <2> SUFFICES ASSUME B # {} PROVE FALSE
    OBVIOUS
  <2>1. PICK T \in B : \A V \in B : V \subseteq T => V = T
    <3> B \in SUBSET SUBSET S
      OBVIOUS
    <3> HIDE DEF B
    <3> QED BY Least
  <2>2. T \in SUBSET S /\ IsFiniteSet(T) /\ SumFunctionOnSet(f, T) \notin Int
    BY FS_Subset
  <2>3. T # {}
    BY <2>2, SumOfNone
  <2>4. /\ Pick(T) \in T
        /\ SumFunctionOnSet(f, T) = f[Pick(T)] + SumFunctionOnSet(f, T \ {Pick(T)})
    BY <2>2, <2>3, SumPick
  <2>5. T \ {Pick(T)} \notin B
    BY <2>1, <2>4
  <2>6. SumFunctionOnSet(f, T \ {Pick(T)}) \in Int /\ f[Pick(T)] \in Int
    BY <2>2, <2>4, <2>5
  <2> QED BY <2>2, <2>4, <2>6
<1> QED BY <1>1

\* Any element can be the first: the order of a sum does not matter.
LEMMA SumWithout ==
    ASSUME NEW f, NEW S, IsFiniteSet(S), \A x \in S : f[x] \in Int, NEW y \in S
    PROVE  SumFunctionOnSet(f, S) = f[y] + SumFunctionOnSet(f, S \ {y})
<1> DEFINE Takes(T, x) == SumFunctionOnSet(f, T) = f[x] + SumFunctionOnSet(f, T \ {x})
           B == {T \in SUBSET S : \E x \in T : ~Takes(T, x)}
<1>1. S \notin B
  <2> SUFFICES ASSUME B # {} PROVE FALSE
    OBVIOUS
  <2>1. PICK T \in B : \A V \in B : V \subseteq T => V = T
    <3> B \in SUBSET SUBSET S
      OBVIOUS
    <3> HIDE DEF B
    <3> QED BY Least
  <2>2. T \in SUBSET S /\ IsFiniteSet(T)
    BY FS_Subset
  <2>3. PICK x \in T : ~Takes(T, x)
    OBVIOUS
  <2> DEFINE p == Pick(T)
  <2>4. p \in T /\ Takes(T, p)
    BY <2>2, SumPick
  <2>5. x # p
    BY <2>3, <2>4
  <2>6. T \ {p} \notin B /\ T \ {x} \notin B
    BY <2>1, <2>4
  <2>7. Takes(T \ {p}, x) /\ Takes(T \ {x}, p)
    BY <2>2, <2>4, <2>5, <2>6
  <2>8. (T \ {p}) \ {x} = (T \ {x}) \ {p}
    OBVIOUS
  <2> DEFINE rest == SumFunctionOnSet(f, (T \ {p}) \ {x})
  <2>9. rest \in Int /\ f[x] \in Int /\ f[p] \in Int
    <3>1. (T \ {p}) \ {x} \in SUBSET S
      BY <2>2
    <3>2. IsFiniteSet((T \ {p}) \ {x})
      BY <3>1, FS_Subset
    <3> QED BY <2>2, <2>4, <3>1, <3>2, SumIsInt
  <2>10. /\ SumFunctionOnSet(f, T) = f[p] + (f[x] + rest)
         /\ SumFunctionOnSet(f, T \ {x}) = f[p] + rest
    BY <2>4, <2>7, <2>8
  <2>11. Takes(T, x)
    <3> HIDE DEF rest, p
    <3> QED BY <2>9, <2>10
  <2> QED BY <2>3, <2>11
<1> QED BY <1>1

\* One element more adds its value: the counter of a pool that one more assignment moves.
LEMMA SumWith ==
    ASSUME NEW f, NEW S, IsFiniteSet(S), NEW y, y \notin S, 
           \A x \in S \cup {y} : f[x] \in Int
    PROVE  SumFunctionOnSet(f, S \cup {y}) = f[y] + SumFunctionOnSet(f, S)
<1>1. IsFiniteSet(S \cup {y})
  BY FS_AddElement
<1>2. (S \cup {y}) \ {y} = S
  OBVIOUS
<1>3. SumFunctionOnSet(f, S \cup {y}) = f[y] + SumFunctionOnSet(f, (S \cup {y}) \ {y})
  BY <1>1, SumWithout
<1> QED BY <1>2, <1>3

\* A linear bound that holds for each element holds for the sums, once per element: the
\* rounding of each line of an invoice, added up.
LEMMA SumBound ==
    ASSUME NEW S, IsFiniteSet(S), NEW a, NEW b, NEW c,
           \A x \in S : a[x] \in Int /\ b[x] \in Int /\ c[x] \in Int,
           NEW i \in Int, NEW j \in Int, NEW k \in Int, NEW e \in Int,
           \A x \in S : i * a[x] + j * b[x] + k * c[x] <= e
    PROVE  i * SumFunctionOnSet(a, S) + j * SumFunctionOnSet(b, S) + k * SumFunctionOnSet(c, S)
             <= e * Cardinality(S)
<1> DEFINE Left(T) == i * SumFunctionOnSet(a, T) + j * SumFunctionOnSet(b, T)
                        + k * SumFunctionOnSet(c, T)
           B == {T \in SUBSET S : ~(Left(T) <= e * Cardinality(T))}
<1>1. S \notin B
  <2> SUFFICES ASSUME B # {} PROVE FALSE
    OBVIOUS
  <2>1. PICK T \in B : \A V \in B : V \subseteq T => V = T
    <3> B \in SUBSET SUBSET S
      OBVIOUS
    <3> HIDE DEF B
    <3> QED BY Least
  <2>2. T \in SUBSET S /\ IsFiniteSet(T) /\ ~(Left(T) <= e * Cardinality(T))
    BY FS_Subset
  <2>3. T # {}
    <3>1. Left({}) = 0 /\ Cardinality({}) = 0 /\ e * 0 = 0
      BY SumOfNone, FS_EmptySet
    <3>2. Left({}) <= e * Cardinality({})
      <4> HIDE DEF Left
      <4> QED BY <3>1
    <3> HIDE DEF Left
    <3> QED BY <2>2, <3>2
  <2> DEFINE p == Pick(T)
             R == T \ {p}
  <2>4. /\ p \in T
        /\ SumFunctionOnSet(a, T) = a[p] + SumFunctionOnSet(a, R)
        /\ SumFunctionOnSet(b, T) = b[p] + SumFunctionOnSet(b, R)
        /\ SumFunctionOnSet(c, T) = c[p] + SumFunctionOnSet(c, R)
    BY <2>2, <2>3, SumPick
  <2>5. R \in SUBSET S /\ IsFiniteSet(R) /\ Left(R) <= e * Cardinality(R)
    <3>1. R \in SUBSET S /\ R \notin B
      BY <2>1, <2>2, <2>4
    <3>2. IsFiniteSet(R)
      BY <3>1, FS_Subset
    <3> QED BY <3>1, <3>2
  <2>6. /\ SumFunctionOnSet(a, R) \in Int /\ a[p] \in Int
        /\ SumFunctionOnSet(b, R) \in Int /\ b[p] \in Int
        /\ SumFunctionOnSet(c, R) \in Int /\ c[p] \in Int
    <3> HIDE DEF R
    <3> QED BY <2>2, <2>4, <2>5, SumIsInt
  <2>7. Cardinality(T) = Cardinality(R) + 1 /\ Cardinality(R) \in Nat
    <3>1. Cardinality(R) \in Nat /\ Cardinality(T) \in Nat
      BY <2>2, <2>5, FS_CardinalityType
    <3>2. Cardinality(R) = Cardinality(T) - 1
      <4> HIDE DEF p
      <4> QED BY <2>2, <2>4, FS_RemoveElement
    <3> QED BY <3>1, <3>2
  <2>8. i * a[p] + j * b[p] + k * c[p] <= e
    BY <2>2, <2>4
  <2>9. \A m, u, v \in Int : m * (u + v) = m * u + m * v
    OBVIOUS
  <2>10. Left(T) = (i * a[p] + j * b[p] + k * c[p]) + Left(R)
    <3> HIDE DEF p, R
    <3>1. /\ i * SumFunctionOnSet(a, T) = i * a[p] + i * SumFunctionOnSet(a, R)
          /\ j * SumFunctionOnSet(b, T) = j * b[p] + j * SumFunctionOnSet(b, R)
          /\ k * SumFunctionOnSet(c, T) = k * c[p] + k * SumFunctionOnSet(c, R)
      BY <2>4, <2>6, <2>9
    <3> QED BY <2>6, <3>1
  <2>11. e * Cardinality(T) = e + e * Cardinality(R)
    BY <2>7
  <2>12. i * a[p] + j * b[p] + k * c[p] \in Int /\ Left(R) \in Int
    BY <2>6
  <2>13. e * Cardinality(R) \in Int
    BY <2>7
  <2>14. Left(T) <= e * Cardinality(T)
    <3> DEFINE step == i * a[p] + j * b[p] + k * c[p]
               rest == Left(R)
               bound == e * Cardinality(R)
    <3>1. step \in Int /\ rest \in Int /\ bound \in Int /\ step <= e /\ rest <= bound
      BY <2>5, <2>8, <2>12, <2>13
    <3>2. Left(T) = step + rest /\ e * Cardinality(T) = e + bound
      BY <2>10, <2>11
    <3> HIDE DEF step, rest, bound, Left
    <3> QED BY <3>1, <3>2
  <2> QED BY <2>2, <2>14
<1> QED BY <1>1

\* A sum of what is not negative is not, either.
LEMMA SumIsNat ==
    ASSUME NEW f, NEW S, IsFiniteSet(S), \A x \in S : f[x] \in Nat
    PROVE  SumFunctionOnSet(f, S) \in Nat
<1>1. PICK i \in Int, j \in Int : i = -1 /\ j = 0
  OBVIOUS
<1>2. ASSUME NEW x \in S
      PROVE  i * f[x] + j * f[x] + j * f[x] <= j
  <2>1. i * f[x] = -f[x] /\ j * f[x] = 0
    BY <1>1
  <2>2. QED
    BY <1>1, <2>1
<1>3. i * SumFunctionOnSet(f, S) + j * SumFunctionOnSet(f, S) + j * SumFunctionOnSet(f, S)
        <= j * Cardinality(S)
  <2>1. \A x \in S : f[x] \in Int /\ f[x] \in Int /\ f[x] \in Int
    OBVIOUS
  <2>2. QED
    BY <1>2, <2>1, SumBound, Zenon
<1>4. SumFunctionOnSet(f, S) \in Int /\ Cardinality(S) \in Nat
  BY SumIsInt, FS_CardinalityType
<1>5. QED
  BY <1>1, <1>3, <1>4

\* A sum depends on nothing but the values it adds.
LEMMA SumSame ==
    ASSUME NEW S, NEW f, NEW g, \A x \in S : g[x] = f[x]
    PROVE  SumFunctionOnSet(g, S) = SumFunctionOnSet(f, S)
<1>1. \A h : Rec(f, S, h) = Rec(g, S, h)
  <2> SUFFICES ASSUME NEW h, NEW s \in SUBSET S, s # {}
               PROVE  f[Pick(s)] = g[Pick(s)]
    BY DEF Rec
  <2> QED BY PickIn
<1>2. Iter(f, S) = Iter(g, S)
  BY <1>1 DEF Iter
<1> QED BY <1>2, SumIsIter

\* The lines of an invoice are finitely many.
LEMMA Lines ==
    ASSUME NEW n \in Nat
    PROVE  IsFiniteSet(1..n) /\ Cardinality(1..n) = n
<1>1. 1 \in Int /\ n \in Int
  OBVIOUS
<1>2. IsFiniteSet(1..n) /\ Cardinality(1..n) = IF 1 > n THEN 0 ELSE n - 1 + 1
  BY <1>1, FS_Interval, Zenon
<1>3. QED
  BY <1>2

=============================================================================
