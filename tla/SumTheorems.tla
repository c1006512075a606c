----------------------------- MODULE SumTheorems -----------------------------
(***************************************************************************)
(* Facts about SumFunctionOnSet of the community modules: the sum of f[x]  *)
(* for the x of a finite set.                                              *)
(*                                                                         *)
(* The library defines it by recursion over the subsets of the set.  That  *)
(* the recursion defines a function, and what it computes, is shown here   *)
(* by least counterexamples: a nonempty set of subsets of a finite set has *)
(* one that contains no other (WFMin).                                     *)
(***************************************************************************)
EXTENDS Integers, FiniteSets, FiniteSetsExt, Functions, FiniteSetTheorems, TLAPS

Pick(s) == CHOOSE x \in s : TRUE

\* g gives each subset of S its sum, as the library's recursion has it.
Sums(f, S, g) ==
  g = [s \in SUBSET S |-> IF s = {} THEN 0 ELSE f[Pick(s)] + g[s \ {Pick(s)}]]

LEMMA PickIn == ASSUME NEW s, s # {} PROVE Pick(s) \in s
BY DEF Pick

LEMMA LeastSubset ==
  ASSUME NEW S, IsFiniteSet(S), NEW T \in SUBSET SUBSET S, T # {}
  PROVE  \E t \in T : \A u \in T : u \subseteq t => u = t
<1>1. IsWellFoundedOn(StrictSubsetOrdering(S), SUBSET S)
  BY FS_StrictSubsetOrderingWellFounded, FS_FiniteSubsetsOfFinite
<1>2. PICK t \in T : \A u \in T : ~(<<u, t>> \in StrictSubsetOrdering(S))
  BY <1>1, WFMin
<1> QED BY <1>2 DEF StrictSubsetOrdering

-----------------------------------------------------------------------------
(* The recursion defines one function                                       *)

LEMMA SumsAgree ==
  ASSUME NEW S, IsFiniteSet(S), NEW f, NEW g, NEW T, NEW h,
         Sums(f, S, g), Sums(f, T, h)
  PROVE  \A s \in SUBSET (S \cap T) : g[s] = h[s]
<1> DEFINE Bad == {s \in SUBSET (S \cap T) : g[s] # h[s]}
<1> SUFFICES ASSUME Bad # {} PROVE FALSE
  OBVIOUS
<1>1. Bad \in SUBSET SUBSET S
  OBVIOUS
<1>2. PICK s \in Bad : \A u \in Bad : u \subseteq s => u = s
  <2> HIDE DEF Bad
  <2> QED BY <1>1, LeastSubset
<1>3. s # {}
  <2>1. g[{}] = 0 /\ h[{}] = 0
    BY DEF Sums
  <2> QED BY <2>1
<1>4. PICK r : r = s \ {Pick(s)}
  OBVIOUS
<1>5. r \in SUBSET (S \cap T) /\ r # s /\ r \subseteq s
  BY <1>3, <1>4, PickIn
<1>6. g[r] = h[r]
  BY <1>2, <1>5
<1>7. g[s] = f[Pick(s)] + g[r] /\ h[s] = f[Pick(s)] + h[r]
  <2>1. s \in SUBSET S /\ s \in SUBSET T
    OBVIOUS
  <2>2. g[s] = f[Pick(s)] + g[r]
    BY <1>3, <1>4, <2>1 DEF Sums
  <2>3. h[s] = f[Pick(s)] + h[r]
    BY <1>3, <1>4, <2>1 DEF Sums
  <2> QED BY <2>2, <2>3
<1> QED BY <1>6, <1>7

LEMMA SumsExist ==
  ASSUME NEW S, IsFiniteSet(S), NEW f
  PROVE  \E g : Sums(f, S, g)
<1> DEFINE Bad == {s \in SUBSET S : ~\E g : Sums(f, s, g)}
<1> SUFFICES ASSUME Bad # {} PROVE FALSE
  OBVIOUS
<1>1. Bad \in SUBSET SUBSET S
  OBVIOUS
<1>2. PICK t \in Bad : \A u \in Bad : u \subseteq t => u = t
  <2> HIDE DEF Bad
  <2> QED BY <1>1, LeastSubset
<1>3. \A s \in SUBSET t : s # t => \E g : Sums(f, s, g)
  BY <1>2
<1> DEFINE G(s) == CHOOSE g : Sums(f, s, g)
           value == [s \in SUBSET t |-> G(s)[s]]
           h == [s \in SUBSET t |-> IF s = {} THEN 0
                                    ELSE f[Pick(s)] + value[s \ {Pick(s)}]]
<1>4. \A s \in SUBSET t : s # t => Sums(f, s, G(s))
  BY <1>3
<1>5. ASSUME NEW s \in SUBSET t, s # t PROVE h[s] = value[s]
  <2>1. Sums(f, s, G(s)) /\ value[s] = G(s)[s]
    BY <1>4, <1>5
  <2>2. CASE s = {}
    <3>1. G(s)[s] = 0
      BY <2>1, <2>2 DEF Sums
    <3> QED BY <2>1, <2>2, <3>1
  <2>3. CASE s # {}
    <3>1. PICK r : r = s \ {Pick(s)}
      OBVIOUS
    <3>2. r \in SUBSET s /\ r \in SUBSET t /\ r # t
      BY <2>3, <3>1, <1>5, PickIn
    <3>3. G(s)[s] = f[Pick(s)] + G(s)[r]
      BY <2>1, <2>3, <3>1 DEF Sums
    <3>4. Sums(f, r, G(r)) /\ value[r] = G(r)[r]
      BY <1>4, <3>2
    <3>5. IsFiniteSet(s)
      BY FS_Subset
    <3>6. G(s)[r] = G(r)[r]
      <4> HIDE DEF G
      <4> QED BY <2>1, <3>2, <3>4, <3>5, SumsAgree
    <3>7. h[s] = f[Pick(s)] + value[r]
      BY <2>3, <3>1
    <3> QED BY <2>1, <3>3, <3>4, <3>6, <3>7
  <2> QED BY <2>2, <2>3
<1>6. Sums(f, t, h)
  <2> HIDE DEF value
  <2>1. ASSUME NEW s \in SUBSET t, s # {} PROVE value[s \ {Pick(s)}] = h[s \ {Pick(s)}]
    <3>1. s \ {Pick(s)} \in SUBSET t /\ s \ {Pick(s)} # t
      BY <2>1, PickIn
    <3> HIDE DEF h
    <3> QED BY <1>5, <3>1
  <2>2. h = [s \in SUBSET t |-> IF s = {} THEN 0 ELSE f[Pick(s)] + h[s \ {Pick(s)}]]
    BY <2>1
  <2> HIDE DEF h
  <2> QED BY <2>2 DEF Sums
<1> QED BY <1>2, <1>6

-----------------------------------------------------------------------------
(* The sum of a set                                                         *)

LEMMA SumUnfolded ==
  ASSUME NEW f, NEW S PROVE SumFunctionOnSet(f, S) = (CHOOSE g : Sums(f, S, g))[S]
BY DEF SumFunctionOnSet, FoldFunctionOnSet, MapThenFoldSet, Sums, Pick

\* Any function that follows the recursion gives the sum.
LEMMA SumIs ==
  ASSUME NEW S, IsFiniteSet(S), NEW f, NEW T \in SUBSET S, NEW g, Sums(f, S, g)
  PROVE  SumFunctionOnSet(f, T) = g[T]
<1>1. IsFiniteSet(T)
  BY FS_Subset
<1>2. Sums(f, T, CHOOSE h : Sums(f, T, h))
  BY <1>1, SumsExist
<1> QED BY <1>1, <1>2, SumUnfolded, SumsAgree

LEMMA SumPick ==
  ASSUME NEW S, IsFiniteSet(S), S # {}, NEW f
  PROVE  SumFunctionOnSet(f, S) = f[Pick(S)] + SumFunctionOnSet(f, S \ {Pick(S)})
<1>1. PICK g : Sums(f, S, g)
  BY SumsExist
<1>2. SumFunctionOnSet(f, S) = g[S] /\ SumFunctionOnSet(f, S \ {Pick(S)}) = g[S \ {Pick(S)}]
  BY <1>1, SumIs
<1> QED BY <1>1, <1>2 DEF Sums

\* Nothing adds up to 0.
LEMMA SumEmpty == ASSUME NEW f PROVE SumFunctionOnSet(f, {}) = 0
<1>1. IsFiniteSet({})
  BY FS_EmptySet
<1>2. PICK g : Sums(f, {}, g)
  BY <1>1, SumsExist
<1>3. SumFunctionOnSet(f, {}) = g[{}]
  BY <1>1, <1>2, SumIs
<1>4. {} \in SUBSET {}
  OBVIOUS
<1>5. g[{}] = 0
  BY <1>2, <1>4 DEF Sums
<1> QED BY <1>3, <1>5

\* A sum of integers is an integer.
LEMMA SumInt ==
  ASSUME NEW S, IsFiniteSet(S), NEW f, \A x \in S : f[x] \in Int
  PROVE  SumFunctionOnSet(f, S) \in Int
<1> DEFINE Bad == {s \in SUBSET S : SumFunctionOnSet(f, s) \notin Int}
<1> SUFFICES ASSUME Bad # {} PROVE FALSE
  OBVIOUS
<1>1. Bad \in SUBSET SUBSET S
  OBVIOUS
<1>2. PICK s \in Bad : \A u \in Bad : u \subseteq s => u = s
  <2> HIDE DEF Bad
  <2> QED BY <1>1, LeastSubset
<1>3. s # {} /\ IsFiniteSet(s)
  <2>1. SumFunctionOnSet(f, s) \notin Int
    OBVIOUS
  <2>2. CASE s = {}
    BY <2>1, <2>2, SumEmpty
  <2>3. IsFiniteSet(s)
    BY FS_Subset
  <2> QED BY <2>2, <2>3
<1>4. PICK x : x = Pick(s)
  OBVIOUS
<1>5. x \in s /\ s \ {x} \in SUBSET S /\ s \ {x} # s /\ s \ {x} \subseteq s
  BY <1>3, <1>4, PickIn
<1>6. SumFunctionOnSet(f, s \ {x}) \in Int
  BY <1>2, <1>5
<1>7. SumFunctionOnSet(f, s) = f[x] + SumFunctionOnSet(f, s \ {x})
  BY <1>3, <1>4, SumPick
<1> QED BY <1>5, <1>6, <1>7

\* Any element may be taken off first.
LEMMA SumRemove ==
  ASSUME NEW S, IsFiniteSet(S), NEW f, \A y \in S : f[y] \in Int, NEW x \in S
  PROVE  SumFunctionOnSet(f, S) = f[x] + SumFunctionOnSet(f, S \ {x})
<1> DEFINE Sum(s) == SumFunctionOnSet(f, s)
           Bad == {s \in SUBSET S : \E y \in s : Sum(s) # f[y] + Sum(s \ {y})}
<1> SUFFICES ASSUME Bad # {} PROVE FALSE
  <2>1. S \in SUBSET S
    OBVIOUS
  <2> QED BY <2>1
<1>0. \A s \in SUBSET S : IsFiniteSet(s) /\ Sum(s) \in Int
  BY FS_Subset, SumInt
<1>1. Bad \in SUBSET SUBSET S
  OBVIOUS
<1>2. PICK s \in Bad : \A u \in Bad : u \subseteq s => u = s
  <2> HIDE DEF Bad
  <2> QED BY <1>1, LeastSubset
<1>3. PICK y \in s : Sum(s) # f[y] + Sum(s \ {y})
  <2> HIDE DEF Sum
  <2> QED BY <1>2
<1>4. PICK p : p = Pick(s)
  OBVIOUS
<1>5. p \in s /\ Sum(s) = f[p] + Sum(s \ {p})
  BY <1>0, <1>3, <1>4, PickIn, SumPick
<1>6. p # y
  BY <1>3, <1>5
<1>7. PICK q : q = s \ {p}
  OBVIOUS
<1>8. PICK r : r = s \ {y}
  OBVIOUS
<1>9. PICK t : t = q \ {y}
  OBVIOUS
<1>10. /\ q \in SUBSET S /\ r \in SUBSET S /\ t \in SUBSET S
       /\ y \in q /\ p \in r /\ q # s /\ r # s
       /\ q \subseteq s /\ r \subseteq s
       /\ t = r \ {p}
  BY <1>5, <1>6, <1>7, <1>8, <1>9
<1> HIDE DEF Sum
<1>11. Sum(q) = f[y] + Sum(t)
  BY <1>2, <1>9, <1>10
<1>12. Sum(r) = f[p] + Sum(t)
  BY <1>2, <1>10
<1>13. Sum(t) \in Int /\ f[p] \in Int /\ f[y] \in Int
  BY <1>0, <1>5, <1>10
<1>14. Sum(s) = f[p] + Sum(q) /\ Sum(s) # f[y] + Sum(r)
  BY <1>3, <1>5, <1>7, <1>8
<1> QED BY <1>11, <1>12, <1>13, <1>14

\* Functions that agree on a set have the same sum over it.
LEMMA SumSame ==
  ASSUME NEW S, IsFiniteSet(S), NEW f, NEW g, \A x \in S : f[x] = g[x]
  PROVE  SumFunctionOnSet(f, S) = SumFunctionOnSet(g, S)
<1> DEFINE Bad == {s \in SUBSET S : SumFunctionOnSet(f, s) # SumFunctionOnSet(g, s)}
<1> SUFFICES ASSUME Bad # {} PROVE FALSE
  OBVIOUS
<1>1. Bad \in SUBSET SUBSET S
  OBVIOUS
<1>2. PICK s \in Bad : \A u \in Bad : u \subseteq s => u = s
  <2> HIDE DEF Bad
  <2> QED BY <1>1, LeastSubset
<1>3. s # {} /\ IsFiniteSet(s)
  BY SumEmpty, FS_Subset
<1>4. PICK x : x = Pick(s)
  OBVIOUS
<1>5. x \in s /\ s \ {x} \in SUBSET S /\ s \ {x} # s /\ s \ {x} \subseteq s
  BY <1>3, <1>4, PickIn
<1>6. SumFunctionOnSet(f, s \ {x}) = SumFunctionOnSet(g, s \ {x})
  BY <1>2, <1>5
<1>7. /\ SumFunctionOnSet(f, s) = f[x] + SumFunctionOnSet(f, s \ {x})
      /\ SumFunctionOnSet(g, s) = g[x] + SumFunctionOnSet(g, s \ {x})
  BY <1>3, <1>4, SumPick
<1> QED BY <1>5, <1>6, <1>7

\* An element that is not in the set adds its value.
LEMMA SumAdd ==
  ASSUME NEW S, IsFiniteSet(S), NEW f, NEW x, x \notin S,
         \A y \in S \cup {x} : f[y] \in Int
  PROVE  SumFunctionOnSet(f, S \cup {x}) = f[x] + SumFunctionOnSet(f, S)
<1>1. PICK T : T = S \cup {x}
  OBVIOUS
<1>2. IsFiniteSet(T) /\ x \in T /\ T \ {x} = S
  BY <1>1, FS_AddElement
<1>3. SumFunctionOnSet(f, T) = f[x] + SumFunctionOnSet(f, T \ {x})
  BY <1>1, <1>2, SumRemove
<1> QED BY <1>1, <1>2, <1>3

\* A sum of naturals is one, and no smaller than that of a part.
LEMMA SumMonotone ==
  ASSUME NEW S, IsFiniteSet(S), NEW f, \A x \in S : f[x] \in Nat, NEW T \in SUBSET S
  PROVE  /\ SumFunctionOnSet(f, T) \in Nat
         /\ SumFunctionOnSet(f, T) <= SumFunctionOnSet(f, S)
<1> DEFINE Sum(s) == SumFunctionOnSet(f, s)
           Bad == {s \in SUBSET S : ~(Sum(s) \in Nat)
                                    \/ \E u \in SUBSET s : ~(Sum(u) <= Sum(s))}
<1> SUFFICES ASSUME Bad # {} PROVE FALSE
  <2>1. S \in SUBSET S
    OBVIOUS
  <2> QED BY <2>1
<1>0. \A s \in SUBSET S : IsFiniteSet(s) /\ Sum(s) \in Int
  BY FS_Subset, SumInt
<1>1. Bad \in SUBSET SUBSET S
  OBVIOUS
<1>2. PICK s \in Bad : \A u \in Bad : u \subseteq s => u = s
  <2> HIDE DEF Bad
  <2> QED BY <1>1, LeastSubset
<1>3. s # {}
  BY SumEmpty
<1>4. ASSUME NEW x \in s
      PROVE  \E t \in SUBSET S : /\ t = s \ {x}
                                 /\ Sum(s) = f[x] + Sum(t)
                                 /\ Sum(t) \in Nat
                                 /\ \A u \in SUBSET t : Sum(u) <= Sum(t)
  <2>1. PICK t : t = s \ {x}
    OBVIOUS
  <2>2. Sum(s) = f[x] + Sum(t)
    BY <1>0, <2>1, SumRemove
  <2>3. t \in SUBSET S /\ t \subseteq s /\ t # s
    BY <2>1
  <2> HIDE DEF Sum
  <2> QED BY <1>2, <2>1, <2>2, <2>3
<1> HIDE DEF Sum
<1>5. Sum(s) \in Nat
  <2>1. PICK x : x \in s
    BY <1>3
  <2>2. f[x] \in Nat
    BY <2>1
  <2>3. PICK t \in SUBSET S : Sum(s) = f[x] + Sum(t) /\ Sum(t) \in Nat
    BY <1>4, <2>1
  <2> QED BY <2>2, <2>3
<1>6. ASSUME NEW u \in SUBSET s PROVE Sum(u) <= Sum(s)
  <2>1. CASE u = s
    BY <1>5, <2>1
  <2>2. CASE u # s
    <3>1. PICK x : x \in s /\ x \notin u
      BY <2>2
    <3>2. PICK t \in SUBSET S : /\ t = s \ {x} /\ Sum(s) = f[x] + Sum(t)
                                /\ Sum(t) \in Nat
                                /\ \A v \in SUBSET t : Sum(v) <= Sum(t)
      BY <1>4, <3>1
    <3>3. Sum(u) <= Sum(t) /\ f[x] \in Nat /\ Sum(u) \in Int
      BY <1>0, <3>1, <3>2
    <3> QED BY <3>2, <3>3
  <2> QED BY <2>1, <2>2
<1> QED BY <1>2, <1>5, <1>6

-----------------------------------------------------------------------------
(* Sums over unions                                                         *)

\* The sum over two sets that have nothing in common.
LEMMA SumDisjoint ==
  ASSUME NEW S, IsFiniteSet(S), NEW T, IsFiniteSet(T), S \cap T = {}, NEW f,
         \A x \in S \cup T : f[x] \in Int
  PROVE  SumFunctionOnSet(f, S \cup T) = SumFunctionOnSet(f, S) + SumFunctionOnSet(f, T)
<1> DEFINE Sum(s) == SumFunctionOnSet(f, s)
           Bad == {t \in SUBSET T : Sum(S \cup t) # Sum(S) + Sum(t)}
<1> SUFFICES ASSUME Bad # {} PROVE FALSE
  <2>1. T \in SUBSET T
    OBVIOUS
  <2> QED BY <2>1
<1>1. Bad \in SUBSET SUBSET T
  OBVIOUS
<1>2. PICK t \in Bad : \A u \in Bad : u \subseteq t => u = t
  <2> HIDE DEF Bad
  <2> QED BY <1>1, LeastSubset
<1>3. Sum(S) \in Int
  BY SumInt
<1>4. t # {}
  <2>1. CASE t = {}
    <3>1. Sum(t) = 0
      BY <2>1, SumEmpty
    <3>2. PICK U : U = S \cup t
      OBVIOUS
    <3>3. U = S
      BY <2>1, <3>2
    <3>4. Sum(U) = Sum(S)
      BY <3>3
    <3>5. Sum(S \cup t) = Sum(U)
      BY <3>2
    <3>6. Sum(S \cup t) = Sum(S) + Sum(t)
      <4> HIDE DEF Sum
      <4> QED BY <1>3, <3>1, <3>4, <3>5
    <3> QED BY <3>6
  <2> QED BY <2>1
<1>5. PICK x \in T : x \in t
  BY <1>4
<1>6. PICK r : r = t \ {x}
  OBVIOUS
<1>7. /\ r \in SUBSET T /\ r \subseteq t /\ r # t /\ x \notin r /\ t = r \cup {x}
      /\ x \notin S \cup r
  BY <1>5, <1>6
<1>8. IsFiniteSet(r) /\ IsFiniteSet(S \cup r)
  <2>1. IsFiniteSet(r)
    BY <1>7, FS_Subset
  <2> QED BY <2>1, FS_Union
<1>9. PICK P : P = S \cup r
  OBVIOUS
<1>10. PICK Q : Q = S \cup t
  OBVIOUS
<1>11. Q = P \cup {x} /\ x \notin P /\ IsFiniteSet(P)
  BY <1>7, <1>8, <1>9, <1>10
<1>12. f[x] \in Int /\ Sum(r) \in Int
  BY <1>7, <1>8, SumInt
<1>13. Sum(t) = f[x] + Sum(r)
  BY <1>7, <1>8, SumAdd
<1>14. Sum(Q) = f[x] + Sum(P)
  <2>1. \A y \in P \cup {x} : f[y] \in Int
    BY <1>7, <1>9
  <2> QED BY <1>11, <2>1, SumAdd
<1>15. Sum(Q) # Sum(S) + Sum(t)
  BY <1>10
<1> HIDE DEF Sum
<1>16. Sum(P) = Sum(S) + Sum(r)
  BY <1>2, <1>7, <1>9
<1> QED BY <1>3, <1>12, <1>13, <1>14, <1>15, <1>16

\* The sum over sets of which no two have anything in common.
LEMMA SumUnion ==
  ASSUME NEW I, IsFiniteSet(I), NEW A, \A i \in I : IsFiniteSet(A[i]),
         \A i, j \in I : i # j => A[i] \cap A[j] = {},
         NEW f, \A i \in I : \A x \in A[i] : f[x] \in Int
  PROVE  SumFunctionOnSet([i \in I |-> SumFunctionOnSet(f, A[i])], I)
           = SumFunctionOnSet(f, UNION {A[i] : i \in I})
<1> DEFINE g == [i \in I |-> SumFunctionOnSet(f, A[i])]
           All(k) == UNION {A[i] : i \in k}
           Bad == {k \in SUBSET I : ~(IsFiniteSet(All(k))
                       /\ SumFunctionOnSet(g, k) = SumFunctionOnSet(f, All(k)))}
<1> SUFFICES ASSUME Bad # {} PROVE FALSE
  <2>1. I \in SUBSET I
    OBVIOUS
  <2> QED BY <2>1
<1>1. Bad \in SUBSET SUBSET I
  OBVIOUS
<1>2. PICK k \in Bad : \A u \in Bad : u \subseteq k => u = k
  <2> HIDE DEF Bad
  <2> QED BY <1>1, LeastSubset
<1>3. k # {}
  <2>1. CASE k = {}
    <3>1. All(k) = {}
      BY <2>1
    <3> QED BY <2>1, <3>1, SumEmpty, FS_EmptySet
  <2> QED BY <2>1
<1>4. PICK i \in I : i \in k
  BY <1>3
<1>5. PICK r : r = k \ {i}
  OBVIOUS
<1>6. r \in SUBSET I /\ r \subseteq k /\ r # k /\ i \notin r /\ k = r \cup {i}
  BY <1>4, <1>5
<1>7. IsFiniteSet(All(r)) /\ SumFunctionOnSet(g, r) = SumFunctionOnSet(f, All(r))
  <2> HIDE DEF g, All
  <2> QED BY <1>2, <1>6
<1>8. All(k) = All(r) \cup A[i]
  BY <1>6
<1>9. All(r) \cap A[i] = {}
  BY <1>6
<1>10. \A x \in All(r) \cup A[i] : f[x] \in Int
  BY <1>6
<1>11. \A j \in I : g[j] \in Int
  BY SumInt
<1>12. g[i] = SumFunctionOnSet(f, A[i])
  OBVIOUS
<1>13. IsFiniteSet(r) /\ IsFiniteSet(A[i])
  BY <1>6, FS_Subset
<1>14. IsFiniteSet(All(k))
  <2> HIDE DEF All
  <2>1. IsFiniteSet(All(r) \cup A[i])
    BY <1>7, <1>13, FS_Union
  <2> QED BY <1>8, <2>1
<1> HIDE DEF g, All
<1>15. SumFunctionOnSet(f, All(k)) = SumFunctionOnSet(f, All(r)) + g[i]
  BY <1>7, <1>8, <1>9, <1>10, <1>12, <1>13, SumDisjoint
<1>16. SumFunctionOnSet(g, k) = g[i] + SumFunctionOnSet(g, r)
  <2>1. \A j \in r \cup {i} : g[j] \in Int
    BY <1>6, <1>11
  <2> QED BY <1>6, <1>13, <2>1, SumAdd
<1>17. g[i] \in Int /\ SumFunctionOnSet(g, r) \in Int
  <2>1. \A j \in r : g[j] \in Int
    BY <1>6, <1>11
  <2> QED BY <1>11, <1>13, <2>1, SumInt
<1>18. SumFunctionOnSet(g, k) = SumFunctionOnSet(f, All(k))
  BY <1>7, <1>15, <1>16, <1>17
<1> QED BY <1>14, <1>18

\* How many pairs there are of an x and a member of D[x].
LEMMA CountPairs ==
  ASSUME NEW S, IsFiniteSet(S), NEW D, \A x \in S : IsFiniteSet(D[x])
  PROVE  LET Pairs == UNION {{x} \X D[x] : x \in S}
         IN  /\ IsFiniteSet(Pairs)
             /\ Cardinality(Pairs) = SumFunctionOnSet([x \in S |-> Cardinality(D[x])], S)
<1> DEFINE f == [x \in S |-> Cardinality(D[x])]
           Pairs(s) == UNION {{x} \X D[x] : x \in s}
           Bad == {s \in SUBSET S : ~(IsFiniteSet(Pairs(s))
                                      /\ Cardinality(Pairs(s)) = SumFunctionOnSet(f, s))}
<1> SUFFICES ASSUME Bad # {} PROVE FALSE
  <2>1. S \in SUBSET S
    OBVIOUS
  <2> QED BY <2>1
<1>1. Bad \in SUBSET SUBSET S
  OBVIOUS
<1>2. PICK s \in Bad : \A u \in Bad : u \subseteq s => u = s
  <2> HIDE DEF Bad
  <2> QED BY <1>1, LeastSubset
<1>3. s # {}
  <2>1. CASE s = {}
    <3>1. Pairs(s) = {}
      BY <2>1
    <3> QED BY <2>1, <3>1, SumEmpty, FS_EmptySet
  <2> QED BY <2>1
<1>4. PICK x \in S : x \in s
  BY <1>3
<1>5. PICK r : r = s \ {x}
  OBVIOUS
<1>6. r \in SUBSET S /\ r \subseteq s /\ r # s /\ x \notin r /\ s = r \cup {x}
  BY <1>4, <1>5
<1>7. IsFiniteSet(Pairs(r)) /\ Cardinality(Pairs(r)) = SumFunctionOnSet(f, r)
  <2> HIDE DEF f, Pairs
  <2> QED BY <1>2, <1>6
<1>8. Pairs(s) = Pairs(r) \cup ({x} \X D[x])
  BY <1>6
<1>9. Pairs(r) \cap ({x} \X D[x]) = {}
  BY <1>6
<1>10. /\ IsFiniteSet({x} \X D[x]) /\ Cardinality({x} \X D[x]) = f[x]
       /\ \A y \in S : f[y] \in Nat
  <2>1. IsFiniteSet({x}) /\ Cardinality({x}) = 1
    BY FS_Singleton
  <2>2. \A y \in S : f[y] \in Nat
    BY FS_CardinalityType
  <2>3. f[x] = Cardinality(D[x])
    OBVIOUS
  <2>4. IsFiniteSet({x} \X D[x]) /\ Cardinality({x} \X D[x]) = 1 * Cardinality(D[x])
    BY <2>1, FS_Product
  <2> HIDE DEF f
  <2> QED BY <2>2, <2>3, <2>4
<1>11. IsFiniteSet(r)
  BY <1>6, FS_Subset
<1> HIDE DEF f, Pairs
<1>12. IsFiniteSet(Pairs(s))
  <2>1. IsFiniteSet(Pairs(r) \cup ({x} \X D[x]))
    BY <1>7, <1>10, FS_Union
  <2> QED BY <1>8, <2>1
<1>13. Cardinality(Pairs(s)) = Cardinality(Pairs(r)) + f[x]
  <2>1. Cardinality(Pairs(s)) = Cardinality(Pairs(r)) + Cardinality({x} \X D[x])
                                  - Cardinality(Pairs(r) \cap ({x} \X D[x]))
    BY <1>7, <1>8, <1>10, FS_Union
  <2>2. Cardinality(Pairs(r) \cap ({x} \X D[x])) = 0
    BY <1>9, FS_EmptySet
  <2>3. Cardinality(Pairs(r)) \in Nat
    BY <1>7, FS_CardinalityType
  <2> QED BY <1>10, <2>1, <2>2, <2>3
<1>14. SumFunctionOnSet(f, s) = f[x] + SumFunctionOnSet(f, r)
  <2>1. \A j \in r \cup {x} : f[j] \in Int
    BY <1>6, <1>10
  <2> QED BY <1>6, <1>11, <2>1, SumAdd
<1>15. f[x] \in Int /\ SumFunctionOnSet(f, r) \in Int
  <2>1. \A j \in r : f[j] \in Int
    BY <1>6, <1>10
  <2> QED BY <1>10, <1>11, <2>1, SumInt
<1> QED BY <1>7, <1>12, <1>13, <1>14, <1>15

\* Zeros add up to 0.
LEMMA SumZero ==
  ASSUME NEW S, IsFiniteSet(S), NEW f, \A x \in S : f[x] = 0
  PROVE  SumFunctionOnSet(f, S) = 0
<1> DEFINE Bad == {s \in SUBSET S : SumFunctionOnSet(f, s) # 0}
<1> SUFFICES ASSUME Bad # {} PROVE FALSE
  OBVIOUS
<1>1. Bad \in SUBSET SUBSET S
  OBVIOUS
<1>2. PICK s \in Bad : \A u \in Bad : u \subseteq s => u = s
  <2> HIDE DEF Bad
  <2> QED BY <1>1, LeastSubset
<1>3. s \subseteq S /\ SumFunctionOnSet(f, s) # 0
  OBVIOUS
<1>4. s # {}
  BY <1>3, SumEmpty
<1>5. Pick(s) \in s /\ f[Pick(s)] = 0
  BY <1>3, <1>4, PickIn
<1>6. SumFunctionOnSet(f, s \ {Pick(s)}) = 0
  <2>1. s \ {Pick(s)} \in SUBSET S /\ s \ {Pick(s)} \subseteq s /\ s \ {Pick(s)} # s
    BY <1>3, <1>5
  <2>2. s \ {Pick(s)} \notin Bad
    <3> HIDE DEF Bad
    <3> QED BY <1>2, <2>1
  <2> QED BY <2>1, <2>2
<1>7. IsFiniteSet(s)
  BY <1>3, FS_Subset
<1>8. SumFunctionOnSet(f, s) = 0
  BY <1>4, <1>5, <1>6, <1>7, SumPick
<1> QED BY <1>3, <1>8
=============================================================================
