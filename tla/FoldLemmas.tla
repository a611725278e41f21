------------------------------ MODULE FoldLemmas ------------------------------
(***************************************************************************)
(* Induction over data, for the sums, the folds and the sequences that the *)
(* models are built from.                                                  *)
(* The induction theorems of the library take an operator as a parameter;  *)
(* the lemmas here say the same of a set, from the well-foundedness of <,  *)
(* and can be cited wherever they are needed.                              *)
(***************************************************************************)
EXTENDS Integers, Selections, FiniteSetTheorems, SequenceTheorems, TLAPS

\* A non-empty set of natural numbers has a least element.
LEMMA NatLeast ==
    ASSUME NEW U \in SUBSET Nat, U # {}
    PROVE  \E n \in U : \A m \in U : n <= m
<1>1. PICK n \in U : \A m \in U : <<m, n>> \notin OpToRel(<, Nat)
  BY NatLessThanWellFounded, WFMin
<1>2. OpToRel(<, Nat) = {p \in Nat \X Nat : p[1] < p[2]}
  BY DEF OpToRel
<1>3. ASSUME NEW m \in U PROVE n <= m
  <2>1. <<m, n>> \notin {p \in Nat \X Nat : p[1] < p[2]}
    BY <1>1, <1>2
  <2>2. ~(m < n)
    BY <2>1
  <2>3. QED
    BY <2>2
<1>4. QED
  BY <1>3

\* Induction over the natural numbers.
LEMMA NatInductionSet ==
    ASSUME NEW U, 0 \in U, \A n \in Nat : n \in U => n + 1 \in U
    PROVE  Nat \subseteq U
<1>1. SUFFICES ASSUME Nat \ U # {} PROVE FALSE
  OBVIOUS
<1>2. PICK n \in Nat \ U : \A m \in Nat \ U : n <= m
  BY <1>1, NatLeast
<1>3. n # 0 /\ n - 1 \in Nat /\ ~(n <= n - 1)
  BY <1>2
<1>4. n - 1 \in U
  BY <1>2, <1>3
<1>5. QED
  BY <1>2, <1>3, <1>4

\* Induction over the subsets of a finite set, one element at a time.
LEMMA SubsetInduction ==
    ASSUME NEW S, IsFiniteSet(S), NEW U, {} \in U,
           \A s \in SUBSET S, x \in S : s \in U /\ x \notin s => s \cup {x} \in U
    PROVE  SUBSET S \subseteq U
<1> DEFINE N == {n \in Nat : \A s \in SUBSET S : Cardinality(s) = n => s \in U}
<1>1. \A s \in SUBSET S : IsFiniteSet(s) /\ Cardinality(s) \in Nat
  BY FS_Subset, FS_CardinalityType
<1>2. 0 \in N
  BY <1>1, FS_EmptySet
<1>3. ASSUME NEW n \in Nat, n \in N PROVE n + 1 \in N
  <2> SUFFICES ASSUME NEW s \in SUBSET S, Cardinality(s) = n + 1 PROVE s \in U
    OBVIOUS
  <2>1. PICK x \in s : TRUE
    BY <1>1, FS_EmptySet
  <2>2. s \ {x} \in SUBSET S /\ Cardinality(s \ {x}) = n
    <3>1. Cardinality(s \ {x}) = Cardinality(s) - 1
      BY <1>1, <2>1, FS_RemoveElement
    <3>2. QED
      BY <3>1
  <2>3. s \ {x} \in U
    BY <1>3, <2>2
  <2>4. s = (s \ {x}) \cup {x}
    BY <2>1
  <2>5. QED
    BY <2>1, <2>2, <2>3, <2>4
<1> HIDE DEF N
<1>4. Nat \subseteq N
  BY <1>2, <1>3, NatInductionSet
<1>5. QED
  BY <1>1, <1>4 DEF N

-----------------------------------------------------------------------------
(* Folding over a finite set, an element c[s] of the rest s at a time.  The *)
(* recursive functions inside MapThenFoldSet are of this form.              *)

\* What the recursive function of a fold must satisfy.
Folds(h, D, c, G, base) ==
    h = [s \in SUBSET D |-> IF s = {} THEN base ELSE G[<<c[s], h[s \ {c[s]}]>>]]

\* There is such a function.
LEMMA FoldExists ==
    ASSUME NEW D, IsFiniteSet(D), NEW V, NEW base \in V,
           NEW c, \A s \in SUBSET D : s # {} => c[s] \in s,
           NEW G, \A x \in D, v \in V : G[<<x, v>>] \in V
    PROVE  \E h \in [SUBSET D -> V] : Folds(h, D, c, G, base)
<1> DEFINE Small(n) == {s \in SUBSET D : Cardinality(s) <= n}
           Good(h, n) == \A s \in Small(n) :
                           h[s] = IF s = {} THEN base ELSE G[<<c[s], h[s \ {c[s]}]>>]
           N == {n \in Nat : \E h \in [Small(n) -> V] : Good(h, n)}
<1>1. \A s \in SUBSET D : IsFiniteSet(s) /\ Cardinality(s) \in Nat
  BY FS_Subset, FS_CardinalityType
<1>2. \A s \in SUBSET D : s # {} =>
          /\ s \ {c[s]} \in SUBSET D
          /\ Cardinality(s \ {c[s]}) = Cardinality(s) - 1
  BY <1>1, FS_RemoveElement
<1>3. 0 \in N
  <2>1. Small(0) = {{}}
    BY <1>1, FS_EmptySet
  <2>2. [s \in Small(0) |-> base] \in [Small(0) -> V] /\ Good([s \in Small(0) |-> base], 0)
    BY <2>1
  <2>3. QED
    BY <2>2
<1>4. ASSUME NEW n \in Nat, n \in N PROVE n + 1 \in N
  <2>1. PICK h \in [Small(n) -> V] : Good(h, n)
    BY <1>4
  <2> DEFINE g == [s \in Small(n + 1) |-> IF s = {} THEN base
                                          ELSE G[<<c[s], h[s \ {c[s]}]>>]]
  <2>2. ASSUME NEW s \in Small(n + 1), s # {} PROVE c[s] \in D /\ s \ {c[s]} \in Small(n)
    BY <1>1, <1>2, <2>2
  <2>3. g \in [Small(n + 1) -> V]
    BY <2>2
  <2>4. ASSUME NEW s \in Small(n) PROVE g[s] = h[s]
    <3>1. s \in Small(n + 1)
      BY <1>1
    <3>2. QED
      BY <2>1, <3>1
  <2> HIDE DEF g
  <2>5. ASSUME NEW s \in Small(n + 1)
        PROVE  g[s] = IF s = {} THEN base ELSE G[<<c[s], g[s \ {c[s]}]>>]
    BY <2>2, <2>4 DEF g
  <2>6. Good(g, n + 1)
    BY <2>5
  <2> HIDE DEF Small, Good
  <2>7. QED
    BY <2>3, <2>6
<1>5. PICK h \in [Small(Cardinality(D)) -> V] : Good(h, Cardinality(D))
  <2> HIDE DEF N
  <2>1. Nat \subseteq N
    BY <1>3, <1>4, NatInductionSet
  <2>2. Cardinality(D) \in N
    BY <1>1, <2>1
  <2>3. QED
    BY <2>2 DEF N
<1>6. Small(Cardinality(D)) = SUBSET D
  BY FS_Subset
<1> HIDE DEF Small
<1>7. h \in [SUBSET D -> V]
  BY <1>6
<1>8. \A s \in SUBSET D : h[s] = IF s = {} THEN base ELSE G[<<c[s], h[s \ {c[s]}]>>]
  BY <1>5, <1>6
<1>9. Folds(h, D, c, G, base)
  BY <1>7, <1>8 DEF Folds
<1>10. QED
  BY <1>7, <1>9

\* The functions of two folds agree wherever both are defined.
LEMMA FoldsAgree ==
    ASSUME NEW D, NEW E, IsFiniteSet(D), IsFiniteSet(E), NEW base, NEW c, NEW G,
           \A s \in SUBSET (D \cap E) : s # {} => c[s] \in s,
           NEW h, Folds(h, D, c, G, base), NEW g, Folds(g, E, c, G, base)
    PROVE  \A s \in SUBSET (D \cap E) : h[s] = g[s]
<1> DEFINE I == D \cap E
           N == {n \in Nat : \A s \in SUBSET I : Cardinality(s) = n => h[s] = g[s]}
<1>1. \A s \in SUBSET I : IsFiniteSet(s) /\ Cardinality(s) \in Nat
  BY FS_Subset, FS_CardinalityType
<1>2. 0 \in N
  <2>1. h[{}] = base /\ g[{}] = base
    BY DEF Folds
  <2>2. QED
    BY <1>1, <2>1, FS_EmptySet
<1>3. ASSUME NEW n \in Nat, n \in N PROVE n + 1 \in N
  <2> SUFFICES ASSUME NEW s \in SUBSET I, Cardinality(s) = n + 1 PROVE h[s] = g[s]
    OBVIOUS
  <2>1. s # {}
    BY FS_EmptySet
  <2>2. s \ {c[s]} \in SUBSET I /\ Cardinality(s \ {c[s]}) = n
    <3>1. Cardinality(s \ {c[s]}) = Cardinality(s) - 1
      BY <1>1, <2>1, FS_RemoveElement
    <3>2. QED
      BY <3>1
  <2>3. h[s \ {c[s]}] = g[s \ {c[s]}]
    BY <1>3, <2>2
  <2>4. /\ h[s] = G[<<c[s], h[s \ {c[s]}]>>]
        /\ g[s] = G[<<c[s], g[s \ {c[s]}]>>]
    BY <2>1 DEF Folds
  <2>5. QED
    BY <2>3, <2>4, Zenon
<1> HIDE DEF N
<1>4. Nat \subseteq N
  BY <1>2, <1>3, NatInductionSet
<1>5. QED
  BY <1>1, <1>4 DEF N

-----------------------------------------------------------------------------
(* Sums.  SumFunctionOnSet(f, S) takes the elements of S in the order in    *)
(* which CHOOSE yields them; the order makes no difference to the sum.      *)

\* What the recursive function inside SumFunctionOnSet(f, S) must satisfy.
SumsUp(h, f, S) ==
    h = [s \in SUBSET S |-> IF s = {} THEN 0
                            ELSE f[CHOOSE x \in s : TRUE] + h[s \ {CHOOSE x \in s : TRUE}]]

\* It depends only on the values of f on S.
LEMMA SumsAgree ==
    ASSUME NEW S, IsFiniteSet(S), NEW T \in SUBSET S, NEW f, NEW e, \A x \in T : f[x] = e[x],
           NEW h, SumsUp(h, f, S), NEW g, SumsUp(g, e, T)
    PROVE  \A s \in SUBSET T : h[s] = g[s]
<1> DEFINE N == {n \in Nat : \A s \in SUBSET T : Cardinality(s) = n => h[s] = g[s]}
<1>1. \A s \in SUBSET T : IsFiniteSet(s) /\ Cardinality(s) \in Nat
  BY FS_Subset, FS_CardinalityType
<1>2. 0 \in N
  <2>1. h[{}] = 0 /\ g[{}] = 0
    BY DEF SumsUp
  <2>2. QED
    BY <1>1, <2>1, FS_EmptySet
<1>3. ASSUME NEW n \in Nat, n \in N PROVE n + 1 \in N
  <2> SUFFICES ASSUME NEW s \in SUBSET T, Cardinality(s) = n + 1 PROVE h[s] = g[s]
    OBVIOUS
  <2>1. s # {}
    BY FS_EmptySet
  <2> DEFINE x == CHOOSE x \in s : TRUE
  <2>2. x \in s
    BY <2>1
  <2>3. h[s] = f[x] + h[s \ {x}] /\ g[s] = e[x] + g[s \ {x}]
    BY <2>1 DEF SumsUp
  <2> HIDE DEF x
  <2>4. Cardinality(s \ {x}) = Cardinality(s) - 1
    BY <1>1, <2>2, FS_RemoveElement
  <2>5. s \ {x} \in SUBSET T /\ Cardinality(s \ {x}) = n
    BY <2>4
  <2>6. h[s \ {x}] = g[s \ {x}]
    BY <1>3, <2>5
  <2>7. f[x] = e[x]
    BY <2>2
  <2>8. QED
    BY <2>3, <2>6, <2>7
<1> HIDE DEF N
<1>4. Nat \subseteq N
  BY <1>2, <1>3, NatInductionSet
<1>5. QED
  BY <1>1, <1>4 DEF N

LEMMA SumOfAllSubsets ==
    ASSUME NEW S, IsFiniteSet(S), NEW f, \A x \in S : f[x] \in Int
    PROVE  \E h \in [SUBSET S -> Int] : SumsUp(h, f, S) /\ SumFunctionOnSet(f, S) = h[S]
<1> DEFINE c == [s \in SUBSET S |-> CHOOSE x \in s : TRUE]
           G == [p \in S \X Int |-> f[p[1]] + p[2]]
           iter == CHOOSE h : SumsUp(h, f, S)
<1>1. \A s \in SUBSET S : s # {} => c[s] \in s
  OBVIOUS
<1>2. \A x \in S, v \in Int : G[<<x, v>>] = f[x] + v /\ f[x] + v \in Int
  OBVIOUS
<1>3. \E h \in [SUBSET S -> Int] : Folds(h, S, c, G, 0)
  <2> HIDE DEF c, G
  <2>1. \A x \in S, v \in Int : G[<<x, v>>] \in Int
    BY <1>2
  <2>2. 0 \in Int
    OBVIOUS
  <2>3. QED
    BY <1>1, <2>1, <2>2, FoldExists, Zenon
<1>4. PICK h \in [SUBSET S -> Int] : Folds(h, S, c, G, 0)
  BY <1>3
<1>5. ASSUME NEW s \in SUBSET S
      PROVE  h[s] = IF s = {} THEN 0
                    ELSE f[CHOOSE x \in s : TRUE] + h[s \ {CHOOSE x \in s : TRUE}]
  <2> HIDE DEF G
  <2>1. c[s] = CHOOSE x \in s : TRUE
    OBVIOUS
  <2> HIDE DEF c
  <2>2. h[s] = IF s = {} THEN 0 ELSE G[<<c[s], h[s \ {c[s]}]>>]
    BY <1>4 DEF Folds
  <2>3. CASE s = {}
    BY <2>2, <2>3
  <2>4. CASE s # {}
    <3>1. c[s] \in S /\ h[s \ {c[s]}] \in Int
      BY <1>1, <2>4
    <3>2. QED
      BY <1>2, <2>1, <2>2, <2>4, <3>1
  <2>5. QED
    BY <2>3, <2>4
<1> HIDE DEF G, c
<1>6. SumsUp(h, f, S)
  BY <1>5 DEF SumsUp
<1>7. SumsUp(iter, f, S)
  BY <1>6
<1>8. SumFunctionOnSet(f, S) = iter[S]
  BY DEF SumFunctionOnSet, FoldFunctionOnSet, MapThenFoldSet, SumsUp
<1>9. iter[S] = h[S]
  BY <1>6, <1>7, SumsAgree
<1>10. QED
  BY <1>6, <1>8, <1>9

\* The sum over no element.
LEMMA SumOfEmpty == ASSUME NEW f PROVE SumFunctionOnSet(f, {}) = 0
<1>1. PICK h \in [SUBSET {} -> Int] : SumsUp(h, f, {}) /\ SumFunctionOnSet(f, {}) = h[{}]
  BY FS_EmptySet, SumOfAllSubsets
<1>2. QED
  BY <1>1 DEF SumsUp

\* A sum of integers is an integer, and depends only on the values summed up.
LEMMA SumType ==
    ASSUME NEW S, IsFiniteSet(S), NEW f, \A x \in S : f[x] \in Int
    PROVE  SumFunctionOnSet(f, S) \in Int
<1>1. PICK h \in [SUBSET S -> Int] : SumFunctionOnSet(f, S) = h[S]
  BY SumOfAllSubsets
<1>2. QED
  BY <1>1

LEMMA SumEqual ==
    ASSUME NEW S, IsFiniteSet(S), NEW f, \A x \in S : f[x] \in Int,
           NEW g, \A x \in S : g[x] = f[x]
    PROVE  SumFunctionOnSet(g, S) = SumFunctionOnSet(f, S)
<1>1. PICK h \in [SUBSET S -> Int] : SumsUp(h, f, S) /\ SumFunctionOnSet(f, S) = h[S]
  BY SumOfAllSubsets
<1>2. PICK k \in [SUBSET S -> Int] : SumsUp(k, g, S) /\ SumFunctionOnSet(g, S) = k[S]
  BY SumOfAllSubsets
<1>3. QED
  BY <1>1, <1>2, SumsAgree

\* The element that CHOOSE takes first.
LEMMA SumFirst ==
    ASSUME NEW S, IsFiniteSet(S), S # {}, NEW f, \A x \in S : f[x] \in Int
    PROVE  \E x \in S : SumFunctionOnSet(f, S) = f[x] + SumFunctionOnSet(f, S \ {x})
<1> DEFINE x == CHOOSE x \in S : TRUE
<1>1. x \in S
  OBVIOUS
<1>2. PICK h \in [SUBSET S -> Int] : SumsUp(h, f, S) /\ SumFunctionOnSet(f, S) = h[S]
  BY SumOfAllSubsets
<1>3. IsFiniteSet(S \ {x}) /\ \A y \in S \ {x} : f[y] \in Int
  BY FS_RemoveElement
<1>4. PICK g \in [SUBSET (S \ {x}) -> Int] :
            SumsUp(g, f, S \ {x}) /\ SumFunctionOnSet(f, S \ {x}) = g[S \ {x}]
  BY <1>3, SumOfAllSubsets
<1>5. h[S] = f[x] + h[S \ {x}]
  BY <1>2 DEF SumsUp
<1> HIDE DEF x
<1>6. h[S \ {x}] = g[S \ {x}]
  BY <1>2, <1>4, SumsAgree
<1>7. QED
  BY <1>1, <1>2, <1>4, <1>5, <1>6

\* Any element can be taken first.
LEMMA SumRemove ==
    ASSUME NEW S, IsFiniteSet(S), NEW f, \A x \in S : f[x] \in Int, NEW x \in S
    PROVE  SumFunctionOnSet(f, S) = f[x] + SumFunctionOnSet(f, S \ {x})
<1> DEFINE Sum(s) == SumFunctionOnSet(f, s)
           N == {n \in Nat : \A s \in SUBSET S : Cardinality(s) = n =>
                                \A y \in s : Sum(s) = f[y] + Sum(s \ {y})}
<1>1. \A s \in SUBSET S : IsFiniteSet(s) /\ Cardinality(s) \in Nat /\ Sum(s) \in Int
  BY FS_Subset, FS_CardinalityType, SumType
<1>2. 0 \in N
  BY <1>1, FS_EmptySet
<1>3. ASSUME NEW n \in Nat, n \in N PROVE n + 1 \in N
  <2> SUFFICES ASSUME NEW s \in SUBSET S, Cardinality(s) = n + 1, NEW y \in s
               PROVE  Sum(s) = f[y] + Sum(s \ {y})
    OBVIOUS
  <2>1. PICK z \in s : Sum(s) = f[z] + Sum(s \ {z})
    BY <1>1, SumFirst
  <2>2. CASE z = y
    BY <2>1, <2>2
  <2>3. CASE z # y
    <3>1. \A v \in s : s \ {v} \in SUBSET S /\ Cardinality(s \ {v}) = Cardinality(s) - 1
      BY <1>1, FS_RemoveElement
    <3>2. Sum(s \ {z}) = f[y] + Sum((s \ {z}) \ {y})
      BY <1>3, <2>3, <3>1
    <3>3. Sum(s \ {y}) = f[z] + Sum((s \ {y}) \ {z})
      BY <1>3, <2>3, <3>1
    <3>4. (s \ {z}) \ {y} = (s \ {y}) \ {z}
      OBVIOUS
    <3>5. (s \ {y}) \ {z} \in SUBSET S /\ f[y] \in Int /\ f[z] \in Int
      OBVIOUS
    <3>6. Sum((s \ {y}) \ {z}) \in Int
      BY <1>1, <3>5
    <3> DEFINE a == Sum((s \ {y}) \ {z})
    <3>7. Sum(s) = f[z] + (f[y] + a) /\ Sum(s \ {y}) = f[z] + a /\ a \in Int
      BY <2>1, <3>2, <3>3, <3>4, <3>6
    <3> HIDE DEF a, Sum
    <3>8. QED
      BY <3>5, <3>7
  <2>4. QED
    BY <2>2, <2>3
<1> HIDE DEF N
<1>4. Nat \subseteq N
  BY <1>2, <1>3, NatInductionSet
<1>5. QED
  BY <1>1, <1>4 DEF N

\* One more element.
LEMMA SumAdd ==
    ASSUME NEW S, IsFiniteSet(S), NEW f, NEW x, x \notin S, \A y \in S \cup {x} : f[y] \in Int
    PROVE  SumFunctionOnSet(f, S \cup {x}) = f[x] + SumFunctionOnSet(f, S)
<1>1. IsFiniteSet(S \cup {x}) /\ (S \cup {x}) \ {x} = S
  BY FS_AddElement
<1>2. QED
  BY <1>1, SumRemove

\* One element that changes by d.
LEMMA SumChange ==
    ASSUME NEW S, IsFiniteSet(S), NEW f, \A x \in S : f[x] \in Int, NEW g, NEW x \in S,
           NEW d \in Int, g[x] = f[x] + d, \A y \in S \ {x} : g[y] = f[y]
    PROVE  SumFunctionOnSet(g, S) = SumFunctionOnSet(f, S) + d
<1>1. IsFiniteSet(S \ {x}) /\ \A y \in S : g[y] \in Int
  BY FS_RemoveElement
<1>2. SumFunctionOnSet(g, S \ {x}) = SumFunctionOnSet(f, S \ {x})
  BY <1>1, SumEqual
<1>3. SumFunctionOnSet(f, S \ {x}) \in Int
  BY <1>1, SumType
<1>4. SumFunctionOnSet(f, S) = f[x] + SumFunctionOnSet(f, S \ {x})
  BY SumRemove
<1>5. SumFunctionOnSet(g, S) = g[x] + SumFunctionOnSet(g, S \ {x})
  BY <1>1, SumRemove
<1>6. QED
  BY <1>2, <1>3, <1>4, <1>5

\* A sum of natural numbers is one.
LEMMA SumNat ==
    ASSUME NEW S, IsFiniteSet(S), NEW f, \A x \in S : f[x] \in Nat
    PROVE  SumFunctionOnSet(f, S) \in Nat
<1> DEFINE U == {s \in SUBSET S : SumFunctionOnSet(f, s) \in Nat}
<1>1. {} \in U
  BY SumOfEmpty
<1>2. ASSUME NEW s \in SUBSET S, NEW x \in S, s \in U, x \notin s PROVE s \cup {x} \in U
  <2>1. IsFiniteSet(s) /\ f[x] \in Nat /\ \A y \in s \cup {x} : f[y] \in Int
    BY FS_Subset
  <2>2. SumFunctionOnSet(f, s \cup {x}) = f[x] + SumFunctionOnSet(f, s)
    BY <1>2, <2>1, SumAdd
  <2>3. QED
    BY <1>2, <2>1, <2>2
<1> HIDE DEF U
<1>3. SUBSET S \subseteq U
  BY <1>1, <1>2, SubsetInduction
<1>4. QED
  BY <1>3 DEF U

\* A sum is monotonic in each of the values, and strictly so.
LEMMA SumCompare ==
    ASSUME NEW S, IsFiniteSet(S), NEW f, NEW g,
           \A x \in S : f[x] \in Int /\ g[x] \in Int /\ f[x] <= g[x]
    PROVE  /\ SumFunctionOnSet(f, S) <= SumFunctionOnSet(g, S)
           /\ SumFunctionOnSet(f, S) = SumFunctionOnSet(g, S) => \A x \in S : f[x] = g[x]
<1> DEFINE F(s) == SumFunctionOnSet(f, s)
           G(s) == SumFunctionOnSet(g, s)
           U == {s \in SUBSET S : /\ F(s) <= G(s)
                                  /\ F(s) = G(s) => \A x \in s : f[x] = g[x]}
<1>1. {} \in U
  BY SumOfEmpty
<1>2. ASSUME NEW s \in SUBSET S, NEW x \in S, s \in U, x \notin s PROVE s \cup {x} \in U
  <2>1. IsFiniteSet(s) /\ \A y \in s \cup {x} : f[y] \in Int /\ g[y] \in Int
    BY FS_Subset
  <2>2. F(s \cup {x}) = f[x] + F(s) /\ G(s \cup {x}) = g[x] + G(s)
    BY <1>2, <2>1, SumAdd
  <2>3. F(s) \in Int /\ G(s) \in Int
    BY <2>1, SumType
  <2>4. F(s) <= G(s) /\ (F(s) = G(s) => \A y \in s : f[y] = g[y])
    BY <1>2
  <2> HIDE DEF F, G
  <2>5. F(s \cup {x}) <= G(s \cup {x})
        /\ (F(s \cup {x}) = G(s \cup {x}) => f[x] = g[x] /\ F(s) = G(s))
    BY <2>1, <2>2, <2>3, <2>4
  <2>6. QED
    BY <2>4, <2>5
<1> HIDE DEF U
<1>3. SUBSET S \subseteq U
  BY <1>1, <1>2, SubsetInduction
<1>4. QED
  BY <1>3 DEF U

\* A sum of zeros is zero.
LEMMA SumZero ==
    ASSUME NEW S, IsFiniteSet(S), NEW f, \A x \in S : f[x] = 0
    PROVE  SumFunctionOnSet(f, S) = 0
<1> DEFINE U == {s \in SUBSET S : SumFunctionOnSet(f, s) = 0}
<1>1. {} \in U
  BY SumOfEmpty
<1>2. ASSUME NEW s \in SUBSET S, NEW x \in S, s \in U, x \notin s PROVE s \cup {x} \in U
  <2>1. IsFiniteSet(s) /\ f[x] = 0 /\ \A y \in s \cup {x} : f[y] \in Int
    BY FS_Subset
  <2>2. SumFunctionOnSet(f, s \cup {x}) = f[x] + SumFunctionOnSet(f, s)
    BY <1>2, <2>1, SumAdd
  <2>3. QED
    BY <1>2, <2>1, <2>2
<1> HIDE DEF U
<1>3. SUBSET S \subseteq U
  BY <1>1, <1>2, SubsetInduction
<1>4. QED
  BY <1>3 DEF U

-----------------------------------------------------------------------------
(* Sequences, an element at a time. *)

\* The sum of a linear combination.
IsLinear(S, h, a, f, b, g) ==
    \A x \in S : f[x] \in Int /\ g[x] \in Int /\ h[x] = a * f[x] + b * g[x]

LEMMA SumLinear ==
    ASSUME NEW S, IsFiniteSet(S), NEW f, NEW g, NEW h, NEW a \in Int, NEW b \in Int,
           IsLinear(S, h, a, f, b, g)
    PROVE  SumFunctionOnSet(h, S) = a * SumFunctionOnSet(f, S) + b * SumFunctionOnSet(g, S)
<1> USE DEF IsLinear
<1> DEFINE U == {s \in SUBSET S : SumFunctionOnSet(h, s) = a * SumFunctionOnSet(f, s) + b * SumFunctionOnSet(g, s)}
<1>1. {} \in U
  BY SumOfEmpty
<1>2. ASSUME NEW s \in SUBSET S, NEW x \in S, s \in U, x \notin s PROVE s \cup {x} \in U
  <2> DEFINE F == SumFunctionOnSet(f, s)
             G == SumFunctionOnSet(g, s)
             H == SumFunctionOnSet(h, s)
             u == f[x]
             v == g[x]
  <2>1. IsFiniteSet(s) /\ \A y \in s \cup {x} : f[y] \in Int /\ g[y] \in Int /\ h[y] \in Int
    BY FS_Subset
  <2>2. /\ SumFunctionOnSet(f, s \cup {x}) = u + F
        /\ SumFunctionOnSet(g, s \cup {x}) = v + G
        /\ SumFunctionOnSet(h, s \cup {x}) = (a * u + b * v) + H
    BY <1>2, <2>1, SumAdd
  <2>3. F \in Int /\ G \in Int /\ u \in Int /\ v \in Int
    BY <2>1, SumType
  <2>4. H = a * F + b * G
    BY <1>2
  <2> HIDE DEF F, G, H, u, v
  <2>5. a * (u + F) = a * u + a * F /\ b * (v + G) = b * v + b * G
    BY <2>3
  <2>6. (a * u + b * v) + H = a * (u + F) + b * (v + G)
    BY <2>3, <2>4, <2>5
  <2>7. QED
    BY <2>2, <2>6
<1> HIDE DEF U
<1>3. SUBSET S \subseteq U
  BY <1>1, <1>2, SubsetInduction
<1>4. QED
  BY <1>3 DEF U

\* The sum of multiples.
IsScaled(S, h, a, f) == \A x \in S : f[x] \in Int /\ h[x] = a * f[x]

LEMMA SumScaled ==
    ASSUME NEW S, IsFiniteSet(S), NEW f, NEW h, NEW a \in Int, IsScaled(S, h, a, f)
    PROVE  SumFunctionOnSet(h, S) = a * SumFunctionOnSet(f, S)
<1> DEFINE b == 0
<1>1. b \in Int
  OBVIOUS
<1>2. IsLinear(S, h, a, f, b, f)
  BY DEF IsLinear, IsScaled
<1> HIDE DEF b
<1>3. SumFunctionOnSet(h, S) = a * SumFunctionOnSet(f, S) + b * SumFunctionOnSet(f, S)
  BY <1>1, <1>2, SumLinear
<1>4. SumFunctionOnSet(f, S) \in Int
  BY SumType DEF IsScaled
<1>5. QED
  BY <1>3, <1>4 DEF b

\* The sum over a part and over the rest.
LEMMA SumSplit ==
    ASSUME NEW S, IsFiniteSet(S), NEW f, \A x \in S : f[x] \in Int, NEW T \in SUBSET S
    PROVE  SumFunctionOnSet(f, S) = SumFunctionOnSet(f, T) + SumFunctionOnSet(f, S \ T)
<1> DEFINE R == S \ T
           U == {s \in SUBSET T : SumFunctionOnSet(f, s \cup R) = SumFunctionOnSet(f, s) + SumFunctionOnSet(f, R)}
<1>1. IsFiniteSet(T) /\ IsFiniteSet(R) /\ SumFunctionOnSet(f, R) \in Int
  BY FS_Subset, SumType
<1>2. {} \in U
  <2>1. {} \cup R = R
    OBVIOUS
  <2> HIDE DEF R
  <2>2. QED
    BY <1>1, <2>1, SumOfEmpty
<1>3. ASSUME NEW s \in SUBSET T, NEW x \in T, s \in U, x \notin s PROVE s \cup {x} \in U
  <2> DEFINE A == SumFunctionOnSet(f, s)
             B == SumFunctionOnSet(f, R)
             C == SumFunctionOnSet(f, s \cup R)
  <2>1. IsFiniteSet(s) /\ IsFiniteSet(s \cup R) /\ x \notin s \cup R
        /\ s \cup R \in SUBSET S /\ f[x] \in Int
    BY <1>1, <1>3, FS_Subset
  <2>2. /\ SumFunctionOnSet(f, s \cup {x}) = f[x] + A
        /\ SumFunctionOnSet(f, (s \cup R) \cup {x}) = f[x] + C
    <3>1. \A y \in s \cup {x} : f[y] \in Int
      OBVIOUS
    <3>2. \A y \in (s \cup R) \cup {x} : f[y] \in Int
      BY <2>1
    <3>3. QED
      BY <1>3, <2>1, <3>1, <3>2, SumAdd
  <2>3. A \in Int /\ B \in Int
    BY <1>1, <2>1, SumType
  <2>4. (s \cup R) \cup {x} = (s \cup {x}) \cup R
    OBVIOUS
  <2>5. C = A + B
    BY <1>3
  <2> HIDE DEF A, B, C, R
  <2> DEFINE u == f[x]
             P == SumFunctionOnSet(f, s \cup {x})
             Q == SumFunctionOnSet(f, (s \cup {x}) \cup R)
  <2>6. P = u + A /\ Q = u + C /\ u \in Int
    BY <2>1, <2>2, <2>4
  <2> HIDE DEF u, P, Q
  <2>7. Q = P + B
    BY <2>3, <2>5, <2>6
  <2>8. QED
    BY <2>7 DEF B, P, Q
<1>4. SUBSET T \subseteq U
  <2> HIDE DEF U, R
  <2>1. QED
    BY <1>1, <1>2, <1>3, SubsetInduction
<1>5. T \cup R = S
  OBVIOUS
<1>6. QED
  BY <1>4, <1>5

\* A sum of values that are none below c.
LEMMA SumAtLeast ==
    ASSUME NEW S, IsFiniteSet(S), NEW f, NEW c \in Int, \A x \in S : f[x] \in Int /\ f[x] >= c
    PROVE  SumFunctionOnSet(f, S) >= c * Cardinality(S)
<1> DEFINE U == {s \in SUBSET S : SumFunctionOnSet(f, s) >= c * Cardinality(s)}
<1>1. {} \in U
  BY SumOfEmpty, FS_EmptySet
<1>2. ASSUME NEW s \in SUBSET S, NEW x \in S, s \in U, x \notin s PROVE s \cup {x} \in U
  <2> DEFINE F == SumFunctionOnSet(f, s)
             n == Cardinality(s)
             u == f[x]
  <2>1. IsFiniteSet(s) /\ n \in Nat /\ F \in Int /\ \A y \in s \cup {x} : f[y] \in Int
    BY FS_Subset, FS_CardinalityType, SumType
  <2>2. SumFunctionOnSet(f, s \cup {x}) = u + F /\ Cardinality(s \cup {x}) = n + 1
    BY <1>2, <2>1, SumAdd, FS_AddElement
  <2>3. F >= c * n /\ u >= c /\ u \in Int
    BY <1>2
  <2> HIDE DEF F, n, u
  <2>4. c * (n + 1) = c * n + c /\ c * n \in Int
    BY <2>1
  <2>5. u + F >= c * (n + 1)
    BY <2>1, <2>3, <2>4
  <2>6. QED
    BY <2>2, <2>5
<1> HIDE DEF U
<1>3. SUBSET S \subseteq U
  BY <1>1, <1>2, SubsetInduction
<1>4. QED
  BY <1>3 DEF U

\* A sum of ones counts.
LEMMA SumOfOnes ==
    ASSUME NEW S, IsFiniteSet(S), NEW f, \A x \in S : f[x] = 1
    PROVE  SumFunctionOnSet(f, S) = Cardinality(S)
<1> DEFINE U == {s \in SUBSET S : SumFunctionOnSet(f, s) = Cardinality(s)}
<1>1. {} \in U
  BY SumOfEmpty, FS_EmptySet
<1>2. ASSUME NEW s \in SUBSET S, NEW x \in S, s \in U, x \notin s PROVE s \cup {x} \in U
  <2>1. IsFiniteSet(s) /\ Cardinality(s) \in Nat /\ \A y \in s \cup {x} : f[y] \in Int
    BY FS_Subset, FS_CardinalityType
  <2>2. SumFunctionOnSet(f, s \cup {x}) = f[x] + SumFunctionOnSet(f, s)
        /\ Cardinality(s \cup {x}) = Cardinality(s) + 1
    BY <1>2, <2>1, SumAdd, FS_AddElement
  <2>3. QED
    BY <1>2, <2>1, <2>2
<1> HIDE DEF U
<1>3. SUBSET S \subseteq U
  BY <1>1, <1>2, SubsetInduction
<1>4. QED
  BY <1>3 DEF U

\* A sum of squares is not negative, and zero only if all are.
IsProduct(S, h, f, g) ==
    \A x \in S : f[x] \in Int /\ g[x] \in Int /\ h[x] = f[x] * g[x]

LEMMA SumOfSquares ==
    ASSUME NEW S, IsFiniteSet(S), NEW f, NEW q, IsProduct(S, q, f, f)
    PROVE  /\ SumFunctionOnSet(q, S) \in Nat
           /\ SumFunctionOnSet(q, S) = 0 => \A x \in S : f[x] = 0
<1> USE DEF IsProduct
<1> DEFINE zero == [x \in S |-> 0]
<1>1. \A x \in S : q[x] \in Nat /\ (q[x] = 0 => f[x] = 0)
  <2> TAKE x \in S
  <2> DEFINE u == f[x]
  <2>1. u \in Int /\ q[x] = u * u
    OBVIOUS
  <2> HIDE DEF u
  <2>2. u * u \in Nat /\ (u * u = 0 => u = 0)
    BY <2>1
  <2>3. QED
    BY <2>1, <2>2 DEF u
<1>2. SumFunctionOnSet(q, S) \in Nat
  BY <1>1, SumNat
<1>3. \A x \in S : zero[x] = 0
  OBVIOUS
<1> HIDE DEF zero
<1>4. SumFunctionOnSet(zero, S) = 0
  BY <1>3, SumZero
<1>5. \A x \in S : zero[x] \in Int /\ q[x] \in Int /\ zero[x] <= q[x]
  BY <1>1, <1>3
<1>6. SumFunctionOnSet(zero, S) = SumFunctionOnSet(q, S) => \A x \in S : zero[x] = q[x]
  BY <1>5, SumCompare
<1>7. QED
  BY <1>1, <1>2, <1>3, <1>4, <1>6

AreProportional(S, c, f, b, g) == \A x \in S : c * f[x] = b * g[x]

\* The inequality of Cauchy and Schwarz, and what it means that it is none.
LEMMA CauchySchwarz ==
    ASSUME NEW S, IsFiniteSet(S), NEW f, NEW g, NEW ff, NEW fg, NEW gg,
           IsProduct(S, ff, f, f), IsProduct(S, fg, f, g), IsProduct(S, gg, g, g)
    PROVE  LET A == SumFunctionOnSet(ff, S)
               B == SumFunctionOnSet(fg, S)
               C == SumFunctionOnSet(gg, S)
           IN  /\ A \in Nat /\ B \in Int /\ C \in Nat /\ B * B <= A * C
               /\ B * B = A * C => AreProportional(S, C, f, B, g)
<1> DEFINE A == SumFunctionOnSet(ff, S)
           B == SumFunctionOnSet(fg, S)
           C == SumFunctionOnSet(gg, S)
           d == [x \in S |-> C * f[x] - B * g[x]]
           dd == [x \in S |-> d[x] * d[x]]
           e == [x \in S |-> C * ff[x] + (-2 * B) * fg[x]]
<1>1. \A x \in S : ff[x] \in Int /\ fg[x] \in Int /\ gg[x] \in Int
  BY DEF IsProduct
<1>2. A \in Nat /\ C \in Nat
  BY SumOfSquares
<1>3. B \in Int
  BY <1>1, SumType
<1> HIDE DEF A, B, C
<1>4. C = 0 => B = 0
  <2> SUFFICES ASSUME C = 0 PROVE B = 0
    OBVIOUS
  <2>1. \A x \in S : g[x] = 0
    BY SumOfSquares DEF C
  <2>2. \A x \in S : fg[x] = 0
    BY <2>1 DEF IsProduct
  <2>3. QED
    BY <2>2, SumZero DEF B
<1>5. \A x \in S : e[x] \in Int /\ e[x] = C * ff[x] + (-2 * B) * fg[x]
  BY <1>1, <1>2, <1>3
<1>6. \A x \in S : d[x] \in Int /\ dd[x] = d[x] * d[x] /\ dd[x] = C * e[x] + (B * B) * gg[x]
  <2> TAKE x \in S
  <2> DEFINE u == f[x]
             v == g[x]
  <2>1. /\ d[x] = C * u - B * v /\ dd[x] = d[x] * d[x] /\ u \in Int /\ v \in Int
        /\ ff[x] = u * u /\ fg[x] = u * v /\ gg[x] = v * v
    BY DEF IsProduct
  <2>2. e[x] = C * (u * u) + (-2 * B) * (u * v)
    BY <1>5, <2>1
  <2> HIDE DEF d, dd, e, u, v
  <2>3. (C * u - B * v) * (C * u - B * v) = C * (C * (u * u) + (-2 * B) * (u * v)) + (B * B) * (v * v)
    BY <1>2, <1>3, <2>1
  <2>4. QED
    BY <1>2, <1>3, <2>1, <2>2, <2>3
<1> HIDE DEF d, dd, e
<1> DEFINE E == SumFunctionOnSet(e, S)
           D == SumFunctionOnSet(dd, S)
<1>7. E = C * A + (-2 * B) * B
  <2> DEFINE k == -2 * B
  <2>1. k \in Int /\ C \in Int
    BY <1>2, <1>3
  <2>2. IsLinear(S, e, C, ff, k, fg)
    BY <1>1, <1>5 DEF IsLinear
  <2> HIDE DEF k, E
  <2>3. SumFunctionOnSet(e, S) = C * SumFunctionOnSet(ff, S) + k * SumFunctionOnSet(fg, S)
    BY <2>1, <2>2, SumLinear
  <2>4. QED
    BY <2>3 DEF A, B, E, k
<1>8. D = C * E + (B * B) * C
  <2> DEFINE k == B * B
  <2>1. C \in Int /\ k \in Int
    BY <1>2, <1>3
  <2>2. IsLinear(S, dd, C, e, k, gg)
    BY <1>1, <1>5, <1>6 DEF IsLinear
  <2> HIDE DEF k, E, D
  <2>3. SumFunctionOnSet(dd, S) = C * SumFunctionOnSet(e, S) + k * SumFunctionOnSet(gg, S)
    BY <2>1, <2>2, SumLinear
  <2>4. QED
    BY <2>3 DEF C, D, E, k
<1>9. D \in Nat /\ (D = 0 => \A x \in S : d[x] = 0)
  <2>1. IsProduct(S, dd, d, d)
    BY <1>6 DEF IsProduct
  <2> HIDE DEF E, D
  <2>2. SumFunctionOnSet(dd, S) \in Nat
        /\ (SumFunctionOnSet(dd, S) = 0 => \A x \in S : d[x] = 0)
    BY <2>1, SumOfSquares
  <2>3. QED
    BY <2>2 DEF D
<1>10. \A x \in S : d[x] = C * f[x] - B * g[x]
  BY DEF d
<1> HIDE DEF D, E
<1>11. D = C * (A * C - B * B)
  BY <1>2, <1>3, <1>7, <1>8
<1>12. B * B <= A * C
  <2>1. CASE C = 0
    BY <1>2, <1>4, <2>1
  <2>2. CASE C > 0
    <3> DEFINE w == A * C - B * B
    <3>1. w \in Int /\ C * w >= 0
      BY <1>2, <1>3, <1>9, <1>11
    <3> HIDE DEF w
    <3>2. w >= 0
      BY <1>2, <2>2, <3>1
    <3>3. QED
      BY <1>2, <1>3, <3>2 DEF w
  <2>3. QED
    BY <1>2, <2>1, <2>2
<1>13. ASSUME B * B = A * C PROVE \A x \in S : C * f[x] = B * g[x]
  <2>1. D = 0
    BY <1>2, <1>3, <1>11, <1>13
  <2> TAKE x \in S
  <2> DEFINE u == C * f[x]
             v == B * g[x]
  <2>2. u - v = 0 /\ u \in Int /\ v \in Int
    BY <1>2, <1>3, <1>9, <1>10, <2>1 DEF IsProduct
  <2> HIDE DEF u, v
  <2>3. u = v
    BY <2>2
  <2>4. QED
    BY <2>3 DEF u, v
<1>14. QED
  BY <1>2, <1>3, <1>12, <1>13 DEF A, B, C, AreProportional

\* With ones for g: no square of a sum is more than so many times the sum of the
\* squares, and as much only if all are equal.
LEMMA SquareOfSum ==
    ASSUME NEW S, IsFiniteSet(S), NEW f, NEW q, IsProduct(S, q, f, f)
    PROVE  LET A == SumFunctionOnSet(q, S)
               B == SumFunctionOnSet(f, S)
               n == Cardinality(S)
           IN  /\ A \in Nat /\ B \in Int /\ n \in Nat /\ B * B <= A * n
               /\ B * B = A * n => \A x \in S : n * f[x] = B
<1> DEFINE one == [x \in S |-> 1]
           A == SumFunctionOnSet(q, S)
           B == SumFunctionOnSet(f, S)
           n == Cardinality(S)
<1>1. \A x \in S : one[x] = 1
  OBVIOUS
<1> HIDE DEF one
<1>2. SumFunctionOnSet(one, S) = n
  BY <1>1, SumOfOnes
<1>3. /\ \A x \in S : f[x] \in Int
      /\ IsProduct(S, f, f, one) /\ IsProduct(S, one, one, one)
  BY <1>1 DEF IsProduct
<1> HIDE DEF A, B, n
<1>4. IsProduct(S, q, f, f)
  OBVIOUS
<1> DEFINE C == SumFunctionOnSet(one, S)
<1>5. /\ A \in Nat /\ B \in Int /\ C \in Nat /\ B * B <= A * C
      /\ B * B = A * C => \A x \in S : C * f[x] = B * one[x]
  <2>1. IsProduct(S, f, f, one)
    BY <1>3
  <2>2. IsProduct(S, one, one, one)
    BY <1>3
  <2>3. /\ SumFunctionOnSet(q, S) \in Nat /\ SumFunctionOnSet(f, S) \in Int
        /\ SumFunctionOnSet(one, S) \in Nat
    BY <1>4, <2>1, <2>2, CauchySchwarz, Zenon
  <2>4. B * B <= A * C
    BY <1>4, <2>1, <2>2, CauchySchwarz DEF A, B
  <2>5. B * B = A * C => AreProportional(S, C, f, B, one)
    BY <1>4, <2>1, <2>2, CauchySchwarz DEF A, B
  <2>6. QED
    BY <2>3, <2>4, <2>5 DEF A, B, AreProportional
<1>6. B * B = A * n => \A x \in S : n * f[x] = B
  BY <1>1, <1>2, <1>5
<1>7. QED
  BY <1>2, <1>5, <1>6 DEF A, B, n

\* Induction over sequences.
LEMMA SequenceInduction ==
    ASSUME NEW D, NEW U, <<>> \in U, \A s \in Seq(D), x \in D : s \in U => Append(s, x) \in U
    PROVE  Seq(D) \subseteq U
<1> DEFINE N == {n \in Nat : \A s \in Seq(D) : Len(s) = n => s \in U}
<1>1. 0 \in N
  OBVIOUS
<1>2. ASSUME NEW n \in Nat, n \in N PROVE n + 1 \in N
  <2> SUFFICES ASSUME NEW s \in Seq(D), Len(s) = n + 1 PROVE s \in U
    OBVIOUS
  <2>1. PICK t \in Seq(D), x \in D : s = Append(t, x)
    BY SequenceEmptyOrAppend
  <2>2. Len(t) = n
    BY <2>1, AppendProperties
  <2>3. QED
    BY <1>2, <2>1, <2>2
<1> HIDE DEF N
<1>3. Nat \subseteq N
  BY <1>1, <1>2, NatInductionSet
<1>4. QED
  BY <1>3 DEF N

\* FoldLeft takes the greatest index of those left, the last.
LEMMA MaxIn ==
    ASSUME NEW n \in Nat, NEW s \in SUBSET (1 .. n), s # {}
    PROVE  Max(s) \in s /\ \A y \in s : y <= Max(s)
<1> DEFINE U == {n - x : x \in s}
<1>1. U \in SUBSET Nat /\ U # {}
  OBVIOUS
<1>2. PICK u \in U : \A v \in U : u <= v
  BY <1>1, NatLeast
<1>3. PICK x \in s : u = n - x
  OBVIOUS
<1>4. ASSUME NEW y \in s PROVE x >= y
  <2>1. n - y \in U
    OBVIOUS
  <2>2. u <= n - y
    BY <1>2, <2>1
  <2>3. QED
    BY <1>3, <2>2
<1>5. Max(s) \in s /\ \A y \in s : Max(s) >= y
  BY <1>4 DEF Max
<1>6. QED
  BY <1>5

LEMMA MaxOfInterval ==
    ASSUME NEW k \in Nat \ {0}
    PROVE  Max(1 .. k) = k /\ (1 .. k) \ {k} = 1 .. (k - 1)
<1>1. Max(1 .. k) \in 1 .. k /\ \A y \in 1 .. k : y <= Max(1 .. k)
  <2>1. k \in Nat /\ 1 .. k \in SUBSET (1 .. k) /\ 1 .. k # {}
    OBVIOUS
  <2>2. QED
    BY <2>1, MaxIn
<1>2. QED
  BY <1>1

\* What the recursive function in a FoldLeft over n elements must satisfy.
FoldsLeft(h, n, G, base) ==
    h = [s \in SUBSET (1 .. n) |-> IF s = {} THEN base ELSE G[<<Max(s), h[s \ {Max(s)}]>>]]

LEMMA FoldLeftExists ==
    ASSUME NEW n \in Nat, NEW V, NEW base \in V,
           NEW G, \A k \in 1 .. n, v \in V : G[<<k, v>>] \in V
    PROVE  \E h \in [SUBSET (1 .. n) -> V] : FoldsLeft(h, n, G, base)
<1> DEFINE c == [s \in SUBSET (1 .. n) |-> Max(s)]
<1>1. \A s \in SUBSET (1 .. n) : s # {} => c[s] \in s
  BY MaxIn
<1>2. IsFiniteSet(1 .. n)
  BY FS_Interval
<1>3. PICK h \in [SUBSET (1 .. n) -> V] : Folds(h, 1 .. n, c, G, base)
  <2> HIDE DEF c
  <2>1. QED
    BY <1>1, <1>2, FoldExists
<1>4. h = [s \in SUBSET (1 .. n) |-> IF s = {} THEN base ELSE G[<<Max(s), h[s \ {Max(s)}]>>]]
  BY <1>3 DEF Folds
<1>5. QED
  BY <1>4 DEF FoldsLeft

LEMMA FirstIndices ==
    ASSUME NEW n \in Nat, NEW k \in 1 .. n
    PROVE  /\ k \in Nat \ {0} /\ 1 .. k \in SUBSET (1 .. n) /\ 1 .. k # {}
           /\ k \in 0 .. n /\ k - 1 \in 0 .. n
           /\ Max(1 .. k) = k /\ (1 .. k) \ {k} = 1 .. (k - 1)
<1>1. k \in Nat \ {0} /\ 1 .. k \in SUBSET (1 .. n) /\ 1 .. k # {} /\ k \in 0 .. n /\ k - 1 \in 0 .. n
  OBVIOUS
<1>2. Max(1 .. k) = k /\ (1 .. k) \ {k} = 1 .. (k - 1)
  BY <1>1, MaxOfInterval
<1>3. QED
  BY <1>1, <1>2

\* f[k] is the result for the first k elements.
Iterates(f, n, G, base) == f[0] = base /\ \A k \in 1 .. n : f[k] = G[<<k, f[k - 1]>>]

LEMMA FoldLeftPrefixes ==
    ASSUME NEW n \in Nat, NEW V, NEW base \in V,
           NEW G, \A k \in 1 .. n, v \in V : G[<<k, v>>] \in V
    PROVE  \E f \in [0 .. n -> V] : Iterates(f, n, G, base)
<1>1. PICK h \in [SUBSET (1 .. n) -> V] : FoldsLeft(h, n, G, base)
  BY FoldLeftExists
<1> DEFINE f == [k \in 0 .. n |-> h[1 .. k]]
<1>2. f[0] = base /\ f \in [0 .. n -> V]
  <2>1. 1 .. 0 = {} /\ 0 \in 0 .. n
    OBVIOUS
  <2>2. \A k \in 0 .. n : 1 .. k \in SUBSET (1 .. n)
    OBVIOUS
  <2>3. h[{}] = base
    BY <1>1 DEF FoldsLeft
  <2>4. f[0] = h[1 .. 0]
    BY <2>1
  <2>5. f \in [0 .. n -> V]
    BY <2>2
  <2>6. QED
    BY <2>1, <2>3, <2>4, <2>5
<1>3. ASSUME NEW k \in 1 .. n PROVE f[k] = G[<<k, f[k - 1]>>]
  <2>1. k \in 0 .. n /\ 1 .. k \in SUBSET (1 .. n) /\ 1 .. k # {} /\ k - 1 \in 0 .. n
    BY FirstIndices
  <2>2. Max(1 .. k) = k /\ (1 .. k) \ {k} = 1 .. (k - 1)
    BY FirstIndices
  <2>3. h[1 .. k] = G[<<k, h[1 .. (k - 1)]>>]
    BY <1>1, <2>1, <2>2 DEF FoldsLeft
  <2>4. QED
    BY <2>1, <2>3
<1>4. QED
  BY <1>2, <1>3 DEF Iterates

\* Two of them agree as far as their steps do.
LEMMA IteratesAgree ==
    ASSUME NEW n \in Nat, NEW m \in Nat, n <= m, NEW V, NEW base, NEW G, NEW H,
           NEW f \in [0 .. n -> V], Iterates(f, n, G, base), NEW g, Iterates(g, m, H, base),
           \A k \in 1 .. n, v \in V : G[<<k, v>>] = H[<<k, v>>]
    PROVE  \A k \in 0 .. n : f[k] = g[k]
<1> DEFINE U == {k \in Nat : k <= n => f[k] = g[k]}
<1>1. 0 \in U
  BY DEF Iterates
<1>2. ASSUME NEW k \in Nat, k \in U PROVE k + 1 \in U
  <2> SUFFICES ASSUME k + 1 <= n PROVE f[k + 1] = g[k + 1]
    OBVIOUS
  <2>1. k + 1 \in 1 .. n /\ k + 1 \in 1 .. m /\ (k + 1) - 1 = k /\ f[k] = g[k] /\ f[k] \in V
    BY <1>2
  <2>2. f[k + 1] = G[<<k + 1, f[k]>>] /\ g[k + 1] = H[<<k + 1, g[k]>>]
    BY <2>1 DEF Iterates
  <2>3. QED
    BY <2>1, <2>2
<1> HIDE DEF U
<1>3. Nat \subseteq U
  BY <1>1, <1>2, NatInductionSet
<1>4. QED
  BY <1>3 DEF U

\* What the recursive function in Among(s, S) must satisfy.
Selects(h, s, S) ==
    h = [t \in SUBSET DOMAIN s |->
            IF t = {} THEN <<>>
            ELSE IF s[Max(t)] \in S THEN Append(h[t \ {Max(t)}], s[Max(t)]) ELSE h[t \ {Max(t)}]]

\* f[k] is what is selected from the first k elements.
SelectionOf(f, s, S, D) ==
    /\ f \in [0 .. Len(s) -> Seq(D)]
    /\ f[0] = <<>> /\ Among(s, S) = f[Len(s)]
    /\ \A k \in 1 .. Len(s) :
          f[k] = IF s[k] \in S THEN Append(f[k - 1], s[k]) ELSE f[k - 1]

LEMMA AmongIs ==
    ASSUME NEW D, NEW s \in Seq(D), NEW S
    PROVE  \E f : SelectionOf(f, s, S, D)
<1> DEFINE n == Len(s)
           G == [p \in (1 .. n) \X Seq(D) |->
                    IF s[p[1]] \in S THEN Append(p[2], s[p[1]]) ELSE p[2]]
           h == CHOOSE g : Selects(g, s, S)
<1>1. n \in Nat /\ DOMAIN s = 1 .. n /\ \A k \in 1 .. n : s[k] \in D
  BY LenProperties
<1>2. \A k \in 1 .. n, v \in Seq(D) :
          /\ G[<<k, v>>] = IF s[k] \in S THEN Append(v, s[k]) ELSE v
          /\ G[<<k, v>>] \in Seq(D)
  BY <1>1
<1> HIDE DEF G
<1>3. <<>> \in Seq(D)
  OBVIOUS
<1>4. PICK g \in [SUBSET (1 .. n) -> Seq(D)] : FoldsLeft(g, n, G, <<>>)
  BY <1>1, <1>2, <1>3, FoldLeftExists
<1>5. ASSUME NEW t \in SUBSET (1 .. n)
      PROVE  g[t] = IF t = {} THEN <<>>
                    ELSE IF s[Max(t)] \in S THEN Append(g[t \ {Max(t)}], s[Max(t)])
                    ELSE g[t \ {Max(t)}]
  <2>1. g[t] = IF t = {} THEN <<>> ELSE G[<<Max(t), g[t \ {Max(t)}]>>]
    BY <1>4 DEF FoldsLeft
  <2>2. CASE t # {}
    <3>1. Max(t) \in 1 .. n
      BY <1>1, <2>2, MaxIn
    <3>2. g[t \ {Max(t)}] \in Seq(D)
      OBVIOUS
    <3>3. QED
      BY <1>2, <2>1, <2>2, <3>1, <3>2
  <2>3. QED
    BY <2>1, <2>2
<1>6. Selects(g, s, S)
  BY <1>1, <1>5 DEF Selects
<1>7. Selects(h, s, S)
  BY <1>6
<1>8. Among(s, S) = h[DOMAIN s]
  BY DEF Among, FoldLeft, MapThenFoldSet, Selects
<1> HIDE DEF h
<1> DEFINE f == [k \in 0 .. n |-> h[1 .. k]]
<1>9. f[0] = <<>>
  <2>1. 1 .. 0 = {}
    OBVIOUS
  <2>2. QED
    BY <1>1, <1>7, <2>1 DEF Selects
<1>10. ASSUME NEW k \in 1 .. n
       PROVE  f[k] = IF s[k] \in S THEN Append(f[k - 1], s[k]) ELSE f[k - 1]
  <2>1. k \in Nat \ {0} /\ 1 .. k \in SUBSET (1 .. n) /\ 1 .. k # {} /\ k - 1 \in 0 .. n
    BY <1>1
  <2>2. Max(1 .. k) = k /\ (1 .. k) \ {k} = 1 .. (k - 1)
    BY <2>1, MaxOfInterval
  <2>3. h[1 .. k] = IF s[k] \in S THEN Append(h[1 .. (k - 1)], s[k]) ELSE h[1 .. (k - 1)]
    BY <1>1, <1>7, <2>1, <2>2 DEF Selects
  <2>4. QED
    BY <2>1, <2>3
<1>11. f[n] = h[DOMAIN s]
  BY <1>1
<1> HIDE DEF f
<1>12. \A k \in 0 .. n : f[k] \in Seq(D)
  <2> DEFINE U == {k \in Nat : k <= n => f[k] \in Seq(D)}
  <2>1. 0 \in U
    BY <1>3, <1>9
  <2>2. ASSUME NEW k \in Nat, k \in U PROVE k + 1 \in U
    <3> SUFFICES ASSUME k + 1 <= n PROVE f[k + 1] \in Seq(D)
      OBVIOUS
    <3>1. k + 1 \in 1 .. n /\ (k + 1) - 1 = k /\ f[k] \in Seq(D)
      BY <1>1, <2>2
    <3>2. f[k + 1] = IF s[k + 1] \in S THEN Append(f[k], s[k + 1]) ELSE f[k]
      BY <1>10, <3>1
    <3>3. s[k + 1] \in D
      BY <1>1, <3>1
    <3>4. QED
      BY <3>1, <3>2, <3>3
  <2> HIDE DEF U
  <2>3. Nat \subseteq U
    BY <2>1, <2>2, NatInductionSet
  <2>4. QED
    BY <1>1, <2>3 DEF U
<1>13. f \in [0 .. n -> Seq(D)]
  BY <1>12 DEF f
<1>14. SelectionOf(f, s, S, D)
  BY <1>8, <1>9, <1>10, <1>11, <1>13 DEF SelectionOf
<1>15. QED
  BY <1>14

LEMMA AmongProperties ==
    ASSUME NEW D, NEW S
    PROVE  /\ Among(<<>>, S) = <<>>
           /\ \A s \in Seq(D) : Among(s, S) \in Seq(D)
           /\ \A s \in Seq(D), x \in D :
                 Among(Append(s, x), S) = IF x \in S THEN Append(Among(s, S), x) ELSE Among(s, S)
<1>1. \A s \in Seq(D) : Among(s, S) \in Seq(D)
  <2> SUFFICES ASSUME NEW s \in Seq(D) PROVE Among(s, S) \in Seq(D)
    OBVIOUS
  <2>1. PICK f : SelectionOf(f, s, S, D)
    BY AmongIs
  <2>2. Len(s) \in 0 .. Len(s)
    BY LenProperties
  <2>3. QED
    BY <2>1, <2>2 DEF SelectionOf
<1>2. Among(<<>>, S) = <<>>
  <2>1. <<>> \in Seq(D) /\ Len(<<>>) = 0
    OBVIOUS
  <2>2. PICK f : SelectionOf(f, <<>>, S, D)
    BY <2>1, AmongIs
  <2>3. QED
    BY <2>1, <2>2 DEF SelectionOf
<1>3. ASSUME NEW s \in Seq(D), NEW x \in D
      PROVE  Among(Append(s, x), S) = IF x \in S THEN Append(Among(s, S), x) ELSE Among(s, S)
  <2> DEFINE n == Len(s)
             t == Append(s, x)
  <2>1. /\ n \in Nat /\ t \in Seq(D) /\ Len(t) = n + 1 /\ t[n + 1] = x
        /\ \A k \in 1 .. n : t[k] = s[k]
    BY AppendProperties, LenProperties
  <2> HIDE DEF n, t
  <2>2. PICK f : SelectionOf(f, s, S, D)
    BY AmongIs
  <2>3. PICK g : SelectionOf(g, t, S, D)
    BY <2>1, AmongIs
  <2>4. /\ f[0] = <<>> /\ Among(s, S) = f[n]
        /\ \A k \in 1 .. n : f[k] = IF s[k] \in S THEN Append(f[k - 1], s[k]) ELSE f[k - 1]
    BY <2>2 DEF SelectionOf, n
  <2>5. /\ g[0] = <<>> /\ Among(t, S) = g[n + 1]
        /\ \A k \in 1 .. n + 1 : g[k] = IF t[k] \in S THEN Append(g[k - 1], t[k]) ELSE g[k - 1]
    BY <2>1, <2>3 DEF SelectionOf
  <2> DEFINE U == {k \in Nat : k <= n => f[k] = g[k]}
  <2>6. 0 \in U
    BY <2>4, <2>5
  <2>7. ASSUME NEW k \in Nat, k \in U PROVE k + 1 \in U
    <3> SUFFICES ASSUME k + 1 <= n PROVE f[k + 1] = g[k + 1]
      OBVIOUS
    <3>1. k + 1 \in 1 .. n /\ k + 1 \in 1 .. n + 1 /\ (k + 1) - 1 = k /\ f[k] = g[k]
      BY <2>1, <2>7
    <3>2. QED
      BY <2>1, <2>4, <2>5, <3>1
  <2> HIDE DEF U
  <2>8. Nat \subseteq U
    BY <2>6, <2>7, NatInductionSet
  <2>9. f[n] = g[n]
    BY <2>1, <2>8 DEF U
  <2>10. n + 1 \in 1 .. n + 1 /\ (n + 1) - 1 = n
    BY <2>1
  <2>11. Among(t, S) = IF x \in S THEN Append(Among(s, S), x) ELSE Among(s, S)
    BY <2>1, <2>4, <2>5, <2>9, <2>10
  <2>12. QED
    BY <2>11 DEF t
<1>4. QED
  BY <1>1, <1>2, <1>3

-----------------------------------------------------------------------------
\* Appending one sequence of ss after the other.
ConcatStep(ss, S) == [p \in (DOMAIN ss) \X S |-> p[2] \o ss[p[1]]]

\* f[k] is the concatenation of the first k sequences in ss.
FlatteningOf(f, ss, S) ==
    /\ f \in [0 .. Len(ss) -> S] /\ Iterates(f, Len(ss), ConcatStep(ss, S), <<>>)
    /\ FlattenSeq(ss) = f[Len(ss)]

\* The recursive function in FlattenSeq begins with the first sequence.
FromFirst(ss, n) == CHOOSE g : g = [k \in 1 .. n |-> IF k = 1 THEN ss[k] ELSE g[k - 1] \o ss[k]]

LEMMA FlattenFromFirst ==
    ASSUME NEW n \in Nat \ {0}, NEW ss, NEW S, NEW f \in [0 .. n -> S],
           \A k \in 1 .. n : f[k] = f[k - 1] \o ss[k], f[0] \o ss[1] = ss[1]
    PROVE  FromFirst(ss, n)[n] = f[n]
<1> DEFINE Flattens(g) == g = [k \in 1 .. n |-> IF k = 1 THEN ss[k] ELSE g[k - 1] \o ss[k]]
           e == [k \in 1 .. n |-> f[k]]
           c == CHOOSE g : Flattens(g)
<1>1. ASSUME NEW k \in 1 .. n PROVE e[k] = IF k = 1 THEN ss[k] ELSE e[k - 1] \o ss[k]
  <2>1. CASE k = 1
    <3>1. 1 \in 1 .. n /\ 1 - 1 = 0
      OBVIOUS
    <3>2. f[1] = f[0] \o ss[1]
      BY <3>1
    <3>3. e[1] = f[1]
      BY <3>1
    <3>4. QED
      BY <2>1, <3>2, <3>3
  <2>2. CASE k # 1
    <3>1. k - 1 \in 1 .. n
      BY <2>2
    <3>2. f[k] = f[k - 1] \o ss[k] /\ e[k] = f[k] /\ e[k - 1] = f[k - 1]
      BY <3>1
    <3>3. QED
      BY <2>2, <3>2
  <2>3. QED
    BY <2>1, <2>2
<1>2. Flattens(e)
  BY <1>1
<1>3. Flattens(c)
  BY <1>2
<1> HIDE DEF c
<1> DEFINE U == {k \in Nat : k + 1 <= n => c[k + 1] = f[k + 1]}
<1>4. 0 \in U
  <2>1. 1 \in 1 .. n
    OBVIOUS
  <2>2. c[1] = ss[1]
    BY <1>3, <2>1
  <2>3. f[1] = f[0] \o ss[1]
    <3>1. 1 - 1 = 0
      OBVIOUS
    <3>2. QED
      BY <2>1, <3>1
  <2>4. QED
    BY <2>2, <2>3
<1>5. ASSUME NEW k \in Nat, k \in U PROVE k + 1 \in U
  <2> SUFFICES ASSUME (k + 1) + 1 <= n PROVE c[(k + 1) + 1] = f[(k + 1) + 1]
    OBVIOUS
  <2>1. /\ (k + 1) + 1 \in 1 .. n /\ ((k + 1) + 1) - 1 = k + 1 /\ (k + 1) + 1 # 1
        /\ c[k + 1] = f[k + 1]
    BY <1>5
  <2>2. c[(k + 1) + 1] = c[k + 1] \o ss[(k + 1) + 1]
    BY <1>3, <2>1
  <2>3. f[(k + 1) + 1] = f[k + 1] \o ss[(k + 1) + 1]
    BY <2>1
  <2>4. QED
    BY <2>1, <2>2, <2>3
<1> HIDE DEF U
<1>6. Nat \subseteq U
  BY <1>4, <1>5, NatInductionSet
<1>7. n - 1 \in Nat /\ (n - 1) + 1 = n /\ n <= n
  OBVIOUS
<1>8. n - 1 \in U
  BY <1>6, <1>7
<1>9. c[n] = f[n]
  BY <1>7, <1>8 DEF U
<1>10. QED
  BY <1>9 DEF c, FromFirst

LEMMA FlattenIs ==
    ASSUME NEW D, NEW ss \in Seq(Seq(D))
    PROVE  \E f : FlatteningOf(f, ss, Seq(D))
<1> DEFINE n == Len(ss)
           S == Seq(D)
           G == ConcatStep(ss, S)
<1>1. ss \in Seq(S) /\ <<>> \in S /\ \A v \in S : <<>> \o v = v
  OBVIOUS
<1>2. \A v \in S, w \in S : v \o w \in S
  BY ConcatProperties
<1> HIDE DEF S
<1>3. n \in Nat /\ DOMAIN ss = 1 .. n /\ \A k \in 1 .. n : ss[k] \in S
  BY <1>1, LenProperties
<1>4. n = 0 => ss = <<>>
  BY <1>1, EmptySeq
<1> HIDE DEF n
<1>5. \A k \in 1 .. n, v \in S : G[<<k, v>>] = v \o ss[k] /\ G[<<k, v>>] \in S
  BY <1>2, <1>3 DEF ConcatStep
<1> HIDE DEF G
<1>6. PICK f \in [0 .. n -> S] : Iterates(f, n, G, <<>>)
  BY <1>1, <1>3, <1>5, FoldLeftPrefixes
<1>7. f[0] = <<>> /\ \A k \in 1 .. n : f[k] = f[k - 1] \o ss[k]
  <2>1. ASSUME NEW k \in 1 .. n PROVE f[k] = f[k - 1] \o ss[k]
    <3>1. k - 1 \in 0 .. n
      BY <1>3
    <3>2. f[k] = G[<<k, f[k - 1]>>] /\ f[k - 1] \in S
      BY <1>6, <3>1 DEF Iterates
    <3>3. QED
      BY <1>5, <3>2
  <2>2. QED
    BY <1>6, <2>1 DEF Iterates
<1>8. FlattenSeq(ss) = f[n]
  <2>1. CASE n = 0
    BY <1>4, <1>7, <2>1 DEF FlattenSeq
  <2>2. CASE n # 0
    <3>1. FlattenSeq(ss) = FromFirst(ss, n)[n]
      BY <2>2 DEF FlattenSeq, FromFirst, n
    <3>2. n \in Nat \ {0} /\ 1 \in 1 .. n
      BY <1>3, <2>2
    <3>3. f[0] \o ss[1] = ss[1]
      BY <1>1, <1>3, <1>7, <3>2
    <3>4. FromFirst(ss, n)[n] = f[n]
      BY <1>7, <3>2, <3>3, FlattenFromFirst
    <3>5. QED
      BY <3>1, <3>4
  <2>3. QED
    BY <2>1, <2>2
<1>9. FlatteningOf(f, ss, S)
  BY <1>6, <1>8 DEF FlatteningOf, G, n
<1>10. QED
  BY <1>9 DEF S

LEMMA FlattenProperties ==
    ASSUME NEW D
    PROVE  /\ FlattenSeq(<<>>) = <<>>
           /\ \A ss \in Seq(Seq(D)) : FlattenSeq(ss) \in Seq(D)
           /\ \A ss \in Seq(Seq(D)), t \in Seq(D) : FlattenSeq(Append(ss, t)) = FlattenSeq(ss) \o t
<1> DEFINE S == Seq(D)
<1>1. \A ss \in Seq(S) : \E f : FlatteningOf(f, ss, S)
  BY FlattenIs
<1>2. FlattenSeq(<<>>) = <<>>
  BY DEF FlattenSeq
<1>3. \A v \in S, w \in S : v \o w \in S
  BY ConcatProperties
<1> HIDE DEF S
<1>4. ASSUME NEW ss \in Seq(S) PROVE FlattenSeq(ss) \in S
  <2>1. PICK f : FlatteningOf(f, ss, S)
    BY <1>1
  <2>2. Len(ss) \in 0 .. Len(ss)
    BY LenProperties
  <2>3. QED
    BY <2>1, <2>2 DEF FlatteningOf
<1>5. ASSUME NEW ss \in Seq(S), NEW t \in S
      PROVE  FlattenSeq(Append(ss, t)) = FlattenSeq(ss) \o t
  <2> DEFINE n == Len(ss)
             r == Append(ss, t)
  <2>1. /\ n \in Nat /\ r \in Seq(S) /\ Len(r) = n + 1 /\ r[n + 1] = t
        /\ \A k \in 1 .. n : r[k] = ss[k] /\ ss[k] \in S
        /\ DOMAIN ss = 1 .. n /\ DOMAIN r = 1 .. n + 1
    BY AppendProperties, LenProperties
  <2> HIDE DEF n, r
  <2>2. PICK f : FlatteningOf(f, ss, S)
    BY <1>1
  <2>3. PICK g : FlatteningOf(g, r, S)
    BY <1>1, <2>1
  <2> DEFINE F == ConcatStep(ss, S)
             G == ConcatStep(r, S)
  <2>4. /\ f \in [0 .. n -> S] /\ Iterates(f, n, F, <<>>) /\ FlattenSeq(ss) = f[n]
        /\ g \in [0 .. n + 1 -> S] /\ Iterates(g, n + 1, G, <<>>) /\ FlattenSeq(r) = g[n + 1]
    BY <2>1, <2>2, <2>3 DEF FlatteningOf, n
  <2>5. /\ \A k \in 1 .. n, v \in S : F[<<k, v>>] = G[<<k, v>>]
        /\ \A v \in S : G[<<n + 1, v>>] = v \o t
    <3>1. ASSUME NEW k \in 1 .. n, NEW v \in S PROVE F[<<k, v>>] = G[<<k, v>>]
      <4>1. k \in 1 .. n + 1
        BY <2>1
      <4>2. F[<<k, v>>] = v \o ss[k]
        BY <2>1 DEF ConcatStep
      <4>3. G[<<k, v>>] = v \o r[k]
        BY <2>1, <4>1 DEF ConcatStep
      <4>4. QED
        BY <2>1, <4>2, <4>3
    <3>2. ASSUME NEW v \in S PROVE G[<<n + 1, v>>] = v \o t
      <4>1. n + 1 \in 1 .. n + 1
        BY <2>1
      <4>2. QED
        BY <2>1, <4>1 DEF ConcatStep
    <3> HIDE DEF F, G
    <3>3. QED
      BY <3>1, <3>2
  <2> HIDE DEF F, G
  <2>6. n + 1 \in Nat /\ n <= n + 1 /\ n \in 0 .. n /\ n \in 0 .. n + 1 /\ n + 1 \in 1 .. n + 1
        /\ (n + 1) - 1 = n
    BY <2>1
  <2>7. f[n] = g[n]
    <3>1. \A k \in 0 .. n : f[k] = g[k]
      <4>1. n \in Nat /\ \A k \in 1 .. n, v \in S : F[<<k, v>>] = G[<<k, v>>]
        BY <2>1, <2>5
      <4>2. QED
        BY <2>4, <2>6, <4>1, IteratesAgree
    <3>2. QED
      BY <2>6, <3>1
  <2>8. g[n + 1] = G[<<n + 1, g[n]>>] /\ g[n] \in S
    BY <2>4, <2>6 DEF Iterates
  <2>9. QED
    BY <2>4, <2>5, <2>7, <2>8 DEF r
<1>6. QED
  BY <1>2, <1>4, <1>5 DEF S

-----------------------------------------------------------------------------
(* What a sequence holds. *)

LEMMA ToSetProperties ==
    ASSUME NEW D
    PROVE  /\ ToSet(<<>>) = {}
           /\ \A s \in Seq(D) : ToSet(s) \subseteq D
           /\ \A s \in Seq(D), x \in D : ToSet(Append(s, x)) = ToSet(s) \cup {x}
           /\ \A s \in Seq(D), t \in Seq(D) : ToSet(s \o t) = ToSet(s) \cup ToSet(t)
<1>1. ToSet(<<>>) = {}
  BY DEF ToSet
<1>2. ASSUME NEW s \in Seq(D) PROVE ToSet(s) \subseteq D
  BY DEF ToSet
<1>3. ASSUME NEW s \in Seq(D), NEW x \in D PROVE ToSet(Append(s, x)) = ToSet(s) \cup {x}
  <2> DEFINE r == Append(s, x)
  <2>1. /\ Len(s) \in Nat /\ DOMAIN s = 1 .. Len(s) /\ DOMAIN r = 1 .. Len(s) + 1
        /\ r[Len(s) + 1] = x /\ \A k \in 1 .. Len(s) : r[k] = s[k]
    BY AppendProperties, LenProperties
  <2> HIDE DEF r
  <2>2. QED
    BY <2>1 DEF ToSet, r
<1>4. ASSUME NEW s \in Seq(D), NEW t \in Seq(D) PROVE ToSet(s \o t) = ToSet(s) \cup ToSet(t)
  <2> DEFINE r == s \o t
  <2>1. /\ Len(s) \in Nat /\ Len(t) \in Nat /\ DOMAIN s = 1 .. Len(s) /\ DOMAIN t = 1 .. Len(t)
        /\ DOMAIN r = 1 .. Len(s) + Len(t)
        /\ \A k \in 1 .. Len(s) + Len(t) : r[k] = IF k <= Len(s) THEN s[k] ELSE t[k - Len(s)]
    BY ConcatProperties, LenProperties
  <2> HIDE DEF r
  <2>2. ASSUME NEW k \in 1 .. Len(t) PROVE t[k] \in ToSet(r)
    <3>1. Len(s) + k \in 1 .. Len(s) + Len(t) /\ ~(Len(s) + k <= Len(s)) /\ (Len(s) + k) - Len(s) = k
      BY <2>1
    <3>2. r[Len(s) + k] = t[k]
      BY <2>1, <3>1
    <3>3. QED
      BY <2>1, <3>1, <3>2 DEF ToSet
  <2>3. ASSUME NEW k \in 1 .. Len(s) PROVE s[k] \in ToSet(r)
    <3>1. k \in 1 .. Len(s) + Len(t) /\ k <= Len(s)
      BY <2>1
    <3>2. QED
      BY <2>1, <3>1 DEF ToSet
  <2>4. ASSUME NEW k \in 1 .. Len(s) + Len(t) PROVE r[k] \in ToSet(s) \cup ToSet(t)
    <3>1. CASE k <= Len(s)
      BY <2>1, <3>1 DEF ToSet
    <3>2. CASE ~(k <= Len(s))
      <4>1. k - Len(s) \in 1 .. Len(t)
        BY <2>1, <3>2
      <4>2. QED
        BY <2>1, <3>2, <4>1 DEF ToSet
    <3>3. QED
      BY <3>1, <3>2
  <2>5. ToSet(s) \subseteq ToSet(r) /\ ToSet(t) \subseteq ToSet(r)
    BY <2>1, <2>2, <2>3 DEF ToSet
  <2>6. ToSet(r) \subseteq ToSet(s) \cup ToSet(t)
    <3> SUFFICES ASSUME NEW y \in ToSet(r) PROVE y \in ToSet(s) \cup ToSet(t)
      OBVIOUS
    <3>1. PICK k \in DOMAIN r : y = r[k]
      BY DEF ToSet
    <3>2. QED
      BY <2>1, <2>4, <3>1
  <2>7. QED
    BY <2>5, <2>6 DEF r
<1>5. QED
  BY <1>1, <1>2, <1>3, <1>4

\* A sequence is one of any set that has all it holds.
LEMMA SeqOfHeld ==
    ASSUME NEW D, NEW s \in Seq(D), NEW E, ToSet(s) \subseteq E
    PROVE  s \in Seq(E)
<1>1. Len(s) \in Nat /\ DOMAIN s = 1 .. Len(s) /\ s = [k \in 1 .. Len(s) |-> s[k]]
  BY LenProperties
<1>2. \A k \in 1 .. Len(s) : s[k] \in E
  BY <1>1 DEF ToSet
<1>3. QED
  BY <1>1, <1>2, SeqDef

\* r is s and t behind it.
IsJoin(r, s, t) ==
    /\ Len(r) = Len(s) + Len(t)
    /\ \A k \in 1 .. Len(s) : r[k] = s[k]
    /\ \A k \in 1 .. Len(t) : r[Len(s) + k] = t[k]

LEMMA JoinIs ==
    ASSUME NEW D, NEW s \in Seq(D), NEW t \in Seq(D)
    PROVE  s \o t \in Seq(D) /\ IsJoin(s \o t, s, t)
<1> DEFINE r == s \o t
           n == Len(s)
           m == Len(t)
<1>1. /\ r \in Seq(D) /\ Len(r) = n + m /\ n \in Nat /\ m \in Nat
      /\ \A k \in 1 .. n + m : r[k] = IF k <= n THEN s[k] ELSE t[k - n]
  BY ConcatProperties, LenProperties
<1> HIDE DEF r, n, m
<1>2. ASSUME NEW k \in 1 .. n PROVE r[k] = s[k]
  BY <1>1
<1>3. ASSUME NEW k \in 1 .. m PROVE r[n + k] = t[k]
  <2>1. n + k \in 1 .. n + m /\ ~(n + k <= n) /\ (n + k) - n = k
    BY <1>1
  <2>2. QED
    BY <1>1, <2>1
<1>4. QED
  BY <1>1, <1>2, <1>3 DEF r, n, m, IsJoin

\* Nothing occurs twice in a sequence and what is appended to it.
LEMMA InjectiveAppend ==
    ASSUME NEW D, NEW s \in Seq(D), NEW x \in D
    PROVE  IsInjective(Append(s, x)) <=> IsInjective(s) /\ x \notin ToSet(s)
<1> DEFINE r == Append(s, x)
<1>1. /\ Len(s) \in Nat /\ DOMAIN s = 1 .. Len(s) /\ DOMAIN r = 1 .. Len(s) + 1
      /\ r[Len(s) + 1] = x /\ \A k \in 1 .. Len(s) : r[k] = s[k]
  BY AppendProperties, LenProperties
<1> HIDE DEF r
<1>2. QED
  BY <1>1 DEF ToSet, IsInjective, r

LEMMA InjectiveConcat ==
    ASSUME NEW D, NEW s \in Seq(D), NEW t \in Seq(D)
    PROVE  IsInjective(s \o t) <=> IsInjective(s) /\ IsInjective(t) /\ ToSet(s) \cap ToSet(t) = {}
<1> DEFINE N(r) == IsInjective(s \o r) <=> IsInjective(s) /\ IsInjective(r) /\ ToSet(s) \cap ToSet(r) = {}
           U == {r \in Seq(D) : N(r)}
<1>1. <<>> \in U
  <2>1. s \o <<>> = s /\ <<>> \in Seq(D)
    OBVIOUS
  <2>2. IsInjective(<<>>)
    BY DEF IsInjective
  <2>3. QED
    BY <2>1, <2>2, ToSetProperties
<1>2. ASSUME NEW r \in Seq(D), NEW x \in D, r \in U PROVE Append(r, x) \in U
  <2>1. s \o Append(r, x) = Append(s \o r, x) /\ s \o r \in Seq(D) /\ Append(r, x) \in Seq(D)
    OBVIOUS
  <2>2. IsInjective(Append(s \o r, x)) <=> IsInjective(s \o r) /\ x \notin ToSet(s \o r)
    BY <2>1, InjectiveAppend
  <2>3. IsInjective(Append(r, x)) <=> IsInjective(r) /\ x \notin ToSet(r)
    BY InjectiveAppend
  <2>4. ToSet(s \o r) = ToSet(s) \cup ToSet(r) /\ ToSet(Append(r, x)) = ToSet(r) \cup {x}
    BY ToSetProperties
  <2>5. QED
    BY <1>2, <2>1, <2>2, <2>3, <2>4
<1> HIDE DEF U
<1>3. Seq(D) \subseteq U
  BY <1>1, <1>2, SequenceInduction
<1>4. QED
  BY <1>3 DEF U

-----------------------------------------------------------------------------
(* Selections. *)

\* What is selected from a sequence is what it holds of the set.
LEMMA AmongElements ==
    ASSUME NEW D, NEW s \in Seq(D), NEW S
    PROVE  ToSet(Among(s, S)) = ToSet(s) \cap S
<1>a. /\ Among(<<>>, S) = <<>>
      /\ \A q \in Seq(D) : Among(q, S) \in Seq(D)
      /\ \A q \in Seq(D), y \in D :
            Among(Append(q, y), S) = IF y \in S THEN Append(Among(q, S), y) ELSE Among(q, S)
  BY AmongProperties
<1> DEFINE U == {r \in Seq(D) : ToSet(Among(r, S)) = ToSet(r) \cap S}
<1>1. <<>> \in U
  BY <1>a, ToSetProperties
<1>2. ASSUME NEW r \in Seq(D), NEW x \in D, r \in U PROVE Append(r, x) \in U
  <2>1. Among(r, S) \in Seq(D) /\ Append(r, x) \in Seq(D)
    BY <1>a
  <2>2. Among(Append(r, x), S) = IF x \in S THEN Append(Among(r, S), x) ELSE Among(r, S)
    BY <1>a
  <2>3. ToSet(Append(r, x)) = ToSet(r) \cup {x}
    BY ToSetProperties
  <2>4. ToSet(Append(Among(r, S), x)) = ToSet(Among(r, S)) \cup {x}
    BY <2>1, ToSetProperties
  <2>5. QED
    BY <1>2, <2>1, <2>2, <2>3, <2>4
<1> HIDE DEF U
<1>3. Seq(D) \subseteq U
  BY <1>1, <1>2, SequenceInduction
<1>4. QED
  BY <1>3 DEF U

\* A selection has nothing twice if the sequence has not.
LEMMA AmongInjective ==
    ASSUME NEW D, NEW s \in Seq(D), NEW S, IsInjective(s)
    PROVE  IsInjective(Among(s, S))
<1>a. /\ Among(<<>>, S) = <<>>
      /\ \A q \in Seq(D) : Among(q, S) \in Seq(D)
      /\ \A q \in Seq(D), y \in D :
            Among(Append(q, y), S) = IF y \in S THEN Append(Among(q, S), y) ELSE Among(q, S)
  BY AmongProperties
<1> DEFINE U == {r \in Seq(D) : IsInjective(r) => IsInjective(Among(r, S))}
<1>1. <<>> \in U
  BY <1>a DEF IsInjective
<1>2. ASSUME NEW r \in Seq(D), NEW x \in D, r \in U PROVE Append(r, x) \in U
  <2>1. Among(r, S) \in Seq(D) /\ Append(r, x) \in Seq(D)
    BY <1>a
  <2>2. Among(Append(r, x), S) = IF x \in S THEN Append(Among(r, S), x) ELSE Among(r, S)
    BY <1>a
  <2>3. IsInjective(Append(r, x)) <=> IsInjective(r) /\ x \notin ToSet(r)
    BY InjectiveAppend
  <2>4. IsInjective(Append(Among(r, S), x)) <=> IsInjective(Among(r, S)) /\ x \notin ToSet(Among(r, S))
    BY <2>1, InjectiveAppend
  <2>5. ToSet(Among(r, S)) = ToSet(r) \cap S
    BY AmongElements
  <2>6. QED
    BY <1>2, <2>1, <2>2, <2>3, <2>4, <2>5
<1> HIDE DEF U
<1>3. Seq(D) \subseteq U
  BY <1>1, <1>2, SequenceInduction
<1>4. QED
  BY <1>3 DEF U

\* Two sets that agree on a sequence select the same from it.
LEMMA AmongAgree ==
    ASSUME NEW D, NEW s \in Seq(D), NEW S, NEW T, \A x \in ToSet(s) : x \in S <=> x \in T
    PROVE  Among(s, S) = Among(s, T)
<1>a. /\ Among(<<>>, S) = <<>>
      /\ \A q \in Seq(D) : Among(q, S) \in Seq(D)
      /\ \A q \in Seq(D), y \in D :
            Among(Append(q, y), S) = IF y \in S THEN Append(Among(q, S), y) ELSE Among(q, S)
  BY AmongProperties
<1>b. /\ Among(<<>>, T) = <<>>
      /\ \A q \in Seq(D) : Among(q, T) \in Seq(D)
      /\ \A q \in Seq(D), y \in D :
            Among(Append(q, y), T) = IF y \in T THEN Append(Among(q, T), y) ELSE Among(q, T)
  BY AmongProperties
<1> DEFINE U == {r \in Seq(D) : (\A x \in ToSet(r) : x \in S <=> x \in T) => Among(r, S) = Among(r, T)}
<1>1. <<>> \in U
  BY <1>a, <1>b
<1>2. ASSUME NEW r \in Seq(D), NEW x \in D, r \in U PROVE Append(r, x) \in U
  <2>1. Append(r, x) \in Seq(D) /\ ToSet(Append(r, x)) = ToSet(r) \cup {x}
    BY ToSetProperties
  <2>2. Among(Append(r, x), S) = IF x \in S THEN Append(Among(r, S), x) ELSE Among(r, S)
    BY <1>a, <1>b
  <2>3. Among(Append(r, x), T) = IF x \in T THEN Append(Among(r, T), x) ELSE Among(r, T)
    BY <1>a, <1>b
  <2>4. ASSUME \A y \in ToSet(Append(r, x)) : y \in S <=> y \in T
        PROVE  Among(Append(r, x), S) = Among(Append(r, x), T)
    <3>1. x \in S <=> x \in T
      BY <2>1, <2>4
    <3>2. Among(r, S) = Among(r, T)
      BY <1>2, <2>1, <2>4
    <3>3. QED
      BY <2>2, <2>3, <3>1, <3>2
  <2>5. QED
    BY <2>1, <2>4
<1> HIDE DEF U
<1>3. Seq(D) \subseteq U
  BY <1>1, <1>2, SequenceInduction
<1>4. QED
  BY <1>3 DEF U

LEMMA AmongNone ==
    ASSUME NEW D, NEW s \in Seq(D), NEW S, ToSet(s) \cap S = {}
    PROVE  Among(s, S) = <<>>
<1>a. /\ Among(<<>>, S) = <<>>
      /\ \A q \in Seq(D) : Among(q, S) \in Seq(D)
      /\ \A q \in Seq(D), y \in D :
            Among(Append(q, y), S) = IF y \in S THEN Append(Among(q, S), y) ELSE Among(q, S)
  BY AmongProperties
<1> DEFINE U == {r \in Seq(D) : ToSet(r) \cap S = {} => Among(r, S) = <<>>}
<1>1. <<>> \in U
  BY <1>a
<1>2. ASSUME NEW r \in Seq(D), NEW x \in D, r \in U PROVE Append(r, x) \in U
  <2>1. Append(r, x) \in Seq(D) /\ ToSet(Append(r, x)) = ToSet(r) \cup {x}
    BY ToSetProperties
  <2>2. Among(Append(r, x), S) = IF x \in S THEN Append(Among(r, S), x) ELSE Among(r, S)
    BY <1>a
  <2>3. QED
    BY <1>2, <2>1, <2>2
<1> HIDE DEF U
<1>3. Seq(D) \subseteq U
  BY <1>1, <1>2, SequenceInduction
<1>4. QED
  BY <1>3 DEF U

\* Selecting twice.
LEMMA AmongTwice ==
    ASSUME NEW D, NEW s \in Seq(D), NEW S, NEW T
    PROVE  Among(Among(s, S), T) = Among(s, S \cap T)
<1>a. /\ Among(<<>>, S) = <<>>
      /\ \A q \in Seq(D) : Among(q, S) \in Seq(D)
      /\ \A q \in Seq(D), y \in D :
            Among(Append(q, y), S) = IF y \in S THEN Append(Among(q, S), y) ELSE Among(q, S)
  BY AmongProperties
<1>b. /\ Among(<<>>, T) = <<>>
      /\ \A q \in Seq(D) : Among(q, T) \in Seq(D)
      /\ \A q \in Seq(D), y \in D :
            Among(Append(q, y), T) = IF y \in T THEN Append(Among(q, T), y) ELSE Among(q, T)
  BY AmongProperties
<1>c. /\ Among(<<>>, S \cap T) = <<>>
      /\ \A q \in Seq(D) : Among(q, S \cap T) \in Seq(D)
      /\ \A q \in Seq(D), y \in D :
            Among(Append(q, y), S \cap T)
                = IF y \in S \cap T THEN Append(Among(q, S \cap T), y) ELSE Among(q, S \cap T)
  BY AmongProperties
<1> DEFINE U == {r \in Seq(D) : Among(Among(r, S), T) = Among(r, S \cap T)}
<1>1. <<>> \in U
  BY <1>a, <1>b, <1>c
<1>2. ASSUME NEW r \in Seq(D), NEW x \in D, r \in U PROVE Append(r, x) \in U
  <2>1. Append(r, x) \in Seq(D) /\ Among(r, S) \in Seq(D)
    BY <1>a, <1>b, <1>c
  <2>2. Among(Append(r, x), S) = IF x \in S THEN Append(Among(r, S), x) ELSE Among(r, S)
    BY <1>a, <1>b, <1>c
  <2>3. Among(Append(r, x), S \cap T)
            = IF x \in S \cap T THEN Append(Among(r, S \cap T), x) ELSE Among(r, S \cap T)
    BY <1>a, <1>b, <1>c
  <2>4. Among(Append(Among(r, S), x), T)
            = IF x \in T THEN Append(Among(Among(r, S), T), x) ELSE Among(Among(r, S), T)
    BY <2>1, <1>a, <1>b, <1>c
  <2>5. Among(Among(r, S), T) = Among(r, S \cap T)
    BY <1>2
  <2>6. Among(Among(Append(r, x), S), T) = Among(Append(r, x), S \cap T)
    <3>1. CASE x \in S /\ x \in T
      <4>1. Among(Append(r, x), S \cap T) = Append(Among(r, S \cap T), x)
        BY <2>3, <3>1
      <4>2. Among(Among(Append(r, x), S), T) = Append(Among(Among(r, S), T), x)
        BY <2>2, <2>4, <3>1
      <4>3. QED
        BY <2>5, <4>1, <4>2
    <3>2. CASE x \in S /\ x \notin T
      BY <2>2, <2>3, <2>4, <2>5, <3>2
    <3>3. CASE x \notin S
      BY <2>2, <2>3, <2>5, <3>3
    <3>4. QED
      BY <3>1, <3>2, <3>3
  <2>7. QED
    BY <2>1, <2>6
<1> HIDE DEF U
<1>3. Seq(D) \subseteq U
  BY <1>1, <1>2, SequenceInduction
<1>4. QED
  BY <1>3 DEF U

-----------------------------------------------------------------------------
(* Images. *)

\* f of each element of s.
Each(f, s) == [k \in DOMAIN s |-> f[s[k]]]

LEMMA EachEmpty == ASSUME NEW f PROVE Each(f, <<>>) = <<>>
  BY DEF Each

LEMMA EachLen ==
    ASSUME NEW D, NEW f, NEW s \in Seq(D)
    PROVE  Len(Each(f, s)) = Len(s) /\ DOMAIN Each(f, s) = 1 .. Len(s)
<1>1. Len(s) \in Nat /\ DOMAIN s = 1 .. Len(s)
  BY LenProperties
<1>2. DOMAIN Each(f, s) = 1 .. Len(s)
  BY <1>1 DEF Each
<1>3. QED
  BY <1>1, <1>2

LEMMA EachType ==
    ASSUME NEW D, NEW R, NEW f \in [D -> R], NEW s \in Seq(D)
    PROVE  Each(f, s) \in Seq(R)
<1>1. Len(s) \in Nat /\ DOMAIN s = 1 .. Len(s) /\ \A k \in 1 .. Len(s) : s[k] \in D
  BY LenProperties
<1>2. Each(f, s) \in [1 .. Len(s) -> R]
  BY <1>1 DEF Each
<1>3. QED
  BY <1>1, <1>2, SeqDef

LEMMA EachAppend ==
    ASSUME NEW D, NEW R, NEW f \in [D -> R], NEW s \in Seq(D), NEW x \in D
    PROVE  Each(f, Append(s, x)) = Append(Each(f, s), f[x])
<1> DEFINE r == Append(s, x)
           e == Each(f, s)
           a == Append(e, f[x])
<1>1. /\ Len(s) \in Nat /\ DOMAIN s = 1 .. Len(s) /\ DOMAIN r = 1 .. Len(s) + 1
      /\ r[Len(s) + 1] = x /\ \A k \in 1 .. Len(s) : r[k] = s[k]
  BY AppendProperties, LenProperties
<1>2. e \in Seq(R) /\ Len(e) = Len(s) /\ f[x] \in R /\ \A k \in 1 .. Len(s) : e[k] = f[s[k]]
  BY EachLen, EachType, <1>1 DEF Each
<1> HIDE DEF r, e
<1>3. /\ a \in Seq(R) /\ DOMAIN a = 1 .. Len(s) + 1
      /\ a[Len(s) + 1] = f[x] /\ \A k \in 1 .. Len(s) : a[k] = e[k]
  BY <1>1, <1>2, AppendProperties, LenProperties
<1> HIDE DEF a
<1>4. \A k \in 1 .. Len(s) + 1 : a[k] = f[r[k]]
  BY <1>1, <1>2, <1>3
<1>5. a = [k \in 1 .. Len(s) + 1 |-> a[k]]
  BY <1>3
<1>6. Each(f, r) = [k \in 1 .. Len(s) + 1 |-> f[r[k]]]
  BY <1>1 DEF Each
<1>7. QED
  BY <1>4, <1>5, <1>6 DEF a, r, e

LEMMA EachConcat ==
    ASSUME NEW f, NEW D, NEW s \in Seq(D), NEW t \in Seq(D)
    PROVE  Each(f, s \o t) = Each(f, s) \o Each(f, t)
<1> DEFINE R == {f[x] : x \in D}
           g == [x \in D |-> f[x]]
<1>1. g \in [D -> R]
  OBVIOUS
<1>2. ASSUME NEW r \in Seq(D) PROVE Each(g, r) = Each(f, r)
  <2>1. \A k \in DOMAIN r : r[k] \in D
    BY LenProperties
  <2>2. \A k \in DOMAIN r : g[r[k]] = f[r[k]]
    BY <2>1
  <2> HIDE DEF g
  <2>3. QED
    BY <2>2 DEF Each
<1> HIDE DEF g, R
<1> DEFINE U == {r \in Seq(D) : Each(g, s \o r) = Each(g, s) \o Each(g, r)}
<1>3. <<>> \in U
  <2>1. s \o <<>> = s
    OBVIOUS
  <2>2. Each(g, s) \in Seq(R) /\ <<>> \in Seq(D)
    BY <1>1, EachType
  <2>3. Each(g, s) \o <<>> = Each(g, s)
    BY <2>2
  <2>4. QED
    BY EachEmpty, <2>1, <2>2, <2>3
<1>4. ASSUME NEW r \in Seq(D), NEW x \in D, r \in U PROVE Append(r, x) \in U
  <2>1. s \o Append(r, x) = Append(s \o r, x) /\ s \o r \in Seq(D) /\ Append(r, x) \in Seq(D)
    OBVIOUS
  <2>2. Each(g, s) \in Seq(R) /\ Each(g, r) \in Seq(R) /\ g[x] \in R
    BY <1>1, EachType
  <2>3. Each(g, s) \o Append(Each(g, r), g[x]) = Append(Each(g, s) \o Each(g, r), g[x])
    BY <2>2
  <2>4. Each(g, Append(s \o r, x)) = Append(Each(g, s \o r), g[x])
    BY <1>1, EachAppend, <2>1
  <2>5. Each(g, Append(r, x)) = Append(Each(g, r), g[x])
    BY <1>1, EachAppend
  <2>6. QED
    BY <1>4, <2>1, <2>3, <2>4, <2>5
<1> HIDE DEF U
<1>5. Seq(D) \subseteq U
  BY <1>3, <1>4, SequenceInduction
<1>6. Each(g, s \o t) = Each(g, s) \o Each(g, t)
  BY <1>5 DEF U
<1>7. s \o t \in Seq(D)
  OBVIOUS
<1>8. QED
  BY <1>2, <1>6, <1>7

\* A selection from two sequences, one behind the other.
LEMMA AmongConcat ==
    ASSUME NEW D, NEW s \in Seq(D), NEW t \in Seq(D), NEW S
    PROVE  Among(s \o t, S) = Among(s, S) \o Among(t, S)
<1>a. /\ Among(<<>>, S) = <<>>
      /\ \A q \in Seq(D) : Among(q, S) \in Seq(D)
      /\ \A q \in Seq(D), y \in D :
            Among(Append(q, y), S) = IF y \in S THEN Append(Among(q, S), y) ELSE Among(q, S)
  BY AmongProperties
<1> DEFINE U == {r \in Seq(D) : Among(s \o r, S) = Among(s, S) \o Among(r, S)}
<1>1. <<>> \in U
  <2>1. s \o <<>> = s /\ <<>> \in Seq(D)
    OBVIOUS
  <2>2. Among(s, S) \in Seq(D)
    BY <1>a
  <2>3. Among(s, S) \o <<>> = Among(s, S)
    BY <2>2
  <2>4. QED
    BY <1>a, <2>1, <2>3
<1>2. ASSUME NEW r \in Seq(D), NEW x \in D, r \in U PROVE Append(r, x) \in U
  <2>1. s \o Append(r, x) = Append(s \o r, x) /\ s \o r \in Seq(D) /\ Append(r, x) \in Seq(D)
    OBVIOUS
  <2>2. Among(s, S) \in Seq(D) /\ Among(r, S) \in Seq(D)
    BY <1>a
  <2>3. Among(s, S) \o Append(Among(r, S), x) = Append(Among(s, S) \o Among(r, S), x)
    BY <2>2
  <2>4. Among(Append(s \o r, x), S)
            = IF x \in S THEN Append(Among(s \o r, S), x) ELSE Among(s \o r, S)
    BY <1>a, <2>1
  <2>5. Among(Append(r, x), S) = IF x \in S THEN Append(Among(r, S), x) ELSE Among(r, S)
    BY <1>a
  <2>6. Among(s \o r, S) = Among(s, S) \o Among(r, S)
    BY <1>2
  <2>7. Among(s \o Append(r, x), S) = Among(s, S) \o Among(Append(r, x), S)
    <3>1. CASE x \in S
      <4>1. Among(Append(s \o r, x), S) = Append(Among(s \o r, S), x)
        BY <2>4, <3>1
      <4>2. Among(Append(r, x), S) = Append(Among(r, S), x)
        BY <2>5, <3>1
      <4>3. QED
        BY <2>1, <2>3, <2>6, <4>1, <4>2
    <3>2. CASE x \notin S
      BY <2>1, <2>4, <2>5, <2>6, <3>2
    <3>3. QED
      BY <3>1, <3>2
  <2>8. QED
    BY <2>1, <2>7
<1> HIDE DEF U
<1>3. Seq(D) \subseteq U
  BY <1>1, <1>2, SequenceInduction
<1>4. QED
  BY <1>3 DEF U

LEMMA AmongAll ==
    ASSUME NEW D, NEW s \in Seq(D), NEW S, ToSet(s) \subseteq S
    PROVE  Among(s, S) = s
<1>a. /\ Among(<<>>, S) = <<>>
      /\ \A q \in Seq(D) : Among(q, S) \in Seq(D)
      /\ \A q \in Seq(D), y \in D :
            Among(Append(q, y), S) = IF y \in S THEN Append(Among(q, S), y) ELSE Among(q, S)
  BY AmongProperties
<1> DEFINE U == {r \in Seq(D) : ToSet(r) \subseteq S => Among(r, S) = r}
<1>1. <<>> \in U
  BY <1>a
<1>2. ASSUME NEW r \in Seq(D), NEW x \in D, r \in U PROVE Append(r, x) \in U
  <2>1. Append(r, x) \in Seq(D) /\ ToSet(Append(r, x)) = ToSet(r) \cup {x}
    BY ToSetProperties
  <2>2. Among(Append(r, x), S) = IF x \in S THEN Append(Among(r, S), x) ELSE Among(r, S)
    BY <1>a
  <2>3. QED
    BY <1>2, <2>1, <2>2
<1> HIDE DEF U
<1>3. Seq(D) \subseteq U
  BY <1>1, <1>2, SequenceInduction
<1>4. QED
  BY <1>3 DEF U

-----------------------------------------------------------------------------
(* Concatenations of images. *)

\* What keeps concatenations may be taken of each sequence before or of all after.
LEMMA FlattenEach ==
    ASSUME NEW D, NEW R, NEW g \in [Seq(D) -> Seq(R)], g[<<>>] = <<>>,
           \A s \in Seq(D), t \in Seq(D) : g[s \o t] = g[s] \o g[t],
           NEW ss \in Seq(Seq(D))
    PROVE  g[FlattenSeq(ss)] = FlattenSeq(Each(g, ss))
<1> DEFINE S == Seq(D)
           T == Seq(R)
           U == {r \in Seq(S) : g[FlattenSeq(r)] = FlattenSeq(Each(g, r))}
<1>a. /\ FlattenSeq(<<>>) = <<>>
      /\ \A q \in Seq(S) : FlattenSeq(q) \in S
      /\ \A q \in Seq(S), t \in S : FlattenSeq(Append(q, t)) = FlattenSeq(q) \o t
  BY FlattenProperties
<1>b. \A q \in Seq(T), t \in T : FlattenSeq(Append(q, t)) = FlattenSeq(q) \o t
  BY FlattenProperties
<1>c. g \in [S -> T]
  OBVIOUS
<1>d. \A s \in S, t \in S : g[s \o t] = g[s] \o g[t]
  OBVIOUS
<1> HIDE DEF S, T
<1>1. <<>> \in U
  <2>1. <<>> \in Seq(S)
    OBVIOUS
  <2>2. QED
    BY <1>a, <2>1, EachEmpty
<1>2. ASSUME NEW r \in Seq(S), NEW x \in S, r \in U PROVE Append(r, x) \in U
  <2>1. Append(r, x) \in Seq(S)
    OBVIOUS
  <2>2. Each(g, r) \in Seq(T) /\ g[x] \in T
    BY <1>c, EachType
  <2>3. Each(g, Append(r, x)) = Append(Each(g, r), g[x])
    BY <1>c, EachAppend
  <2>4. FlattenSeq(Each(g, Append(r, x))) = FlattenSeq(Each(g, r)) \o g[x]
    BY <1>b, <2>2, <2>3
  <2>5. g[FlattenSeq(Append(r, x))] = g[FlattenSeq(r)] \o g[x]
    BY <1>a, <1>d
  <2>6. QED
    BY <1>2, <2>1, <2>4, <2>5
<1> HIDE DEF U
<1>3. Seq(S) \subseteq U
  BY <1>1, <1>2, SequenceInduction
<1>4. QED
  BY <1>3 DEF U, S

\* What holds of every part, and of what is joined of two of which it holds, holds
\* of the whole.
LEMMA FlattenClosed ==
    ASSUME NEW D, NEW A \in SUBSET Seq(D), <<>> \in A,
           \A s \in A, t \in A : s \o t \in A,
           NEW ss \in Seq(A)
    PROVE  FlattenSeq(ss) \in A
<1>1. FlattenSeq(<<>>) = <<>> /\ \A r \in Seq(Seq(D)), t \in Seq(D) : FlattenSeq(Append(r, t)) = FlattenSeq(r) \o t
  BY FlattenProperties
<1>2. \A r \in Seq(A) : r \in Seq(Seq(D))
  <2> SUFFICES ASSUME NEW r \in Seq(A) PROVE r \in Seq(Seq(D))
    OBVIOUS
  <2>1. ToSet(r) \subseteq Seq(D)
    <3>1. ToSet(r) \subseteq A
      BY ToSetProperties
    <3>2. QED
      BY <3>1
  <2>2. QED
    BY <2>1, SeqOfHeld
<1> DEFINE U == {r \in Seq(A) : FlattenSeq(r) \in A}
<1>3. <<>> \in U
  BY <1>1
<1>4. ASSUME NEW r \in Seq(A), NEW t \in A, r \in U PROVE Append(r, t) \in U
  <2>1. FlattenSeq(Append(r, t)) = FlattenSeq(r) \o t
    BY <1>1, <1>2
  <2>2. FlattenSeq(r) \in A /\ Append(r, t) \in Seq(A)
    BY <1>4
  <2>3. QED
    BY <2>1, <2>2
<1> HIDE DEF U
<1>5. Seq(A) \subseteq U
  BY <1>3, <1>4, SequenceInduction
<1>6. QED
  BY <1>5 DEF U

\* Sequences of one element each.
LEMMA FlattenSingles ==
    ASSUME NEW D, NEW s \in Seq(D)
    PROVE  FlattenSeq([k \in DOMAIN s |-> <<s[k]>>]) = s
<1> DEFINE S == Seq(D)
           g == [x \in D |-> <<x>>]
           U == {r \in Seq(D) : FlattenSeq(Each(g, r)) = r}
<1>a. /\ FlattenSeq(<<>>) = <<>>
      /\ \A q \in Seq(S), t \in S : FlattenSeq(Append(q, t)) = FlattenSeq(q) \o t
  BY FlattenProperties
<1>b. g \in [D -> S]
  OBVIOUS
<1>c. \A x \in D : g[x] = <<x>>
  OBVIOUS
<1> HIDE DEF S, g
<1>1. <<>> \in U
  BY <1>a, EachEmpty
<1>2. ASSUME NEW r \in Seq(D), NEW x \in D, r \in U PROVE Append(r, x) \in U
  <2>1. Each(g, r) \in Seq(S) /\ g[x] \in S
    BY <1>b, EachType
  <2>2. Each(g, Append(r, x)) = Append(Each(g, r), g[x])
    BY <1>b, EachAppend
  <2>3. FlattenSeq(Each(g, Append(r, x))) = FlattenSeq(Each(g, r)) \o <<x>>
    BY <1>a, <1>c, <2>1, <2>2
  <2>4. Append(r, x) \in Seq(D) /\ Append(r, x) = r \o <<x>>
    OBVIOUS
  <2>5. QED
    BY <1>2, <2>3, <2>4
<1> HIDE DEF U
<1>3. Seq(D) \subseteq U
  BY <1>1, <1>2, SequenceInduction
<1>4. FlattenSeq(Each(g, s)) = s
  BY <1>3 DEF U
<1>5. Each(g, s) = [k \in DOMAIN s |-> <<s[k]>>]
  <2>1. \A k \in DOMAIN s : s[k] \in D
    BY LenProperties
  <2>2. \A k \in DOMAIN s : g[s[k]] = <<s[k]>>
    BY <1>c, <2>1
  <2>3. QED
    BY <2>2 DEF Each
<1>6. QED
  BY <1>4, <1>5

\* The beginning of a sequence and its next element.
LEMMA FirstAndNext ==
    ASSUME NEW D, NEW s \in Seq(D), NEW n \in Nat, n < Len(s)
    PROVE  /\ SubSeq(s, 1, n + 1) = Append(SubSeq(s, 1, n), s[n + 1])
           /\ SubSeq(s, 1, n) \in Seq(D) /\ s[n + 1] \in D
<1>1. Len(s) \in Nat /\ 1 \in 1 .. Len(s) /\ n + 1 \in 1 .. Len(s) /\ (n + 1) - 1 = n
  BY LenProperties
<1>2. SubSeq(s, 1, n + 1) = SubSeq(s, 1, n) \o <<s[n + 1]>>
  BY <1>1, SubSeqRecursiveSecond
<1>3. SubSeq(s, 1, n) \in Seq(D) /\ s[n + 1] \in D
  BY <1>1, LenProperties
<1>4. QED
  BY <1>2, <1>3
=============================================================================
