---------------------------- MODULE ResultsProofs ----------------------------
(***************************************************************************)
(* What WalltimeStats and Statistics compute is what it is called, for any *)
(* number of rounds, threads and repetitions, and any values of them; and  *)
(* the URIs of BenchmarkUri are those of one benchmark each.               *)
(***************************************************************************)
EXTENDS Statistics, FoldLemmas

-----------------------------------------------------------------------------
(* The order of fractions. *)

\* A number is its whole part and what is left of it.
LEMMA Division ==
    ASSUME NEW a \in Nat, NEW b \in Nat \ {0}
    PROVE  /\ a \div b \in Nat /\ a % b \in Nat /\ a % b < b
           /\ a = (a \div b) * b + (a % b)
OBVIOUS

\* How Less takes a step.
LEMMA LessStep ==
    ASSUME NEW a \in Nat, NEW b \in Nat \ {0}, NEW c \in Nat, NEW d \in Nat \ {0}
    PROVE  a * d < c * b <=> IF a \div b # c \div d THEN a \div b < c \div d
                             ELSE c % d # 0 /\ (a % b = 0 \/ d * (a % b) < b * (c % d))
<1> DEFINE x == a \div b
           r == a % b
           y == c \div d
           s == c % d
<1>1. x \in Nat /\ r \in Nat /\ r < b /\ a = x * b + r
  BY Division
<1>2. y \in Nat /\ s \in Nat /\ s < d /\ c = y * d + s
  BY Division
<1> HIDE DEF x, r, y, s
<1> DEFINE k == b * d
           u == r * d
           v == s * b
<1>3. k \in Nat /\ k > 0 /\ u \in Nat /\ v \in Nat
  BY <1>1, <1>2
<1>4. u < k
  BY <1>1
<1>5. v < k
  BY <1>2
<1>6. a * d = x * k + u /\ c * b = y * k + v
  BY <1>1, <1>2
<1>7. (u = 0 <=> r = 0) /\ (v = 0 <=> s = 0) /\ d * r = u /\ b * s = v
  BY <1>1, <1>2
<1> HIDE DEF k, u, v
<1>8. CASE x = y
  BY <1>1, <1>2, <1>3, <1>6, <1>7, <1>8 DEF x, y, r, s
<1>9. CASE x < y
  <2>1. x * k + k <= y * k
    BY <1>1, <1>2, <1>3, <1>9
  <2>2. x * k \in Int /\ y * k \in Int
    BY <1>1, <1>2, <1>3
  <2>3. a * d < c * b
    BY <1>3, <1>4, <1>6, <2>1, <2>2
  <2>4. QED
    BY <1>1, <1>2, <1>9, <2>3 DEF x, y
<1>10. CASE y < x
  <2>1. y * k + k <= x * k
    BY <1>1, <1>2, <1>3, <1>10
  <2>2. x * k \in Int /\ y * k \in Int
    BY <1>1, <1>2, <1>3
  <2>3. ~(a * d < c * b)
    BY <1>3, <1>5, <1>6, <2>1, <2>2
  <2>4. QED
    BY <1>1, <1>2, <1>10, <2>3 DEF x, y
<1>11. QED
  BY <1>1, <1>2, <1>8, <1>9, <1>10

\* Less is the order of fractions.
LEMMA LessIs ==
    ASSUME NEW p \in Fractions, NEW q \in Fractions
    PROVE  Less(p, q) <=> p[1] * q[2] < q[1] * p[2]
<1> DEFINE Pairs == Fractions \X Fractions
           left(f) == <<f[2], f[1] % f[2]>>
           F(less, f, g) == IF f[1] \div f[2] # g[1] \div g[2] THEN f[1] \div f[2] < g[1] \div g[2]
                            ELSE g[1] % g[2] # 0 /\ (f[1] % f[2] = 0 \/ less[<<left(g), left(f)>>])
           Is(less) == less = [pair \in Pairs |-> F(less, pair[1], pair[2])]
           cross == [pair \in Pairs |-> pair[1][1] * pair[2][2] < pair[2][1] * pair[1][2]]
<1>1. Less(p, q) = (CHOOSE less : Is(less))[<<p, q>>]
  BY DEF Less
<1>2. ASSUME NEW f \in Fractions, NEW g \in Fractions
      PROVE  /\ <<f, g>> \in Pairs
             /\ f[1] \in Nat /\ f[2] \in Nat \ {0} /\ g[1] \in Nat /\ g[2] \in Nat \ {0}
             /\ g[1] % g[2] # 0 /\ f[1] % f[2] # 0 => <<left(g), left(f)>> \in Pairs
             /\ f[1] % f[2] \in Nat /\ f[1] % f[2] < f[2] /\ g[1] % g[2] \in Nat /\ g[1] % g[2] < g[2]
             /\ cross[<<f, g>>] = (f[1] * g[2] < g[1] * f[2])
             /\ cross[<<f, g>>] = F(cross, f, g)
  <2>1. f[1] \in Nat /\ f[2] \in Nat \ {0} /\ g[1] \in Nat /\ g[2] \in Nat \ {0} /\ <<f, g>> \in Pairs
    BY DEF Fractions
  <2>2. f[1] % f[2] \in Nat /\ f[1] % f[2] < f[2] /\ g[1] % g[2] \in Nat /\ g[1] % g[2] < g[2]
    BY <2>1, Division
  <2>3. cross[<<f, g>>] = (f[1] * g[2] < g[1] * f[2])
    BY <2>1
  <2>4. ASSUME g[1] % g[2] # 0, f[1] % f[2] # 0
        PROVE  /\ <<left(g), left(f)>> \in Pairs
               /\ cross[<<left(g), left(f)>>] = (g[2] * (f[1] % f[2]) < f[2] * (g[1] % g[2]))
    <3> DEFINE l == left(g)
               m == left(f)
    <3>1. l \in Fractions /\ m \in Fractions
      BY <2>1, <2>2, <2>4 DEF Fractions
    <3>2. l[1] = g[2] /\ l[2] = g[1] % g[2] /\ m[1] = f[2] /\ m[2] = f[1] % f[2]
      OBVIOUS
    <3> HIDE DEF l, m
    <3>3. <<l, m>> \in Pairs /\ cross[<<l, m>>] = (l[1] * m[2] < m[1] * l[2])
      BY <3>1
    <3>4. QED
      BY <3>2, <3>3 DEF l, m
  <2>5. f[1] * g[2] < g[1] * f[2] <=>
            IF f[1] \div f[2] # g[1] \div g[2] THEN f[1] \div f[2] < g[1] \div g[2]
            ELSE g[1] % g[2] # 0 /\ (f[1] % f[2] = 0 \/ g[2] * (f[1] % f[2]) < f[2] * (g[1] % g[2]))
    <3> DEFINE a == f[1]
               b == f[2]
               c == g[1]
               d == g[2]
    <3> HIDE DEF a, b, c, d, cross, Pairs, F
    <3>1. a \in Nat /\ b \in Nat \ {0} /\ c \in Nat /\ d \in Nat \ {0}
      BY <2>1 DEF a, b, c, d
    <3>2. a * d < c * b <=> IF a \div b # c \div d THEN a \div b < c \div d
                            ELSE c % d # 0 /\ (a % b = 0 \/ d * (a % b) < b * (c % d))
      BY <3>1, LessStep
    <3>3. QED
      BY <3>2 DEF a, b, c, d
  <2> HIDE DEF cross, Pairs
  <2>6. cross[<<f, g>>] = F(cross, f, g)
    <3> DEFINE next == g[2] * (f[1] % f[2]) < f[2] * (g[1] % g[2])
    <3>1. g[1] % g[2] # 0 /\ f[1] % f[2] # 0 => cross[<<left(g), left(f)>>] = next
      BY <2>4
    <3>2. next \in BOOLEAN /\ F(cross, f, g) \in BOOLEAN /\ cross[<<f, g>>] \in BOOLEAN
      <4>1. next \in BOOLEAN
        OBVIOUS
      <4>2. cross[<<f, g>>] \in BOOLEAN
        BY <2>3
      <4>3. F(cross, f, g) \in BOOLEAN
        <5> DEFINE P == f[1] \div f[2] < g[1] \div g[2]
                   Q == g[1] % g[2] # 0 /\ (f[1] % f[2] = 0 \/ cross[<<left(g), left(f)>>])
        <5>1. P \in BOOLEAN /\ Q \in BOOLEAN
          OBVIOUS
        <5>2. F(cross, f, g) = IF f[1] \div f[2] # g[1] \div g[2] THEN P ELSE Q
          OBVIOUS
        <5> HIDE DEF P, Q, F
        <5>3. QED
          BY <5>1, <5>2
      <4>4. QED
        BY <4>1, <4>2, <4>3
    <3> HIDE DEF next
    <3>3. CASE f[1] \div f[2] # g[1] \div g[2]
      BY <2>3, <2>5, <3>2, <3>3
    <3>4. CASE f[1] \div f[2] = g[1] \div g[2] /\ (g[1] % g[2] = 0 \/ f[1] % f[2] = 0)
      BY <2>3, <2>5, <3>2, <3>4
    <3>5. CASE f[1] \div f[2] = g[1] \div g[2] /\ g[1] % g[2] # 0 /\ f[1] % f[2] # 0
      <4>1. cross[<<f, g>>] <=> next
        BY <2>3, <2>5, <3>5 DEF next
      <4>2. F(cross, f, g) <=> next
        BY <3>1, <3>2, <3>5
      <4>3. QED
        BY <3>2, <4>1, <4>2
    <3>6. QED
      BY <3>3, <3>4, <3>5
  <2>7. QED
    BY <2>1, <2>2, <2>3, <2>4, <2>6
<1>3. Is(cross)
  <2>1. \A pair \in Pairs : cross[pair] = F(cross, pair[1], pair[2])
    <3> TAKE pair \in Pairs
    <3>1. pair[1] \in Fractions /\ pair[2] \in Fractions /\ pair = <<pair[1], pair[2]>>
      OBVIOUS
    <3> DEFINE f == pair[1]
               g == pair[2]
    <3> HIDE DEF cross, Pairs, F, f, g
    <3>2. f \in Fractions /\ g \in Fractions /\ pair = <<f, g>>
      BY <3>1 DEF f, g
    <3>3. cross[<<f, g>>] = F(cross, f, g)
      BY <1>2, <3>2
    <3>4. QED
      BY <3>2, <3>3 DEF f, g
  <2>2. QED
    BY <2>1
<1> DEFINE h == CHOOSE less : Is(less)
<1>4. Is(h)
  BY <1>3
<1> HIDE DEF h
<1> DEFINE N == {n \in Nat : \A f, g \in Fractions : f[2] + g[2] <= n => h[<<f, g>>] = cross[<<f, g>>]}
<1>5. 0 \in N
  <2>1. \A f, g \in Fractions : f[2] + g[2] \in Nat \ {0}
    BY DEF Fractions
  <2> HIDE DEF cross
  <2>2. QED
    BY <2>1
<1>6. ASSUME NEW n \in Nat, n \in N PROVE n + 1 \in N
  <2> SUFFICES ASSUME NEW f \in Fractions, NEW g \in Fractions, f[2] + g[2] <= n + 1
               PROVE  h[<<f, g>>] = cross[<<f, g>>]
    <3> HIDE DEF cross, Is
    <3>1. QED
      OBVIOUS
  <2>1. h[<<f, g>>] = F(h, f, g)
    <3> DEFINE pair == <<f, g>>
    <3>1. pair \in Pairs /\ pair[1] = f /\ pair[2] = g
      BY <1>2
    <3> HIDE DEF pair, Pairs, F
    <3>2. h[pair] = F(h, pair[1], pair[2])
      BY <1>4, <3>1
    <3>3. QED
      BY <3>1, <3>2 DEF pair
  <2>2. g[1] % g[2] # 0 /\ f[1] % f[2] # 0 => h[<<left(g), left(f)>>] = cross[<<left(g), left(f)>>]
    <3> SUFFICES ASSUME g[1] % g[2] # 0, f[1] % f[2] # 0
                 PROVE  h[<<left(g), left(f)>>] = cross[<<left(g), left(f)>>]
      OBVIOUS
    <3> DEFINE l == left(g)
               m == left(f)
    <3>1. l \in Fractions /\ m \in Fractions /\ l[2] + m[2] <= n
      BY <1>2 DEF Fractions
    <3> HIDE DEF l, m, cross, F
    <3>2. h[<<l, m>>] = cross[<<l, m>>]
      BY <1>6, <3>1
    <3>3. QED
      BY <3>2 DEF l, m
  <2>3. cross[<<f, g>>] = F(cross, f, g)
    BY <1>2
  <2> HIDE DEF cross, Is, N
  <2>4. QED
    BY <2>1, <2>2, <2>3
<1> HIDE DEF N
<1>7. Nat \subseteq N
  BY <1>5, <1>6, NatInductionSet
<1>8. p[2] + q[2] \in Nat
  BY DEF Fractions
<1>9. h[<<p, q>>] = cross[<<p, q>>]
  <2> HIDE DEF cross
  <2>1. QED
    BY <1>7, <1>8 DEF N
<1>10. cross[<<p, q>>] <=> p[1] * q[2] < q[1] * p[2]
  BY <1>2
<1>11. QED
  <2> HIDE DEF cross, Is
  <2>1. Less(p, q) = h[<<p, q>>]
    BY <1>1 DEF h
  <2>2. QED
    BY <1>9, <1>10, <2>1

-----------------------------------------------------------------------------
(* Sequences in order. *)

\* One of finitely many numbers is the greatest.
LEMMA Greatest ==
    ASSUME NEW S, IsFiniteSet(S), NEW f, \A x \in S : f[x] \in Nat, NEW T \in SUBSET S, T # {}
    PROVE  \E m \in T : \A x \in T : f[x] <= f[m]
<1> DEFINE U == {t \in SUBSET S : t = {} \/ \E m \in t : \A x \in t : f[x] <= f[m]}
<1>1. {} \in U
  OBVIOUS
<1>2. ASSUME NEW t \in SUBSET S, NEW y \in S, t \in U, y \notin t PROVE t \cup {y} \in U
  <2>1. CASE t = {}
    BY <2>1
  <2>2. CASE t # {}
    <3>1. PICK m \in t : \A x \in t : f[x] <= f[m]
      BY <1>2, <2>2
    <3>2. CASE f[y] <= f[m]
      BY <3>1, <3>2
    <3>3. CASE ~(f[y] <= f[m])
      <4>1. \A x \in t \cup {y} : f[x] <= f[y]
        BY <3>1, <3>3
      <4>2. QED
        BY <4>1
    <3>4. QED
      BY <3>2, <3>3
  <2>3. QED
    BY <2>1, <2>2
<1> HIDE DEF U
<1>3. SUBSET S \subseteq U
  BY <1>1, <1>2, SubsetInduction
<1>4. QED
  BY <1>3 DEF U

\* The least of a set.
LEMMA MinOf ==
    ASSUME NEW S \in SUBSET Nat, S # {}
    PROVE  Min(S) \in S /\ \A x \in S : Min(S) <= x
<1>1. PICK n \in S : \A x \in S : n <= x
  BY NatLeast
<1>2. QED
  BY <1>1 DEF Min

\* How many of a sequence are less, and how many are not more.
Below(s, x) == {i \in DOMAIN s : s[i] < x}
UpTo(s, x) == {i \in DOMAIN s : s[i] <= x}

\* InOrder is in order, and holds the k-th at k: less than k are less than it,
\* and k or more are not more.
LEMMA InOrderIs ==
    ASSUME NEW n \in Nat, NEW s \in [1 .. n -> Nat]
    PROVE  LET r == InOrder(s)
           IN  /\ r \in [1 .. n -> Nat]
               /\ \A k \in 1 .. n : Cardinality(Below(s, r[k])) < k /\ Cardinality(UpTo(s, r[k])) >= k
               /\ \A j, k \in 1 .. n : j <= k => r[j] <= r[k]
<1> DEFINE I == 1 .. n
           V == {s[i] : i \in I}
           rank == [x \in V |-> Cardinality(UpTo(s, x))]
           X(k) == {x \in V : rank[x] >= k}
           r == InOrder(s)
<1>1. IsFiniteSet(I) /\ Cardinality(I) = n /\ DOMAIN s = I
  BY FS_Interval
<1>2. \A x : /\ IsFiniteSet(UpTo(s, x)) /\ Cardinality(UpTo(s, x)) \in Nat
             /\ IsFiniteSet(Below(s, x)) /\ Cardinality(Below(s, x)) \in Nat
  <2> TAKE x
  <2>1. UpTo(s, x) \subseteq I /\ Below(s, x) \subseteq I
    BY DEF UpTo, Below
  <2>2. QED
    BY <1>1, <2>1, FS_Subset, FS_CardinalityType
<1>3. V \subseteq Nat /\ \A i \in I : s[i] \in V
  OBVIOUS
<1>4. r = [k \in I |-> Min(X(k))]
  BY DEF InOrder, ToSet, UpTo
<1>5. ASSUME NEW k \in I PROVE X(k) # {}
  <2>1. PICK m \in I : \A i \in I : s[i] <= s[m]
    BY <1>1, Greatest
  <2>2. UpTo(s, s[m]) = I
    BY <2>1 DEF UpTo
  <2>3. s[m] \in X(k)
    BY <1>1, <2>2
  <2>4. QED
    BY <2>3
<1>6. ASSUME NEW k \in I PROVE r[k] \in X(k) /\ \A x \in X(k) : r[k] <= x
  <2>1. X(k) \in SUBSET Nat /\ X(k) # {}
    BY <1>3, <1>5
  <2>2. r[k] = Min(X(k))
    BY <1>4
  <2> HIDE DEF X, r
  <2>3. QED
    BY <2>1, <2>2, MinOf
<1>7. r \in [I -> Nat]
  <2> HIDE DEF r
  <2>1. \A k \in I : r[k] \in Nat
    BY <1>3, <1>6
  <2>2. QED
    BY <1>4, <2>1
<1> HIDE DEF r
<1>8. ASSUME NEW k \in I PROVE Cardinality(UpTo(s, r[k])) >= k
  BY <1>6
<1>9. ASSUME NEW k \in I PROVE Cardinality(Below(s, r[k])) < k
  <2> SUFFICES ASSUME Cardinality(Below(s, r[k])) >= k PROVE FALSE
    BY <1>2
  <2> DEFINE L == Below(s, r[k])
  <2>1. L # {} /\ L \in SUBSET I
    <3>1. L \in SUBSET I
      BY <1>1 DEF Below
    <3> HIDE DEF L
    <3>2. Cardinality(L) # 0
      BY DEF L
    <3>3. L # {}
      BY <3>2, FS_EmptySet, Zenon
    <3>4. QED
      BY <3>1, <3>3
  <2>2. PICK m \in L : \A i \in L : s[i] <= s[m]
    BY <1>1, <2>1, Greatest
  <2>3. m \in I /\ s[m] < r[k]
    BY DEF Below
  <2>4. UpTo(s, s[m]) = L
    BY <1>7, <2>2, <2>3 DEF UpTo, Below
  <2>5. s[m] \in X(k)
    BY <2>3, <2>4
  <2>6. r[k] <= s[m]
    BY <1>6, <2>5
  <2>7. QED
    BY <1>7, <2>3, <2>6
<1>10. ASSUME NEW j \in I, NEW k \in I, j <= k PROVE r[j] <= r[k]
  <2>1. X(k) \subseteq X(j)
    BY <1>2, <1>10
  <2>2. QED
    BY <1>6, <2>1
<1>11. QED
  BY <1>7, <1>8, <1>9, <1>10 DEF r

-----------------------------------------------------------------------------
(* The statistics of the rounds. *)

\* A quantile lies between the two it is interpolated between.
LEMMA QuantileBetween ==
    ASSUME NEW n \in Nat \ {0}, NEW r \in [1 .. n -> Nat], NEW p \in 1 .. 3,
           \A j, k \in 1 .. n : j <= k => r[j] <= r[k]
    PROVE  \E k \in 0 .. n - 1, d \in 0 .. 3 :
              /\ p * (n - 1) = 4 * k + d /\ (d > 0 => k + 2 <= n)
              /\ compute_quantile(r, p) =
                    4 * r[k + 1] + d * ((IF d > 0 THEN r[k + 2] ELSE r[k + 1]) - r[k + 1])
<1> DEFINE m == p * (n - 1)
           k == m \div 4
           d == m % 4
<1>1. m \in Nat /\ m <= 3 * (n - 1)
  OBVIOUS
<1> HIDE DEF m
<1>2. k \in Nat /\ d \in 0 .. 3 /\ m = 4 * k + d
  BY <1>1, Division
<1>3. Len(r) = n
  <2>1. r \in Seq(Nat) /\ DOMAIN r = 1 .. n
    OBVIOUS
  <2>2. QED
    BY <2>1
<1>4. compute_quantile(r, p) = IF k + 1 < n THEN 4 * r[k + 1] + d * (r[k + 2] - r[k + 1]) ELSE 4 * r[k + 1]
  BY <1>3 DEF compute_quantile, m
<1> HIDE DEF k, d
<1>5. k \in 0 .. n - 1 /\ (d > 0 => k + 1 < n)
  BY <1>1, <1>2
<1>6. r[k + 1] \in Nat /\ (k + 1 < n => r[k + 2] \in Nat)
  <2>1. k + 1 \in 1 .. n /\ (k + 1 < n => k + 2 \in 1 .. n)
    BY <1>5
  <2>2. QED
    BY <2>1
<1> DEFINE q == compute_quantile(r, p)
           x == r[k + 1]
           y == IF d > 0 THEN r[k + 2] ELSE r[k + 1]
<1>7. q = 4 * x + d * (y - x)
  <2>1. CASE d > 0
    BY <1>4, <1>5, <2>1
  <2>2. CASE d = 0
    <3> HIDE DEF q
    <3>1. k + 1 < n => r[k + 2] - x \in Int
      BY <1>6
    <3>2. q = 4 * x
      BY <1>4, <1>6, <2>2, <3>1 DEF q
    <3>3. d * (y - x) = 0
      BY <1>6, <2>2
    <3>4. QED
      BY <1>6, <3>2, <3>3
  <2>3. QED
    BY <1>2, <2>1, <2>2
<1>8. p * (n - 1) = 4 * k + d /\ (d > 0 => k + 2 <= n)
  BY <1>2, <1>5 DEF m
<1> HIDE DEF q
<1>9. QED
  BY <1>2, <1>5, <1>7, <1>8 DEF q

\* A quantile has no more than its share of the values below it, nor above.
LEMMA QuantileSplits ==
    ASSUME NEW n \in Nat \ {0}, NEW s \in [1 .. n -> Nat], NEW p \in 1 .. 3
    PROVE  LET v == compute_quantile(InOrder(s), p)
           IN  /\ v \in Nat
               /\ 4 * Cardinality({i \in 1 .. n : 4 * s[i] < v}) < p * (n - 1) + 4
               /\ 4 * Cardinality({i \in 1 .. n : 4 * s[i] > v}) < (4 - p) * (n - 1) + 4
<1> DEFINE I == 1 .. n
           r == InOrder(s)
           v == compute_quantile(r, p)
           less == {i \in I : 4 * s[i] < v}
           more == {i \in I : 4 * s[i] > v}
<1>1. /\ r \in [I -> Nat]
      /\ \A k \in I : Cardinality(Below(s, r[k])) < k /\ Cardinality(UpTo(s, r[k])) >= k
      /\ \A j, k \in I : j <= k => r[j] <= r[k]
  BY InOrderIs
<1> HIDE DEF r
<1>2. PICK k \in 0 .. n - 1, d \in 0 .. 3 :
         /\ p * (n - 1) = 4 * k + d /\ (d > 0 => k + 2 <= n)
         /\ v = 4 * r[k + 1] + d * ((IF d > 0 THEN r[k + 2] ELSE r[k + 1]) - r[k + 1])
  BY <1>1, QuantileBetween
<1> DEFINE a == r[k + 1]
           b == IF d > 0 THEN r[k + 2] ELSE r[k + 1]
<1>3. /\ k + 1 \in I /\ a \in Nat /\ b \in Nat /\ a <= b
      /\ d > 0 => k + 2 \in I
  <2>1. k + 1 \in I /\ (d > 0 => k + 2 \in I)
    BY <1>2
  <2>2. QED
    BY <1>1, <2>1
<1> HIDE DEF v
<1>4. v = 4 * a + d * (b - a)
  BY <1>2
<1>5. IsFiniteSet(I) /\ Cardinality(I) = n /\ DOMAIN s = I
  BY FS_Interval
<1>6. /\ Cardinality(Below(s, b)) <= k + (IF d > 0 THEN 1 ELSE 0)
      /\ Cardinality(UpTo(s, a)) >= k + 1
      /\ IsFiniteSet(Below(s, b)) /\ Cardinality(Below(s, b)) \in Nat
      /\ UpTo(s, a) \in SUBSET I /\ Cardinality(UpTo(s, a)) \in Nat
  <2>1. Below(s, b) \subseteq I /\ UpTo(s, a) \subseteq I
    BY <1>5 DEF Below, UpTo
  <2>2. /\ IsFiniteSet(Below(s, b)) /\ Cardinality(Below(s, b)) \in Nat
        /\ Cardinality(UpTo(s, a)) \in Nat
    BY <1>5, <2>1, FS_Subset, FS_CardinalityType
  <2>3. Cardinality(UpTo(s, a)) >= k + 1
    BY <1>1, <1>3
  <2>4. CASE d > 0
    BY <1>1, <1>3, <2>1, <2>2, <2>3, <2>4
  <2>5. CASE d = 0
    BY <1>1, <1>3, <2>1, <2>2, <2>3, <2>5
  <2>6. QED
    BY <2>4, <2>5
<1> HIDE DEF a, b
<1>7. v \in Nat /\ 4 * a <= v /\ v <= 4 * b
  <2>1. d = 0 \/ d = 1 \/ d = 2 \/ d = 3
    OBVIOUS
  <2>2. QED
    BY <1>3, <1>4, <2>1
<1>8. less \subseteq Below(s, b) /\ more \subseteq I \ UpTo(s, a)
  BY <1>3, <1>5, <1>7 DEF Below, UpTo
<1>9. Cardinality(less) \in Nat /\ Cardinality(less) <= Cardinality(Below(s, b))
  BY <1>6, <1>8, FS_Subset, FS_CardinalityType
<1>10. Cardinality(I \ UpTo(s, a)) = n - Cardinality(UpTo(s, a)) /\ IsFiniteSet(I \ UpTo(s, a))
  <2>1. IsFiniteSet(I \ UpTo(s, a))
    BY <1>5, FS_Difference
  <2>2. Cardinality(I \ UpTo(s, a)) = Cardinality(I) - Cardinality(I \cap UpTo(s, a))
    BY <1>5, FS_Difference
  <2>3. I \cap UpTo(s, a) = UpTo(s, a)
    BY <1>6
  <2>4. QED
    BY <1>5, <2>1, <2>2, <2>3
<1>11. Cardinality(more) \in Nat /\ Cardinality(more) <= n - (k + 1)
  <2>1. Cardinality(more) \in Nat /\ Cardinality(more) <= Cardinality(I \ UpTo(s, a))
    BY <1>8, <1>10, FS_Subset, FS_CardinalityType
  <2>2. QED
    BY <1>6, <1>10, <2>1
<1> HIDE DEF less, more
<1>12. 4 * Cardinality(less) < 4 * k + d + 4
  BY <1>6, <1>9
<1>13. 4 * Cardinality(more) < 4 * (n - 1) - (4 * k + d) + 4
  BY <1>11
<1>14. (4 - p) * (n - 1) = 4 * (n - 1) - p * (n - 1)
  OBVIOUS
<1>15. QED
  BY <1>2, <1>7, <1>12, <1>13, <1>14 DEF less, more, v, r

\* The quartiles are in order.
LEMMA QuantilesInOrder ==
    ASSUME NEW n \in Nat \ {0}, NEW r \in [1 .. n -> Nat], NEW p \in 1 .. 3, NEW q \in 1 .. 3, p <= q,
           \A j, k \in 1 .. n : j <= k => r[j] <= r[k]
    PROVE  /\ compute_quantile(r, p) <= compute_quantile(r, q)
           /\ 4 * r[1] <= compute_quantile(r, p) /\ compute_quantile(r, q) <= 4 * r[n]
<1>1. PICK k \in 0 .. n - 1, d \in 0 .. 3 :
         /\ p * (n - 1) = 4 * k + d /\ (d > 0 => k + 2 <= n)
         /\ compute_quantile(r, p) = 4 * r[k + 1] + d * ((IF d > 0 THEN r[k + 2] ELSE r[k + 1]) - r[k + 1])
  BY QuantileBetween
<1>2. PICK l \in 0 .. n - 1, e \in 0 .. 3 :
         /\ q * (n - 1) = 4 * l + e /\ (e > 0 => l + 2 <= n)
         /\ compute_quantile(r, q) = 4 * r[l + 1] + e * ((IF e > 0 THEN r[l + 2] ELSE r[l + 1]) - r[l + 1])
  BY QuantileBetween
<1> DEFINE v == compute_quantile(r, p)
           w == compute_quantile(r, q)
           a == r[k + 1]
           b == IF d > 0 THEN r[k + 2] ELSE r[k + 1]
           c == r[l + 1]
           f == IF e > 0 THEN r[l + 2] ELSE r[l + 1]
<1>3. /\ k + 1 \in 1 .. n /\ (d > 0 => k + 2 \in 1 .. n)
      /\ l + 1 \in 1 .. n /\ (e > 0 => l + 2 \in 1 .. n)
  BY <1>1, <1>2
<1>4. /\ a \in Nat /\ b \in Nat /\ a <= b /\ c \in Nat /\ f \in Nat /\ c <= f
      /\ r[1] \in Nat /\ r[1] <= a /\ r[n] \in Nat /\ f <= r[n]
  <2>1. 1 \in 1 .. n /\ n \in 1 .. n
    OBVIOUS
  <2>2. QED
    BY <1>3, <2>1
<1>5. 4 * k + d <= 4 * l + e
  <2>1. p * (n - 1) <= q * (n - 1)
    OBVIOUS
  <2>2. QED
    BY <1>1, <1>2, <2>1
<1>6. k = l => a = c /\ (d > 0 /\ e > 0 => b = f) /\ (d = 0 => b = a) /\ (e = 0 => f = c)
  OBVIOUS
<1>7. k < l => b <= c
  BY <1>3
<1>8. v = 4 * a + d * (b - a) /\ w = 4 * c + e * (f - c)
  BY <1>1, <1>2
<1>9. (d = 0 \/ d = 1 \/ d = 2 \/ d = 3) /\ (e = 0 \/ e = 1 \/ e = 2 \/ e = 3)
  OBVIOUS
<1> HIDE DEF a, b, c, f, v, w
<1>10. 4 * a <= v /\ v <= 4 * b /\ v \in Nat
  BY <1>4, <1>8, <1>9
<1>11. 4 * c <= w /\ w <= 4 * f /\ w \in Nat
  BY <1>4, <1>8, <1>9
<1>12. v <= w
  <2>1. CASE k = l
    BY <1>4, <1>5, <1>6, <1>8, <1>9, <2>1
  <2>2. CASE k < l
    BY <1>4, <1>7, <1>10, <1>11, <2>2
  <2>3. QED
    BY <1>5, <2>1, <2>2
<1>13. QED
  BY <1>4, <1>10, <1>11, <1>12 DEF v, w

\* One in eleven is the first that can lie three standard deviations off.
LEMMA FewOutliers ==
    ASSUME NEW n \in Nat \ {0}, NEW s \in [1 .. n -> Nat]
    PROVE  /\ StdevOutliers(s) \in Nat
           /\ StdevOutliers(s) > 0 => n >= 11 /\ 9 * StdevOutliers(s) < n
<1> DEFINE I == 1 .. n
           T == Total(s)
           D == [i \in I |-> n * s[i] - T]
           square == [i \in I |-> (n * s[i] - T) * (n * s[i] - T)]
           Q == Total(square)
           O == {i \in I : n * square[i] > 9 * Q}
           m == Cardinality(O)
<1>1. IsFiniteSet(I) /\ Cardinality(I) = n /\ DOMAIN s = I /\ DOMAIN square = I
  BY FS_Interval
<1>2. Len(s) = n
  <2>1. s \in Seq(Nat)
    OBVIOUS
  <2>2. QED
    BY <2>1
<1>3. StdevOutliers(s) = m
  BY <1>1, <1>2 DEF StdevOutliers
<1>4. T = SumFunctionOnSet(s, I) /\ Q = SumFunctionOnSet(square, I)
  BY <1>1 DEF Total, SumFunction
<1>5. T \in Nat
  BY <1>1, <1>4, SumNat
<1> HIDE DEF T
<1>6. \A i \in I : D[i] \in Int /\ square[i] = D[i] * D[i] /\ square[i] \in Nat /\ D[i] = n * s[i] - T
  <2> TAKE i \in I
  <2> DEFINE u == n * s[i] - T
  <2>1. u \in Int /\ D[i] = u /\ square[i] = u * u
    BY <1>5
  <2> HIDE DEF u
  <2>2. u * u \in Nat
    BY <2>1
  <2>3. QED
    BY <2>1, <2>2 DEF u
<1> HIDE DEF D, square, Q, I
<1>7. Q \in Nat
  BY <1>1, <1>4, <1>6, SumNat
<1>8. O \subseteq I /\ IsFiniteSet(O) /\ m \in Nat /\ IsFiniteSet(I \ O)
  <2>1. O \subseteq I /\ I \ O \subseteq I
    OBVIOUS
  <2>2. QED
    BY <1>1, <2>1, FS_Subset, FS_CardinalityType
<1>9. ASSUME m > 0 PROVE 9 * m < n
  <2> DEFINE P == SumFunctionOnSet(square, O)
             R == SumFunctionOnSet(square, I \ O)
             f == [i \in O |-> n * square[i]]
  <2>1. P \in Nat /\ R \in Nat
    BY <1>6, <1>8, SumNat
  <2>2. Q = P + R
    <3>1. \A i \in I : square[i] \in Int
      BY <1>6
    <3> HIDE DEF O
    <3>2. SumFunctionOnSet(square, I) = SumFunctionOnSet(square, O) + SumFunctionOnSet(square, I \ O)
      BY <1>1, <1>8, <3>1, SumSplit
    <3>3. QED
      BY <1>4, <3>2
  <2>3. \A i \in O : f[i] \in Int /\ f[i] >= 9 * Q + 1
    BY <1>6, <1>7, <1>8
  <2>4. SumFunctionOnSet(f, O) >= (9 * Q + 1) * m
    <3> DEFINE c == 9 * Q + 1
    <3>1. c \in Int
      BY <1>7
    <3> HIDE DEF c, f, O
    <3>2. \A i \in O : f[i] \in Int /\ f[i] >= c
      BY <2>3 DEF c
    <3>3. SumFunctionOnSet(f, O) >= c * Cardinality(O)
      BY <1>8, <3>1, <3>2, SumAtLeast
    <3>4. QED
      BY <3>3 DEF c
  <2>5. SumFunctionOnSet(f, O) = n * P
    <3> DEFINE c == n
    <3>1. IsScaled(O, f, c, square)
      BY <1>6, <1>8 DEF IsScaled
    <3>2. c \in Int
      OBVIOUS
    <3> HIDE DEF f, O, c
    <3>3. SumFunctionOnSet(f, O) = c * SumFunctionOnSet(square, O)
      BY <1>8, <3>1, <3>2, SumScaled
    <3>4. QED
      BY <3>3 DEF c
  <2> HIDE DEF P, R, f, O, m
  <2>6. n * P >= (9 * Q + 1) * m
    BY <2>4, <2>5
  <2>7. n * Q >= n * P
    BY <2>1, <2>2
  <2>8. n * Q \in Nat /\ n * P \in Nat /\ (9 * m) * Q \in Nat /\ (9 * Q + 1) * m = (9 * m) * Q + m
    BY <1>7, <1>8, <2>1
  <2>9. n * Q > (9 * m) * Q
    BY <1>8, <1>9, <2>6, <2>7, <2>8
  <2>10. Q > 0
    BY <1>7, <1>8, <2>9
  <2>11. QED
    BY <1>7, <1>8, <2>9, <2>10
<1>10. ASSUME m > 0 PROVE n >= 11
  <2>1. O # {}
    <3>1. Cardinality(O) # 0
      BY <1>10
    <3> HIDE DEF O
    <3>2. QED
      BY <3>1, FS_EmptySet, Zenon
  <2>2. PICK j \in O : TRUE
    BY <2>1
  <2> DEFINE J == I \ {j}
             one == [i \in I |-> 1]
             S == SumFunctionOnSet(D, J)
             R == SumFunctionOnSet(square, J)
             u == D[j]
  <2>3. j \in I /\ n * square[j] > 9 * Q
    OBVIOUS
  <2>4. IsFiniteSet(J) /\ Cardinality(J) = n - 1
    BY <1>1, <2>3, FS_RemoveElement
  <2>5. \A i \in I : one[i] = 1
    OBVIOUS
  <2> HIDE DEF one, O, m
  <2>6. SumFunctionOnSet(one, I) = n /\ SumFunctionOnSet(one, J) = n - 1
    BY <1>1, <2>4, <2>5, SumOfOnes
  <2>7. SumFunctionOnSet(D, I) = 0
    <3> DEFINE k == 0 - T
    <3>1. k \in Int /\ n \in Int
      BY <1>5
    <3> DEFINE c == n
    <3>2. IsLinear(I, D, c, s, k, one)
      <4> SUFFICES ASSUME NEW i \in I
                   PROVE  s[i] \in Int /\ one[i] \in Int /\ D[i] = c * s[i] + k * one[i]
        BY DEF IsLinear
      <4> DEFINE x == s[i]
      <4>1. x \in Int /\ D[i] = n * x - T /\ one[i] = 1
        BY <1>1, <1>6, <2>5 DEF I
      <4> HIDE DEF x
      <4>2. n * x - T = n * x + k * 1
        BY <1>5, <4>1
      <4> HIDE DEF k
      <4>3. QED
        BY <4>1, <4>2 DEF x
    <3>3. c \in Int
      OBVIOUS
    <3> HIDE DEF k, c
    <3>4. SumFunctionOnSet(D, I) = c * SumFunctionOnSet(s, I) + k * SumFunctionOnSet(one, I)
      BY <1>1, <3>1, <3>2, <3>3, SumLinear
    <3>5. SumFunctionOnSet(D, I) = n * T + k * n
      BY <1>4, <2>6, <3>4 DEF c
    <3>6. QED
      BY <1>5, <3>5 DEF k
  <2>8. SumFunctionOnSet(D, I) = u + S
    BY <1>1, <1>6, <2>3, SumRemove
  <2>9. Q = u * u + R
    <3>1. \A i \in I : square[i] \in Int
      BY <1>6
    <3>2. SumFunctionOnSet(square, I) = square[j] + SumFunctionOnSet(square, I \ {j})
      BY <1>1, <2>3, <3>1, SumRemove
    <3>3. square[j] = D[j] * D[j]
      BY <1>6, <2>3
    <3>4. QED
      BY <1>4, <3>2, <3>3
  <2>10. S * S <= R * (n - 1) /\ R \in Nat
    <3>1. IsProduct(J, square, D, D)
      BY <1>6 DEF IsProduct
    <3> HIDE DEF J, S, R
    <3>2. /\ SumFunctionOnSet(square, J) \in Nat
          /\ SumFunctionOnSet(D, J) * SumFunctionOnSet(D, J)
                <= SumFunctionOnSet(square, J) * Cardinality(J)
      BY <2>4, <3>1, SquareOfSum
    <3>3. QED
      BY <2>4, <3>2 DEF S, R
  <2>11. u \in Int /\ S \in Int
    <3>1. u \in Int
      BY <1>6, <2>3
    <3>2. \A i \in J : D[i] \in Int
      BY <1>6
    <3>3. QED
      BY <2>4, <3>1, <3>2, SumType
  <2>12. n * (u * u) > 9 * Q
    BY <1>6, <2>3
  <2> HIDE DEF S, R, u
  <2>13. S = -u
    BY <2>7, <2>8, <2>11
  <2> DEFINE w == u * u
  <2>14. S * S = w /\ w \in Nat
    BY <2>11, <2>13
  <2> HIDE DEF w
  <2>15. w <= R * (n - 1) /\ Q = w + R /\ n * w > 9 * Q
    BY <2>9, <2>10, <2>12, <2>14 DEF w
  <2>16. n * w <= (n - 1) * Q
    <3>1. n * w = w + (n - 1) * w /\ (n - 1) * Q = (n - 1) * w + R * (n - 1)
      BY <2>10, <2>14, <2>15
    <3>2. (n - 1) * w \in Int /\ R * (n - 1) \in Int
      BY <2>10, <2>14
    <3>3. QED
      BY <2>14, <2>15, <3>1, <3>2
  <2>17. (n - 1) * Q > 9 * Q
    BY <1>7, <2>14, <2>15, <2>16
  <2>18. QED
    BY <1>7, <2>17
<1>11. QED
  BY <1>3, <1>8, <1>9, <1>10

\* The mean of a time per iteration that is exact.
EqualRounds(n, c, iters, times, v) ==
    /\ Len(iters) = n /\ DOMAIN iters = 1 .. n /\ DOMAIN v = 1 .. n /\ times \in [1 .. n -> Nat]
    /\ \A i \in 1 .. n : iters[i] = c /\ v[i] = (times[i] * Scale) \div iters[i]

LEMMA ExactTimes ==
    ASSUME NEW n \in Nat \ {0}, NEW c \in Nat \ {0}, Scale \in Nat, Scale % c = 0,
           NEW iters, NEW times, NEW v, EqualRounds(n, c, iters, times, v)
    PROVE  Total(v) * AvgItersPerRound(iters) = Total(times) * Scale
<1> USE DEF EqualRounds
<1> DEFINE I == 1 .. n
           one == [i \in I |-> 1]
           T == Total(times)
           V == Total(v)
           e == Scale \div c
<1>1. IsFiniteSet(I) /\ Cardinality(I) = n /\ DOMAIN v = I /\ DOMAIN times = I /\ \A i \in I : times[i] \in Nat
  <2>1. IsFiniteSet(I) /\ Cardinality(I) = n
    BY FS_Interval
  <2>2. DOMAIN times = I /\ \A i \in I : times[i] \in Nat
    OBVIOUS
  <2>3. QED
    BY <2>1, <2>2
<1>2. \A i \in I : one[i] = 1
  OBVIOUS
<1>3. T = SumFunctionOnSet(times, I) /\ V = SumFunctionOnSet(v, I)
      /\ Total(iters) = SumFunctionOnSet(iters, I)
  BY <1>1 DEF Total, SumFunction
<1>4. e \in Nat /\ Scale = e * c
  <2>1. e \in Nat /\ Scale = e * c + (Scale % c)
    BY Division
  <2> HIDE DEF e
  <2>2. QED
    BY <2>1
<1> HIDE DEF e
<1>5. \A i \in I : v[i] = e * times[i]
  <2> TAKE i \in I
  <2> DEFINE t == times[i]
             k == e * t
  <2>1. t \in Nat /\ v[i] = (t * Scale) \div c
    BY <1>1
  <2> HIDE DEF t
  <2>2. t * Scale = k * c /\ k \in Nat
    BY <1>4, <2>1
  <2> HIDE DEF k
  <2>3. (k * c) \div c = k
    BY <2>2
  <2>4. QED
    BY <2>1, <2>2, <2>3 DEF k, t
<1> HIDE DEF I, one, T, V
<1>6. T \in Nat
  BY <1>1, <1>3, SumNat
<1>7. V = e * T
  <2>1. IsScaled(I, v, e, times)
    BY <1>1, <1>5 DEF IsScaled
  <2>2. SumFunctionOnSet(v, I) = e * SumFunctionOnSet(times, I)
    BY <1>1, <1>4, <2>1, SumScaled
  <2>3. QED
    BY <1>3, <2>2
<1>8. Total(iters) = c * n
  <2> DEFINE k == c
  <2>1. k \in Int /\ IsScaled(I, iters, k, one)
    BY <1>2 DEF I, IsScaled
  <2> HIDE DEF k
  <2>2. SumFunctionOnSet(iters, I) = k * SumFunctionOnSet(one, I)
    BY <1>1, <2>1, SumScaled
  <2>3. QED
    BY <1>1, <1>2, <1>3, <2>2, SumOfOnes DEF k
<1>9. AvgItersPerRound(iters) = c
  <2>1. (c * n) \div n = c
    OBVIOUS
  <2>2. QED
    BY <1>8, <2>1 DEF AvgItersPerRound
<1>10. V * c = T * Scale
  BY <1>4, <1>6, <1>7
<1>11. QED
  BY <1>9, <1>10 DEF V, T

-----------------------------------------------------------------------------
\* The rounds are pairs of iterations and a time; the statistics are theirs.
RoundsInv ==
    /\ iters_per_round \in Seq(Iters) /\ times_per_round_ns \in Seq(RoundTimes)
    /\ Len(iters_per_round) = Len(times_per_round_ns)
    /\ \/ stats = NoStats
       \/ /\ iters_per_round # <<>>
          /\ stats = compute_benchmark_stats(iters_per_round, times_per_round_ns)

LEMMA RoundsInvariant == RoundsSpec => []RoundsInv
<1>1. RoundsInit => RoundsInv
  BY DEF RoundsInit, RoundsInv
<1>2. RoundsInv /\ [RoundsNext]_roundVars => RoundsInv'
  <2> SUFFICES ASSUME RoundsInv, [RoundsNext]_roundVars PROVE RoundsInv'
    OBVIOUS
  <2>1. CASE ComputeWalltimeStats
    BY <2>1 DEF ComputeWalltimeStats, RoundsInv
  <2>2. ASSUME NEW n \in Iters, NEW t \in RoundTimes, PushRound(n, t) PROVE RoundsInv'
    <3>1. /\ iters_per_round' = Append(iters_per_round, n)
          /\ times_per_round_ns' = Append(times_per_round_ns, t)
          /\ stats = NoStats /\ stats' = NoStats
      BY <2>2 DEF PushRound
    <3>2. iters_per_round' \in Seq(Iters) /\ Len(iters_per_round') = Len(iters_per_round) + 1
      BY <3>1, AppendProperties DEF RoundsInv
    <3>3. times_per_round_ns' \in Seq(RoundTimes) /\ Len(times_per_round_ns') = Len(times_per_round_ns) + 1
      BY <3>1, AppendProperties DEF RoundsInv
    <3>4. QED
      BY <3>1, <3>2, <3>3 DEF RoundsInv
  <2>3. CASE UNCHANGED roundVars
    BY <2>3 DEF roundVars, RoundsInv
  <2>4. QED
    BY <2>1, <2>2, <2>3 DEF RoundsNext
<1>3. QED
  BY <1>1, <1>2, PTL DEF RoundsSpec

LEMMA StatisticsOfRounds == RoundsInv => RoundStatistics
<1> SUFFICES ASSUME RoundsInv, HasRounds PROVE RoundStatistics
  BY DEF RoundStatistics, QuartilesSplitTheRounds, StdevOutliersNeedElevenRounds, TotalAgrees
<1> DEFINE n == Len(iters_per_round)
           I == 1 .. n
           iters == iters_per_round
           times == times_per_round_ns
           v == [i \in I |-> (times[i] * Scale) \div iters[i]]
           r == InOrder(v)
<1>1. /\ n \in Nat \ {0} /\ DOMAIN iters = I /\ DOMAIN times = I /\ Len(times) = n
      /\ iters \in [I -> Iters] /\ times \in [I -> RoundTimes]
      /\ stats = compute_benchmark_stats(iters, times)
  BY DEF RoundsInv, HasRounds
<1>2. /\ Scale \in Nat \ {0} /\ \A i \in I : iters[i] \in Nat \ {0} /\ times[i] \in Nat
      /\ \A i \in I : Scale % iters[i] = 0
  BY <1>1, RoundsAssumption
<1>3. v \in [I -> Nat]
  <2>1. ASSUME NEW i \in I PROVE (times[i] * Scale) \div iters[i] \in Nat
    <3> DEFINE a == times[i] * Scale
               b == iters[i]
    <3>1. a \in Nat /\ b \in Nat \ {0}
      BY <1>2
    <3> HIDE DEF a, b
    <3>2. a \div b \in Nat
      BY <3>1, Division
    <3>3. QED
      BY <3>2 DEF a, b
  <2>2. QED
    BY <2>1
<1>4. /\ stats.rounds = n /\ stats.min = 4 * r[1] /\ stats.max = 4 * r[Len(r)]
      /\ stats.q1 = compute_quantile(r, 1) /\ stats.median = compute_quantile(r, 2)
      /\ stats.q3 = compute_quantile(r, 3) /\ stats.stdev_outlier_rounds = StdevOutliers(r)
      /\ stats.rounds_times_mean = Total(v) /\ stats.total_time = Total(times)
      /\ stats.iter_per_round = AvgItersPerRound(iters)
  BY <1>1 DEF compute_benchmark_stats
<1> HIDE DEF n, I, v, r
<1>5. /\ r \in [I -> Nat] /\ \A j, k \in I : j <= k => r[j] <= r[k]
  BY <1>1, <1>3, InOrderIs DEF r, I
<1>6. QuartilesSplitTheRounds
  <2> DEFINE below(q) == Cardinality({i \in I : 4 * v[i] < q})
             above(q) == Cardinality({i \in I : 4 * v[i] > q})
             splits(q, p) == /\ 4 * below(q) < p * (n - 1) + 4
                             /\ 4 * above(q) < (4 - p) * (n - 1) + 4
  <2>1. \A p \in 1 .. 3 : splits(compute_quantile(r, p), p)
    BY <1>1, <1>3, QuantileSplits DEF r, I
  <2>2. splits(stats.q1, 1) /\ splits(stats.median, 2) /\ splits(stats.q3, 3)
    BY <1>4, <2>1
  <2>3. /\ compute_quantile(r, 1) <= compute_quantile(r, 2)
        /\ compute_quantile(r, 2) <= compute_quantile(r, 3)
        /\ 4 * r[1] <= compute_quantile(r, 1) /\ compute_quantile(r, 3) <= 4 * r[n]
    <3>1. \A p, q \in 1 .. 3 : p <= q =>
              /\ compute_quantile(r, p) <= compute_quantile(r, q)
              /\ 4 * r[1] <= compute_quantile(r, p) /\ compute_quantile(r, q) <= 4 * r[n]
      BY <1>1, <1>5, QuantilesInOrder DEF I
    <3>2. QED
      BY <3>1
  <2>4. Len(r) = n
    <3>1. r \in Seq(Nat) /\ DOMAIN r = 1 .. n
      BY <1>1, <1>5 DEF I
    <3>2. QED
      BY <1>1, <3>1
  <2>5. \A i \in I : v[i] = (times[i] * Scale) \div iters[i]
    BY DEF v
  <2> HIDE DEF below, above
  <2>6. ASSUME NEW q
        PROVE  /\ below(q) = Cardinality({i \in DOMAIN iters_per_round :
                                4 * ((times_per_round_ns[i] * Scale) \div iters_per_round[i]) < q})
               /\ above(q) = Cardinality({i \in DOMAIN iters_per_round :
                                4 * ((times_per_round_ns[i] * Scale) \div iters_per_round[i]) > q})
    <3>1. {i \in DOMAIN iters_per_round : 4 * ((times_per_round_ns[i] * Scale) \div iters_per_round[i]) < q}
              = {i \in I : 4 * v[i] < q}
      BY <1>1, <2>5
    <3>2. {i \in DOMAIN iters_per_round : 4 * ((times_per_round_ns[i] * Scale) \div iters_per_round[i]) > q}
              = {i \in I : 4 * v[i] > q}
      BY <1>1, <2>5
    <3>3. QED
      BY <3>1, <3>2 DEF below, above
  <2>7. QED
    BY <1>4, <2>2, <2>3, <2>4, <2>6 DEF QuartilesSplitTheRounds
<1>7. StdevOutliersNeedElevenRounds
  BY <1>1, <1>4, <1>5, FewOutliers DEF StdevOutliersNeedElevenRounds, I
<1>8. TotalAgrees
  <2> SUFFICES ASSUME \A i \in DOMAIN iters : iters[i] = iters[1]
               PROVE  Total(v) * AvgItersPerRound(iters) = Total(times) * Scale
    BY <1>4 DEF TotalAgrees
  <2> DEFINE c == iters[1]
  <2>1. 1 \in I /\ c \in Nat \ {0} /\ Scale % c = 0 /\ Len(iters) = n
    BY <1>1, <1>2 DEF I, n
  <2>2. \A i \in 1 .. n : iters[i] = c
    BY <1>1 DEF I
  <2>3. times \in [1 .. n -> Nat] /\ DOMAIN iters = 1 .. n
    BY <1>1, <1>2 DEF I
  <2> HIDE DEF c
  <2>4. EqualRounds(n, c, iters, times, v)
    BY <2>1, <2>2, <2>3 DEF v, I, EqualRounds
  <2>5. n \in Nat \ {0} /\ Scale \in Nat
    BY <1>1, <1>2
  <2>6. QED
    BY <1>1, <2>1, <2>4, <2>5, ExactTimes
<1>9. QED
  BY <1>6, <1>7, <1>8 DEF RoundStatistics

\* compute_benchmark_stats, for any rounds: each quantile splits them where it
\* says and the quartiles are in order, outliers of three standard deviations
\* are fewer than one round in nine and take eleven, and with equal rounds the
\* mean times the iterations is the total.
THEOREM StatisticsOfTheRounds == RoundsSpec => []RoundStatistics
  BY RoundsInvariant, StatisticsOfRounds, PTL

-----------------------------------------------------------------------------
(* User counters. *)

\* Finish multiplies by what each of the flags stands for, and inverts last.
LEMMA FinishIs ==
    ASSUME NEW c, NEW sum \in Nat, c.value = sum,
           NEW iterations \in Nat, NEW cpu_time \in Nat, NEW threads \in Nat
    PROVE  LET has(flag, k) == IF flag \in c.flags THEN k ELSE 1
               num == sum * has("kIsIterationInvariant", iterations)
               den == has("kIsRate", cpu_time) * has("kAvgThreads", threads)
                      * has("kAvgIterations", iterations)
           IN  Equal(Finish(c, iterations, cpu_time, threads),
                     IF "kInvert" \in c.flags THEN <<den, num>> ELSE <<num, den>>)
<1> DEFINE has(flag, k) == IF flag \in c.flags THEN k ELSE 1
           on(flag, p) == IF flag \in c.flags THEN p ELSE <<1, 1>>
           a == has("kIsRate", cpu_time)
           b == has("kAvgThreads", threads)
           d == has("kAvgIterations", iterations)
           e == has("kIsIterationInvariant", iterations)
           A == on("kIsRate", <<1, cpu_time>>)
           B == on("kAvgThreads", <<1, threads>>)
           D == on("kAvgIterations", <<1, iterations>>)
           E == on("kIsIterationInvariant", <<iterations, 1>>)
           v == Product(Product(<<sum, 1>>, A), Product(B, Product(E, D)))
<1>1. a \in Nat /\ b \in Nat /\ d \in Nat /\ e \in Nat
  OBVIOUS
<1>2. /\ A[1] = 1 /\ A[2] = a /\ B[1] = 1 /\ B[2] = b
      /\ D[1] = 1 /\ D[2] = d /\ E[1] = e /\ E[2] = 1
  OBVIOUS
<1>3. Finish(c, iterations, cpu_time, threads) = IF "kInvert" \in c.flags THEN <<v[2], v[1]>> ELSE v
  BY DEF Finish
<1> HIDE DEF a, b, d, e, A, B, D, E
<1>4. v[1] = (sum * 1) * (1 * (e * 1)) /\ v[2] = (1 * a) * (b * (1 * d))
  BY <1>2 DEF Product
<1>5. v[1] = sum * e /\ v[2] = a * b * d
  BY <1>1, <1>4
<1> HIDE DEF v
<1>6. Equal(Finish(c, iterations, cpu_time, threads),
            IF "kInvert" \in c.flags THEN <<a * b * d, sum * e>> ELSE <<sum * e, a * b * d>>)
  <2>1. CASE "kInvert" \in c.flags
    BY <1>1, <1>3, <1>5, <2>1 DEF Equal
  <2>2. CASE "kInvert" \notin c.flags
    BY <1>1, <1>3, <1>5, <2>2 DEF Equal
  <2>3. QED
    BY <2>1, <2>2
<1>7. QED
  BY <1>6 DEF a, b, d, e

\* The threads that have merged and had the counter, and the sum of theirs.
Had(c) == {t \in DOMAIN given : c \in DOMAIN given[t]}
Theirs(c) == [t \in Had(c) |-> given[t][c].value]

\* The counters are the sums of what was given.
CountersInv ==
    /\ asked \in [complexity : BigOs, use_manual_time : BOOLEAN, flags : Flags]
    /\ DOMAIN given \subseteq 1 .. NumThreads
    /\ \A t \in DOMAIN given : \A c \in DOMAIN given[t] :
          c \in Names /\ given[t][c] \in [value : Values, flags : {asked.flags}]
    /\ DOMAIN counters = {c \in Names : Had(c) # {}}
    /\ \A c \in DOMAIN counters :
          counters[c] = [value |-> SumFunctionOnSet(Theirs(c), Had(c)), flags |-> asked.flags]

LEMMA MergePreservesCounters ==
    ASSUME CountersInv, NEW t \in 1 .. NumThreads, NEW cs \in Given, MergeThread(t, cs)
    PROVE  CountersInv'
<1>1. /\ DOMAIN cs \subseteq Names
      /\ \A c \in DOMAIN cs : cs[c] \in [value : Values, flags : {asked.flags}]
  <2>1. CASE cs = NoCounters
    BY <2>1 DEF NoCounters
  <2>2. CASE cs # NoCounters
    <3>1. PICK S \in SUBSET Names : cs \in [S -> [value : Values, flags : {asked.flags}]]
      BY <2>2 DEF Given
    <3>2. QED
      BY <3>1
  <2>3. QED
    BY <2>1, <2>2
<1> DEFINE D == DOMAIN given
<1>2. /\ t \notin D /\ DOMAIN given' = D \cup {t} /\ given'[t] = cs
      /\ \A u \in D : given'[u] = given[u]
      /\ counters' = Increment(counters, cs) /\ asked' = asked
  BY DEF MergeThread
<1>3. /\ IsFiniteSet(D)
      /\ \A c : Had(c) \subseteq D /\ IsFiniteSet(Had(c))
  <2>1. IsFiniteSet(1 .. NumThreads)
    BY StatisticsAssumption, FS_Interval
  <2>2. D \subseteq 1 .. NumThreads
    BY DEF CountersInv
  <2>3. QED
    BY <2>1, <2>2, FS_Subset DEF Had
<1>4. \A c : Had(c)' = IF c \in DOMAIN cs THEN Had(c) \cup {t} ELSE Had(c)
  BY <1>2 DEF Had
<1>5. ASSUME NEW c \in Names
      PROVE  /\ \A u \in Had(c) : Theirs(c)[u] \in Nat /\ Theirs(c)'[u] = Theirs(c)[u]
             /\ c \in DOMAIN cs => Theirs(c)'[t] = cs[c].value /\ cs[c].value \in Nat
  <2>1. ASSUME NEW u \in Had(c)
        PROVE  Theirs(c)[u] \in Nat /\ Theirs(c)'[u] = Theirs(c)[u]
    <3>1. u \in D /\ u \in Had(c)' /\ c \in DOMAIN given[u]
      BY <1>4 DEF Had
    <3>2. given[u][c].value \in Nat /\ given'[u] = given[u]
      BY <1>2, <3>1, StatisticsAssumption DEF CountersInv
    <3>3. QED
      BY <3>1, <3>2 DEF Theirs
  <2>2. ASSUME c \in DOMAIN cs PROVE Theirs(c)'[t] = cs[c].value /\ cs[c].value \in Nat
    <3>1. t \in Had(c)'
      BY <1>4, <2>2
    <3>2. cs[c].value \in Nat
      BY <1>1, <2>2, StatisticsAssumption
    <3>3. QED
      BY <1>2, <3>1, <3>2 DEF Theirs
  <2>3. QED
    BY <2>1, <2>2
<1>6. DOMAIN counters' = {c \in Names : Had(c)' # {}}
  <2>1. DOMAIN counters' = DOMAIN counters \cup DOMAIN cs
    BY <1>2 DEF Increment
  <2>2. QED
    BY <1>1, <1>4, <2>1 DEF CountersInv
<1>7. ASSUME NEW c \in DOMAIN counters'
      PROVE  counters'[c] = [value |-> SumFunctionOnSet(Theirs(c)', Had(c)'), flags |-> asked.flags]
  <2>1. c \in Names /\ c \in DOMAIN counters \cup DOMAIN cs
    BY <1>2, <1>6 DEF Increment
  <2> DEFINE f == Theirs(c)
             g == Theirs(c)'
             H == Had(c)
  <2>2. IsFiniteSet(H) /\ t \notin H /\ \A u \in H : f[u] \in Int /\ g[u] = f[u] /\ g[u] \in Int
    BY <1>2, <1>3, <1>5, <2>1
  <2> HIDE DEF f, g, H
  <2>3. SumFunctionOnSet(g, H) = SumFunctionOnSet(f, H)
    BY <2>2, SumEqual
  <2>4. CASE c \notin DOMAIN cs
    <3>1. counters'[c] = counters[c] /\ c \in DOMAIN counters
      BY <1>2, <2>1, <2>4 DEF Increment
    <3>2. Had(c)' = H
      BY <1>4, <2>4 DEF H
    <3>3. QED
      BY <2>3, <3>1, <3>2 DEF CountersInv, f, g, H
  <2>5. CASE c \in DOMAIN cs
    <3>1. g[t] = cs[c].value /\ cs[c].value \in Nat
      BY <1>5, <2>1, <2>5 DEF g
    <3>2. SumFunctionOnSet(g, H \cup {t}) = cs[c].value + SumFunctionOnSet(f, H)
      BY <2>2, <2>3, <3>1, SumAdd
    <3>3. Had(c)' = H \cup {t}
      BY <1>4, <2>5 DEF H
    <3>4. cs[c] = [value |-> cs[c].value, flags |-> asked.flags]
      BY <1>1, <2>5
    <3>5. SumFunctionOnSet(f, H) \in Int
      BY <2>2, SumType
    <3>6. CASE c \notin DOMAIN counters
      <4>1. H = {}
        BY <2>1, <3>6 DEF CountersInv, H
      <4>2. counters'[c] = cs[c]
        BY <1>2, <2>5, <3>6 DEF Increment
      <4>3. SumFunctionOnSet(g, H \cup {t}) = cs[c].value
        BY <3>1, <3>2, <4>1, SumOfEmpty
      <4>4. QED
        BY <3>3, <3>4, <4>2, <4>3 DEF g
    <3>7. CASE c \in DOMAIN counters
      <4>1. counters'[c] = [counters[c] EXCEPT !.value = @ + cs[c].value]
        BY <1>2, <2>5, <3>7 DEF Increment
      <4>2. counters[c] = [value |-> SumFunctionOnSet(f, H), flags |-> asked.flags]
        BY <3>7 DEF CountersInv, f, H
      <4>3. counters'[c] = [value |-> SumFunctionOnSet(f, H) + cs[c].value, flags |-> asked.flags]
        BY <4>1, <4>2
      <4>4. SumFunctionOnSet(f, H) + cs[c].value = SumFunctionOnSet(g, H \cup {t})
        BY <3>1, <3>2, <3>5
      <4>5. QED
        BY <3>3, <4>3, <4>4 DEF g
    <3>8. QED
      BY <3>6, <3>7
  <2>6. QED
    BY <2>4, <2>5
<1>8. DOMAIN given' \subseteq 1 .. NumThreads
  BY <1>2 DEF CountersInv
<1>9. \A u \in DOMAIN given' : \A c \in DOMAIN given'[u] :
          c \in Names /\ given'[u][c] \in [value : Values, flags : {asked.flags}]
  BY <1>1, <1>2 DEF CountersInv
<1>10. QED
  BY <1>2, <1>6, <1>7, <1>8, <1>9 DEF CountersInv

LEMMA CountersStep == CountersInv /\ [RunsNext]_runVars => CountersInv'
<1> SUFFICES ASSUME CountersInv, [RunsNext]_runVars PROVE CountersInv'
  OBVIOUS
<1>1. ASSUME given' = [t \in {} |-> NoCounters], counters' = NoCounters, asked' = asked
      PROVE  CountersInv'
  <2>1. DOMAIN given' = {} /\ DOMAIN counters' = {}
    BY <1>1 DEF NoCounters
  <2>2. \A c : Had(c)' = {}
    BY <2>1 DEF Had
  <2>3. asked' \in [complexity : BigOs, use_manual_time : BOOLEAN, flags : Flags]
    BY <1>1 DEF CountersInv
  <2>4. QED
    BY <2>1, <2>2, <2>3 DEF CountersInv
<1>2. ASSUME given' = given, counters' = counters, asked' = asked PROVE CountersInv'
  <2>1. \A c : Had(c)' = Had(c) /\ Theirs(c)' = Theirs(c)
    BY <1>2 DEF Had, Theirs
  <2>2. /\ asked' \in [complexity : BigOs, use_manual_time : BOOLEAN, flags : Flags]
        /\ DOMAIN given' \subseteq 1 .. NumThreads
        /\ \A t \in DOMAIN given' : \A c \in DOMAIN given'[t] :
              c \in Names /\ given'[t][c] \in [value : Values, flags : {asked'.flags}]
    BY <1>2 DEF CountersInv
  <2>3. /\ DOMAIN counters' = {c \in Names : Had(c)' # {}}
        /\ \A c \in DOMAIN counters' :
              counters'[c] = [value |-> SumFunctionOnSet(Theirs(c)', Had(c)'), flags |-> asked'.flags]
    BY <1>2, <2>1 DEF CountersInv
  <2>4. QED
    BY <2>2, <2>3 DEF CountersInv
<1>3. CASE \E t \in 1 .. NumThreads, cs \in Given : MergeThread(t, cs)
  BY <1>3, MergePreservesCounters
<1>4. ASSUME NEW i, NEW timing, NEW n, NEW skipped, Report(i, timing, n, skipped)
      PROVE  CountersInv'
  BY <1>1, <1>4 DEF Report
<1>5. CASE ComputeAggregates
  BY <1>2, <1>5 DEF ComputeAggregates
<1>6. CASE ComputeBigO
  BY <1>2, <1>6 DEF ComputeBigO
<1>7. CASE UNCHANGED runVars
  BY <1>2, <1>7 DEF runVars
<1>8. QED
  BY <1>3, <1>4, <1>5, <1>6, <1>7 DEF RunsNext

LEMMA CountersInvariant == RunsSpec => []CountersInv
<1>1. RunsInit => CountersInv
  <2> SUFFICES ASSUME RunsInit PROVE CountersInv
    OBVIOUS
  <2>1. DOMAIN given = {} /\ DOMAIN counters = {}
    BY DEF RunsInit, NoCounters
  <2>2. \A c : Had(c) = {}
    BY <2>1 DEF Had
  <2>3. QED
    BY <2>1, <2>2 DEF RunsInit, CountersInv
<1>2. QED
  BY <1>1, CountersStep, PTL DEF RunsSpec

\* RunInThread, CreateRunReport and Finish, for any threads, flags and values:
\* what is reported of a counter is made of what all threads gave it, whatever
\* the order they merged in, and of the flags.
THEOREM CountersAreFinished == RunsSpec => CountersFinished
<1>1. ASSUME CountersInv, NEW timing \in Timings, NEW n \in Sizes,
             Report(Iterations, timing, n, FALSE), NEW c \in Names
      PROVE  LET had == {t \in DOMAIN given : c \in DOMAIN given[t]}
                 sum == SumFunction([t \in had |-> given[t][c].value])
                 has(flag, k) == IF flag \in asked.flags THEN k ELSE 1
                 num == sum * has("kIsIterationInvariant", Iterations)
                 den == has("kIsRate", Seconds(timing)) * has("kAvgThreads", NumThreads)
                        * has("kAvgIterations", Iterations)
             IN  /\ (c \in DOMAIN finished') <=> (had # {})
                 /\ had # {} => LET v == finished'[c]
                                IN  Equal(v, IF "kInvert" \in asked.flags THEN <<den, num>>
                                             ELSE <<num, den>>)
  <2> DEFINE S == SumFunctionOnSet(Theirs(c), Had(c))
             k == counters[c]
  <2>1. finished' = [d \in DOMAIN counters |->
                        Finish(counters[d], Iterations, Seconds(timing), NumThreads)]
    BY <1>1 DEF Report
  <2>2. (c \in DOMAIN finished') <=> (Had(c) # {})
    BY <1>1, <2>1 DEF CountersInv
  <2>3. ASSUME Had(c) # {}
        PROVE  /\ finished'[c] = Finish(k, Iterations, Seconds(timing), NumThreads)
               /\ k.value = S /\ k.flags = asked.flags
    <3>1. c \in DOMAIN counters
      BY <1>1, <2>3 DEF CountersInv
    <3>2. k = [value |-> S, flags |-> asked.flags]
      BY <1>1, <3>1 DEF CountersInv
    <3> HIDE DEF S, k
    <3>3. k.value = S /\ k.flags = asked.flags
      BY <3>2
    <3>4. finished'[c] = Finish(k, Iterations, Seconds(timing), NumThreads)
      BY <2>1, <3>1 DEF k
    <3>5. QED
      BY <3>3, <3>4
  <2>4. S \in Nat
    <3>1. IsFiniteSet(Had(c))
      <4>1. IsFiniteSet(1 .. NumThreads)
        BY StatisticsAssumption, FS_Interval
      <4>2. Had(c) \subseteq 1 .. NumThreads
        BY <1>1 DEF CountersInv, Had
      <4>3. QED
        BY <4>1, <4>2, FS_Subset
    <3>2. \A t \in Had(c) : Theirs(c)[t] \in Nat
      <4> TAKE t \in Had(c)
      <4>1. t \in DOMAIN given /\ c \in DOMAIN given[t]
        BY DEF Had
      <4>2. given[t][c].value \in Nat
        BY <1>1, <4>1, StatisticsAssumption DEF CountersInv
      <4>3. QED
        BY <4>2 DEF Theirs
    <3>3. QED
      BY <3>1, <3>2, SumNat
  <2>5. Seconds(timing) \in Nat /\ Iterations \in Nat /\ NumThreads \in Nat
    BY StatisticsAssumption DEF Seconds
  <2>6. SumFunction([t \in {t \in DOMAIN given : c \in DOMAIN given[t]} |-> given[t][c].value]) = S
    <3>1. {t \in DOMAIN given : c \in DOMAIN given[t]} = Had(c)
      BY DEF Had
    <3>2. [t \in Had(c) |-> given[t][c].value] = Theirs(c) /\ DOMAIN Theirs(c) = Had(c)
      BY DEF Theirs
    <3>3. QED
      BY <3>1, <3>2 DEF SumFunction
  <2> HIDE DEF S, k
  <2>7. ASSUME Had(c) # {}
        PROVE  LET has(flag, j) == IF flag \in asked.flags THEN j ELSE 1
                   num == S * has("kIsIterationInvariant", Iterations)
                   den == has("kIsRate", Seconds(timing)) * has("kAvgThreads", NumThreads)
                          * has("kAvgIterations", Iterations)
               IN  Equal(finished'[c], IF "kInvert" \in asked.flags THEN <<den, num>>
                                       ELSE <<num, den>>)
    <3> DEFINE s == Seconds(timing)
    <3> HIDE DEF s
    <3>1. s \in Nat
      BY <2>5 DEF s
    <3>2. finished'[c] = Finish(k, Iterations, s, NumThreads) /\ k.value = S /\ k.flags = asked.flags
      BY <2>3, <2>7 DEF s
    <3>3. LET has(flag, j) == IF flag \in k.flags THEN j ELSE 1
              num == S * has("kIsIterationInvariant", Iterations)
              den == has("kIsRate", s) * has("kAvgThreads", NumThreads)
                     * has("kAvgIterations", Iterations)
          IN  Equal(Finish(k, Iterations, s, NumThreads), IF "kInvert" \in k.flags THEN <<den, num>>
                                                          ELSE <<num, den>>)
      BY <2>4, <2>5, <3>1, <3>2, FinishIs
    <3>4. QED
      BY <3>2, <3>3 DEF s
  <2>8. {t \in DOMAIN given : c \in DOMAIN given[t]} = Had(c)
    BY DEF Had
  <2>9. QED
    BY <2>2, <2>6, <2>7, <2>8
<1> DEFINE Finishes ==
      \A timing \in Timings, n \in Sizes : Report(Iterations, timing, n, FALSE) =>
          \A c \in Names :
            LET had == {t \in DOMAIN given : c \in DOMAIN given[t]}
                sum == SumFunction([t \in had |-> given[t][c].value])
                has(flag, k) == IF flag \in asked.flags THEN k ELSE 1
                num == sum * has("kIsIterationInvariant", Iterations)
                den == has("kIsRate", Seconds(timing)) * has("kAvgThreads", NumThreads)
                       * has("kAvgIterations", Iterations)
            IN  /\ (c \in DOMAIN finished') <=> (had # {})
                /\ had # {} => LET v == finished'[c]
                               IN  Equal(v, IF "kInvert" \in asked.flags THEN <<den, num>>
                                            ELSE <<num, den>>)
<1>2. CountersInv => Finishes
  BY <1>1
<1>3. CountersInv /\ [RunsNext]_runVars => [Finishes]_runVars
  <2> HIDE DEF Finishes
  <2>1. QED
    BY <1>2
<1>4. QED
  BY <1>3, CountersInvariant, PTL DEF CountersFinished, RunsSpec

-----------------------------------------------------------------------------
(* The reports of the runs. *)

Kept == [skipped : {FALSE}, iterations : {Iterations}, real_accumulated_time : Nat,
         cpu_accumulated_time : Nat, complexity_n : Sizes, statistics : {"set"}]
RunReports ==
    Kept \cup [skipped : {TRUE}, iterations : {0, Iterations}, real_accumulated_time : {0},
               cpu_accumulated_time : {0}, complexity_n : {0}, statistics : {"uninitialized"}]

\* Unskipped keeps what was not skipped.
LEMMA UnskippedIs ==
    ASSUME NEW rs \in Seq(RunReports)
    PROVE  /\ Unskipped(rs) \in Seq(Kept)
           /\ Len(Unskipped(rs)) > 0 => \E i \in DOMAIN rs : rs[i].iterations = Iterations
<1> DEFINE S == {r \in ToSet(rs) : ~r.skipped}
           u == Among(rs, S)
<1>1. u \in Seq(RunReports) /\ ToSet(u) = ToSet(rs) \cap S /\ ToSet(rs) \subseteq RunReports
  BY AmongProperties, AmongElements, ToSetProperties
<1>2. S \subseteq Kept
  BY <1>1 DEF RunReports
<1> HIDE DEF S, u
<1>3. \A i \in DOMAIN u : u[i] \in S /\ u[i] \in ToSet(rs)
  BY <1>1 DEF ToSet
<1>4. u \in Seq(Kept)
  BY <1>1, <1>2, <1>3
<1>5. ASSUME Len(u) > 0 PROVE \E i \in DOMAIN rs : rs[i].iterations = Iterations
  <2>1. 1 \in DOMAIN u
    BY <1>1, <1>5
  <2>2. u[1] \in Kept /\ u[1] \in ToSet(rs)
    BY <1>2, <1>3, <2>1
  <2>3. PICK i \in DOMAIN rs : rs[i] = u[1]
    BY <2>2 DEF ToSet
  <2>4. QED
    BY <2>2, <2>3 DEF Kept
<1>6. QED
  BY <1>4, <1>5 DEF Unskipped, u, S

\* The reports are those of runs, and what was computed was computed of them.
ComputedStats ==
    /\ Len(Unskipped(reports)) >= 2 /\ results = ComputeStats(reports)
    /\ \A i \in DOMAIN reports : reports[i].iterations = reports[1].iterations
ComputedBigO ==
    LET runs == Unskipped(reports)
        n == [i \in DOMAIN runs |-> runs[i].complexity_n]
        cpu_time == [i \in DOMAIN runs |-> runs[i].cpu_accumulated_time]
        first == IF asked.use_manual_time THEN Reals(runs) ELSE cpu_time
        second == IF asked.use_manual_time THEN cpu_time ELSE Reals(runs)
    IN  \E f \in MinimalLeastSq(n, first, asked.complexity) :
        \E s \in MinimalLeastSq(n, second, f.complexity) :
           results = [by |-> "ComputeBigO", n |-> n,
                      result_real |-> IF asked.use_manual_time THEN f ELSE s,
                      result_cpu |-> IF asked.use_manual_time THEN s ELSE f]
ResultsInv ==
    /\ reports \in Seq(RunReports)
    /\ results.by = "ComputeStats" => ComputedStats
    /\ results.by = "ComputeBigO" => ComputedBigO

LEMMA ResultsStep == ResultsInv /\ [RunsNext]_runVars => ResultsInv'
<1> SUFFICES ASSUME ResultsInv, [RunsNext]_runVars PROVE ResultsInv'
  OBVIOUS
<1>1. NoResults.by # "ComputeStats" /\ NoResults.by # "ComputeBigO"
  BY DEF NoResults
<1>2. ASSUME NEW t, NEW cs, MergeThread(t, cs) PROVE ResultsInv'
  BY <1>1, <1>2 DEF MergeThread, ResultsInv
<1>3. ASSUME NEW i \in {0, Iterations}, NEW timing \in Timings, NEW n \in Sizes,
             NEW skipped \in BOOLEAN, Report(i, timing, n, skipped)
      PROVE  ResultsInv'
  <2> DEFINE r == [skipped |-> skipped, iterations |-> i,
                   real_accumulated_time |-> IF skipped THEN 0 ELSE timing[1],
                   cpu_accumulated_time |-> IF skipped THEN 0 ELSE timing[2],
                   complexity_n |-> IF skipped THEN 0 ELSE n,
                   statistics |-> IF skipped THEN "uninitialized" ELSE "set"]
  <2>1. reports' = Append(reports, r) /\ results' = NoResults
    BY <1>3 DEF Report
  <2>2. r \in RunReports
    <3>1. timing[1] \in Nat /\ timing[2] \in Nat
      BY StatisticsAssumption
    <3>2. CASE skipped
      BY <3>2 DEF RunReports
    <3>3. CASE ~skipped
      BY <1>3, <3>1, <3>3 DEF RunReports, Kept, Report
    <3>4. QED
      BY <3>2, <3>3
  <2> HIDE DEF r
  <2>3. reports' \in Seq(RunReports)
    BY <2>1, <2>2, AppendProperties DEF ResultsInv
  <2>4. QED
    BY <1>1, <2>1, <2>3 DEF ResultsInv
<1>4. CASE ComputeAggregates
  <2>1. reports' = reports /\ asked' = asked
    BY <1>4 DEF ComputeAggregates
  <2>2. results'.by # "ComputeBigO"
    BY <1>4 DEF ComputeAggregates, ComputeStats
  <2>3. ASSUME results'.by = "ComputeStats"
        PROVE  ComputedStats'
    <3>1. /\ results' = ComputeStats(reports) /\ ~(Len(Unskipped(reports)) < 2)
          /\ \A i \in DOMAIN reports : reports[i].iterations = reports[1].iterations
      BY <1>4, <2>3 DEF ComputeAggregates
    <3>2. Len(Unskipped(reports)) \in Nat
      BY UnskippedIs DEF ResultsInv
    <3>3. QED
      BY <2>1, <3>1, <3>2 DEF ComputedStats
  <2>4. QED
    BY <2>1, <2>2, <2>3 DEF ResultsInv
<1>5. CASE ComputeBigO
  <2>1. reports' = reports /\ asked' = asked
    BY <1>5 DEF ComputeBigO
  <2>2. results'.by # "ComputeStats"
    BY <1>5 DEF ComputeBigO
  <2>3. ComputedBigO'
    BY <1>5, <2>1 DEF ComputeBigO, ComputedBigO, SecondComplexity
  <2>4. QED
    BY <2>1, <2>2, <2>3 DEF ResultsInv
<1>6. CASE UNCHANGED runVars
  <2>1. reports' = reports /\ results' = results /\ asked' = asked
    BY <1>6 DEF runVars
  <2>2. (ComputedStats => ComputedStats') /\ (ComputedBigO => ComputedBigO')
    BY <2>1 DEF ComputedStats, ComputedBigO
  <2>3. QED
    BY <2>1, <2>2 DEF ResultsInv
<1>7. QED
  BY <1>2, <1>3, <1>4, <1>5, <1>6 DEF RunsNext

LEMMA ResultsInvariant == RunsSpec => []ResultsInv
<1>1. RunsInit => ResultsInv
  BY DEF RunsInit, ResultsInv, NoResults
<1>2. QED
  BY <1>1, ResultsStep, PTL DEF RunsSpec

-----------------------------------------------------------------------------
(* The aggregates of the repetitions. *)

\* Neither more than half is below the median, nor above.
LEMMA MedianIs ==
    ASSUME NEW n \in Nat, n >= 2, NEW v \in [1 .. n -> Nat]
    PROVE  LET m == StatisticsMedian(v)
           IN  /\ m[1] \in Nat /\ m[2] \in {1, 2}
               /\ 2 * Cardinality({i \in 1 .. n : v[i] * m[2] < m[1]}) <= n
               /\ 2 * Cardinality({i \in 1 .. n : m[1] < v[i] * m[2]}) <= n
<1> DEFINE I == 1 .. n
           m == StatisticsMedian(v)
           r == InOrder(v)
           less == {i \in I : v[i] * m[2] < m[1]}
           more == {i \in I : m[1] < v[i] * m[2]}
           c == n \div 2 + 1
<1>1. IsFiniteSet(I) /\ Cardinality(I) = n /\ DOMAIN v = I
  BY FS_Interval
<1>2. Len(v) = n
  <2>1. v \in Seq(Nat)
    OBVIOUS
  <2>2. QED
    BY <2>1
<1>3. /\ r \in [1 .. n -> Nat]
      /\ \A k \in 1 .. n : Cardinality(Below(v, r[k])) < k /\ Cardinality(UpTo(v, r[k])) >= k
      /\ \A j, k \in 1 .. n : j <= k => r[j] <= r[k]
  BY InOrderIs
<1> HIDE DEF r
<1>4. \A x : /\ IsFiniteSet(Below(v, x)) /\ Cardinality(Below(v, x)) \in Nat
             /\ Cardinality(UpTo(v, x)) \in Nat /\ IsFiniteSet(I \ UpTo(v, x))
             /\ Cardinality(I \ UpTo(v, x)) = n - Cardinality(UpTo(v, x))
  <2> TAKE x
  <2>1. UpTo(v, x) \subseteq I /\ Below(v, x) \subseteq I
    BY <1>1 DEF UpTo, Below
  <2>2. I \cap UpTo(v, x) = UpTo(v, x)
    BY <2>1
  <2>3. /\ IsFiniteSet(I \ UpTo(v, x))
        /\ Cardinality(I \ UpTo(v, x)) = n - Cardinality(UpTo(v, x))
    <3>1. Cardinality(I \ UpTo(v, x)) = Cardinality(I) - Cardinality(I \cap UpTo(v, x))
      BY <1>1, FS_Difference
    <3>2. QED
      BY <1>1, <2>2, <3>1, FS_Difference
  <2>4. QED
    BY <1>1, <2>1, <2>3, FS_Subset, FS_CardinalityType
<1>5. IsFiniteSet(less) /\ Cardinality(less) \in Nat /\ IsFiniteSet(more) /\ Cardinality(more) \in Nat
  <2>1. less \subseteq I /\ more \subseteq I
    OBVIOUS
  <2>2. QED
    BY <1>1, <2>1, FS_Subset, FS_CardinalityType
\* The values next to the middle bound the median.
<1>6. ASSUME NEW j \in I, NEW k \in I, less \subseteq Below(v, r[k]), more \subseteq I \ UpTo(v, r[j])
      PROVE  Cardinality(less) < k /\ Cardinality(more) <= n - j
  <2> HIDE DEF less, more, I
  <2>1. Cardinality(less) <= Cardinality(Below(v, r[k]))
    BY <1>4, <1>6, FS_Subset
  <2>2. Cardinality(more) <= Cardinality(I \ UpTo(v, r[j]))
    BY <1>4, <1>6, FS_Subset
  <2>3. Cardinality(Below(v, r[k])) < k /\ Cardinality(UpTo(v, r[j])) >= j
    BY <1>3 DEF I
  <2>4. j \in Nat /\ k \in Nat
    BY DEF I
  <2> DEFINE p == Cardinality(Below(v, r[k]))
             q == Cardinality(UpTo(v, r[j]))
             d == Cardinality(I \ UpTo(v, r[j]))
             x == Cardinality(less)
             y == Cardinality(more)
  <2>5. p \in Nat /\ q \in Nat /\ d = n - q /\ x \in Nat /\ y \in Nat
    BY <1>4, <1>5
  <2>6. x <= p /\ y <= d /\ p < k /\ q >= j
    BY <2>1, <2>2, <2>3
  <2> HIDE DEF p, q, d, x, y
  <2>7. x < k /\ y <= n - j
    BY <2>4, <2>5, <2>6
  <2>8. QED
    BY <2>7 DEF x, y
<1>7. CASE n = 2
  <2> DEFINE a == v[1]
             b == v[2]
  <2>1. a \in Nat /\ b \in Nat /\ I = {1} \cup {2} /\ IsFiniteSet({1})
    <3>1. a \in Nat /\ b \in Nat
      BY <1>7
    <3>2. I = {1} \cup {2}
      BY <1>7
    <3>3. QED
      BY <3>1, <3>2, FS_Singleton
  <2>2. Total(v) = a + b
    <3>1. SumFunctionOnSet(v, {1} \cup {2}) = v[2] + SumFunctionOnSet(v, {1})
      BY <1>7, <2>1, SumAdd
    <3>2. SumFunctionOnSet(v, {} \cup {1}) = v[1] + SumFunctionOnSet(v, {})
      BY <1>7, <2>1, SumAdd, FS_EmptySet
    <3>3. SumFunctionOnSet(v, {1}) = v[1]
      BY <2>1, <3>2, SumOfEmpty
    <3>4. Total(v) = SumFunctionOnSet(v, I)
      BY <1>1 DEF Total, SumFunction
    <3>5. Total(v) = b + a
      BY <2>1, <3>1, <3>3, <3>4
    <3> HIDE DEF a, b
    <3>6. QED
      BY <2>1, <3>5
  <2>3. m = <<a + b, 2>>
    BY <1>2, <1>7, <2>2 DEF StatisticsMedian, StatisticsMean
  <2>4. less \in {{}, {1}, {2}} /\ more \in {{}, {1}, {2}}
    <3>1. \A i \in I : i = 1 \/ i = 2
      BY <1>7
    <3>2. m[1] = a + b /\ m[2] = 2
      BY <2>3
    <3>3. ~(1 \in less /\ 2 \in less) /\ ~(1 \in more /\ 2 \in more)
      BY <2>1, <3>2
    <3>4. less \subseteq I /\ more \subseteq I
      OBVIOUS
    <3> HIDE DEF less, more
    <3>5. QED
      BY <3>1, <3>3, <3>4
  <2>5. Cardinality(less) \in {0, 1} /\ Cardinality(more) \in {0, 1}
    <3> HIDE DEF less, more
    <3>1. Cardinality({}) = 0 /\ Cardinality({1}) = 1 /\ Cardinality({2}) = 1
      BY FS_EmptySet, FS_Singleton
    <3>2. QED
      BY <2>4, <3>1
  <2>6. m[1] \in Nat /\ m[2] = 2
    BY <2>1, <2>3
  <2>7. QED
    BY <1>7, <2>5, <2>6
<1>8. CASE n > 2 /\ n % 2 = 1
  <2>1. c \in I /\ n = 2 * c - 1
    BY <1>8
  <2>2. m = <<r[c], 1>>
    BY <1>2, <1>8 DEF StatisticsMedian, r
  <2>3. r[c] \in Nat /\ m[1] = r[c] /\ m[2] = 1
    BY <1>3, <2>1, <2>2
  <2>4. less \subseteq Below(v, r[c]) /\ more \subseteq I \ UpTo(v, r[c])
    BY <1>1, <2>3 DEF Below, UpTo
  <2> HIDE DEF c, less, more
  <2>5. Cardinality(less) < c /\ Cardinality(more) <= n - c
    BY <1>6, <2>1, <2>4
  <2>6. c \in Nat
    BY <2>1
  <2>7. 2 * Cardinality(less) <= n /\ 2 * Cardinality(more) <= n
    BY <1>5, <2>1, <2>5, <2>6
  <2>8. QED
    BY <2>3, <2>7 DEF less, more
<1>9. CASE n > 2 /\ n % 2 # 1
  <2>1. c \in I /\ c - 1 \in I /\ n = 2 * (c - 1)
    BY <1>9
  <2>2. m = <<r[c] + r[c - 1], 2>>
    BY <1>2, <1>9 DEF StatisticsMedian, r
  <2> DEFINE a == r[c - 1]
             b == r[c]
  <2>3. a \in Nat /\ b \in Nat /\ a <= b /\ m[1] = b + a /\ m[2] = 2
    <3>1. a \in Nat /\ b \in Nat /\ c - 1 <= c
      BY <1>3, <2>1
    <3>2. a <= b
      BY <1>3, <2>1, <3>1
    <3>3. QED
      BY <2>2, <3>1, <3>2
  <2> HIDE DEF a, b, m, c
  <2>4. less \subseteq Below(v, b) /\ more \subseteq I \ UpTo(v, a)
    BY <1>1, <2>3 DEF Below, UpTo
  <2> HIDE DEF less, more
  <2>5. Cardinality(less) < c /\ Cardinality(more) <= n - (c - 1)
    BY <1>6, <2>1, <2>4 DEF a, b
  <2>6. c \in Nat
    BY <2>1
  <2>7. 2 * Cardinality(less) <= n /\ 2 * Cardinality(more) <= n
    BY <1>5, <2>1, <2>5, <2>6
  <2>8. QED
    BY <2>3, <2>7 DEF less, more, m
<1>10. QED
  BY <1>7, <1>8, <1>9

\* The square of a sample's standard deviation, by what each differs from the
\* mean; it is zero where none does.
LEMMA SquaresOfDifferences ==
    ASSUME NEW n \in Nat, NEW v \in [1 .. n -> Nat], NEW square,
           square = [i \in 1 .. n |-> (n * v[i] - Total(v)) * (n * v[i] - Total(v))]
    PROVE  /\ Total(v) \in Nat /\ Squares(v) \in Nat
           /\ Total(square) = n * (n * Squares(v) - Total(v) * Total(v))
           /\ n * Squares(v) - Total(v) * Total(v) = 0 => \A i \in 1 .. n : n * v[i] = Total(v)
<1> DEFINE I == 1 .. n
           q == [i \in I |-> v[i] * v[i]]
           one == [i \in I |-> 1]
           T == Total(v)
           Q == Squares(v)
           a == n * n
           b == 0 - (2 * n) * T
           d == T * T
           e == [i \in I |-> a * q[i] + b * v[i]]
<1>1. IsFiniteSet(I) /\ Cardinality(I) = n /\ DOMAIN v = I /\ \A i \in I : v[i] \in Nat
  <2>1. IsFiniteSet(I) /\ Cardinality(I) = n
    BY FS_Interval
  <2>2. DOMAIN v = I /\ \A i \in I : v[i] \in Nat
    OBVIOUS
  <2>3. QED
    BY <2>1, <2>2
<1>2. T = SumFunctionOnSet(v, I) /\ Q = SumFunctionOnSet(q, I)
  BY <1>1 DEF Total, SumFunction, Squares
<1>3. IsProduct(I, q, v, v)
  BY <1>1 DEF IsProduct
<1>4. \A i \in I : one[i] = 1
  OBVIOUS
<1>5. DOMAIN square = I /\ \A i \in I : square[i] = (n * v[i] - T) * (n * v[i] - T)
  OBVIOUS
<1> HIDE DEF T, Q
<1>6. T \in Nat /\ Q \in Nat /\ T * T <= Q * n /\ (T * T = Q * n => \A i \in I : n * v[i] = T)
  <2> HIDE DEF I, q
  <2>1. /\ SumFunctionOnSet(q, I) \in Nat /\ SumFunctionOnSet(v, I) \in Int
        /\ SumFunctionOnSet(v, I) * SumFunctionOnSet(v, I) <= SumFunctionOnSet(q, I) * Cardinality(I)
        /\ SumFunctionOnSet(v, I) * SumFunctionOnSet(v, I) = SumFunctionOnSet(q, I) * Cardinality(I) =>
              \A i \in I : Cardinality(I) * v[i] = SumFunctionOnSet(v, I)
    BY <1>1, <1>3, SquareOfSum
  <2>2. SumFunctionOnSet(v, I) \in Nat
    BY <1>1, SumNat
  <2>3. QED
    BY <1>1, <1>2, <2>1, <2>2
<1>7. a \in Int /\ b \in Int /\ d \in Int
  BY <1>6
<1>8. \A i \in I : q[i] \in Int /\ e[i] = a * q[i] + b * v[i] /\ e[i] \in Int
  <2> TAKE i \in I
  <2>1. v[i] \in Nat /\ q[i] = v[i] * v[i] /\ e[i] = a * q[i] + b * v[i]
    BY <1>1
  <2> HIDE DEF a, b, e, q
  <2>2. q[i] \in Int
    BY <2>1
  <2>3. QED
    BY <1>7, <2>1, <2>2
<1>9. \A i \in I : square[i] = 1 * e[i] + d * one[i]
  <2> TAKE i \in I
  <2> DEFINE x == v[i]
  <2>1. x \in Nat /\ q[i] = x * x /\ one[i] = 1 /\ e[i] = a * q[i] + b * x
        /\ square[i] = (n * x - T) * (n * x - T)
    BY <1>1, <1>5, <1>8
  <2> HIDE DEF x, q, one, e
  <2>2. (n * x - T) * (n * x - T) = 1 * (a * (x * x) + b * x) + d * 1
    BY <1>6, <2>1
  <2> HIDE DEF a, b, d
  <2>3. QED
    BY <2>1, <2>2
<1>10. SumFunctionOnSet(e, I) = a * Q + b * T
  <2>1. IsLinear(I, e, a, q, b, v)
    BY <1>1, <1>8 DEF IsLinear
  <2> HIDE DEF I, e, a, q, b
  <2>2. SumFunctionOnSet(e, I) = a * SumFunctionOnSet(q, I) + b * SumFunctionOnSet(v, I)
    BY <1>1, <1>7, <2>1, SumLinear
  <2>3. QED
    BY <1>2, <2>2
<1>11. SumFunctionOnSet(square, I) = SumFunctionOnSet(e, I) + d * n
  <2> DEFINE k == 1
  <2>1. k \in Int /\ k = 1
    OBVIOUS
  <2> HIDE DEF k, I, e, d, one
  <2>2. IsLinear(I, square, k, e, d, one)
    BY <1>4, <1>8, <1>9, <2>1 DEF IsLinear
  <2>3. SumFunctionOnSet(square, I) = k * SumFunctionOnSet(e, I) + d * SumFunctionOnSet(one, I)
    BY <1>1, <1>7, <2>1, <2>2, SumLinear
  <2>4. SumFunctionOnSet(one, I) = n
    BY <1>1, <1>4, SumOfOnes
  <2>5. SumFunctionOnSet(e, I) \in Int
    BY <1>1, <1>8, SumType
  <2>6. QED
    BY <1>7, <2>1, <2>3, <2>4, <2>5
<1>12. Total(square) = (a * Q + b * T) + d * n
  BY <1>5, <1>10, <1>11 DEF Total, SumFunction
<1> HIDE DEF I, q, one, e
<1>13. (a * Q + b * T) + d * n = n * (n * Q - T * T)
  BY <1>6
<1>14. n * Q - T * T = 0 => T * T = Q * n
  BY <1>6
<1> HIDE DEF a, b, d
<1>15. QED
  BY <1>6, <1>12, <1>13, <1>14 DEF T, Q, I

\* A sample has no deviation if and only if it is of one value.
LEMMA NoDeviation ==
    ASSUME NEW n \in Nat \ {0}, NEW v \in [1 .. n -> Nat]
    PROVE  n * Squares(v) - Total(v) * Total(v) = 0 <=> Cardinality(ToSet(v)) = 1
<1> DEFINE I == 1 .. n
           X == n * Squares(v) - Total(v) * Total(v)
           square == [i \in I |-> (n * v[i] - Total(v)) * (n * v[i] - Total(v))]
<1>1. /\ Total(v) \in Nat /\ Squares(v) \in Nat
      /\ X = 0 => \A i \in I : n * v[i] = Total(v)
  BY SquaresOfDifferences
<1>2. ToSet(v) = {v[i] : i \in I} /\ 1 \in I
  BY DEF ToSet
<1>3. ASSUME X = 0 PROVE Cardinality(ToSet(v)) = 1
  <2>1. \A i \in I : v[i] = v[1]
    <3> TAKE i \in I
    <3> DEFINE x == v[i]
               y == v[1]
    <3>1. x \in Nat /\ y \in Nat
      BY <1>2
    <3>2. n * x = n * y
      BY <1>1, <1>2, <1>3
    <3> HIDE DEF x, y
    <3>3. x = y
      BY <3>1, <3>2
    <3>4. QED
      BY <3>3 DEF x, y
  <2>2. ToSet(v) = {v[1]}
    BY <1>2, <2>1
  <2>3. QED
    BY <2>2, FS_Singleton
<1>4. ASSUME Cardinality(ToSet(v)) = 1 PROVE X = 0
  <2> DEFINE one == [i \in I |-> 1]
             q == [i \in I |-> v[i] * v[i]]
             y == v[1]
             z == y * y
  <2>1. IsFiniteSet(I) /\ Cardinality(I) = n /\ DOMAIN v = I
    BY FS_Interval
  <2>2. PICK x : ToSet(v) = {x}
    <3>1. IsFiniteSet(ToSet(v))
      <4>1. v \in Surjection(I, ToSet(v))
        BY <1>2, <2>1 DEF Surjection
      <4>2. QED
        BY <2>1, <4>1, FS_Surjection
    <3>2. QED
      BY <1>4, <3>1, FS_Singleton
  <2>3. \A i \in I : v[i] = y
    BY <1>2, <2>2
  <2>4. y \in Nat
    BY <1>2
  <2>5. Total(v) = SumFunctionOnSet(v, I) /\ Squares(v) = SumFunctionOnSet(q, I)
    BY <2>1 DEF Total, SumFunction, Squares
  <2>6. \A i \in I : one[i] = 1
    OBVIOUS
  <2>7. IsScaled(I, v, y, one)
    BY <2>3, <2>4, <2>6 DEF IsScaled
  <2>8. IsScaled(I, q, z, one)
    BY <2>3, <2>4, <2>6 DEF IsScaled
  <2>9. z \in Int
    BY <2>4
  <2> HIDE DEF I, one, q, y, z, X
  <2>10. SumFunctionOnSet(one, I) = n
    BY <2>1, <2>6, SumOfOnes
  <2>11. Total(v) = y * n
    BY <2>1, <2>4, <2>5, <2>7, <2>10, SumScaled
  <2>12. Squares(v) = z * n
    BY <2>1, <2>5, <2>8, <2>9, <2>10, SumScaled
  <2>13. QED
    BY <2>4, <2>11, <2>12 DEF X, z
<1>5. QED
  BY <1>3, <1>4

\* What ResultsInv says of the aggregates, without their names.
LEMMA AggregatesAre ==
    ASSUME ResultsInv, results.by = "ComputeStats"
    PROVE  AggregatesOfTheShown
<1> DEFINE u == Unskipped(reports)
           v == Reals(u)
           n == Len(v)
           L == Len(reports)
           factor == RescaleFactor(reports)
           it == Iterations
           m == StatisticsMedian(v)
           T == Total(v)
           Q == Squares(v)
           I == 1 .. n
           X == n * Q - T * T
           square == [i \in I |-> (n * v[i] - T) * (n * v[i] - T)]
<1>1. ComputedStats /\ reports \in Seq(RunReports)
  BY DEF ResultsInv
<1>2. n \in Nat /\ n >= 2 /\ v \in [I -> Nat] /\ DOMAIN v = I
  <2>1. u \in Seq(Kept) /\ Len(u) >= 2
    BY <1>1, UnskippedIs DEF ComputedStats
  <2> HIDE DEF u
  <2>2. DOMAIN u = 1 .. Len(u) /\ Len(u) \in Nat /\ \A i \in 1 .. Len(u) : u[i] \in Kept
    BY <2>1
  <2>3. v \in [1 .. Len(u) -> Nat]
    BY <2>2 DEF Reals, Kept
  <2>4. Len(v) = Len(u)
    <3> HIDE DEF v
    <3>1. v \in Seq(Nat) /\ DOMAIN v = 1 .. Len(u)
      BY <2>2, <2>3
    <3>2. QED
      BY <2>2, <3>1
  <2> HIDE DEF v
  <2>5. QED
    BY <2>1, <2>2, <2>3, <2>4
<1>3. L \in Nat \ {0} /\ it \in Nat \ {0} /\ factor = <<L, it>>
  <2>1. PICK i \in DOMAIN reports : reports[i].iterations = Iterations
    BY <1>1, UnskippedIs DEF ComputedStats
  <2>2. reports[1].iterations = Iterations
    BY <1>1, <2>1 DEF ComputedStats
  <2>3. L \in Nat \ {0}
    BY <1>1, <2>1
  <2>4. QED
    BY <2>2, <2>3, StatisticsAssumption DEF RescaleFactor
<1>4. /\ results.iterations = L /\ results.mean = Product(StatisticsMean(v), factor)
      /\ results.median = Product(m, factor)
      /\ results.stddev = Product(StatisticsStdDev(v), Product(factor, factor))
  BY <1>1 DEF ComputedStats, ComputeStats
<1> HIDE DEF v, L, it, factor, m
<1>5. T \in Nat /\ Q \in Nat /\ Total(square) = n * X /\ (X = 0 <=> Cardinality(ToSet(v)) = 1)
  <2>1. square = [i \in 1 .. n |-> (n * v[i] - Total(v)) * (n * v[i] - Total(v))]
    OBVIOUS
  <2>2. v \in [1 .. n -> Nat] /\ n \in Nat /\ n \in Nat \ {0}
    BY <1>2
  <2> HIDE DEF n, square
  <2>3. /\ Total(v) \in Nat /\ Squares(v) \in Nat
        /\ Total(square) = n * (n * Squares(v) - Total(v) * Total(v))
    BY <2>1, <2>2, SquaresOfDifferences
  <2>4. n * Squares(v) - Total(v) * Total(v) = 0 <=> Cardinality(ToSet(v)) = 1
    BY <2>2, NoDeviation
  <2>5. QED
    BY <2>3, <2>4
<1> HIDE DEF T, Q
<1>6. /\ results.mean = <<T * L, n * it>>
      /\ results.median = <<m[1] * L, m[2] * it>>
      /\ results.stddev = <<X * (L * L), (n * (n - 1)) * (it * it)>>
  <2>1. StatisticsMean(v) = <<T, n>>
    <3>1. v # <<>>
      BY <1>2
    <3>2. QED
      BY <3>1 DEF StatisticsMean, T
  <2>2. StatisticsStdDev(v) = <<X, n * (n - 1)>>
    BY <1>2 DEF StatisticsStdDev, T, Q
  <2>3. factor[1] = L /\ factor[2] = it
    BY <1>3
  <2> HIDE DEF X, n
  <2>4. QED
    BY <1>4, <2>1, <2>2, <2>3 DEF Product
<1>7. m[1] \in Nat /\ m[2] \in {1, 2}
      /\ 2 * Cardinality({i \in I : v[i] * m[2] < m[1]}) <= n
      /\ 2 * Cardinality({i \in I : m[1] < v[i] * m[2]}) <= n
  <2> HIDE DEF n
  <2>1. QED
    BY <1>2, MedianIs DEF m
<1> HIDE DEF n, X, square
<1> DEFINE shown(p) == <<p[1], p[2] * results.iterations>>
           median == shown(results.median)
           time(i) == <<v[i], Iterations>>
           a == m[1]
           b == m[2]
<1>8. median = <<a * L, (b * it) * L>>
  BY <1>4, <1>6
<1>9. ASSUME NEW i \in I
      PROVE  /\ Less(time(i), median) <=> v[i] * b < a
             /\ Less(median, time(i)) <=> a < v[i] * b
  <2> DEFINE x == v[i]
             k == it * L
  <2>1. x \in Nat /\ a \in Nat /\ b \in Nat \ {0} /\ time(i) = <<x, it>>
    BY <1>2, <1>7 DEF it
  <2> HIDE DEF x, a, b, median, time
  <2>2. k \in Nat /\ k > 0 /\ (b * it) * L \in Nat \ {0} /\ a * L \in Nat
    BY <1>3, <2>1
  <2>3. time(i) \in Fractions /\ median \in Fractions
    BY <1>3, <1>8, <2>1, <2>2 DEF Fractions
  <2>4. time(i)[1] = x /\ time(i)[2] = it /\ median[1] = a * L /\ median[2] = (b * it) * L
    BY <1>8, <2>1
  <2>5. /\ Less(time(i), median) <=> x * ((b * it) * L) < (a * L) * it
        /\ Less(median, time(i)) <=> (a * L) * it < x * ((b * it) * L)
    BY <2>3, <2>4, LessIs
  <2>6. x * ((b * it) * L) = (x * b) * k /\ (a * L) * it = a * k
    BY <1>3, <2>1
  <2> DEFINE y == x * b
  <2>7. y \in Nat
    BY <2>1
  <2> HIDE DEF k, y
  <2>8. (y * k < a * k <=> y < a) /\ (a * k < y * k <=> a < y)
    BY <2>1, <2>2, <2>7
  <2>9. QED
    BY <2>5, <2>6, <2>8 DEF x, y
<1>10. 2 * Cardinality({i \in I : Less(time(i), median)}) <= n
       /\ 2 * Cardinality({i \in I : Less(median, time(i))}) <= n
  <2> HIDE DEF median, time
  <2>1. /\ {i \in I : Less(time(i), median)} = {i \in I : v[i] * m[2] < m[1]}
        /\ {i \in I : Less(median, time(i))} = {i \in I : m[1] < v[i] * m[2]}
    BY <1>9 DEF a, b
  <2>2. QED
    BY <1>7, <2>1
<1>11. Equal(shown(results.mean), <<T, n * it>>)
  <2>1. shown(results.mean) = <<T * L, (n * it) * L>>
    BY <1>4, <1>6
  <2>2. (T * L) * (n * it) = T * ((n * it) * L)
    BY <1>2, <1>3, <1>5
  <2>3. QED
    BY <2>1, <2>2 DEF Equal
<1>12. X \in Int
  BY <1>2, <1>5 DEF X
<1>13. Equal(shown(shown(results.stddev)), <<Total(square), n * n * (n - 1) * it * it>>)
  <2>1. shown(shown(results.stddev)) = <<X * (L * L), (((n * (n - 1)) * (it * it)) * L) * L>>
    BY <1>4, <1>6
  <2>2. (X * (L * L)) * (n * n * (n - 1) * it * it)
            = (n * X) * ((((n * (n - 1)) * (it * it)) * L) * L)
    BY <1>2, <1>3, <1>12
  <2>3. QED
    BY <1>5, <2>1, <2>2 DEF Equal
<1>14. results.stddev[1] = 0 <=> Cardinality(ToSet(v)) = 1
  <2>1. X * (L * L) = 0 <=> X = 0
    BY <1>3, <1>12
  <2>2. results.stddev[1] = X * (L * L)
    BY <1>6
  <2>3. QED
    BY <1>5, <2>1, <2>2
<1>15. QED
  BY <1>2, <1>10, <1>11, <1>13, <1>14 DEF AggregatesOfTheShown, v, T, n, square, it

\* ComputeStats, for any repetitions of which any were skipped: what is shown of
\* an aggregate is the mean and the median of what is shown of the repetitions,
\* and the standard deviation is that of a sample.
THEOREM AggregatesShown == RunsSpec => []AggregatesOfTheShown
<1>1. ResultsInv => AggregatesOfTheShown
  BY AggregatesAre DEF AggregatesOfTheShown
<1>2. QED
  BY <1>1, ResultsInvariant, PTL

-----------------------------------------------------------------------------
(* The complexity of a family. *)

Curves == {"o1", "oLogN", "oN", "oNLogN", "oNSquared", "oNCubed"}

LEMMA CurveType ==
    ASSUME NEW n \in Sizes, NEW c
    PROVE  FittingCurve(c, n) \in Nat
<1>1. n \in Nat
  BY StatisticsAssumption
<1>2. log2(n) \in 0 .. n
  BY SizesAssumption, Zenon DEF log2
<1>3. n * n \in Nat /\ n * n * n \in Nat /\ log2(n) \in Nat
  BY <1>1, <1>2
<1>4. n * log2(n) \in Nat
  BY <1>1, <1>3
<1>5. QED
  BY <1>1, <1>3, <1>4 DEF FittingCurve

\* A fit in terms of its sums, which are those of Cauchy and Schwarz.
Curve(n, c) == [i \in DOMAIN n |-> FittingCurve(c, n[i])]
Times(f, g) == [i \in DOMAIN f |-> f[i] * g[i]]

LEMMA FitIs ==
    ASSUME NEW k \in Nat, NEW n \in [1 .. k -> Sizes], NEW time \in [1 .. k -> Nat], NEW c
    PROVE  LET g == Curve(n, c)
               A == SumFunctionOnSet(Times(time, time), 1 .. k)
               B == SumFunctionOnSet(Times(time, g), 1 .. k)
               C == SumFunctionOnSet(Times(g, g), 1 .. k)
           IN  /\ FitOf(n, time, c) = [complexity |-> c, coef |-> <<B, C>>, fit |-> <<B * B, C>>]
               /\ g \in [1 .. k -> Nat]
               /\ A \in Nat /\ B \in Nat /\ C \in Nat /\ B * B <= A * C
               /\ B * B = A * C => \A i \in 1 .. k : C * time[i] = B * g[i]
               /\ C = 0 => \A i \in 1 .. k : g[i] = 0
<1> DEFINE I == 1 .. k
           g == Curve(n, c)
           tt == Times(time, time)
           tg == Times(time, g)
           gg == Times(g, g)
           A == SumFunctionOnSet(tt, I)
           B == SumFunctionOnSet(tg, I)
           C == SumFunctionOnSet(gg, I)
<1>1. IsFiniteSet(I)
  BY FS_Interval
<1>2. DOMAIN n = I /\ DOMAIN time = I
  OBVIOUS
<1>3. g \in [I -> Nat] /\ DOMAIN g = I
  <2>1. \A i \in I : FittingCurve(c, n[i]) \in Nat
    BY CurveType
  <2>2. QED
    BY <1>2, <2>1 DEF Curve
<1> HIDE DEF g
<1>4. DOMAIN tt = I /\ DOMAIN tg = I /\ DOMAIN gg = I
  BY <1>2, <1>3 DEF Times
<1>5. \A i \in I : /\ time[i] \in Nat /\ g[i] \in Nat
                   /\ tt[i] = time[i] * time[i] /\ tg[i] = time[i] * g[i] /\ gg[i] = g[i] * g[i]
  BY <1>2, <1>3 DEF Times
<1>6. FitOf(n, time, c) = [complexity |-> c, coef |-> <<B, C>>, fit |-> <<B * B, C>>]
  <2>1. tg = [i \in DOMAIN n |-> time[i] * g[i]] /\ gg = [i \in DOMAIN g |-> g[i] * g[i]]
        /\ g = [i \in DOMAIN n |-> FittingCurve(c, n[i])]
    BY <1>2 DEF Times, Curve, g
  <2>2. Total(tg) = B /\ Total(gg) = C
    BY <1>4 DEF Total, SumFunction
  <2>3. Squares(g) = C
    BY <2>1, <2>2 DEF Squares
  <2> HIDE DEF tg, gg, B, C
  <2>4. QED
    BY <2>1, <2>2, <2>3 DEF FitOf
<1> HIDE DEF I, tt, tg, gg
<1>7. IsProduct(I, tt, time, time) /\ IsProduct(I, tg, time, g) /\ IsProduct(I, gg, g, g)
  BY <1>5 DEF IsProduct
<1>8. A \in Nat /\ B \in Int /\ C \in Nat /\ B * B <= A * C
      /\ (B * B = A * C => AreProportional(I, C, time, B, g))
  BY <1>1, <1>7, CauchySchwarz
<1>9. B \in Nat
  <2>1. \A i \in I : tg[i] \in Nat
    BY <1>5
  <2>2. QED
    BY <1>1, <2>1, SumNat
<1>10. C = 0 => \A i \in I : g[i] = 0
  BY <1>1, <1>7, SumOfSquares
<1>11. QED
  BY <1>3, <1>6, <1>8, <1>9, <1>10 DEF AreProportional, I, tt, tg, gg, g

\* Times that follow a curve: each is the fit's coefficient times the curve, and
\* the fit is as good as there is.
LEMMA ExactFit ==
    ASSUME NEW k \in Nat, NEW time \in [1 .. k -> Nat], NEW g \in [1 .. k -> Nat],
           \A i, j \in 1 .. k : time[i] * g[j] = time[j] * g[i]
    PROVE  LET A == SumFunctionOnSet(Times(time, time), 1 .. k)
               B == SumFunctionOnSet(Times(time, g), 1 .. k)
               C == SumFunctionOnSet(Times(g, g), 1 .. k)
           IN  B * B = A * C
<1> DEFINE I == 1 .. k
           tt == Times(time, time)
           tg == Times(time, g)
           gg == Times(g, g)
           A == SumFunctionOnSet(tt, I)
           B == SumFunctionOnSet(tg, I)
           C == SumFunctionOnSet(gg, I)
<1>1. IsFiniteSet(I)
  BY FS_Interval
<1>2. \A i \in I : /\ time[i] \in Nat /\ g[i] \in Nat
                   /\ tt[i] = time[i] * time[i] /\ tg[i] = time[i] * g[i] /\ gg[i] = g[i] * g[i]
  <2>1. DOMAIN time = I /\ DOMAIN g = I /\ \A i \in I : time[i] \in Nat /\ g[i] \in Nat
    OBVIOUS
  <2> HIDE DEF I
  <2>2. QED
    BY <2>1 DEF Times
<1>3. \A i, j \in I : time[i] * g[j] = time[j] * g[i]
  OBVIOUS
<1> HIDE DEF I, tt, tg, gg
<1>4. \A i \in I : tt[i] \in Int /\ tg[i] \in Int /\ gg[i] \in Int
  <2> TAKE i \in I
  <2> DEFINE t == time[i]
             u == g[i]
  <2>1. t \in Nat /\ u \in Nat /\ tt[i] = t * t /\ tg[i] = t * u /\ gg[i] = u * u
    BY <1>2
  <2> HIDE DEF t, u
  <2>2. t * t \in Int /\ t * u \in Int /\ u * u \in Int
    BY <2>1
  <2>3. QED
    BY <2>1, <2>2
<1>5. A \in Int /\ B \in Int /\ C \in Int
  BY <1>1, <1>4, SumType
<1>6. ASSUME NEW j \in I PROVE g[j] * B = time[j] * C
  <2> DEFINE t == time[j]
             u == g[j]
             h == [i \in I |-> u * tg[i]]
  <2>1. t \in Int /\ u \in Int
    BY <1>2
  <2>2. \A i \in I : u * tg[i] = t * gg[i]
    <3> TAKE i \in I
    <3> DEFINE v == time[i]
               w == g[i]
    <3>1. v \in Int /\ w \in Int /\ v * u = t * w /\ tg[i] = v * w /\ gg[i] = w * w
      BY <1>2, <1>3
    <3> HIDE DEF t, u, v, w
    <3>2. u * (v * w) = (v * u) * w /\ (t * w) * w = t * (w * w)
      BY <2>1, <3>1
    <3>3. QED
      BY <3>1, <3>2
  <2>3. IsScaled(I, h, u, tg) /\ IsScaled(I, h, t, gg)
    <3> HIDE DEF t, u
    <3>1. QED
      BY <1>4, <2>2 DEF IsScaled
  <2> HIDE DEF t, u, h
  <2>4. SumFunctionOnSet(h, I) = u * B /\ SumFunctionOnSet(h, I) = t * C
    BY <1>1, <2>1, <2>3, SumScaled
  <2>5. QED
    BY <2>4 DEF t, u
<1> HIDE DEF A, B, C
<1>7. \A j \in I : B * tg[j] = C * tt[j]
  <2> TAKE j \in I
  <2> DEFINE t == time[j]
             u == g[j]
  <2>1. t \in Int /\ u \in Int /\ u * B = t * C /\ tg[j] = t * u /\ tt[j] = t * t
    BY <1>2, <1>6
  <2> HIDE DEF t, u
  <2>2. B * (t * u) = t * (u * B) /\ C * (t * t) = t * (t * C)
    BY <1>5, <2>1
  <2>3. QED
    BY <2>1, <2>2
<1>8. B * B = C * A
  <2> DEFINE h == [j \in I |-> B * tg[j]]
  <2>1. IsScaled(I, h, B, tg) /\ IsScaled(I, h, C, tt)
    BY <1>4, <1>7 DEF IsScaled
  <2> HIDE DEF h
  <2>2. SumFunctionOnSet(h, I) = B * SumFunctionOnSet(tg, I)
    BY <1>1, <1>5, <2>1, SumScaled
  <2>3. SumFunctionOnSet(h, I) = C * SumFunctionOnSet(tt, I)
    BY <1>1, <1>5, <2>1, SumScaled
  <2>4. QED
    BY <2>2, <2>3 DEF A, B
<1>9. B * B = A * C
  BY <1>5, <1>8
<1>10. QED
  BY <1>9 DEF A, B, C, I, tt, tg, gg

\* The curve that is found among all gives back times that follow any.
LEMMA FoundFits ==
    ASSUME NEW k \in Nat, NEW n \in [1 .. k -> Sizes], NEW time \in [1 .. k -> Nat],
           NEW f \in MinimalLeastSq(n, time, "oAuto"), NEW c \in Curves,
           \A i, j \in 1 .. k :
              /\ FittingCurve(c, n[i]) # 0
              /\ time[i] * FittingCurve(c, n[j]) = time[j] * FittingCurve(c, n[i])
    PROVE  /\ f.complexity \in Curves
           /\ \A i \in 1 .. k : f.coef[1] * FittingCurve(f.complexity, n[i]) = time[i] * f.coef[2]
<1> DEFINE I == 1 .. k
           A == SumFunctionOnSet(Times(time, time), I)
           B(d) == SumFunctionOnSet(Times(time, Curve(n, d)), I)
           C(d) == SumFunctionOnSet(Times(Curve(n, d), Curve(n, d)), I)
           fits == {FitOf(n, time, d) : d \in Curves}
           defined == {e \in fits : e.fit # NaN}
<1>1. \A d : /\ FitOf(n, time, d) = [complexity |-> d, coef |-> <<B(d), C(d)>>,
                                      fit |-> <<B(d) * B(d), C(d)>>]
             /\ Curve(n, d) \in [I -> Nat]
             /\ A \in Nat /\ B(d) \in Nat /\ C(d) \in Nat /\ B(d) * B(d) <= A * C(d)
             /\ B(d) * B(d) = A * C(d) => \A i \in I : C(d) * time[i] = B(d) * Curve(n, d)[i]
             /\ C(d) = 0 => \A i \in I : Curve(n, d)[i] = 0
  BY FitIs
<1>2. \A d : \A i \in I : Curve(n, d)[i] = FittingCurve(d, n[i])
  BY DEF Curve
<1>3. \A i \in I : time[i] \in Nat
  OBVIOUS
<1>4. f \in IF Total(time) = 0 THEN {FitOf(n, time, "o1")}
            ELSE {e \in defined : \A g \in defined : ~Less(e.fit, g.fit)}
  BY Zenon DEF MinimalLeastSq, Curves
<1>5. PICK d \in Curves : f = FitOf(n, time, d)
  BY <1>4 DEF Curves
<1>6. f.complexity = d /\ f.coef[1] = B(d) /\ f.coef[2] = C(d) /\ f.fit = <<B(d) * B(d), C(d)>>
  BY <1>1, <1>5
<1> SUFFICES ASSUME NEW i \in I PROVE B(d) * FittingCurve(d, n[i]) = time[i] * C(d)
  BY <1>6
<1>7. CASE Total(time) = 0
  <2>1. time[i] = 0 /\ \A j \in I : time[j] = 0
    <3> DEFINE zero == [j \in I |-> 0]
    <3>1. IsFiniteSet(I) /\ \A j \in I : zero[j] = 0
      BY FS_Interval
    <3>2. SumFunctionOnSet(time, I) = 0
      BY <1>7 DEF Total, SumFunction
    <3> HIDE DEF I, zero
    <3>3. SumFunctionOnSet(zero, I) = 0
      BY <3>1, SumZero
    <3>4. \A j \in I : zero[j] \in Int /\ time[j] \in Int /\ zero[j] <= time[j]
      BY <1>3, <3>1
    <3>5. \A j \in I : zero[j] = time[j]
      BY <3>1, <3>2, <3>3, <3>4, SumCompare
    <3>6. QED
      BY <3>1, <3>5
  <2>2. B(d) = 0
    <3> DEFINE g == Curve(n, d)
               tg == Times(time, g)
    <3>1. g \in [I -> Nat]
      BY <1>1
    <3> HIDE DEF g
    <3>2. \A j \in I : tg[j] = 0
      BY <2>1, <3>1 DEF Times
    <3>3. IsFiniteSet(I)
      BY FS_Interval
    <3> HIDE DEF I, tg
    <3>4. QED
      BY <3>2, <3>3, SumZero DEF tg, g
  <2>3. C(d) \in Nat /\ FittingCurve(d, n[i]) \in Nat
    BY <1>1, CurveType
  <2> HIDE DEF B, C
  <2>4. QED
    BY <2>1, <2>2, <2>3
<1>8. CASE Total(time) # 0
  <2>1. B(c) * B(c) = A * C(c)
    <3> DEFINE g == Curve(n, c)
    <3>1. g \in [I -> Nat] /\ \A j \in I : g[j] = FittingCurve(c, n[j])
      BY <1>1, <1>2
    <3> HIDE DEF g
    <3>2. \A h, j \in 1 .. k : time[h] * g[j] = time[j] * g[h]
      BY <3>1
    <3>3. QED
      BY <3>1, <3>2, ExactFit DEF g
  <2>2. C(c) # 0
    BY <1>1, <1>2
  <2>3. FitOf(n, time, c) \in defined
    <3>1. FitOf(n, time, c).fit = <<B(c) * B(c), C(c)>>
      BY <1>1
    <3> HIDE DEF B, C
    <3>2. QED
      BY <2>2, <3>1 DEF NaN
  <2>4. f \in defined /\ ~Less(f.fit, FitOf(n, time, c).fit)
    BY <1>4, <1>8, <2>3
  <2>5. C(d) # 0
    <3>1. A \in Nat /\ B(d) \in Nat /\ C(d) \in Nat /\ B(d) * B(d) <= A * C(d)
      BY <1>1
    <3>2. f.fit # <<0, 0>>
      BY <2>4 DEF NaN
    <3> HIDE DEF A, B, C, defined
    <3>3. ASSUME C(d) = 0 PROVE FALSE
      <4>1. B(d) * B(d) = 0
        BY <3>1, <3>3
      <4>2. QED
        BY <1>6, <3>2, <3>3, <4>1
    <3>4. QED
      BY <3>3
  <2> DEFINE a == A
             b == B(d) * B(d)
             u == C(d)
             v == C(c)
  <2>6. a \in Nat /\ b \in Nat /\ u \in Nat \ {0} /\ v \in Nat \ {0} /\ b <= a * u
    <3>1. A \in Nat /\ B(d) \in Nat /\ C(d) \in Nat /\ C(c) \in Nat /\ B(d) * B(d) <= A * C(d)
      BY <1>1
    <3> HIDE DEF A, B, C
    <3>2. QED
      BY <2>2, <2>5, <3>1
  <2>7. f.fit = <<b, u>> /\ FitOf(n, time, c).fit = <<a * v, v>>
    <3>1. FitOf(n, time, c).fit = <<B(c) * B(c), C(c)>>
      BY <1>1
    <3> HIDE DEF A, B, C
    <3>2. QED
      BY <1>6, <2>1, <3>1
  <2> HIDE DEF a, b, u, v
  <2>8. ~(b * v < (a * v) * u)
    <3> DEFINE p == f.fit
               q == FitOf(n, time, c).fit
    <3>1. p \in Fractions /\ q \in Fractions
      BY <2>6, <2>7 DEF Fractions
    <3>2. p[1] = b /\ p[2] = u /\ q[1] = a * v /\ q[2] = v
      BY <2>7
    <3>3. ~Less(p, q)
      BY <2>4
    <3> HIDE DEF p, q
    <3>4. QED
      BY <3>1, <3>2, <3>3, LessIs
  <2>9. b = a * u
    <3> DEFINE w == a * u
    <3>1. w \in Nat /\ (a * v) * u = w * v
      BY <2>6
    <3> HIDE DEF w
    <3>2. ~(b < w)
      BY <2>6, <2>8, <3>1
    <3>3. QED
      BY <2>6, <3>1, <3>2 DEF w
  <2>10. C(d) * time[i] = B(d) * FittingCurve(d, n[i])
    <3>1. B(d) * B(d) = A * C(d) => \A j \in I : C(d) * time[j] = B(d) * Curve(n, d)[j]
      BY <1>1
    <3> HIDE DEF A, B, C
    <3>2. QED
      BY <1>2, <2>9, <3>1 DEF a, b, u
  <2>11. B(d) \in Nat /\ C(d) \in Nat /\ FittingCurve(d, n[i]) \in Nat /\ time[i] \in Nat
    BY <1>1, <1>3, CurveType
  <2> HIDE DEF B, C
  <2>12. QED
    BY <2>10, <2>11
<1>9. QED
  BY <1>7, <1>8

\* MinimalLeastSq takes the curve it is asked for, or one of the six.
LEMMA CurveOfFit ==
    ASSUME NEW n, NEW time, NEW c, NEW f \in MinimalLeastSq(n, time, c)
    PROVE  f.complexity # "oAuto" /\ (c # "oAuto" => f.complexity = c)
<1>1. \A d : FitOf(n, time, d).complexity = d
  BY DEF FitOf
<1>2. CASE c # "oAuto"
  <2>1. f = FitOf(n, time, c)
    BY <1>2 DEF MinimalLeastSq
  <2>2. QED
    BY <1>1, <1>2, <2>1
<1>3. CASE c = "oAuto"
  <2>1. f \in {FitOf(n, time, d) : d \in Curves} \cup {FitOf(n, time, "o1")}
    BY <1>3, Zenon DEF MinimalLeastSq, Curves
  <2>2. PICK d \in Curves : f = FitOf(n, time, d)
    BY <2>1 DEF Curves
  <2>3. QED
    BY <1>1, <1>3, <2>2 DEF Curves
<1>4. QED
  BY <1>2, <1>3

LEMMA ComplexityIs ==
    ASSUME ResultsInv, results.by = "ComputeBigO"
    PROVE  ComplexityRecognised
<1> DEFINE runs == Unskipped(reports)
           n == [i \in DOMAIN runs |-> runs[i].complexity_n]
           cpu_time == [i \in DOMAIN runs |-> runs[i].cpu_accumulated_time]
           first == IF asked.use_manual_time THEN Reals(runs) ELSE cpu_time
           second == IF asked.use_manual_time THEN cpu_time ELSE Reals(runs)
<1>1. ComputedBigO /\ reports \in Seq(RunReports)
  BY DEF ResultsInv
<1>2. PICK f \in MinimalLeastSq(n, first, asked.complexity) :
         \E s \in MinimalLeastSq(n, second, f.complexity) :
            results = [by |-> "ComputeBigO", n |-> n,
                       result_real |-> IF asked.use_manual_time THEN f ELSE s,
                       result_cpu |-> IF asked.use_manual_time THEN s ELSE f]
  BY <1>1 DEF ComputedBigO
<1>3. PICK s \in MinimalLeastSq(n, second, f.complexity) :
         results = [by |-> "ComputeBigO", n |-> n,
                    result_real |-> IF asked.use_manual_time THEN f ELSE s,
                    result_cpu |-> IF asked.use_manual_time THEN s ELSE f]
  BY <1>2
<1>4. runs \in Seq(Kept)
  BY <1>1, UnskippedIs
<1> DEFINE k == Len(runs)
           I == 1 .. k
<1> HIDE DEF runs
<1>5. k \in Nat /\ DOMAIN runs = I /\ \A i \in I : runs[i] \in Kept
  BY <1>4
<1> HIDE DEF k
<1>6. /\ n \in [I -> Sizes] /\ first \in [I -> Nat]
      /\ \A i \in I : n[i] = runs[i].complexity_n
      /\ \A i \in I : first[i] = IF asked.use_manual_time THEN runs[i].real_accumulated_time
                                 ELSE runs[i].cpu_accumulated_time
  <2> HIDE DEF I
  <2>1. \A i \in I : /\ runs[i].complexity_n \in Sizes
                     /\ runs[i].real_accumulated_time \in Nat
                     /\ runs[i].cpu_accumulated_time \in Nat
    BY <1>5 DEF Kept
  <2>2. n \in [I -> Sizes] /\ \A i \in I : n[i] = runs[i].complexity_n
    BY <1>5, <2>1
  <2>3. CASE asked.use_manual_time
    BY <1>5, <2>1, <2>3 DEF Reals
  <2>4. CASE ~asked.use_manual_time
    BY <1>5, <2>1, <2>4
  <2>5. QED
    BY <2>2, <2>3, <2>4
<1> HIDE DEF n, first, second
<1>7. /\ results.result_real = IF asked.use_manual_time THEN f ELSE s
      /\ results.result_cpu = IF asked.use_manual_time THEN s ELSE f
  BY <1>3
<1>8. OneCurve
  <2>1. s.complexity = f.complexity
    BY <1>2, <1>3, CurveOfFit
  <2>2. QED
    BY <1>7, <2>1 DEF OneCurve
<1> DEFINE curve(c, x) == CASE c = "oLogN" -> log2(x) [] c = "oNLogN" -> x * log2(x)
                            [] c = "o1" -> 1 [] c = "oN" -> x
                            [] c = "oNSquared" -> x * x [] c = "oNCubed" -> x * x * x
           size(i) == runs[i].complexity_n
           time(i) == IF asked.use_manual_time THEN runs[i].real_accumulated_time
                      ELSE runs[i].cpu_accumulated_time
           found == IF asked.use_manual_time THEN results.result_real ELSE results.result_cpu
<1>9. \A x : \A c \in Curves : curve(c, x) = FittingCurve(c, x)
  <2> TAKE x
  <2>1. /\ curve("o1", x) = FittingCurve("o1", x) /\ curve("oN", x) = FittingCurve("oN", x)
        /\ curve("oLogN", x) = FittingCurve("oLogN", x)
        /\ curve("oNLogN", x) = FittingCurve("oNLogN", x)
        /\ curve("oNSquared", x) = FittingCurve("oNSquared", x)
        /\ curve("oNCubed", x) = FittingCurve("oNCubed", x)
    BY DEF FittingCurve
  <2> HIDE DEF curve
  <2>2. QED
    BY <2>1 DEF Curves
<1> HIDE DEF curve
<1>10. ASSUME asked.complexity = "oAuto", NEW c \in Curves,
              \A i, j \in DOMAIN runs :
                 /\ curve(c, size(i)) # 0
                 /\ time(i) * curve(c, size(j)) = time(j) * curve(c, size(i))
       PROVE  \A i \in DOMAIN runs :
                 found.coef[1] * curve(found.complexity, size(i)) = time(i) * found.coef[2]
  <2>1. found = f
    BY <1>7
  <2>2. \A i \in I : size(i) = n[i] /\ time(i) = first[i]
    BY <1>6
  <2> HIDE DEF found, size, time
  <2>3. \A i, j \in I : /\ FittingCurve(c, n[i]) # 0
                        /\ first[i] * FittingCurve(c, n[j]) = first[j] * FittingCurve(c, n[i])
    BY <1>5, <1>9, <1>10, <2>2
  <2>4. f \in MinimalLeastSq(n, first, "oAuto")
    BY <1>10
  <2> DEFINE Fits == \A i \in I : f.coef[1] * FittingCurve(f.complexity, n[i]) = first[i] * f.coef[2]
  <2>5. f.complexity \in Curves /\ Fits
    BY <1>5, <1>6, <2>3, <2>4, FoundFits
  <2>6. QED
    BY <1>5, <1>9, <2>1, <2>2, <2>5
<1>11. QED
  BY <1>8, <1>10 DEF ComplexityRecognised, Curves, curve, runs

\* MinimalLeastSq, for any family of any number of runs: times that follow one
\* of the curves exactly are given back by the curve that is reported and its
\* coefficient, and both times have one curve.
THEOREM ComplexityIsRecognised == RunsSpec => []ComplexityRecognised
<1>1. ResultsInv => ComplexityRecognised
  BY ComplexityIs DEF ComplexityRecognised, OneCurve
<1>2. QED
  BY <1>1, ResultsInvariant, PTL

-----------------------------------------------------------------------------
(* Texts, and where a "::" is in one. *)

\* The characters, and the pieces between them.
Character == STRING \cup {":", "\\", "[", "]", "unknown_file"}
Text == Seq(Character)

LEMMA CharactersAre ==
    /\ ":" \in Character /\ "\\" \in Character /\ "[" \in Character /\ "]" \in Character
    /\ Replacement \in Text /\ Len(Replacement) = 4
    /\ Replacement[1] = "\\" /\ Replacement[2] = ":" /\ Replacement[3] = "\\" /\ Replacement[4] = ":"
  BY DEF Character, Text, Replacement

LEMMA JoinText ==
    ASSUME NEW s \in Text, NEW t \in Text
    PROVE  s \o t \in Text
  BY DEF Text

LEMMA JoinJoined ==
    ASSUME NEW s \in Text, NEW t \in Text, NEW u \in Text
    PROVE  (s \o t) \o u = s \o (t \o u)
<1>1. s \in Seq(Character) /\ t \in Seq(Character) /\ u \in Seq(Character)
  BY DEF Text
<1>2. QED
  BY <1>1, ConcatAssociative

LEMMA JoinNothing ==
    ASSUME NEW s \in Text
    PROVE  s \o <<>> = s /\ <<>> \o s = s
<1>1. s \in Seq(Character)
  BY DEF Text
<1>2. QED
  BY <1>1, ConcatEmptySeq

\* Two colons, one behind the other.
Colons(s, i) == s[i] = ":" /\ s[i + 1] = ":"

LEMMA SepsAre ==
    ASSUME NEW s \in Text
    PROVE  Seps(s) = {i \in 1 .. Len(s) - 1 : Colons(s, i)}
<1> SUFFICES ASSUME NEW i \in 1 .. Len(s) - 1 PROVE IsSep(s, i) <=> Colons(s, i)
  BY DEF Seps
<1> DEFINE r == SubSeq(s, i, i + 1)
<1>1. Len(s) \in Nat /\ \A k \in 1 .. Len(s) : s[k] \in Character
  BY LenProperties DEF Text
<1>2. i \in Int /\ i + 1 \in Int /\ \A k \in i .. i + 1 : s[k] \in Character
  BY <1>1
<1>3. r \in Text /\ Len(r) = 2 /\ \A k \in 1 .. 2 : r[k] = s[i + k - 1]
  <2>1. /\ r \in Seq(Character) /\ Len(r) = IF i <= i + 1 THEN (i + 1) - i + 1 ELSE 0
        /\ \A k \in 1 .. (i + 1) - i + 1 : r[k] = s[i + k - 1]
    BY <1>2, SubSeqProperties
  <2>2. QED
    BY <1>2, <2>1 DEF Text
<1>4. r[1] = s[i] /\ r[2] = s[i + 1]
  BY <1>2, <1>3
<1> HIDE DEF r
<1>5. r = Sep <=> r[1] = ":" /\ r[2] = ":"
  BY <1>3 DEF Sep, Text
<1>6. QED
  BY <1>4, <1>5 DEF IsSep, Colons, r

\* A concatenation has the "::" of its parts, and one where they meet.
LEMMA NoSepJoined ==
    ASSUME NEW s \in Text, NEW t \in Text, Seps(s) = {}, Seps(t) = {},
           ~(Len(s) > 0 /\ Len(t) > 0 /\ s[Len(s)] = ":" /\ t[1] = ":")
    PROVE  Seps(s \o t) = {}
<1> DEFINE r == s \o t
           n == Len(s)
           m == Len(t)
<1>1. r \in Text /\ IsJoin(r, s, t)
  BY JoinIs DEF Text
<1>2. n \in Nat /\ m \in Nat
  BY LenProperties DEF Text
<1>3. Len(r) = n + m /\ (\A k \in 1 .. n : r[k] = s[k]) /\ (\A k \in 1 .. m : r[n + k] = t[k])
  BY <1>1 DEF IsJoin
<1>4. (\A k \in 1 .. n - 1 : ~Colons(s, k)) /\ (\A k \in 1 .. m - 1 : ~Colons(t, k))
  BY SepsAre
<1> HIDE DEF r, n, m
<1>5. ASSUME NEW k \in 1 .. (n + m) - 1 PROVE ~Colons(r, k)
  <2>1. CASE k < n
    <3>1. k \in 1 .. n /\ k + 1 \in 1 .. n /\ k \in 1 .. n - 1
      BY <1>2, <2>1
    <3>2. QED
      BY <1>3, <1>4, <3>1 DEF Colons
  <2>2. CASE k = n
    <3>1. k \in 1 .. n /\ 1 \in 1 .. m /\ n > 0 /\ m > 0
      BY <1>2, <2>2
    <3>2. r[k] = s[n] /\ r[k + 1] = t[1]
      BY <1>3, <2>2, <3>1
    <3>3. QED
      BY <3>1, <3>2 DEF Colons, n, m
  <2>3. CASE k > n
    <3>1. k - n \in 1 .. m - 1 /\ k - n \in 1 .. m /\ (k - n) + 1 \in 1 .. m
      BY <1>2, <2>3
    <3>2. n + (k - n) = k /\ n + ((k - n) + 1) = k + 1
      BY <1>2
    <3>3. QED
      BY <1>3, <1>4, <3>1, <3>2 DEF Colons
  <2>4. QED
    BY <1>2, <2>1, <2>2, <2>3
<1>6. QED
  BY <1>1, <1>3, <1>5, SepsAre DEF r

-----------------------------------------------------------------------------
(* The replacement of "::". *)

EscapeStep(s, g, i) ==
    IF i > Len(s) THEN <<>>
    ELSE IF i \in Seps(s) THEN Replacement \o g[i + 2]
    ELSE <<s[i]>> \o g[i + 1]

\* h[i] is what s is escaped to from i on.
EscapeOf(h, s) ==
    /\ h \in [1 .. Len(s) + 1 -> Text] /\ Escaped(s) = h[1]
    /\ \A i \in 1 .. Len(s) + 1 : h[i] = EscapeStep(s, h, i)

LEMMA EscapeStepType ==
    ASSUME NEW s \in Text, NEW g \in [1 .. Len(s) + 1 -> Text], NEW i \in 1 .. Len(s) + 1
    PROVE  EscapeStep(s, g, i) \in Text
<1>1. Len(s) \in Nat
  BY LenProperties DEF Text
<1>2. <<>> \in Text
  BY DEF Text
<1>3. ASSUME i \in Seps(s) PROVE Replacement \o g[i + 2] \in Text
  <2>1. i + 2 \in 1 .. Len(s) + 1
    BY <1>1, <1>3 DEF Seps
  <2>2. g[i + 2] \in Text
    BY <2>1
  <2>3. QED
    BY <2>2, CharactersAre DEF Text
<1>4. ASSUME ~(i > Len(s)) PROVE <<s[i]>> \o g[i + 1] \in Text
  <2>1. i + 1 \in 1 .. Len(s) + 1 /\ i \in 1 .. Len(s)
    BY <1>1, <1>4
  <2>2. g[i + 1] \in Text /\ <<s[i]>> \in Text
    BY <2>1 DEF Text
  <2>3. QED
    BY <2>2 DEF Text
<1>5. QED
  BY <1>2, <1>3, <1>4 DEF EscapeStep

\* A step looks at later places only.
LEMMA EscapeStepAgrees ==
    ASSUME NEW s \in Text, NEW g, NEW h, NEW i \in 1 .. Len(s) + 1,
           \A k \in 1 .. Len(s) + 1 : k > i => g[k] = h[k]
    PROVE  EscapeStep(s, g, i) = EscapeStep(s, h, i)
<1>1. Len(s) \in Nat
  BY LenProperties DEF Text
<1>2. ASSUME i \in Seps(s) PROVE g[i + 2] = h[i + 2]
  <2>1. i + 2 \in 1 .. Len(s) + 1 /\ i + 2 > i
    BY <1>1, <1>2 DEF Seps
  <2>2. QED
    BY <2>1
<1>3. ASSUME ~(i > Len(s)) PROVE g[i + 1] = h[i + 1]
  <2>1. i + 1 \in 1 .. Len(s) + 1 /\ i + 1 > i
    BY <1>1, <1>3
  <2>2. QED
    BY <2>1
<1>4. QED
  BY <1>2, <1>3 DEF EscapeStep

EscapeUpto(s, g, t) ==
    \A i \in 1 .. Len(s) + 1 : i > Len(s) + 1 - t => g[i] = EscapeStep(s, g, i)

LEMMA EscapesExist ==
    ASSUME NEW s \in Text
    PROVE  \E g \in [1 .. Len(s) + 1 -> Text] : \A i \in 1 .. Len(s) + 1 : g[i] = EscapeStep(s, g, i)
<1> DEFINE n == Len(s) + 1
           T == [1 .. n -> Text]
           U == {t \in Nat : \E g \in T : EscapeUpto(s, g, t)}
<1>1. n \in Nat
  BY LenProperties DEF Text
<1> HIDE DEF n
<1>2. 0 \in U
  <2>1. [i \in 1 .. n |-> <<>>] \in T
    BY DEF Text
  <2>2. EscapeUpto(s, [i \in 1 .. n |-> <<>>], 0)
    BY <1>1 DEF EscapeUpto, n
  <2>3. QED
    BY <2>1, <2>2
<1>3. ASSUME NEW t \in Nat, t \in U PROVE t + 1 \in U
  <2>1. PICK g \in T : EscapeUpto(s, g, t)
    BY <1>3
  <2> DEFINE j == n - t
  <2>2. CASE j \notin 1 .. n
    <3>1. EscapeUpto(s, g, t + 1)
      BY <1>1, <2>1, <2>2 DEF EscapeUpto, n
    <3>2. QED
      BY <3>1
  <2>3. CASE j \in 1 .. n
    <3> DEFINE x == EscapeStep(s, g, j)
               e == [g EXCEPT ![j] = x]
    <3>1. x \in Text
      BY <2>3, EscapeStepType DEF n
    <3> HIDE DEF x
    <3>2. e \in T /\ e[j] = x /\ \A i \in 1 .. n : i # j => e[i] = g[i]
      BY <2>3, <3>1
    <3> HIDE DEF e
    <3>3. ASSUME NEW i \in 1 .. n, i >= j PROVE EscapeStep(s, e, i) = EscapeStep(s, g, i)
      <4>1. \A k \in 1 .. n : k > i => e[k] = g[k]
        BY <1>1, <3>2, <3>3
      <4>2. QED
        BY <4>1, EscapeStepAgrees DEF n
    <3>4. ASSUME NEW i \in 1 .. n, i > n - (t + 1) PROVE e[i] = EscapeStep(s, e, i)
      <4>1. i >= j
        BY <1>1, <3>4
      <4>2. CASE i = j
        BY <3>2, <3>3, <4>1, <4>2 DEF x
      <4>3. CASE i # j
        <5>1. i > n - t
          BY <1>1, <4>1, <4>3
        <5>2. g[i] = EscapeStep(s, g, i)
          BY <2>1, <5>1 DEF EscapeUpto, n
        <5>3. QED
          BY <3>2, <3>3, <4>1, <4>3, <5>2
      <4>4. QED
        BY <4>2, <4>3
    <3>5. EscapeUpto(s, e, t + 1)
      BY <3>4 DEF EscapeUpto, n
    <3>6. QED
      BY <3>2, <3>5
  <2>4. QED
    BY <2>2, <2>3
<1> HIDE DEF U
<1>4. Nat \subseteq U
  BY <1>2, <1>3, NatInductionSet
<1>5. n \in U
  BY <1>1, <1>4
<1>6. PICK g \in T : EscapeUpto(s, g, n)
  BY <1>5 DEF U
<1>7. QED
  BY <1>1, <1>6 DEF EscapeUpto, n

LEMMA EscapedIs ==
    ASSUME NEW s \in Text
    PROVE  \E h : EscapeOf(h, s)
<1> DEFINE n == Len(s) + 1
           Is(g) == g = [i \in 1 .. n |-> EscapeStep(s, g, i)]
           h == CHOOSE g : Is(g)
<1>1. n \in Nat
  BY LenProperties DEF Text
<1>2. PICK g \in [1 .. n -> Text] : \A i \in 1 .. n : g[i] = EscapeStep(s, g, i)
  BY EscapesExist
<1>3. Is(g)
  BY <1>2
<1>4. Is(h)
  BY <1>3, Zenon
<1>5. Escaped(s) = h[1]
  BY DEF Escaped, EscapeStep
<1> HIDE DEF h
<1> DEFINE U == {t \in Nat : \A i \in 1 .. n : i > n - t => h[i] = g[i]}
<1>6. 0 \in U
  BY <1>1
<1> HIDE DEF n
<1>7. ASSUME NEW t \in Nat, t \in U PROVE t + 1 \in U
  <2> SUFFICES ASSUME NEW i \in 1 .. n, i > n - (t + 1) PROVE h[i] = g[i]
    OBVIOUS
  <2>1. \A k \in 1 .. n : k > i => h[k] = g[k]
    BY <1>1, <1>7
  <2>2. EscapeStep(s, h, i) = EscapeStep(s, g, i)
    BY <2>1, EscapeStepAgrees DEF n
  <2>3. h[i] = EscapeStep(s, h, i)
    BY <1>4
  <2>4. QED
    BY <1>2, <2>2, <2>3
<1> HIDE DEF U
<1>8. Nat \subseteq U
  BY <1>6, <1>7, NatInductionSet
<1>9. \A i \in 1 .. n : h[i] = g[i]
  BY <1>1, <1>8 DEF U
<1>10. h = g
  BY <1>2, <1>4, <1>9
<1>11. QED
  BY <1>2, <1>5, <1>10 DEF EscapeOf, n

\* Induction from the last place to the first.
LEMMA Downwards ==
    ASSUME NEW n \in Nat, NEW S,
           \A i \in 1 .. n : (\A k \in 1 .. n : k > i => k \in S) => i \in S
    PROVE  1 .. n \subseteq S
<1> SUFFICES ASSUME (1 .. n) \ S # {} PROVE FALSE
  OBVIOUS
<1> DEFINE B == (1 .. n) \ S
           m == Max(B)
<1>1. m \in B /\ \A y \in B : y <= m
  <2>1. B \in SUBSET (1 .. n) /\ B # {}
    OBVIOUS
  <2> HIDE DEF B
  <2>2. QED
    BY <2>1, MaxIn
<1> HIDE DEF m
<1>2. \A k \in 1 .. n : k > m => k \in S
  BY <1>1
<1>3. QED
  BY <1>1, <1>2

\* Where there is no "::" nothing is replaced.
LEMMA EscapedSame ==
    ASSUME NEW s \in Text, Seps(s) = {}
    PROVE  Escaped(s) = s
<1> DEFINE n == Len(s)
<1>1. n \in Nat /\ s \in Seq(Character)
  BY LenProperties DEF Text
<1>2. PICK h : EscapeOf(h, s)
  BY EscapedIs
<1> DEFINE S == {i \in 1 .. n + 1 : h[i] = SubSeq(s, i, n)}
<1>3. ASSUME NEW i \in 1 .. n + 1, \A k \in 1 .. n + 1 : k > i => k \in S PROVE i \in S
  <2>1. h[i] = IF i > n THEN <<>> ELSE <<s[i]>> \o h[i + 1]
    BY <1>2 DEF EscapeOf, EscapeStep
  <2>2. CASE i > n
    <3>1. SubSeq(s, i, n) = <<>>
      BY <1>1, <2>2, SubSeqEmpty
    <3>2. QED
      BY <2>1, <2>2, <3>1
  <2>3. CASE ~(i > n)
    <3>1. i \in 1 .. n /\ n \in i .. n /\ i + 1 \in 1 .. n + 1 /\ i + 1 > i
      BY <1>1, <2>3
    <3>2. h[i + 1] = SubSeq(s, i + 1, n)
      BY <1>3, <3>1
    <3>3. SubSeq(s, i, n) = <<s[i]>> \o SubSeq(s, i + 1, n)
      BY <1>1, <3>1, SubSeqRecursiveFirst
    <3>4. QED
      BY <2>1, <2>3, <3>2, <3>3
  <2>4. QED
    BY <2>2, <2>3
<1> HIDE DEF S
<1>4. 1 .. n + 1 \subseteq S
  <2>1. n + 1 \in Nat
    BY <1>1
  <2>2. QED
    BY <1>3, <2>1, Downwards
<1>5. h[1] = SubSeq(s, 1, n)
  BY <1>1, <1>4 DEF S
<1>6. SubSeq(s, 1, n) = s
  BY <1>1, SubSeqFull
<1>7. QED
  BY <1>2, <1>5, <1>6 DEF EscapeOf

\* What comes of a place is its own text or that of "::", and what comes of the next ones.
LEMMA EscapeNext ==
    ASSUME NEW s \in Text, NEW h, EscapeOf(h, s), NEW i \in 1 .. Len(s)
    PROVE  IF i \in Seps(s)
           THEN i + 2 \in 1 .. Len(s) + 1 /\ h[i + 2] \in Text /\ h[i] = Replacement \o h[i + 2]
           ELSE i + 1 \in 1 .. Len(s) + 1 /\ h[i + 1] \in Text /\ h[i] = <<s[i]>> \o h[i + 1]
<1>1. Len(s) \in Nat
  BY LenProperties DEF Text
<1>2. h[i] = EscapeStep(s, h, i) /\ ~(i > Len(s))
  BY <1>1 DEF EscapeOf
<1>3. i + 1 \in 1 .. Len(s) + 1 /\ (i \in Seps(s) => i + 2 \in 1 .. Len(s) + 1)
  BY <1>1 DEF Seps
<1>4. QED
  BY <1>2, <1>3 DEF EscapeStep, EscapeOf

LEMMA EscapeOther ==
    ASSUME NEW s \in Text, NEW h, EscapeOf(h, s), NEW i \in 1 .. Len(s), i \notin Seps(s)
    PROVE  i + 1 \in 1 .. Len(s) + 1 /\ h[i + 1] \in Text /\ h[i] = <<s[i]>> \o h[i + 1]
  BY EscapeNext

LEMMA EscapeEnd ==
    ASSUME NEW s \in Text, NEW h, EscapeOf(h, s)
    PROVE  h[Len(s) + 1] = <<>>
<1>1. Len(s) \in Nat
  BY LenProperties DEF Text
<1>2. Len(s) + 1 \in 1 .. Len(s) + 1 /\ Len(s) + 1 > Len(s)
  BY <1>1
<1>3. QED
  BY <1>2 DEF EscapeOf, EscapeStep

\* No bracket comes from a text that has none.
LEMMA EscapedHolds ==
    ASSUME NEW s \in Text
    PROVE  Escaped(s) \in Text /\ ToSet(Escaped(s)) \subseteq ToSet(s) \cup {"\\", ":"}
<1> DEFINE n == Len(s)
           C == ToSet(s) \cup {"\\", ":"}
<1>1. n \in Nat /\ DOMAIN s = 1 .. n /\ \A k \in 1 .. n : s[k] \in Character
  BY LenProperties DEF Text
<1>2. PICK h : EscapeOf(h, s)
  BY EscapedIs
<1>3. \A i \in 1 .. n + 1 : h[i] \in Text
  BY <1>2 DEF EscapeOf
<1> DEFINE S == {i \in 1 .. n + 1 : ToSet(h[i]) \subseteq C}
<1>4. ToSet(Replacement) \subseteq C
  <2>1. DOMAIN Replacement = 1 .. 4
    BY CharactersAre, LenProperties DEF Text
  <2>2. QED
    BY <2>1, CharactersAre DEF ToSet
<1>5. ASSUME NEW i \in 1 .. n PROVE ToSet(<<s[i]>>) \subseteq C /\ <<s[i]>> \in Text
  BY <1>1 DEF ToSet, Text
<1> HIDE DEF C
<1>6. ASSUME NEW i \in 1 .. n + 1, \A k \in 1 .. n + 1 : k > i => k \in S PROVE i \in S
  <2>1. CASE i = n + 1
    <3>1. h[i] = <<>>
      BY <1>2, <2>1, EscapeEnd
    <3>2. ToSet(h[i]) = {}
      BY <3>1, ToSetProperties
    <3>3. QED
      BY <3>2
  <2>2. CASE i # n + 1
    <3>1. i \in 1 .. n
      BY <1>1, <2>2
    <3>2. CASE i \in Seps(s)
      <4>1. i + 2 \in 1 .. n + 1 /\ h[i + 2] \in Text /\ h[i] = Replacement \o h[i + 2]
        BY <1>2, <3>1, <3>2, EscapeNext
      <4>2. ToSet(h[i + 2]) \subseteq C
        BY <1>6, <3>1, <4>1
      <4>3. ToSet(h[i]) = ToSet(Replacement) \cup ToSet(h[i + 2])
        BY <4>1, CharactersAre, ToSetProperties DEF Text
      <4>4. QED
        BY <1>4, <4>2, <4>3
    <3>3. CASE i \notin Seps(s)
      <4>1. i + 1 \in 1 .. n + 1 /\ i + 1 > i /\ h[i + 1] \in Text /\ h[i] = <<s[i]>> \o h[i + 1]
        BY <1>2, <3>1, <3>3, EscapeNext
      <4>2. ToSet(h[i + 1]) \subseteq C
        BY <1>6, <4>1
      <4> DEFINE c == <<s[i]>>
      <4>3. c \in Text /\ ToSet(c) \subseteq C /\ h[i] = c \o h[i + 1]
        BY <1>5, <3>1, <4>1
      <4> HIDE DEF c
      <4>4. ToSet(h[i]) = ToSet(c) \cup ToSet(h[i + 1])
        BY <4>1, <4>3, ToSetProperties DEF Text
      <4>5. QED
        BY <4>2, <4>3, <4>4
    <3>4. QED
      BY <3>2, <3>3
  <2>3. QED
    BY <2>1, <2>2
<1> HIDE DEF S
<1>7. 1 .. n + 1 \subseteq S
  <2>1. n + 1 \in Nat
    BY <1>1
  <2>2. QED
    BY <1>6, <2>1, Downwards
<1>8. 1 \in 1 .. n + 1
  BY <1>1
<1>9. ToSet(h[1]) \subseteq C /\ h[1] \in Text
  BY <1>3, <1>7, <1>8 DEF S
<1>10. QED
  BY <1>2, <1>9 DEF EscapeOf, C

\* Of three colons the last would be left behind the two that are replaced.
NoThree(s) == \A i \in 1 .. Len(s) - 2 : ~(Colons(s, i) /\ s[i + 2] = ":")

LEMMA OneIsText ==
    ASSUME NEW c \in Character
    PROVE  <<c>> \in Text /\ Len(<<c>>) = 1 /\ <<c>>[1] = c /\ Seps(<<c>>) = {}
  BY DEF Text, Seps

LEMMA ReplacementHasNone == Seps(Replacement) = {}
<1>1. \A i \in 1 .. 3 : ~Colons(Replacement, i)
  BY CharactersAre DEF Colons
<1>2. Replacement \in Text /\ Len(Replacement) - 1 = 3
  BY CharactersAre
<1>3. Seps(Replacement) = {i \in 1 .. Len(Replacement) - 1 : Colons(Replacement, i)}
  BY <1>2, SepsAre
<1>4. QED
  BY <1>1, <1>2, <1>3

LEMMA EscapedHasNone ==
    ASSUME NEW s \in Text, NoThree(s)
    PROVE  Seps(Escaped(s)) = {}
<1> DEFINE n == Len(s)
           Fine(i, r) == Seps(r) = {} /\ (Len(r) > 0 /\ r[1] = ":" =>
                                             i \in 1 .. n /\ s[i] = ":" /\ i \notin Seps(s))
<1>1. n \in Nat /\ \A k \in 1 .. n : s[k] \in Character
  BY LenProperties DEF Text
<1>2. PICK h : EscapeOf(h, s)
  BY EscapedIs
<1> DEFINE S == {i \in 1 .. n + 1 : Fine(i, h[i])}
<1>3. ASSUME NEW i \in 1 .. n + 1, \A k \in 1 .. n + 1 : k > i => k \in S PROVE i \in S
  <2>1. CASE i = n + 1
    <3>1. h[i] = <<>>
      BY <1>2, <2>1, EscapeEnd
    <3>2. Len(<<>>) = 0 /\ Seps(<<>>) = {}
      BY DEF Seps
    <3>3. QED
      BY <3>1, <3>2
  <2>2. CASE i # n + 1 /\ i \in Seps(s)
    <3>1. i \in 1 .. n
      BY <1>1, <2>2
    <3> DEFINE r == h[i + 2]
    <3>2. i + 2 \in 1 .. n + 1 /\ i + 2 > i /\ r \in Text /\ h[i] = Replacement \o r
      <4>1. i + 2 \in 1 .. n + 1 /\ h[i + 2] \in Text /\ h[i] = Replacement \o h[i + 2]
        BY <1>2, <2>2, <3>1, EscapeNext
      <4>2. QED
        BY <3>1, <4>1
    <3>3. Seps(r) = {} /\ (Len(r) > 0 /\ r[1] = ":" => i + 2 \in 1 .. n /\ s[i + 2] = ":")
      BY <1>3, <3>2
    <3>4. i \in 1 .. n - 1 /\ Colons(s, i)
      BY <2>2, SepsAre
    <3>5. ~(Len(r) > 0 /\ r[1] = ":")
      <4>1. ASSUME i + 2 \in 1 .. n PROVE i \in 1 .. n - 2
        BY <1>1, <3>1, <4>1
      <4>2. QED
        BY <3>3, <3>4, <4>1 DEF NoThree
    <3> HIDE DEF r
    <3>6. Seps(h[i]) = {}
      BY <3>2, <3>3, <3>5, ReplacementHasNone, CharactersAre, NoSepJoined
    <3>7. h[i][1] = "\\"
      <4>1. IsJoin(h[i], Replacement, r) /\ 1 \in 1 .. 4
        BY <3>2, CharactersAre, JoinIs DEF Text
      <4>2. QED
        BY <4>1, CharactersAre DEF IsJoin
    <3>8. QED
      BY <3>6, <3>7
  <2>3. CASE i # n + 1 /\ i \notin Seps(s)
    <3>1. i \in 1 .. n
      BY <1>1, <2>3
    <3> DEFINE r == h[i + 1]
               c == <<s[i]>>
    <3>2. i + 1 \in 1 .. n + 1 /\ i + 1 > i /\ r \in Text /\ h[i] = c \o r
      BY <1>2, <2>3, <3>1, EscapeNext
    <3>3. Seps(r) = {} /\ (Len(r) > 0 /\ r[1] = ":" => i + 1 \in 1 .. n /\ s[i + 1] = ":")
      BY <1>3, <3>2
    <3>4. c \in Text /\ Len(c) = 1 /\ c[1] = s[i] /\ Seps(c) = {}
      BY <1>1, <3>1, OneIsText
    <3> HIDE DEF r, c
    <3>5. ~(Len(r) > 0 /\ r[1] = ":" /\ s[i] = ":")
      <4>1. SUFFICES ASSUME i + 1 \in 1 .. n, s[i + 1] = ":", s[i] = ":" PROVE FALSE
        BY <3>3
      <4>2. i \in 1 .. n - 1 /\ Colons(s, i)
        BY <1>1, <3>1, <4>1 DEF Colons
      <4>3. QED
        BY <2>3, <4>2, SepsAre
    <3>6. Seps(h[i]) = {}
      BY <3>2, <3>3, <3>4, <3>5, NoSepJoined
    <3>7. h[i][1] = s[i]
      <4>1. IsJoin(h[i], c, r) /\ 1 \in 1 .. 1
        BY <3>2, <3>4, JoinIs DEF Text
      <4>2. QED
        BY <3>4, <4>1 DEF IsJoin
    <3>8. QED
      BY <2>3, <3>1, <3>6, <3>7
  <2>4. QED
    BY <2>1, <2>2, <2>3
<1> HIDE DEF S, Fine
<1>4. 1 .. n + 1 \subseteq S
  <2>1. n + 1 \in Nat
    BY <1>1
  <2>2. QED
    BY <1>3, <2>1, Downwards
<1>5. 1 \in 1 .. n + 1
  BY <1>1
<1>6. Seps(h[1]) = {}
  BY <1>4, <1>5 DEF S, Fine
<1>7. QED
  BY <1>2, <1>6 DEF EscapeOf

-----------------------------------------------------------------------------
(* Brackets at the end of a text. *)

Block(a, m) == a \o <<"[">> \o m \o <<"]">>

\* What is between two pieces of a text.
IsThree(s, a, m, b) ==
    /\ s \in Text /\ Len(s) = Len(a) + Len(m) + Len(b)
    /\ SubSeq(s, 1, Len(a)) = a /\ SubSeq(s, Len(a) + 1, Len(a) + Len(m)) = m
    /\ \A k \in 1 .. Len(a) : s[k] = a[k]
    /\ \A k \in 1 .. Len(m) : s[Len(a) + k] = m[k]
    /\ \A k \in 1 .. Len(b) : s[Len(a) + Len(m) + k] = b[k]

LEMMA PieceIs ==
    ASSUME NEW a \in Text, NEW m \in Text, NEW b \in Text
    PROVE  IsThree((a \o m) \o b, a, m, b)
<1> DEFINE q == a \o m
           s == q \o b
           x == Len(a)
           y == Len(m)
           z == Len(b)
<1>1. x \in Nat /\ y \in Nat /\ z \in Nat
  BY LenProperties DEF Text
<1>2. q \in Text /\ IsJoin(q, a, m)
  BY JoinIs DEF Text
<1> HIDE DEF q
<1>3. s \in Text /\ IsJoin(s, q, b)
  BY <1>2, JoinIs DEF Text
<1> HIDE DEF s
<1>4. /\ Len(q) = x + y
      /\ \A k \in 1 .. x : q[k] = a[k]
      /\ \A k \in 1 .. y : q[x + k] = m[k]
  BY <1>2 DEF IsJoin
<1> HIDE DEF x, y, z
<1>5. /\ Len(s) = x + y + z
      /\ \A k \in 1 .. x + y : s[k] = q[k]
      /\ \A k \in 1 .. z : s[x + y + k] = b[k]
  BY <1>3, <1>4 DEF IsJoin, z
<1>6. ASSUME NEW k \in 1 .. x PROVE s[k] = a[k]
  <2>1. k \in 1 .. x + y
    BY <1>1
  <2>2. QED
    BY <1>4, <1>5, <2>1
<1>7. ASSUME NEW k \in 1 .. y PROVE s[x + k] = m[k]
  <2>1. x + k \in 1 .. x + y
    BY <1>1
  <2>2. QED
    BY <1>4, <1>5, <2>1
<1>8. \A k \in 1 .. Len(s) : s[k] \in Character
  BY <1>3, LenProperties DEF Text
<1>9. SubSeq(s, 1, x) = a
  <2> DEFINE r == SubSeq(s, 1, x)
  <2>1. \A k \in 1 .. x : s[k] \in Character
    BY <1>1, <1>5, <1>8
  <2>2. /\ r \in Seq(Character) /\ Len(r) = IF 1 <= x THEN x - 1 + 1 ELSE 0
        /\ \A k \in 1 .. x - 1 + 1 : r[k] = s[1 + k - 1]
    BY <1>1, <2>1, SubSeqProperties
  <2> HIDE DEF r
  <2>3. Len(r) = x
    BY <1>1, <2>2
  <2>4. ASSUME NEW k \in 1 .. x PROVE r[k] = a[k]
    <3>1. k \in 1 .. x - 1 + 1 /\ 1 + k - 1 = k
      BY <1>1
    <3>2. QED
      BY <1>6, <2>2, <3>1
  <2>5. r = a
    BY <2>2, <2>3, <2>4, SeqEqual DEF Text, x
  <2>6. QED
    BY <2>5 DEF r
<1>10. SubSeq(s, x + 1, x + y) = m
  <2> DEFINE r == SubSeq(s, x + 1, x + y)
  <2>1. \A k \in x + 1 .. x + y : s[k] \in Character
    BY <1>1, <1>5, <1>8
  <2>2. /\ r \in Seq(Character) /\ Len(r) = IF x + 1 <= x + y THEN (x + y) - (x + 1) + 1 ELSE 0
        /\ \A k \in 1 .. (x + y) - (x + 1) + 1 : r[k] = s[(x + 1) + k - 1]
    <3>1. x + 1 \in Int /\ x + y \in Int
      BY <1>1
    <3>2. QED
      BY <2>1, <3>1, SubSeqProperties
  <2> HIDE DEF r
  <2>3. Len(r) = y
    BY <1>1, <2>2
  <2>4. ASSUME NEW k \in 1 .. y PROVE r[k] = m[k]
    <3>1. k \in 1 .. (x + y) - (x + 1) + 1 /\ (x + 1) + k - 1 = x + k
      BY <1>1
    <3>2. QED
      BY <1>7, <2>2, <3>1
  <2>5. r = m
    BY <2>2, <2>3, <2>4, SeqEqual DEF Text, y
  <2>6. QED
    BY <2>5 DEF r
<1>11. QED
  BY <1>3, <1>5, <1>6, <1>7, <1>9, <1>10 DEF q, s, x, y, z, IsThree

LEMMA HalvesAre ==
    ASSUME NEW a \in Text, NEW m \in Text
    PROVE  SubSeq(a \o m, 1, Len(a)) = a /\ SubSeq(a \o m, Len(a) + 1, Len(a) + Len(m)) = m
<1> DEFINE b == <<>>
           s == (a \o m) \o b
<1>1. b \in Text /\ s = a \o m
  <2>1. a \o m \in Seq(Character)
    BY DEF Text
  <2>2. QED
    BY <2>1, ConcatEmptySeq DEF Text
<1> HIDE DEF b
<1>2. SubSeq(s, 1, Len(a)) = a /\ SubSeq(s, Len(a) + 1, Len(a) + Len(m)) = m
  <2>1. IsThree(s, a, m, b)
    BY <1>1, PieceIs
  <2>2. QED
    BY <2>1 DEF IsThree
<1> HIDE DEF s
<1>3. QED
  BY <1>1, <1>2

\* t is a, an opening bracket, m, and a closing one.
IsBlock(t, a, m) ==
    LET n == Len(a) + 1
    IN  /\ t \in Text /\ n \in Nat /\ Len(t) = n + Len(m) + 1
        /\ \A k \in 1 .. Len(a) : t[k] = a[k]
        /\ t[n] = "[" /\ t[Len(t)] = "]"
        /\ \A k \in 1 .. Len(m) : t[n + k] = m[k]
        /\ SubSeq(t, 1, n) = a \o <<"[">> /\ SubSeq(t, n + 1, Len(t) - 1) = m

LEMMA BlockIs ==
    ASSUME NEW a \in Text, NEW m \in Text
    PROVE  IsBlock(Block(a, m), a, m)
<1> DEFINE p == a \o <<"[">>
           t == Block(a, m)
           n == Len(a) + 1
<1>1. Len(a) \in Nat /\ Len(m) \in Nat
  BY LenProperties DEF Text
<1>2. /\ <<"[">> \in Text /\ Len(<<"[">>) = 1 /\ <<"[">>[1] = "["
      /\ <<"]">> \in Text /\ Len(<<"]">>) = 1 /\ <<"]">>[1] = "]"
  BY CharactersAre, OneIsText
<1>3. p \in Text /\ IsJoin(p, a, <<"[">>)
  BY <1>2, JoinIs DEF Text
<1>4. Len(p) = n /\ p[n] = "[" /\ \A k \in 1 .. Len(a) : p[k] = a[k]
  BY <1>2, <1>3 DEF IsJoin
<1>5. t = (p \o m) \o <<"]">>
  BY DEF Block
<1> DEFINE b == <<"]">>
<1>b. b \in Text /\ Len(b) = 1 /\ b[1] = "]" /\ t = (p \o m) \o b
  BY <1>2, <1>5
<1> HIDE DEF p, t, b
<1>6. /\ t \in Text /\ Len(t) = Len(p) + Len(m) + 1
      /\ SubSeq(t, 1, Len(p)) = p /\ SubSeq(t, Len(p) + 1, Len(p) + Len(m)) = m
      /\ \A k \in 1 .. Len(p) : t[k] = p[k]
      /\ \A k \in 1 .. Len(m) : t[Len(p) + k] = m[k]
      /\ t[Len(p) + Len(m) + 1] = "]"
  <2>1. /\ t \in Text /\ Len(t) = Len(p) + Len(m) + Len(b)
        /\ SubSeq(t, 1, Len(p)) = p /\ SubSeq(t, Len(p) + 1, Len(p) + Len(m)) = m
        /\ \A k \in 1 .. Len(p) : t[k] = p[k]
        /\ \A k \in 1 .. Len(m) : t[Len(p) + k] = m[k]
        /\ \A k \in 1 .. Len(b) : t[Len(p) + Len(m) + k] = b[k]
    <3>1. IsThree((p \o m) \o b, p, m, b)
      BY <1>3, <1>b, PieceIs
    <3>2. QED
      BY <1>b, <3>1 DEF IsThree
  <2>2. QED
    BY <1>b, <2>1
<1>7. /\ n \in Nat /\ n \in 1 .. n /\ \A k \in 1 .. Len(a) : k \in 1 .. n
      /\ (n + Len(m) + 1) - 1 = n + Len(m)
  BY <1>1
<1>8. (\A k \in 1 .. Len(a) : t[k] = a[k]) /\ t[n] = "["
  BY <1>4, <1>6, <1>7
<1> HIDE DEF n
<1>9. QED
  BY <1>4, <1>6, <1>7, <1>8 DEF p, t, n, IsBlock

\* Where sanitize_bench_args looks.
Opens(text) == {i \in 1 .. Len(text) : text[i] = "["}

LEMMA OpensAre ==
    ASSUME NEW text \in Text, Opens(text) # {}
    PROVE  Max(Opens(text)) \in Opens(text) /\ \A k \in Opens(text) : k <= Max(Opens(text))
<1>1. Len(text) \in Nat /\ Opens(text) \in SUBSET (1 .. Len(text))
  BY LenProperties DEF Opens, Text
<1>2. QED
  BY <1>1, MaxIn

LEMMA SanitizeDef ==
    ASSUME NEW text \in Text
    PROVE  sanitize_bench_args(text) =
               IF Opens(text) = {} \/ text[Len(text)] # "]" THEN text
               ELSE SubSeq(text, 1, Max(Opens(text)))
                    \o Escaped(SubSeq(text, Max(Opens(text)) + 1, Len(text) - 1)) \o <<"]">>
<1> DEFINE open == SelectLastInSeq(text, LAMBDA c : c = "[")
<1>1. open = IF Opens(text) # {} THEN Max(Opens(text)) ELSE 0
  BY DEF SelectLastInSeq, Opens
<1>2. Opens(text) # {} => Max(Opens(text)) # 0
  <2>1. 0 \notin Opens(text)
    BY DEF Opens
  <2>2. QED
    BY <2>1, OpensAre
<1>3. QED
  BY <1>1, <1>2 DEF sanitize_bench_args, Last
\* A block's last opening bracket is its own, if there is none in it.
LEMMA SanitizeBlock ==
    ASSUME NEW a \in Text, NEW m \in Text, "[" \notin ToSet(m)
    PROVE  sanitize_bench_args(Block(a, m)) = Block(a, Escaped(m))
<1> DEFINE t == Block(a, m)
           n == Len(a) + 1
<1>1. /\ t \in Text /\ n \in Nat /\ Len(t) = n + Len(m) + 1
      /\ t[n] = "[" /\ t[Len(t)] = "]"
      /\ \A k \in 1 .. Len(m) : t[n + k] = m[k]
      /\ SubSeq(t, 1, n) = a \o <<"[">> /\ SubSeq(t, n + 1, Len(t) - 1) = m
  <2>1. IsBlock(Block(a, m), a, m)
    BY BlockIs
  <2>2. QED
    BY <2>1 DEF IsBlock
<1>2. Len(m) \in Nat /\ n > 0 /\ \A k \in 1 .. Len(m) : m[k] # "["
  BY LenProperties DEF ToSet, Text
<1> HIDE DEF t, n
<1>3. n \in Opens(t)
  BY <1>1, <1>2 DEF Opens
<1>4. ASSUME NEW k \in Opens(t) PROVE k <= n
  <2> SUFFICES ASSUME k > n PROVE FALSE
    BY <1>1 DEF Opens
  <2>1. k \in 1 .. Len(t) /\ t[k] = "["
    BY DEF Opens
  <2>2. k # Len(t)
    BY <1>1, <2>1
  <2>3. k - n \in 1 .. Len(m) /\ n + (k - n) = k
    <3> DEFINE l == Len(t)
               j == Len(m)
    <3>1. k \in 1 .. l /\ k # l /\ k > n /\ n \in Nat /\ j \in Nat /\ l = n + j + 1
      BY <1>1, <1>2, <2>1, <2>2
    <3> HIDE DEF l, j
    <3>2. k - n \in 1 .. j /\ n + (k - n) = k
      BY <3>1
    <3>3. QED
      BY <3>2 DEF j
  <2>4. QED
    BY <1>1, <1>2, <2>1, <2>3
<1>5. Max(Opens(t)) = n
  <2> DEFINE x == Max(Opens(t))
  <2>1. x \in Opens(t) /\ \A k \in Opens(t) : k <= x
    BY <1>1, <1>3, OpensAre
  <2>2. x \in Nat
    BY <2>1 DEF Opens
  <2> HIDE DEF x
  <2>3. x <= n /\ n <= x
    BY <1>3, <1>4, <2>1
  <2>4. QED
    BY <1>1, <2>2, <2>3 DEF x
<1>6. sanitize_bench_args(t) = SubSeq(t, 1, n) \o Escaped(SubSeq(t, n + 1, Len(t) - 1)) \o <<"]">>
  BY <1>1, <1>3, <1>5, SanitizeDef
<1>7. QED
  BY <1>1, <1>6 DEF Block, t

\* Any text stays as it is, or has a block at its end.
LEMMA SanitizeIs ==
    ASSUME NEW text \in Text
    PROVE  \/ /\ sanitize_bench_args(text) = text
              /\ "[" \notin ToSet(text) \/ (Len(text) > 0 /\ text[Len(text)] # "]")
           \/ \E a \in Text, m \in Text : "[" \notin ToSet(m) /\ text = Block(a, m)
<1> DEFINE l == Len(text)
           n == Max(Opens(text))
<1>1. l \in Nat /\ DOMAIN text = 1 .. l /\ \A k \in 1 .. l : text[k] \in Character
  BY LenProperties DEF Text
<1>2. CASE Opens(text) = {}
  <2>1. "[" \notin ToSet(text)
    BY <1>1, <1>2 DEF ToSet, Opens
  <2>2. QED
    BY <1>2, <2>1, SanitizeDef
<1>3. CASE Opens(text) # {} /\ text[l] # "]"
  <2>1. l > 0
    BY <1>1, <1>3 DEF Opens
  <2>2. QED
    BY <1>3, <2>1, SanitizeDef
<1>4. CASE Opens(text) # {} /\ text[l] = "]"
  <2> DEFINE a == SubSeq(text, 1, n - 1)
             m == SubSeq(text, n + 1, l - 1)
  <2>1. n \in 1 .. l /\ text[n] = "[" /\ \A k \in 1 .. l : text[k] = "[" => k <= n
    <3>1. n \in Opens(text) /\ \A k \in Opens(text) : k <= n
      BY <1>4, OpensAre
    <3> HIDE DEF n
    <3>2. QED
      BY <3>1 DEF Opens
  <2> HIDE DEF n, l
  <2>2. n < l /\ n \in Int
    BY <1>1, <1>4, <2>1
  <2>3. /\ a \in Seq(Character) /\ m \in Seq(Character)
        /\ Len(m) = IF n + 1 <= l - 1 THEN (l - 1) - (n + 1) + 1 ELSE 0
        /\ \A k \in 1 .. (l - 1) - (n + 1) + 1 : m[k] = text[(n + 1) + k - 1]
    <3>1. \A k \in 1 .. n - 1 : text[k] \in Character
      BY <1>1, <2>1
    <3>2. \A k \in n + 1 .. l - 1 : text[k] \in Character
      BY <1>1, <2>1
    <3>3. n - 1 \in Int /\ n + 1 \in Int /\ l - 1 \in Int
      BY <1>1, <2>2
    <3>4. a \in Seq(Character)
      BY <3>1, <3>3, SubSeqProperties
    <3>5. QED
      BY <3>2, <3>3, <3>4, SubSeqProperties
  <2>4. "[" \notin ToSet(m)
    <3> HIDE DEF m
    <3>1. Len(m) \in Nat /\ DOMAIN m = 1 .. Len(m)
      BY <2>3, LenProperties
    <3>2. ASSUME NEW k \in 1 .. Len(m) PROVE m[k] # "["
      <4>1. k \in 1 .. (l - 1) - (n + 1) + 1 /\ (n + 1) + k - 1 = n + k
        BY <1>1, <2>2, <2>3, <3>1
      <4>2. m[k] = text[n + k] /\ n + k \in 1 .. l /\ ~(n + k <= n)
        BY <1>1, <2>1, <2>2, <2>3, <4>1
      <4>3. QED
        BY <2>1, <4>2
    <3>3. QED
      BY <3>1, <3>2 DEF ToSet
  <2>5. text = Block(a, m)
    <3>0. text \in Seq(Character) /\ 1 \in 1 .. Len(text) + 1
      BY <1>1 DEF Text, l
    <3>1. a \o <<text[n]>> = SubSeq(text, 1, n)
      <4>1. 1 \in 1 .. Len(text) /\ n \in 1 .. Len(text)
        BY <1>1, <2>1 DEF l
      <4>2. QED
        BY <3>0, <4>1, SubSeqRecursiveSecond
    <3>2. SubSeq(text, 1, n) \o m = SubSeq(text, 1, l - 1)
      <4>1. n \in 1 - 1 .. Len(text) /\ l - 1 \in n .. Len(text)
        BY <1>1, <2>1, <2>2 DEF l
      <4>2. QED
        BY <3>0, <4>1, ConcatAdjacentSubSeq
    <3>3. SubSeq(text, 1, l - 1) \o <<text[l]>> = text
      <4>1. 1 \in 1 .. Len(text) /\ l \in 1 .. Len(text)
        BY <1>1, <2>1 DEF l
      <4>2. SubSeq(text, 1, l - 1) \o <<text[l]>> = SubSeq(text, 1, l)
        BY <3>0, <4>1, SubSeqRecursiveSecond
      <4>3. QED
        BY <3>0, <4>2, SubSeqFull DEF l
    <3> HIDE DEF a, m
    <3>4. QED
      BY <1>4, <2>1, <3>1, <3>2, <3>3 DEF Block, l
  <2>6. QED
    BY <2>3, <2>4, <2>5 DEF Text
<1>5. QED
  BY <1>2, <1>3, <1>4

-----------------------------------------------------------------------------
(* What comes behind the last "::". *)

\* Neither with a "::", nor with half of one at an end.
Tight(x) == /\ x \in Text /\ Seps(x) = {}
            /\ Len(x) > 0 => x[1] # ":" /\ x[Len(x)] # ":"

LEMMA WordTight ==
    ASSUME NEW x \in Text, ":" \notin ToSet(x)
    PROVE  Tight(x)
<1>1. Len(x) \in Nat /\ \A k \in 1 .. Len(x) : x[k] # ":"
  BY LenProperties DEF ToSet, Text
<1>2. Seps(x) = {}
  BY <1>1, SepsAre DEF Colons
<1>3. QED
  BY <1>1, <1>2 DEF Tight

LEMMA BlockTight ==
    ASSUME NEW a, Tight(a), NEW m \in Text, Seps(m) = {}
    PROVE  Tight(Block(a, m))
<1> DEFINE p == a \o <<"[">>
           q == p \o m
           t == Block(a, m)
           n == Len(a) + 1
<1>1. a \in Text /\ Seps(a) = {} /\ (Len(a) > 0 => a[1] # ":") /\ Len(a) \in Nat
  BY LenProperties DEF Tight, Text
<1>2. /\ t \in Text /\ n \in Nat /\ Len(t) = n + Len(m) + 1 /\ Len(m) \in Nat
      /\ \A k \in 1 .. Len(a) : t[k] = a[k]
      /\ t[n] = "[" /\ t[Len(t)] = "]"
  BY <1>1, BlockIs, LenProperties DEF Text, IsBlock
<1>3. /\ <<"[">> \in Text /\ Len(<<"[">>) = 1 /\ <<"[">>[1] = "[" /\ Seps(<<"[">>) = {}
      /\ <<"]">> \in Text /\ Len(<<"]">>) = 1 /\ <<"]">>[1] = "]" /\ Seps(<<"]">>) = {}
  BY CharactersAre, OneIsText
<1>4. p \in Text /\ Seps(p) = {} /\ p[Len(p)] = "["
  <2>1. Seps(p) = {}
    BY <1>1, <1>3, NoSepJoined
  <2>2. p \in Text /\ IsJoin(p, a, <<"[">>)
    BY <1>1, <1>3, JoinIs DEF Text
  <2>3. Len(p) = n /\ p[n] = "["
    BY <1>3, <2>2 DEF IsJoin
  <2>4. QED
    BY <2>1, <2>2, <2>3
<1>5. t = q \o <<"]">>
  BY DEF Block
<1> HIDE DEF p, t
<1>6. q \in Text /\ Seps(q) = {}
  <2>1. q \in Text
    BY <1>4, JoinIs DEF Text
  <2>2. Seps(q) = {}
    BY <1>4, NoSepJoined
  <2>3. QED
    BY <2>1, <2>2
<1> HIDE DEF q
<1>7. Seps(t) = {}
  BY <1>3, <1>5, <1>6, NoSepJoined
<1>8. t[1] # ":" /\ t[Len(t)] # ":"
  <2>1. CASE Len(a) > 0
    BY <1>1, <1>2, <2>1
  <2>2. CASE Len(a) = 0
    BY <1>2, <2>2
  <2>3. QED
    BY <1>1, <1>2, <2>1, <2>2
<1>9. Tight(t)
  BY <1>2, <1>7, <1>8 DEF Tight
<1>10. QED
  BY <1>9 DEF t

\* What Max and Min are.
LEMMA MaxIs ==
    ASSUME NEW S \in SUBSET Int, NEW x \in S, \A y \in S : y <= x
    PROVE  Max(S) = x
<1>1. x \in S /\ \A y \in S : x >= y
  OBVIOUS
<1>2. \A z \in S : (\A y \in S : z >= y) => z = x
  OBVIOUS
<1>3. QED
  BY <1>1, <1>2 DEF Max

LEMMA MinIs ==
    ASSUME NEW S \in SUBSET Int, NEW x \in S, \A y \in S : x <= y
    PROVE  Min(S) = x
<1>1. x \in S /\ \A y \in S : x <= y
  OBVIOUS
<1>2. \A z \in S : (\A y \in S : z <= y) => z = x
  OBVIOUS
<1>3. QED
  BY <1>1, <1>2 DEF Min

\* A text that ends with "::".
EndsPath(a) == a \in Text /\ Len(a) > 1 /\ Colons(a, Len(a) - 1)

LEMMA BehindIs ==
    ASSUME NEW a, EndsPath(a), NEW x, Tight(x)
    PROVE  LET r == a \o x
           IN  /\ r \in Text /\ Seps(r) # {} /\ Max(Seps(r)) + 1 = Len(a)
               /\ SubSeq(r, 1, Len(a)) = a /\ Behind(r) = x
<1> DEFINE r == a \o x
           n == Len(a)
           m == Len(x)
<1>1. a \in Text /\ x \in Text /\ n \in Nat /\ n > 1 /\ m \in Nat
  BY LenProperties DEF EndsPath, Tight, Text
<1>2. r \in Text /\ IsJoin(r, a, x)
  BY <1>1, JoinIs DEF Text
<1>3. SubSeq(r, 1, n) = a /\ SubSeq(r, n + 1, n + m) = x
  BY <1>1, HalvesAre
<1> HIDE DEF r
<1>4. Len(r) = n + m /\ (\A k \in 1 .. n : r[k] = a[k]) /\ (\A k \in 1 .. m : r[n + k] = x[k])
  BY <1>2 DEF IsJoin
<1>5. Colons(a, n - 1) /\ (m > 0 => x[1] # ":") /\ \A k \in 1 .. m - 1 : ~Colons(x, k)
  <2>1. Seps(x) = {i \in 1 .. Len(x) - 1 : Colons(x, i)}
    BY <1>1, SepsAre
  <2>2. QED
    BY <2>1 DEF EndsPath, Tight
<1> HIDE DEF n, m
<1>6. n - 1 \in Seps(r)
  <2>1. n - 1 \in 1 .. Len(r) - 1 /\ n - 1 \in 1 .. n /\ n \in 1 .. n /\ (n - 1) + 1 = n
    BY <1>1, <1>4
  <2>2. Colons(r, n - 1)
    BY <1>4, <1>5, <2>1 DEF Colons
  <2>3. QED
    BY <1>2, <2>1, <2>2, SepsAre
<1>7. ASSUME NEW k \in Seps(r) PROVE k <= n - 1
  <2>1. k \in 1 .. (n + m) - 1 /\ Colons(r, k)
    BY <1>2, <1>4, SepsAre
  <2>2. CASE k = n
    <3>1. m > 0 /\ 1 \in 1 .. m
      BY <1>1, <2>1, <2>2
    <3>2. r[k + 1] = x[1]
      BY <1>4, <2>2, <3>1
    <3>3. QED
      BY <1>5, <2>1, <3>1, <3>2 DEF Colons
  <2>3. CASE k > n
    <3>1. k - n \in 1 .. m - 1 /\ k - n \in 1 .. m /\ (k - n) + 1 \in 1 .. m
      BY <1>1, <2>1, <2>3
    <3>2. n + (k - n) = k /\ n + ((k - n) + 1) = k + 1
      BY <1>1, <2>1
    <3>3. r[k] = x[k - n] /\ r[k + 1] = x[(k - n) + 1]
      BY <1>4, <3>1, <3>2
    <3>4. QED
      BY <1>5, <2>1, <3>1, <3>3 DEF Colons
  <2>4. QED
    BY <1>1, <2>1, <2>2, <2>3
<1>8. Seps(r) \subseteq Int
  BY DEF Seps
<1>9. Max(Seps(r)) = n - 1
  BY <1>6, <1>7, <1>8, MaxIs
<1>10. Max(Seps(r) \cup {-1}) = n - 1
  <2> DEFINE S == Seps(r) \cup {-1}
  <2>1. S \subseteq Int /\ n - 1 \in S /\ \A k \in S : k <= n - 1
    BY <1>1, <1>6, <1>7, <1>8
  <2> HIDE DEF S
  <2>2. Max(S) = n - 1
    BY <2>1, MaxIs
  <2>3. QED
    BY <2>2 DEF S
<1>11. Behind(r) = x
  <2>1. (n - 1) + 2 = n + 1
    BY <1>1
  <2>2. QED
    BY <1>3, <1>4, <1>10, <2>1 DEF Behind
<1>12. (n - 1) + 1 = n
  BY <1>1
<1>13. QED
  BY <1>2, <1>3, <1>6, <1>9, <1>11, <1>12 DEF r, n
\* A block is a text and its brackets.
LEMMA BlockJoined ==
    ASSUME NEW a \in Text, NEW m \in Text
    PROVE  /\ Block(a, m) = a \o Block(<<>>, m)
           /\ Block(<<>>, m) \in Text
           /\ a \o Brackets(m) = IF m = <<>> THEN a ELSE Block(a, m)
<1> DEFINE o == <<"[">>
           c == <<"]">>
<1>1. o \in Text /\ c \in Text /\ <<>> \in Text
  BY CharactersAre, OneIsText DEF Text
<1>2. Brackets(m) = IF m = <<>> THEN <<>> ELSE (o \o m) \o c
  BY DEF Brackets
<1>3. \A s : Block(s, m) = ((s \o o) \o m) \o c
  BY DEF Block
<1> HIDE DEF o, c
<1>4. \A s \in Text, t \in Text : s \o t \in Text
  BY JoinText
<1>5. \A s \in Text : s \o <<>> = s /\ <<>> \o s = s
  BY JoinNothing
<1> DEFINE d == o \o m
           r == d \o c
<1>7. d \in Text /\ r \in Text
  BY <1>1, <1>4
<1>8. ASSUME NEW s \in Text PROVE Block(s, m) = s \o r
  <2> DEFINE p == s \o o
  <2>1. p \in Text /\ p \o m = s \o d
    <3>1. (s \o o) \o m = s \o (o \o m)
      BY <1>1, JoinJoined, Zenon
    <3>2. QED
      BY <1>1, <1>4, <3>1
  <2>2. Block(s, m) = (p \o m) \o c
    BY <1>3
  <2> HIDE DEF p, d
  <2>3. (s \o d) \o c = s \o (d \o c)
    <3>1. d \in Text /\ c \in Text
      BY <1>1, <1>7
    <3>2. QED
      BY <3>1, JoinJoined, Zenon
  <2>4. QED
    BY <2>1, <2>2, <2>3, Zenon
<1>9. Brackets(m) = IF m = <<>> THEN <<>> ELSE r
  BY <1>2
<1> HIDE DEF d, r
<1>10. <<>> \o r = r
  BY <1>5, <1>7
<1>11. Block(<<>>, m) = r /\ Block(a, m) = a \o r
  BY <1>1, <1>8, <1>10
<1>12. a \o Brackets(m) = IF m = <<>> THEN a ELSE Block(a, m)
  BY <1>5, <1>9, <1>11
<1>13. QED
  BY <1>7, <1>11, <1>12

\* A block at the end of two texts is one at the end of the second.
LEMMA BlockShift ==
    ASSUME NEW a \in Text, NEW x \in Text, NEW m \in Text
    PROVE  Block(a \o x, m) = a \o Block(x, m)
<1> DEFINE t == Block(<<>>, m)
<1>1. t \in Text
  BY BlockJoined
<1>2. ASSUME NEW s \in Text PROVE Block(s, m) = s \o t
  BY BlockJoined
<1> HIDE DEF t
<1>3. (a \o x) \o t = a \o (x \o t)
  BY <1>1, JoinJoined, Zenon
<1>4. a \o x \in Text
  BY JoinText
<1>5. QED
  BY <1>2, <1>3, <1>4

-----------------------------------------------------------------------------
(* The names of a macro's benchmarks. *)

\* A path and a name behind it that sanitize_bench_args leaves as they are.
Settled(a, x) == Tight(x) /\ sanitize_bench_args(a \o x) = a \o x

\* A name without a bracket or a colon.
Word(w) == w \in Text /\ ToSet(w) \cap {":", "[", "]"} = {}

LEMMA WordSettled ==
    ASSUME NEW a, EndsPath(a), NEW w, Word(w)
    PROVE  Settled(a, w)
<1> DEFINE t == a \o w
           n == Len(a)
           m == Len(w)
<1>1. /\ a \in Text /\ n \in Nat /\ n > 1 /\ a[n] = ":"
      /\ w \in Text /\ m \in Nat /\ \A k \in 1 .. m : w[k] # "]"
  <2>1. a \in Text /\ n > 1 /\ a[(n - 1) + 1] = ":" /\ n \in Nat
    BY LenProperties DEF EndsPath, Colons, Text
  <2>2. (n - 1) + 1 = n
    BY <2>1
  <2>3. w \in Text /\ m \in Nat /\ \A k \in 1 .. m : w[k] # "]"
    BY LenProperties DEF Word, ToSet, Text
  <2>4. QED
    BY <2>1, <2>2, <2>3
<1>2. t \in Text /\ IsJoin(t, a, w)
  BY <1>1, JoinIs DEF Text
<1> HIDE DEF t
<1>3. t[Len(t)] # "]"
  <2>1. Len(t) = n + m /\ (\A k \in 1 .. n : t[k] = a[k]) /\ \A k \in 1 .. m : t[n + k] = w[k]
    BY <1>2 DEF IsJoin
  <2>2. CASE m = 0
    <3>1. Len(t) = n /\ n \in 1 .. n
      BY <1>1, <2>1, <2>2
    <3>2. QED
      BY <1>1, <2>1, <3>1
  <2>3. CASE m # 0
    <3>1. m \in 1 .. m
      BY <1>1, <2>3
    <3>2. QED
      BY <1>1, <2>1, <3>1
  <2>4. QED
    BY <2>2, <2>3
<1>4. sanitize_bench_args(t) = t
  BY <1>2, <1>3, SanitizeDef
<1>5. ":" \notin ToSet(w)
  BY DEF Word
<1>6. Tight(w)
  BY <1>1, <1>5, WordTight
<1>7. QED
  BY <1>4, <1>6 DEF Settled, t

\* With brackets behind it, it is settled once they are escaped.
LEMMA BlockSettled ==
    ASSUME NEW a, EndsPath(a), NEW x, Tight(x), NEW m \in Text, "[" \notin ToSet(m), NoThree(m)
    PROVE  /\ Escaped(m) \in Text /\ "[" \notin ToSet(Escaped(m))
           /\ sanitize_bench_args(Block(a \o x, m)) = a \o Block(x, Escaped(m))
           /\ Settled(a, Block(x, Escaped(m)))
<1> DEFINE e == Escaped(m)
           p == a \o x
<1>1. a \in Text /\ x \in Text
  BY DEF EndsPath, Tight
<1>2. p \in Text
  BY <1>1 DEF Text
<1>3. e \in Text /\ "[" \notin ToSet(e)
  BY EscapedHolds
<1>4. Seps(e) = {}
  BY EscapedHasNone
<1>5. Block(p, e) = a \o Block(x, e)
  <2>1. ASSUME NEW q \in Text PROVE Block(a \o x, q) = a \o Block(x, q)
    BY <1>1, BlockShift
  <2> HIDE DEF e
  <2>2. QED
    BY <1>3, <2>1
<1>6. sanitize_bench_args(Block(p, m)) = Block(p, e)
  BY <1>2, SanitizeBlock
<1>7. Escaped(e) = e
  BY <1>3, <1>4, EscapedSame
<1> HIDE DEF e, p
<1>8. sanitize_bench_args(Block(p, e)) = Block(p, e)
  BY <1>2, <1>3, <1>7, SanitizeBlock
<1>9. Tight(Block(x, e))
  BY <1>3, <1>4, BlockTight
<1>10. QED
  BY <1>3, <1>5, <1>6, <1>8, <1>9 DEF Settled, e, p
\* What begins with x.
Starts(x, e) == \E u \in Text : e = x \o u

LEMMA StartsIsPrefix ==
    ASSUME NEW x \in Text, NEW e \in Text, Starts(x, e)
    PROVE  IsPrefix(x, e)
<1>1. PICK u \in Text : e = x \o u
  BY DEF Starts
<1>2. IsJoin(e, x, u) /\ Len(x) \in Nat /\ Len(u) \in Nat
  BY <1>1, JoinIs, LenProperties DEF Text
<1>3. Len(x) <= Len(e) /\ \A k \in 1 .. Len(x) : x[k] = e[k]
  BY <1>2 DEF IsJoin
<1>4. SubSeq(e, 1, Len(x)) = x
  BY <1>1, HalvesAre
<1>5. SubSeq(x, 1, Len(x)) = x
  BY SubSeqFull DEF Text
<1>6. QED
  BY <1>3, <1>4, <1>5 DEF IsPrefix

LEMMA StartsOn ==
    ASSUME NEW x \in Text, NEW e \in Text, NEW m \in Text, Starts(x, e)
    PROVE  Starts(x, Block(e, m))
<1>1. PICK u \in Text : e = x \o u
  BY DEF Starts
<1> DEFINE t == Block(<<>>, m)
<1>2. t \in Text /\ Block(e, m) = e \o t
  BY BlockJoined
<1> HIDE DEF t
<1>3. u \o t \in Text /\ (x \o u) \o t = x \o (u \o t)
  <2>1. (x \o u) \o t = x \o (u \o t)
    BY <1>2, JoinJoined, Zenon
  <2>2. QED
    BY <1>2, <2>1, JoinText
<1>4. QED
  BY <1>1, <1>2, <1>3 DEF Starts

LEMMA StartsItself ==
    ASSUME NEW x \in Text
    PROVE  Starts(x, x)
<1>1. <<>> \in Text /\ x = x \o <<>>
  BY ConcatEmptySeq DEF Text
<1>2. QED
  BY <1>1 DEF Starts

\* What may be between brackets.
Inside(m) == m \in Text /\ "[" \notin ToSet(m) /\ NoThree(m)

\* x and, if there are any, m's brackets behind it, once they are escaped.
InBrackets(x, m) == IF m = <<>> THEN x ELSE Block(x, Escaped(m))

\* Brackets behind a settled name are all that is escaped.
LEMMA InBracketsIs ==
    ASSUME NEW a, EndsPath(a), NEW x, Settled(a, x), NEW m, Inside(m)
    PROVE  /\ (a \o x) \o Brackets(m) = IF m = <<>> THEN a \o x ELSE Block(a \o x, m)
           /\ sanitize_bench_args((a \o x) \o Brackets(m)) = a \o InBrackets(x, m)
           /\ Settled(a, InBrackets(x, m))
           /\ \A w \in Text : Starts(w, x) => Starts(w, InBrackets(x, m))
<1>1. a \in Text /\ x \in Text /\ m \in Text /\ Tight(x) /\ sanitize_bench_args(a \o x) = a \o x
  BY DEF EndsPath, Settled, Tight, Inside
<1>2. a \o x \in Text
  BY <1>1 DEF Text
<1>3. (a \o x) \o Brackets(m) = IF m = <<>> THEN a \o x ELSE Block(a \o x, m)
  <2> DEFINE p == a \o x
  <2> HIDE DEF p
  <2>1. p \o Brackets(m) = IF m = <<>> THEN p ELSE Block(p, m)
    BY <1>1, <1>2, BlockJoined DEF p
  <2>2. QED
    BY <2>1 DEF p
<1>4. CASE m = <<>>
  BY <1>1, <1>3, <1>4 DEF InBrackets
<1>5. CASE m # <<>>
  <2>1. /\ sanitize_bench_args(Block(a \o x, m)) = a \o Block(x, Escaped(m))
        /\ Settled(a, Block(x, Escaped(m))) /\ Escaped(m) \in Text
    BY <1>1, BlockSettled DEF Inside
  <2>2. \A w \in Text : Starts(w, x) => Starts(w, Block(x, Escaped(m)))
    BY <1>1, <2>1, StartsOn
  <2>3. QED
    BY <1>3, <1>5, <2>1, <2>2 DEF InBrackets
<1>6. QED
  BY <1>4, <1>5

LEMMA Bracketing ==
    ASSUME NEW a, EndsPath(a), NEW x, Settled(a, x), NEW m, Inside(m), NEW w \in Text, Starts(w, x)
    PROVE  /\ sanitize_bench_args((a \o x) \o Brackets(m)) = a \o InBrackets(x, m)
           /\ Settled(a, InBrackets(x, m)) /\ Starts(w, InBrackets(x, m))
<1>1. sanitize_bench_args((a \o x) \o Brackets(m)) = a \o InBrackets(x, m) /\ Settled(a, InBrackets(x, m))
  BY InBracketsIs
<1>2. \A v \in Text : Starts(v, x) => Starts(v, InBrackets(x, m))
  BY InBracketsIs
<1>3. QED
  BY <1>1, <1>2

\* Where SetName looks.
LEMMA FirstOpen ==
    ASSUME NEW text \in Text
    PROVE  SelectInSeq(text, LAMBDA c : c = "[") = IF Opens(text) # {} THEN Min(Opens(text)) ELSE 0
  BY DEF SelectInSeq, Opens

\* Behind the path is the new name, and the old one's brackets.
LEMMA NewName ==
    ASSUME NEW a, EndsPath(a), NEW w, Word(w), NEW m, Inside(m), NEW r, Word(r)
    PROVE  SetName((a \o w) \o Brackets(m), r) = a \o InBrackets(r, m)
<1> DEFINE old == (a \o w) \o Brackets(m)
           e == InBrackets(w, m)
           text == sanitize_bench_args(old)
           open == SelectInSeq(Behind(text), LAMBDA c : c = "[")
<1>1. a \in Text /\ w \in Text /\ m \in Text /\ r \in Text
  BY DEF EndsPath, Word, Inside
<1>2. text = a \o e /\ Settled(a, e)
  BY WordSettled, InBracketsIs
<1>3. e \in Text /\ Tight(e)
  BY <1>2 DEF Settled, Tight
<1> HIDE DEF old, e
<1>4. Seps(text) # {} /\ SubSeq(text, 1, Max(Seps(text)) + 1) = a /\ Behind(text) = e
  <2>1. LET s == a \o e
        IN  /\ s \in Text /\ Seps(s) # {} /\ Max(Seps(s)) + 1 = Len(a)
            /\ SubSeq(s, 1, Len(a)) = a /\ Behind(s) = e
    BY <1>3, BehindIs
  <2>2. QED
    BY <1>2, <2>1
<1>5. open = IF Opens(e) # {} THEN Min(Opens(e)) ELSE 0
  BY <1>3, <1>4, FirstOpen
<1>6. SetName(old, r) = a \o r \o (IF open = 0 THEN <<>> ELSE SubSeq(e, open, Len(e)))
  BY <1>4 DEF SetName
<1>7. \A k \in 1 .. Len(w) : w[k] # "["
  BY <1>1, LenProperties DEF Word, ToSet, Text
<1> HIDE DEF text, open
<1>8. CASE m = <<>>
  <2>1. e = w /\ InBrackets(r, m) = r
    BY <1>8 DEF InBrackets, e
  <2>2. Opens(e) = {}
    BY <1>7, <2>1 DEF Opens
  <2>3. (a \o r) \o <<>> = a \o r
    <3>1. a \o r \in Seq(Character)
      BY <1>1 DEF Text
    <3>2. QED
      BY <3>1, ConcatEmptySeq
  <2>4. QED
    BY <1>5, <1>6, <2>1, <2>2, <2>3 DEF old
<1>9. CASE m # <<>>
  <2> DEFINE q == Escaped(m)
             t == Block(<<>>, q)
             n == Len(w) + 1
  <2>1. q \in Text
    BY <1>1, EscapedHolds
  <2>2. e = Block(w, q) /\ InBrackets(r, m) = Block(r, q)
    BY <1>9 DEF InBrackets, e
  <2> HIDE DEF q
  <2>3. /\ t \in Text /\ Block(w, q) = w \o t /\ Block(r, q) = r \o t
    BY <1>1, <2>1, BlockJoined
  <2>4. n \in Nat /\ Len(e) = n + Len(q) + 1 /\ Len(q) \in Nat /\ e[n] = "[" /\ n > 0
        /\ \A k \in 1 .. Len(w) : e[k] = w[k]
    <3>1. IsBlock(Block(w, q), w, q)
      BY <1>1, <2>1, BlockIs
    <3>2. Len(w) \in Nat /\ Len(q) \in Nat
      BY <1>1, <2>1, LenProperties DEF Text
    <3>3. QED
      BY <2>2, <3>1, <3>2 DEF IsBlock
  <2>5. Opens(e) \in SUBSET Int /\ n \in Opens(e) /\ \A k \in Opens(e) : n <= k
    <3>1. n \in Opens(e)
      BY <2>4 DEF Opens
    <3>2. ASSUME NEW k \in Opens(e) PROVE n <= k
      <4>1. k \in Nat /\ k > 0 /\ e[k] = "["
        BY DEF Opens
      <4>2. k \notin 1 .. Len(w)
        BY <1>7, <2>4, <4>1
      <4>3. Len(w) \in Nat
        BY <1>1, LenProperties DEF Text
      <4>4. QED
        BY <4>1, <4>2, <4>3
    <3>3. QED
      BY <3>1, <3>2 DEF Opens
  <2>6. open = n
    <3> DEFINE S == Opens(e)
    <3> HIDE DEF S, n
    <3>1. Min(S) = n
      BY <2>5, MinIs DEF S
    <3>2. QED
      BY <1>5, <2>5, <3>1 DEF S
  <2>7. SubSeq(e, n, Len(e)) = t
    <3> HIDE DEF t
    <3>1. SubSeq(w \o t, Len(w) + 1, Len(w) + Len(t)) = t /\ IsJoin(w \o t, w, t)
      BY <1>1, <2>3, HalvesAre, JoinIs DEF Text
    <3>2. QED
      BY <2>2, <2>3, <3>1 DEF IsJoin
  <2>8. n # 0
    BY <2>4
  <2> HIDE DEF t, n
  <2>9. (a \o r) \o t = a \o (r \o t)
    BY <1>1, <2>3, JoinJoined, Zenon
  <2>10. QED
    BY <1>6, <2>2, <2>3, <2>6, <2>7, <2>8, <2>9 DEF old
<1>10. QED
  BY <1>8, <1>9
\* What can be part of a name.
LEMMA SanitizeType ==
    ASSUME NEW text \in Text
    PROVE  sanitize_bench_args(text) \in Text
<1>1. CASE sanitize_bench_args(text) = text
  BY <1>1
<1>2. ASSUME NEW a \in Text, NEW m \in Text, "[" \notin ToSet(m), text = Block(a, m)
      PROVE  sanitize_bench_args(text) \in Text
  <2> DEFINE e == Escaped(m)
  <2>1. e \in Text
    BY EscapedHolds
  <2>2. sanitize_bench_args(text) = Block(a, e)
    BY <1>2, SanitizeBlock
  <2> HIDE DEF e
  <2>3. Block(a, e) \in Text
    <3>1. IsBlock(Block(a, e), a, e)
      BY <2>1, BlockIs
    <3>2. QED
      BY <3>1 DEF IsBlock
  <2>4. QED
    BY <2>2, <2>3
<1>3. QED
  BY <1>1, <1>2, SanitizeIs

\* A text without a "::" is sent as it is.
LEMMA SanitizeSame ==
    ASSUME NEW text \in Text, Seps(text) = {}
    PROVE  sanitize_bench_args(text) = text
<1>1. CASE sanitize_bench_args(text) = text
  BY <1>1
<1>2. ASSUME NEW a \in Text, NEW m \in Text, "[" \notin ToSet(m), text = Block(a, m)
      PROVE  sanitize_bench_args(text) = text
  <2> DEFINE n == Len(a) + 1
  <2>1. /\ n \in Nat /\ Len(text) = n + Len(m) + 1 /\ Len(m) \in Nat
        /\ \A k \in 1 .. Len(m) : text[n + k] = m[k]
    <3>1. IsBlock(Block(a, m), a, m)
      BY BlockIs
    <3>2. QED
      BY <1>2, <3>1, LenProperties DEF Text, IsBlock
  <2> HIDE DEF n
  <2>2. ASSUME NEW k \in 1 .. Len(m) - 1, Colons(m, k) PROVE FALSE
    <3>1. k \in 1 .. Len(m) /\ k + 1 \in 1 .. Len(m) /\ n + (k + 1) = (n + k) + 1
          /\ n + k \in 1 .. Len(text) - 1
      BY <2>1
    <3>2. Colons(text, n + k)
      BY <2>1, <2>2, <3>1 DEF Colons
    <3>3. n + k \in Seps(text)
      BY <3>1, <3>2, SepsAre
    <3>4. QED
      BY <3>3
  <2>3. Seps(m) = {}
    BY <2>2, SepsAre
  <2>4. Escaped(m) = m
    BY <2>3, EscapedSame
  <2>5. QED
    BY <1>2, <2>4, SanitizeBlock
<1>3. QED
  BY <1>1, <1>2, SanitizeIs

\* What is in front of the brackets stays in the URI.
LEMMA SameQuestion ==
    ASSUME NEW name \in Text, Seps(name) = {} \/ Seps(SubSeq(name, 1,
               SelectInSeq(name, LAMBDA c : c = "[") - 1)) # {} \/ Opens(name) = {}
    PROVE  HooksUri(name) = WalltimeUri(name)
<1> DEFINE uri == sanitize_bench_args(name)
           open == SelectInSeq(name, LAMBDA c : c = "[")
           outside == SubSeq(name, 1, open - 1)
<1>1. CASE Seps(name) = {}
  <2>1. uri = name
    BY <1>1, SanitizeSame
  <2>2. QED
    BY <1>1, <2>1 DEF HooksUri, WalltimeUri
<1>2. CASE Seps(name) # {}
  <2> SUFFICES Seps(uri) # {}
    BY <1>2 DEF HooksUri, WalltimeUri
  <2>1. CASE uri = name
    BY <1>2, <2>1
  <2>2. ASSUME NEW a \in Text, NEW m \in Text, "[" \notin ToSet(m), name = Block(a, m)
        PROVE  Seps(uri) # {}
    <3> DEFINE e == Escaped(m)
               n == Len(a) + 1
    <3>1. e \in Text /\ uri = Block(a, e)
      BY <2>2, EscapedHolds, SanitizeBlock
    <3> HIDE DEF e, uri
    <3>2. /\ n \in Nat /\ Len(name) = n + Len(m) + 1 /\ Len(m) \in Nat /\ name[n] = "["
          /\ \A k \in 1 .. Len(a) : name[k] = a[k]
      <4>1. IsBlock(Block(a, m), a, m)
        BY BlockIs
      <4>2. QED
        BY <2>2, <4>1, LenProperties DEF Text, IsBlock
    <3>3. /\ uri \in Text /\ Len(uri) = n + Len(e) + 1 /\ Len(e) \in Nat
          /\ \A k \in 1 .. Len(a) : uri[k] = a[k]
      <4>1. IsBlock(Block(a, e), a, e)
        BY <3>1, BlockIs
      <4>2. QED
        BY <3>1, <4>1, LenProperties DEF Text, IsBlock
    <3>a. Len(a) \in Nat /\ n = Len(a) + 1
      BY LenProperties DEF Text
    <3> HIDE DEF n
    <3>4. n \in Opens(name)
      BY <3>2, <3>a DEF Opens
    <3>5. open \in Int /\ open - 1 <= Len(a) /\ open >= 1
      <4> DEFINE S == Opens(name)
      <4>1. open = Min(S)
        BY <3>4, FirstOpen
      <4>2. S \in SUBSET (1 .. Len(name)) /\ S # {} /\ n \in S
        BY <3>4 DEF Opens
      <4> HIDE DEF S, open
      <4>3. S \in SUBSET Nat
        BY <4>2
      <4>4. Min(S) \in S /\ \A y \in S : Min(S) <= y
        BY <4>2, <4>3, MinOf
      <4>5. open \in 1 .. Len(name) /\ open <= n
        BY <4>1, <4>2, <4>4
      <4>6. n = Len(a) + 1 /\ n \in Nat /\ Len(name) \in Nat
        BY <3>2, <3>a
      <4>7. QED
        BY <3>a, <4>5, <4>6
    <3>6. PICK k \in Seps(outside) : TRUE
      BY <1>2, <2>2, <3>4
    <3> HIDE DEF open
    <3>7. outside \in Text /\ Len(outside) = open - 1 /\ \A j \in 1 .. open - 1 : outside[j] = name[j]
      <4>1. \A j \in 1 .. open - 1 : name[j] \in Character
        BY <3>2, <3>5, <3>a, LenProperties DEF Text
      <4>2. /\ outside \in Seq(Character)
            /\ Len(outside) = IF 1 <= open - 1 THEN (open - 1) - 1 + 1 ELSE 0
            /\ \A j \in 1 .. (open - 1) - 1 + 1 : outside[j] = name[1 + j - 1]
        <5>1. 1 \in Int /\ open - 1 \in Int
          BY <3>5
        <5>2. QED
          BY <4>1, <5>1, SubSeqProperties
      <4> HIDE DEF outside
      <4>3. Len(outside) = open - 1
        BY <3>5, <4>2
      <4>4. ASSUME NEW j \in 1 .. open - 1 PROVE outside[j] = name[j]
        <5>1. j \in 1 .. (open - 1) - 1 + 1 /\ 1 + j - 1 = j
          BY <3>5
        <5>2. QED
          BY <4>2, <5>1
      <4>5. QED
        BY <4>2, <4>3, <4>4 DEF Text
    <3> HIDE DEF outside
    <3>8. k \in 1 .. (open - 1) - 1 /\ Colons(outside, k)
      BY <3>6, <3>7, SepsAre
    <3>9. k \in 1 .. open - 1 /\ k + 1 \in 1 .. open - 1 /\ k \in 1 .. Len(a) /\ k + 1 \in 1 .. Len(a)
          /\ k \in 1 .. Len(uri) - 1
      BY <3>3, <3>5, <3>8, <3>a
    <3>10. Colons(uri, k)
      BY <3>2, <3>3, <3>7, <3>8, <3>9 DEF Colons
    <3>11. QED
      BY <3>3, <3>9, <3>10, SepsAre
  <2>3. QED
    BY <2>1, <2>2, SanitizeIs
<1>3. QED
  BY <1>1, <1>2

-----------------------------------------------------------------------------
(* Every instance's name, and its URIs. *)

LEMMA SubSeqType ==
    ASSUME NEW s \in Text, NEW i \in Int, NEW j \in Int, i >= 1, j <= Len(s)
    PROVE  SubSeq(s, i, j) \in Text
<1>1. Len(s) \in Nat /\ \A k \in 1 .. Len(s) : s[k] \in Character
  BY LenProperties DEF Text
<1>2. \A k \in i .. j : s[k] \in Character
  BY <1>1
<1>3. QED
  BY <1>2, SubSeqProperties DEF Text

LEMMA BehindType ==
    ASSUME NEW s \in Text
    PROVE  Behind(s) \in Text /\ (Seps(s) # {} => SubSeq(s, 1, Max(Seps(s)) + 1) \in Text)
<1> DEFINE n == Len(s)
           S == Seps(s) \cup {-1}
<1>1. n \in Nat /\ Seps(s) \in SUBSET (1 .. n - 1)
  BY LenProperties DEF Text, Seps
<1>2. CASE Seps(s) = {}
  <2>1. Max(S) = -1
    <3>1. S \in SUBSET Int /\ -1 \in S /\ \A y \in S : y <= -1
      BY <1>2
    <3> HIDE DEF S
    <3>2. QED
      BY <3>1, MaxIs
  <2>2. Behind(s) = SubSeq(s, -1 + 2, n)
    BY <2>1 DEF Behind
  <2>3. -1 + 2 \in Int /\ -1 + 2 >= 1 /\ n \in Int /\ n <= n
    BY <1>1
  <2>4. QED
    BY <1>2, <2>2, <2>3, SubSeqType
<1>3. CASE Seps(s) # {}
  <2> DEFINE x == Max(Seps(s))
  <2>1. x \in Seps(s) /\ \A y \in Seps(s) : y <= x
    <3>1. Seps(s) \in SUBSET (1 .. n)
      BY <1>1
    <3>2. QED
      BY <1>1, <1>3, <3>1, MaxIn
  <2> HIDE DEF x
  <2>2. x \in 1 .. n - 1
    BY <1>1, <2>1
  <2>3. Max(S) = x
    <3>1. S \in SUBSET Int /\ x \in S /\ \A y \in S : y <= x
      BY <1>1, <2>1, <2>2
    <3> HIDE DEF S
    <3>2. QED
      BY <3>1, MaxIs
  <2>4. Behind(s) = SubSeq(s, x + 2, n)
    BY <2>3 DEF Behind
  <2>5. x + 2 \in Int /\ x + 2 >= 1 /\ x + 1 \in Int /\ 1 \in Int /\ x + 1 <= n /\ n <= n /\ n \in Int
    BY <1>1, <2>2
  <2>6. SubSeq(s, x + 2, n) \in Text /\ SubSeq(s, 1, x + 1) \in Text
    BY <2>5, SubSeqType
  <2>7. QED
    BY <2>4, <2>6 DEF x
<1>4. QED
  BY <1>2, <1>3

LEMMA SetNameType ==
    ASSUME NEW old \in Text, NEW name \in Text
    PROVE  SetName(old, name) \in Text
<1> DEFINE text == sanitize_bench_args(old)
           behind == Behind(text)
           open == SelectInSeq(behind, LAMBDA c : c = "[")
           path == SubSeq(text, 1, Max(Seps(text)) + 1)
           rest == SubSeq(behind, open, Len(behind))
<1>1. text \in Text
  BY SanitizeType
<1> HIDE DEF text
<1>2. behind \in Text /\ (Seps(text) # {} => path \in Text)
  BY <1>1, BehindType
<1> HIDE DEF behind, path
<1>3. open # 0 => rest \in Text
  <2>1. open = IF Opens(behind) # {} THEN Min(Opens(behind)) ELSE 0
    BY <1>2, FirstOpen
  <2>2. Opens(behind) # {} => Min(Opens(behind)) \in Opens(behind)
    <3>1. Opens(behind) \in SUBSET Nat
      BY DEF Opens
    <3>2. QED
      BY <3>1, MinOf
  <2>3. open # 0 => open \in 1 .. Len(behind)
    BY <2>1, <2>2 DEF Opens
  <2> HIDE DEF open
  <2>4. Len(behind) \in Nat
    BY <1>2, LenProperties DEF Text
  <2>5. open # 0 => open \in Int /\ open >= 1 /\ Len(behind) \in Int /\ Len(behind) <= Len(behind)
    BY <2>3, <2>4
  <2>6. QED
    BY <1>2, <2>5, SubSeqType
<1>4. SetName(old, name) =
          IF Seps(text) = {} THEN name
          ELSE path \o name \o (IF open = 0 THEN <<>> ELSE rest)
  BY DEF SetName, text, behind, path
<1> HIDE DEF open, rest
<1>5. <<>> \in Text /\ \A s \in Text, t \in Text : s \o t \in Text
  BY DEF Text
<1>6. QED
  BY <1>2, <1>3, <1>4, <1>5

LEMMA BracketsType ==
    ASSUME NEW m \in Text
    PROVE  Brackets(m) \in Text
<1>1. <<"[">> \in Text /\ <<"]">> \in Text /\ <<>> \in Text
  BY CharactersAre, OneIsText DEF Text
<1>2. \A s \in Text, t \in Text : s \o t \in Text
  BY DEF Text
<1>3. QED
  BY <1>1, <1>2 DEF Brackets

Instances == Macros \cup Registered

LEMMA StrType ==
    ASSUME NEW b \in Instances
    PROVE  str(b) \in Text
<1>1. /\ b.path \in Text /\ b.function \in Text /\ b.brackets \in Text
      /\ b.renamed \in Text /\ b.args \in Text
  <2>1. Paths \cup Functions \cup Bracketed \cup Customs \cup Args \cup Renames \subseteq Text
    <3>1. \A s \in Seq(STRING) : s \in Text
      BY DEF Text, Character
    <3>2. QED
      BY <3>1, InstancesAssumption
  <2>2. <<>> \in Text
    BY DEF Text
  <2>3. QED
    BY <2>1, <2>2 DEF Instances, Macros, Registered
<1>2. <<>> \in Text /\ \A s \in Text, t \in Text : s \o t \in Text
  BY DEF Text
<1>3. \A m \in Text : Brackets(m) \in Text
  BY BracketsType
<1>4. function_name(b) \in Text
  BY <1>1, <1>2, <1>3 DEF function_name
<1>5. name_(b) \in Text
  BY <1>1, <1>4, SetNameType DEF name_
<1>6. QED
  BY <1>1, <1>2, <1>3, <1>5 DEF str
\* What a macro writes: a path that ends with "::", a function or a method without
\* brackets or colons, and brackets around a text in which none is opened, and
\* in which three colons never follow each other; the arguments, and a name
\* given later, are like it.
MacroTexts ==
    /\ \A a \in Paths : EndsPath(a)
    /\ \A w \in Functions \cup Renames : Word(w)
    /\ \A m \in Bracketed \cup Args : Inside(m)

\* A macro's benchmark is called x, which begins with its name, behind its path.
Called(b, x) ==
    /\ Settled(b.path, x) /\ sanitize_bench_args(str(b)) = b.path \o x
    /\ Starts(IF b.renamed = <<>> THEN b.function ELSE b.renamed, x)

LEMMA MacroCalled ==
    ASSUME MacroTexts, NEW b \in Macros, b.renamed # <<>> \/ b.brackets = <<>> \/ b.args = <<>>
    PROVE  EndsPath(b.path) /\ \E x : Called(b, x)
<1> DEFINE a == b.path
           f == b.function
           k == b.brackets
           r == b.renamed
           g == b.args
<1>1. EndsPath(a) /\ Word(f) /\ Word(r) /\ Inside(k) /\ Inside(g)
  BY DEF MacroTexts, Macros
<1>2. a \in Text /\ f \in Text /\ r \in Text /\ k \in Text /\ g \in Text
  BY <1>1 DEF EndsPath, Word, Inside
<1>3. str(b) = (IF r = <<>> THEN (a \o f) \o Brackets(k) ELSE SetName((a \o f) \o Brackets(k), r))
               \o Brackets(g)
  BY DEF str, name_, function_name
<1>4. r # <<>> \/ k = <<>> \/ g = <<>>
  OBVIOUS
<1>5. /\ Brackets(<<>>) = <<>> /\ \A s \in Text : s \o <<>> = s
  BY ConcatEmptySeq DEF Brackets, Text
<1> HIDE DEF a, f, k, r, g
<1>6. Settled(a, f) /\ Settled(a, r) /\ Starts(f, f) /\ Starts(r, r)
  BY <1>1, <1>2, WordSettled, StartsItself
<1>7. a \o f \in Text
  BY <1>2 DEF Text
<1>8. CASE r = <<>> /\ k = <<>>
  <2> DEFINE x == InBrackets(f, g)
  <2>1. str(b) = (a \o f) \o Brackets(g)
    BY <1>3, <1>5, <1>7, <1>8
  <2>2. sanitize_bench_args(str(b)) = a \o x /\ Settled(a, x) /\ Starts(f, x)
    BY <1>1, <1>2, <1>6, <2>1, Bracketing
  <2> HIDE DEF x
  <2>3. Called(b, x)
    BY <1>8, <2>2 DEF Called, a, f, r
  <2>4. QED
    BY <1>1, <2>3 DEF a
<1>9. CASE r = <<>> /\ k # <<>>
  <2> DEFINE x == InBrackets(f, k)
             old == (a \o f) \o Brackets(k)
  <2>1. sanitize_bench_args(old) = a \o x /\ Settled(a, x) /\ Starts(f, x)
    BY <1>1, <1>2, <1>6, Bracketing
  <2>2. old \in Text
    <3>1. Brackets(k) \in Text
      BY <1>2, BracketsType
    <3>2. QED
      BY <1>7, <3>1 DEF Text
  <2>3. g = <<>>
    BY <1>4, <1>9
  <2>4. str(b) = old \o Brackets(g)
    BY <1>3, <1>9
  <2> HIDE DEF old
  <2>5. str(b) = old
    BY <1>5, <2>2, <2>3, <2>4
  <2> HIDE DEF x
  <2>6. Called(b, x)
    BY <1>9, <2>1, <2>5 DEF Called, a, f, r
  <2>7. QED
    BY <1>1, <2>6 DEF a
<1>10. CASE r # <<>>
  <2> DEFINE y == InBrackets(r, k)
             x == InBrackets(y, g)
  <2>1. SetName((a \o f) \o Brackets(k), r) = a \o y
    BY <1>1, NewName
  <2>2. Settled(a, y) /\ Starts(r, y)
    BY <1>1, <1>2, <1>6, InBracketsIs
  <2>3. str(b) = (a \o y) \o Brackets(g)
    BY <1>3, <1>10, <2>1
  <2> HIDE DEF y
  <2>4. sanitize_bench_args(str(b)) = a \o x /\ Settled(a, x) /\ Starts(r, x)
    BY <1>1, <1>2, <2>2, <2>3, Bracketing
  <2> HIDE DEF x
  <2>5. Called(b, x)
    BY <1>10, <2>4 DEF Called, a, f, r
  <2>6. QED
    BY <1>1, <2>5 DEF a
<1>11. QED
  BY <1>8, <1>9, <1>10

ResultOf(b) ==
    [parts |-> b, name |-> str(b), benchmarked |-> HooksUri(str(b)),
     uri |-> WalltimeUri(str(b)), walltime_name |-> WalltimeName(str(b))]

\* The running instance's URI is still the one it began with, and each result is
\* that of an instance.
UriInv ==
    /\ running \subseteq Instances
    /\ \A b \in running : current_benchmark = HooksUri(str(b))
    /\ done \in Seq({ResultOf(b) : b \in Instances})

LEMMA UriAlways == UriSpec => []UriInv
<1>1. UriInit => UriInv
  BY DEF UriInit, UriInv
<1>2. UriInv /\ [UriNext]_uriVars => UriInv'
  <2> SUFFICES ASSUME UriInv, [UriNext]_uriVars PROVE UriInv'
    OBVIOUS
  <2> USE DEF UriInv
  <2>1. ASSUME NEW b \in Macros \cup Registered, StartBenchmark(b) PROVE UriInv'
    BY <2>1 DEF StartBenchmark, Instances
  <2>2. ASSUME NEW b \in running, EndBenchmark(b) PROVE UriInv'
    <3>1. done' = Append(done, ResultOf(b)) /\ running' = {}
      BY <2>2 DEF EndBenchmark, ResultOf
    <3>2. ResultOf(b) \in {ResultOf(c) : c \in Instances}
      BY <2>2
    <3> DEFINE R == {ResultOf(c) : c \in Instances}
    <3>3. done \in Seq(R)
      OBVIOUS
    <3> HIDE DEF R
    <3>4. done' \in Seq(R)
      BY <3>1, <3>2, <3>3 DEF R
    <3>5. QED
      BY <3>1, <3>4 DEF R
  <2>3. CASE UNCHANGED uriVars
    BY <2>3 DEF uriVars
  <2>4. QED
    BY <2>1, <2>2, <2>3 DEF UriNext
<1>3. QED
  BY <1>1, <1>2, PTL DEF UriSpec

LEMMA DoneAre ==
    ASSUME UriInv, NEW i \in DOMAIN done
    PROVE  \E b \in Instances : done[i] = ResultOf(b)
<1> DEFINE R == {ResultOf(b) : b \in Instances}
<1>1. done \in Seq(R)
  BY DEF UriInv
<1> HIDE DEF R
<1>2. done[i] \in R
  BY <1>1
<1>3. QED
  BY <1>2 DEF R

LEMMA UriSame == UriInv => SameUri
<1> SUFFICES ASSUME UriInv, NEW i \in DOMAIN done,
                    LET name == done[i].name
                        open == SelectInSeq(name, LAMBDA c : c = "[")
                        outside == IF open = 0 THEN name ELSE SubSeq(name, 1, open - 1)
                    IN  Seps(name) = {} \/ Seps(outside) # {}
             PROVE  done[i].benchmarked = done[i].uri
  BY DEF SameUri
<1>1. PICK b \in Instances : done[i] = ResultOf(b)
  BY DoneAre
<1> DEFINE name == str(b)
<1>2. /\ done[i].name = name /\ done[i].benchmarked = HooksUri(name) /\ done[i].uri = WalltimeUri(name)
      /\ name \in Text
  BY <1>1, StrType DEF ResultOf
<1> HIDE DEF name
<1>3. SelectInSeq(name, LAMBDA c : c = "[") = 0 => Opens(name) = {}
  <2>1. Opens(name) # {} => Min(Opens(name)) \in Opens(name)
    <3>1. Opens(name) \in SUBSET Nat
      BY DEF Opens
    <3>2. QED
      BY <3>1, MinOf
  <2>2. 0 \notin Opens(name)
    BY DEF Opens
  <2>3. QED
    BY <1>2, <2>1, <2>2, FirstOpen
<1>4. Seps(name) = {} \/ Seps(SubSeq(name, 1, SelectInSeq(name, LAMBDA c : c = "[") - 1)) # {}
      \/ Opens(name) = {}
  BY <1>2, <1>3
<1>5. QED
  BY <1>2, <1>4, SameQuestion

LEMMA UriWhole ==
    ASSUME MacroTexts, UriInv
    PROVE  WalltimeNameWhole
<1> SUFFICES ASSUME NEW i \in DOMAIN done, done[i].parts.path # <<>>,
                    \/ done[i].parts.renamed # <<>>
                    \/ done[i].parts.brackets = <<>> \/ done[i].parts.args = <<>>
             PROVE  LET p == done[i].parts
                        called == IF p.renamed = <<>> THEN p.function ELSE p.renamed
                    IN  /\ done[i].uri = p.path \o done[i].walltime_name
                        /\ IsPrefix(called, done[i].walltime_name)
  BY DEF WalltimeNameWhole
<1>1. PICK b \in Instances : done[i] = ResultOf(b)
  BY DoneAre
<1>2. /\ done[i].parts = b /\ done[i].uri = WalltimeUri(str(b))
      /\ done[i].walltime_name = WalltimeName(str(b))
  BY <1>1 DEF ResultOf
<1>3. b \in Macros /\ (b.renamed # <<>> \/ b.brackets = <<>> \/ b.args = <<>>)
  BY <1>2 DEF Instances, Registered
<1> DEFINE a == b.path
           called == IF b.renamed = <<>> THEN b.function ELSE b.renamed
<1>4. EndsPath(a) /\ \E x : Called(b, x)
  BY <1>3, MacroCalled
<1>5. PICK x : Called(b, x)
  BY <1>4
<1>6. Tight(x) /\ x \in Text /\ sanitize_bench_args(str(b)) = a \o x /\ Starts(called, x)
  BY <1>5 DEF Called, Settled, Tight
<1>7. called \in Text
  BY <1>3 DEF MacroTexts, Word, Macros
<1> HIDE DEF a, called
<1>8. Seps(a \o x) # {} /\ Behind(a \o x) = x
  <2>1. LET r == a \o x
        IN  /\ r \in Text /\ Seps(r) # {} /\ Max(Seps(r)) + 1 = Len(a)
            /\ SubSeq(r, 1, Len(a)) = a /\ Behind(r) = x
    BY <1>4, <1>6, BehindIs
  <2>2. QED
    BY <2>1
<1>9. WalltimeUri(str(b)) = a \o x /\ WalltimeName(str(b)) = x
  BY <1>6, <1>8 DEF WalltimeUri, WalltimeName
<1>10. IsPrefix(called, x)
  BY <1>6, <1>7, StartsIsPrefix
<1>11. QED
  BY <1>2, <1>9, <1>10 DEF a, called

\* The hooks and the walltime results give an instance the same URI, and what the
\* walltime results call a macro's benchmark begins with its name (benchmark.cc:407),
\* for any names that macros write: if brackets were opened within brackets,
\* a function were written with its namespace, or three colons met, the name
\* would be cut elsewhere.
THEOREM UrisAgreeForMacros ==
    ASSUME MacroTexts
    PROVE  UriSpec => []UrisAgree
<1>1. UriInv => UrisAgree
  BY UriSame, UriWhole DEF UrisAgree
<1>2. QED
  BY <1>1, UriAlways, PTL

-----------------------------------------------------------------------------
(* No two names have the same URI. *)

LEMMA CancelLeft ==
    ASSUME NEW s \in Text, NEW t \in Text, NEW u \in Text, s \o t = s \o u
    PROVE  t = u
  BY ConcatSimplifications DEF Text

\* What is escaped of a text is longer than what is escaped of its rest.
LEMMA EscapeHead ==
    ASSUME NEW s \in Text, NEW h, EscapeOf(h, s), NEW i \in 1 .. Len(s)
    PROVE  Len(h[i]) > 0 /\ h[i][1] = IF i \in Seps(s) THEN "\\" ELSE s[i]
<1>1. CASE i \in Seps(s)
  <2> DEFINE r == h[i + 2]
  <2>1. r \in Text /\ h[i] = Replacement \o r
    BY <1>1, EscapeNext
  <2> HIDE DEF r
  <2>2. IsJoin(h[i], Replacement, r) /\ Len(r) \in Nat
    BY <2>1, CharactersAre, JoinIs, LenProperties DEF Text
  <2>3. QED
    BY <1>1, <2>2, CharactersAre DEF IsJoin
<1>2. CASE i \notin Seps(s)
  <2> DEFINE r == h[i + 1]
             c == <<s[i]>>
  <2>1. r \in Text /\ h[i] = c \o r
    BY <1>2, EscapeNext
  <2>2. c \in Text /\ Len(c) = 1 /\ c[1] = s[i]
    <3>1. s[i] \in Character
      BY LenProperties DEF Text
    <3>2. QED
      BY <3>1, OneIsText
  <2> HIDE DEF r, c
  <2>3. IsJoin(h[i], c, r) /\ Len(r) \in Nat
    BY <2>1, <2>2, JoinIs, LenProperties DEF Text
  <2>4. QED
    BY <1>2, <2>2, <2>3 DEF IsJoin
<1>3. QED
  BY <1>1, <1>2

\* The rest of a text from a place on.
LEMMA RestIs ==
    ASSUME NEW s \in Text, NEW i \in 1 .. Len(s)
    PROVE  /\ SubSeq(s, i, Len(s)) = <<s[i]>> \o SubSeq(s, i + 1, Len(s))
           /\ i \in Seps(s) =>
                  SubSeq(s, i, Len(s)) = <<":">> \o (<<":">> \o SubSeq(s, i + 2, Len(s)))
<1>1. Len(s) \in Nat /\ s \in Seq(Character)
  BY LenProperties DEF Text
<1>2. ASSUME NEW j \in 1 .. Len(s)
      PROVE  SubSeq(s, j, Len(s)) = <<s[j]>> \o SubSeq(s, j + 1, Len(s))
  <2>1. Len(s) \in j .. Len(s)
    BY <1>1
  <2>2. QED
    BY <1>1, <2>1, SubSeqRecursiveFirst
<1>3. ASSUME i \in Seps(s)
      PROVE  SubSeq(s, i, Len(s)) = <<":">> \o (<<":">> \o SubSeq(s, i + 2, Len(s)))
  <2>1. i + 1 \in 1 .. Len(s) /\ (i + 1) + 1 = i + 2 /\ s[i] = ":" /\ s[i + 1] = ":"
    BY <1>1, <1>3, SepsAre DEF Colons
  <2>2. SubSeq(s, i + 1, Len(s)) = <<s[i + 1]>> \o SubSeq(s, i + 2, Len(s))
    BY <1>2, <2>1
  <2>3. QED
    BY <1>2, <2>1, <2>2
<1>4. QED
  BY <1>2, <1>3

\* Two texts without a backslash are not escaped to the same.
LEMMA EscapedApart ==
    ASSUME NEW s \in Text, NEW t \in Text, "\\" \notin ToSet(s), "\\" \notin ToSet(t),
           Escaped(s) = Escaped(t)
    PROVE  s = t
<1> DEFINE n == Len(s)
           m == Len(t)
<1>1. /\ n \in Nat /\ \A k \in 1 .. n : s[k] \in Character /\ s[k] # "\\"
      /\ m \in Nat /\ \A k \in 1 .. m : t[k] \in Character /\ t[k] # "\\"
  BY LenProperties DEF ToSet, Text
<1>2. PICK h : EscapeOf(h, s)
  BY EscapedIs
<1>3. PICK g : EscapeOf(g, t)
  BY EscapedIs
<1> DEFINE Back(i, j) == h[i] = g[j] => SubSeq(s, i, n) = SubSeq(t, j, m)
           S == {i \in 1 .. n + 1 : \A j \in 1 .. m + 1 : Back(i, j)}
<1>4. ASSUME NEW i \in 1 .. n + 1, \A k \in 1 .. n + 1 : k > i => k \in S PROVE i \in S
  <2> SUFFICES ASSUME NEW j \in 1 .. m + 1, h[i] = g[j] PROVE SubSeq(s, i, n) = SubSeq(t, j, m)
    OBVIOUS
  <2>1. CASE i = n + 1
    <3>1. h[i] = <<>>
      BY <1>2, <2>1, EscapeEnd
    <3>2. Len(h[i]) = 0
      BY <3>1
    <3>3. j \notin 1 .. m
      BY <1>3, <3>2, EscapeHead
    <3>4. j > m
      BY <1>1, <3>3
    <3>5. SubSeq(s, i, n) = <<>> /\ SubSeq(t, j, m) = <<>>
      BY <1>1, <2>1, <3>4, SubSeqEmpty
    <3>6. QED
      BY <3>5
  <2>2. CASE i # n + 1
    <3>1. i \in 1 .. n
      BY <1>1, <2>2
    <3>2. Len(h[i]) > 0 /\ h[i][1] = IF i \in Seps(s) THEN "\\" ELSE s[i]
      BY <1>2, <3>1, EscapeHead
    <3>3. j \in 1 .. m
      <4>1. CASE j = m + 1
        <5>1. g[j] = <<>>
          BY <1>3, <4>1, EscapeEnd
        <5>2. Len(<<>>) = 0
          OBVIOUS
        <5>3. QED
          BY <3>2, <5>1, <5>2
      <4>2. QED
        BY <1>1, <4>1
    <3>4. g[j][1] = IF j \in Seps(t) THEN "\\" ELSE t[j]
      BY <1>3, <3>3, EscapeHead
    <3>5. s[i] # "\\" /\ t[j] # "\\" /\ s[i] \in Character /\ t[j] \in Character
      BY <1>1, <3>1, <3>3
    <3>6. CASE i \in Seps(s)
      <4>1. j \in Seps(t)
        BY <3>2, <3>4, <3>5, <3>6
      <4>2. i + 2 \in 1 .. n + 1 /\ h[i + 2] \in Text /\ h[i] = Replacement \o h[i + 2]
        BY <1>2, <3>1, <3>6, EscapeNext
      <4>3. j + 2 \in 1 .. m + 1 /\ g[j + 2] \in Text /\ g[j] = Replacement \o g[j + 2]
        BY <1>3, <3>3, <4>1, EscapeNext
      <4>4. h[i + 2] = g[j + 2]
        <5> DEFINE r == h[i + 2]
                   q == g[j + 2]
        <5>1. r \in Text /\ q \in Text /\ Replacement \in Text /\ Replacement \o r = Replacement \o q
          BY <4>2, <4>3, CharactersAre
        <5> HIDE DEF r, q
        <5>2. r = q
          BY <5>1, CancelLeft
        <5>3. QED
          BY <5>2 DEF r, q
      <4>5. i + 2 > i
        BY <3>1
      <4>6. SubSeq(s, i + 2, n) = SubSeq(t, j + 2, m)
        BY <1>4, <4>2, <4>3, <4>4, <4>5
      <4>7. /\ SubSeq(s, i, n) = <<":">> \o (<<":">> \o SubSeq(s, i + 2, n))
            /\ SubSeq(t, j, m) = <<":">> \o (<<":">> \o SubSeq(t, j + 2, m))
        BY <3>1, <3>3, <3>6, <4>1, RestIs
      <4>8. QED
        BY <4>6, <4>7
    <3>7. CASE i \notin Seps(s)
      <4>1. j \notin Seps(t) /\ s[i] = t[j]
        BY <3>2, <3>4, <3>5, <3>7
      <4>2. i + 1 \in 1 .. n + 1 /\ h[i + 1] \in Text /\ h[i] = <<s[i]>> \o h[i + 1]
        BY <1>2, <3>1, <3>7, EscapeOther
      <4>3. j + 1 \in 1 .. m + 1 /\ g[j + 1] \in Text /\ g[j] = <<t[j]>> \o g[j + 1]
        BY <1>3, <3>3, <4>1, EscapeOther
      <4> DEFINE c == <<s[i]>>
      <4>d. h[i] = c \o h[i + 1] /\ g[j] = c \o g[j + 1]
        <5>1. c = <<s[i]>> /\ c = <<t[j]>>
          BY <4>1
        <5> HIDE DEF c
        <5>2. QED
          BY <4>2, <4>3, <5>1
      <4>c. c \in Text
        BY <3>5, OneIsText
      <4>7. /\ SubSeq(s, i, n) = c \o SubSeq(s, i + 1, n)
            /\ SubSeq(t, j, m) = c \o SubSeq(t, j + 1, m)
        BY <3>1, <3>3, <4>1, RestIs
      <4> HIDE DEF c
      <4>4. h[i + 1] = g[j + 1]
        BY <4>2, <4>3, <4>c, <4>d, CancelLeft
      <4>5. i + 1 > i
        BY <3>1
      <4>6. SubSeq(s, i + 1, n) = SubSeq(t, j + 1, m)
        BY <1>4, <4>2, <4>3, <4>4, <4>5
      <4>8. QED
        BY <4>6, <4>7
    <3>8. QED
      BY <3>6, <3>7
  <2>3. QED
    BY <2>1, <2>2
<1> HIDE DEF S
<1>5. 1 .. n + 1 \subseteq S
  <2>1. n + 1 \in Nat
    BY <1>1
  <2>2. QED
    BY <1>4, <2>1, Downwards
<1>6. 1 \in 1 .. n + 1 /\ 1 \in 1 .. m + 1
  BY <1>1
<1>7. h[1] = g[1]
  BY <1>2, <1>3 DEF EscapeOf
<1>8. SubSeq(s, 1, n) = SubSeq(t, 1, m)
  BY <1>5, <1>6, <1>7 DEF S
<1>9. SubSeq(s, 1, n) = s /\ SubSeq(t, 1, m) = t
  BY SubSeqFull DEF Text
<1>10. QED
  BY <1>8, <1>9
\* It does not begin with the placeholder's file.
Unplaced(name) == ~(Len(name) > 2 /\ name[1] = "unknown_file" /\ Colons(name, 2))

\* What its last brackets hold was not escaped before, or has nothing to escape.
Unescaped(name) ==
    \A a \in Text, m \in Text :
        name = Block(a, m) /\ "[" \notin ToSet(m) => "\\" \notin ToSet(m) \/ Seps(m) = {}

\* No name begins like a URI for want of a path, nor is another one's, escaped:
\* what Benchmark::Name leaves of a template's name can be that.
NamesApart ==
    /\ \A b \in Instances : Unplaced(str(b)) /\ Unescaped(str(b))
    /\ \A b, c \in Instances : str(b) = sanitize_bench_args(str(c)) => str(b) = str(c)

Begins(c, q, t) ==
    /\ t \in Text /\ Len(c) \in Nat /\ Len(q) \in Nat /\ Len(t) = Len(c) + 1 + Len(q) + 1
    /\ t[Len(c) + 1] = "[" /\ \A j \in 1 .. Len(q) : t[Len(c) + 1 + j] # "["

\* Where a block begins can be seen from it.
LEMMA BlocksApart ==
    ASSUME NEW a \in Text, NEW m \in Text, NEW b \in Text, NEW k \in Text,
           "[" \notin ToSet(m), "[" \notin ToSet(k), Block(a, m) = Block(b, k)
    PROVE  a = b /\ m = k
<1>1. ASSUME NEW c \in Text, NEW q \in Text, "[" \notin ToSet(q) PROVE Begins(c, q, Block(c, q))
  <2>1. IsBlock(Block(c, q), c, q)
    BY BlockIs
  <2>2. Len(c) \in Nat /\ Len(q) \in Nat /\ \A i \in 1 .. Len(q) : q[i] # "["
    BY <1>1, LenProperties DEF ToSet, Text
  <2>3. QED
    BY <2>1, <2>2 DEF Begins, IsBlock
<1> DEFINE t == Block(a, m)
<1>2. Begins(a, m, t) /\ Begins(b, k, t)
  BY <1>1
<1>3. ASSUME NEW c \in Text, NEW q \in Text, NEW d \in Text, NEW r \in Text,
             Begins(c, q, t), Begins(d, r, t), Len(c) < Len(d)
      PROVE  FALSE
  <2> DEFINE x == Len(c)
             y == Len(d)
             u == Len(q)
             w == Len(r)
  <2>1. x \in Nat /\ y \in Nat /\ u \in Nat /\ w \in Nat /\ x + 1 + u + 1 = y + 1 + w + 1 /\ x < y
        /\ t[y + 1] = "[" /\ \A j \in 1 .. u : t[x + 1 + j] # "["
    BY <1>3 DEF Begins
  <2> HIDE DEF x, y, u, w, t
  <2>2. y - x \in 1 .. u /\ x + 1 + (y - x) = y + 1
    BY <2>1
  <2>3. QED
    BY <2>1, <2>2
<1>4. Len(a) = Len(b)
  <2>1. Len(a) \in Nat /\ Len(b) \in Nat
    BY LenProperties DEF Text
  <2> HIDE DEF t
  <2>2. ~(Len(a) < Len(b))
    BY <1>2, <1>3
  <2>3. ~(Len(b) < Len(a))
    BY <1>2, <1>3
  <2>4. QED
    BY <2>1, <2>2, <2>3
<1>5. /\ Block(a, m) = a \o Block(<<>>, m) /\ Block(<<>>, m) \in Text
      /\ Block(b, k) = b \o Block(<<>>, k) /\ Block(<<>>, k) \in Text
  BY BlockJoined
<1>6. SubSeq(Block(a, m), 1, Len(a)) = a /\ SubSeq(Block(b, k), 1, Len(b)) = b
  <2> DEFINE u == Block(<<>>, m)
             w == Block(<<>>, k)
  <2>1. u \in Text /\ w \in Text /\ Block(a, m) = a \o u /\ Block(b, k) = b \o w
    BY <1>5
  <2> HIDE DEF u, w
  <2>2. SubSeq(a \o u, 1, Len(a)) = a /\ SubSeq(b \o w, 1, Len(b)) = b
    BY <2>1, HalvesAre
  <2>3. QED
    BY <2>1, <2>2
<1>7. SubSeq(t, Len(a) + 2, Len(t) - 1) = m /\ SubSeq(t, Len(b) + 2, Len(t) - 1) = k
  <2>1. ASSUME NEW c \in Text, NEW q \in Text
        PROVE  SubSeq(Block(c, q), Len(c) + 2, Len(Block(c, q)) - 1) = q
    <3>1. IsBlock(Block(c, q), c, q)
      BY BlockIs
    <3>2. (Len(c) + 1) + 1 = Len(c) + 2
      BY LenProperties DEF Text
    <3>3. QED
      BY <3>1, <3>2 DEF IsBlock
  <2>2. QED
    BY <2>1
<1>8. QED
  BY <1>4, <1>6, <1>7

\* Two names with the same escaped form are the same, or one is that form.
LEMMA SanitizedApart ==
    ASSUME NEW x \in Text, NEW y \in Text, Unescaped(x), Unescaped(y),
           sanitize_bench_args(x) = sanitize_bench_args(y)
    PROVE  x = y \/ x = sanitize_bench_args(y) \/ y = sanitize_bench_args(x)
<1> SUFFICES ASSUME sanitize_bench_args(x) # x, sanitize_bench_args(y) # y PROVE x = y
  OBVIOUS
<1>1. PICK a \in Text, m \in Text : "[" \notin ToSet(m) /\ x = Block(a, m)
  BY SanitizeIs
<1>2. PICK b \in Text, k \in Text : "[" \notin ToSet(k) /\ y = Block(b, k)
  BY SanitizeIs
<1>3. /\ sanitize_bench_args(x) = Block(a, Escaped(m))
      /\ sanitize_bench_args(y) = Block(b, Escaped(k))
  BY <1>1, <1>2, SanitizeBlock
<1>4. /\ Escaped(m) \in Text /\ "[" \notin ToSet(Escaped(m))
      /\ Escaped(k) \in Text /\ "[" \notin ToSet(Escaped(k))
  BY <1>1, <1>2, EscapedHolds
<1>5. Seps(m) # {} /\ Seps(k) # {}
  BY <1>1, <1>2, <1>3, EscapedSame
<1>6. "\\" \notin ToSet(m) /\ "\\" \notin ToSet(k)
  BY <1>1, <1>2, <1>5 DEF Unescaped
<1>7. a = b /\ Escaped(m) = Escaped(k)
  <2> DEFINE p == Escaped(m)
             q == Escaped(k)
  <2>1. /\ p \in Text /\ q \in Text /\ "[" \notin ToSet(p) /\ "[" \notin ToSet(q)
        /\ Block(a, p) = Block(b, q)
    BY <1>3, <1>4
  <2> HIDE DEF p, q
  <2>2. a = b /\ p = q
    BY <2>1, BlocksApart
  <2>3. QED
    BY <2>2 DEF p, q
<1>8. m = k
  BY <1>6, <1>7, EscapedApart
<1>9. QED
  BY <1>1, <1>2, <1>7, <1>8

\* A name that does not begin like the placeholder does not once it is escaped.
LEMMA StillUnplaced ==
    ASSUME NEW name \in Text, Unplaced(name)
    PROVE  Unplaced(sanitize_bench_args(name))
<1>1. CASE sanitize_bench_args(name) = name
  BY <1>1
<1>2. ASSUME NEW a \in Text, NEW m \in Text, "[" \notin ToSet(m), name = Block(a, m)
      PROVE  Unplaced(sanitize_bench_args(name))
  <2> DEFINE e == Escaped(m)
             uri == Block(a, e)
  <2>1. sanitize_bench_args(name) = uri
    BY <1>2, SanitizeBlock
  <2>2. e \in Text
    BY EscapedHolds
  <2> HIDE DEF e
  <2>3. uri = a \o Block(<<>>, e) /\ name = a \o Block(<<>>, m)
    BY <1>2, <2>2, BlockJoined
  <2>4. /\ Len(a) \in Nat /\ uri[Len(a) + 1] = "["
        /\ \A i \in 1 .. Len(a) : uri[i] = a[i]
    <3>1. IsBlock(Block(a, e), a, e)
      BY <2>2, BlockIs
    <3>2. QED
      BY <3>1, LenProperties DEF Text, IsBlock
  <2>5. Len(name) > Len(a) /\ Len(name) \in Nat /\ \A i \in 1 .. Len(a) : name[i] = a[i]
    <3>1. IsBlock(Block(a, m), a, m)
      BY BlockIs
    <3>2. Len(m) \in Nat /\ Len(a) \in Nat
      BY LenProperties DEF Text
    <3>3. QED
      BY <1>2, <3>1, <3>2 DEF IsBlock
  <2> HIDE DEF uri
  <2> SUFFICES ASSUME Len(uri) > 2, uri[1] = "unknown_file", uri[2] = ":", uri[3] = ":" PROVE FALSE
    BY <2>1 DEF Unplaced, Colons
  <2>6. Len(a) # 0 /\ Len(a) # 1 /\ Len(a) # 2
    BY <2>4
  <2>7. 1 \in 1 .. Len(a) /\ 2 \in 1 .. Len(a) /\ 3 \in 1 .. Len(a)
    BY <2>4, <2>6
  <2>8. Len(name) > 2
    BY <2>4, <2>5, <2>7
  <2>9. name[1] = "unknown_file" /\ name[2] = ":" /\ name[3] = ":"
    BY <2>4, <2>5, <2>7
  <2>10. 2 + 1 = 3
    OBVIOUS
  <2>11. QED
    BY <2>8, <2>9, <2>10 DEF Unplaced, Colons
<1>3. QED
  BY <1>1, <1>2, SanitizeIs
\* Where the placeholder stands for the path.
LEMMA PlaceholderIs ==
    ASSUME NEW x \in Text
    PROVE  /\ ~Unplaced(Placeholder(x))
           /\ \A y \in Text : Placeholder(x) = Placeholder(y) => x = y
<1> DEFINE p == <<"unknown_file">> \o Sep
           r == p \o x
<1>1. /\ p \in Text /\ Len(p) = 3 /\ p[1] = "unknown_file" /\ p[2] = ":" /\ p[3] = ":"
  <2> DEFINE f == <<"unknown_file">>
  <2>1. f \in Text /\ Len(f) = 1 /\ f[1] = "unknown_file"
    BY OneIsText DEF Character
  <2>2. Sep \in Text /\ Len(Sep) = 2 /\ Sep[1] = ":" /\ Sep[2] = ":"
    BY DEF Sep, Text, Character
  <2> HIDE DEF f
  <2>3. f \o Sep \in Text /\ IsJoin(f \o Sep, f, Sep)
    BY <2>1, <2>2, JoinIs DEF Text
  <2> DEFINE q == f \o Sep
  <2>4. q \in Text /\ IsJoin(q, f, Sep)
    BY <2>3
  <2> HIDE DEF q
  <2>5. Len(q) = 3 /\ q[1] = "unknown_file" /\ q[1 + 1] = ":" /\ q[1 + 2] = ":"
    BY <2>1, <2>2, <2>4 DEF IsJoin
  <2>6. QED
    BY <2>4, <2>5 DEF q, f
<1>2. \A y \in Text : Placeholder(y) = p \o y
  BY DEF Placeholder
<1> HIDE DEF p
<1>3. r \in Text /\ IsJoin(r, p, x) /\ Len(x) \in Nat
  BY <1>1, JoinIs, LenProperties DEF Text
<1> HIDE DEF r
<1>4. Len(r) > 2 /\ r[1] = "unknown_file" /\ r[2] = ":" /\ r[2 + 1] = ":"
  BY <1>1, <1>3 DEF IsJoin
<1>5. ~Unplaced(r)
  BY <1>4 DEF Unplaced, Colons
<1>6. \A y \in Text : p \o x = p \o y => x = y
  BY <1>1, CancelLeft
<1>7. QED
  BY <1>2, <1>5, <1>6 DEF r

LEMMA UriApart ==
    ASSUME NamesApart, NEW b \in Instances, NEW c \in Instances, str(b) # str(c)
    PROVE  HooksUri(str(b)) # HooksUri(str(c)) /\ WalltimeUri(str(b)) # WalltimeUri(str(c))
<1> DEFINE x == str(b)
           y == str(c)
           u == sanitize_bench_args(x)
           v == sanitize_bench_args(y)
<1>1. x \in Text /\ y \in Text
  BY StrType
<1>2. Unplaced(x) /\ Unescaped(x) /\ Unplaced(y) /\ Unescaped(y) /\ x # v /\ y # u
  BY DEF NamesApart
<1>3. x # y
  OBVIOUS
<1>4. /\ HooksUri(str(b)) = IF Seps(x) = {} THEN Placeholder(x) ELSE u
      /\ HooksUri(str(c)) = IF Seps(y) = {} THEN Placeholder(y) ELSE v
      /\ WalltimeUri(str(b)) = IF Seps(u) = {} THEN Placeholder(u) ELSE u
      /\ WalltimeUri(str(c)) = IF Seps(v) = {} THEN Placeholder(v) ELSE v
  BY DEF HooksUri, WalltimeUri
<1> HIDE DEF x, y
<1>5. u \in Text /\ v \in Text /\ Unplaced(u) /\ Unplaced(v)
  BY <1>1, <1>2, SanitizeType, StillUnplaced
<1>6. u # v
  BY <1>1, <1>2, <1>3, SanitizedApart
<1> HIDE DEF u, v
<1>7. \A s \in Text : ~Unplaced(Placeholder(s)) /\ \A t \in Text : Placeholder(s) = Placeholder(t) => s = t
  BY PlaceholderIs
<1>8. Placeholder(x) # Placeholder(y) /\ Placeholder(u) # Placeholder(v)
  BY <1>1, <1>3, <1>5, <1>6, <1>7
<1>9. Placeholder(x) # v /\ Placeholder(y) # u /\ Placeholder(u) # v /\ Placeholder(v) # u
  BY <1>1, <1>5, <1>7
<1>10. QED
  BY <1>4, <1>6, <1>8, <1>9

\* Instances with different names have different URIs, in the hooks and in the
\* walltime results (codspeed.cpp:83, benchmark.cc:407): what is escaped can be told
\* from what was not, as long as no name is another one's escaped form, which
\* Benchmark::Name can make it, and none has the placeholder for its file.
THEOREM UrisDistinctForNames ==
    ASSUME NamesApart
    PROVE  UriSpec => []UrisDistinct
<1>1. ASSUME UriInv PROVE UrisDistinct
  <2> SUFFICES ASSUME NEW i \in DOMAIN done, NEW j \in DOMAIN done, done[i].name # done[j].name
               PROVE  done[i].benchmarked # done[j].benchmarked /\ done[i].uri # done[j].uri
    BY DEF UrisDistinct
  <2>1. PICK b \in Instances : done[i] = ResultOf(b)
    BY <1>1, DoneAre
  <2>2. PICK c \in Instances : done[j] = ResultOf(c)
    BY <1>1, DoneAre
  <2>3. /\ done[i].name = str(b) /\ done[i].benchmarked = HooksUri(str(b))
        /\ done[i].uri = WalltimeUri(str(b))
    BY <2>1 DEF ResultOf
  <2>4. /\ done[j].name = str(c) /\ done[j].benchmarked = HooksUri(str(c))
        /\ done[j].uri = WalltimeUri(str(c))
    BY <2>2 DEF ResultOf
  <2>5. QED
    BY <2>3, <2>4, UriApart
<1>2. QED
  BY <1>1, UriAlways, PTL
=============================================================================
