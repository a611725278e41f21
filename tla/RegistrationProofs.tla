-------------------------- MODULE RegistrationProofs --------------------------
(***************************************************************************)
(* The registered families keep their shape whatever methods are chained,  *)
(* no argument leaves its type, and the joined text of a name tells the    *)
(* instances of a family apart.                                            *)
(***************************************************************************)
EXTENDS Registration, FoldLemmas

Tuple == Seq(Integer)

Numerals == {"0", "1", "2", "3", "4", "5", "6", "7", "8", "9"}
Figures == Numerals \cup {"-"}

\* The pieces of a text. All are strings; for the words that the code writes the
\* provers have to be told.
Pieces ==
    STRING \cup Figures \cup {".", "/", ":", "[", "]", "min_time:", "min_warmup_time:", "iterations:",
        "repeats:", "process_time", "manual_time", "real_time", "threads:"}

Text == Seq(Pieces)

PathNames == Paths \cup {<<>>}

Benchmark ==
    [name_ : Text, args_ : Seq(Tuple), arg_names_ : Seq(Text),
     thread_counts_ : Seq(1 .. kmax), range_multiplier_ : 2 .. kmax,
     min_time_ : 0 .. kmax, min_warmup_time_ : 0 .. kmax,
     iterations_ : 0 .. kmax, repetitions_ : 0 .. kmax,
     measure_process_cpu_time_ : BOOLEAN, use_real_time_ : BOOLEAN, use_manual_time_ : BOOLEAN]

\* FamiliesWellFormed of one family.
Sized(b) ==
    \A i \in DOMAIN b.args_ :
        /\ Len(b.args_[i]) = Len(b.args_[1])
        /\ b.arg_names_ # <<>> => Len(b.args_[i]) = Len(b.arg_names_)

Exclusive(b) ==
    /\ b.iterations_ # 0 => b.min_time_ = 0 /\ b.min_warmup_time_ = 0
    /\ ~(b.use_real_time_ /\ b.use_manual_time_)

WellFormed(b) == b \in Benchmark /\ Sized(b) /\ Exclusive(b)

\* Every argument is of the type and every count of threads is positive, and
\* each family is as those that run it take it to be.
RegistryInv ==
    /\ families_ \in Seq(Benchmark)
    /\ \A f \in DOMAIN families_ : WellFormed(families_[f])

-----------------------------------------------------------------------------
(* The powers that AddRange adds. *)

\* The recursive function in AddPowers, one step.
PowersStep(g, i, lo, hi, mult) ==
    IF i > hi THEN <<>>
    ELSE When(i >= lo, <<i>>) \o When(i <= kmax \div mult, g[i * mult])

LEMMA KmaxType == kmax \in Nat /\ 2 <= kmax /\ kRangeMultiplier \in 2 .. kmax
<1>1. kmax \in Nat /\ kRangeMultiplier \in 2 .. kmax
  BY RegistrationAssumption
<1>2. QED
  BY <1>1

\* A product that the loop reaches does not leave the type.
LEMMA NextPower ==
    ASSUME NEW m \in 2 .. kmax, NEW i \in 1 .. kmax, i <= kmax \div m
    PROVE  i * m \in 1 .. kmax /\ i * m > i
<1>1. kmax \in Nat /\ m \in Nat /\ i \in Nat /\ m >= 2 /\ i >= 1
  BY KmaxType
<1> DEFINE q == kmax \div m
<1>2. q \in Int /\ q * m <= kmax
  BY <1>1
<1> HIDE DEF q
<1>3. i * m <= q * m
  BY <1>1, <1>2 DEF q
<1>4. i * m >= i * 2 /\ i * m \in Int
  BY <1>1
<1>5. QED
  BY <1>1, <1>2, <1>3, <1>4

LEMMA PowersStepType ==
    ASSUME NEW lo \in Int, NEW hi \in Int, NEW m \in 2 .. kmax,
           NEW g \in [1 .. kmax -> Seq(lo .. hi)], NEW i \in 1 .. kmax
    PROVE  PowersStep(g, i, lo, hi, m) \in Seq(lo .. hi)
<1> DEFINE D == lo .. hi
           one == When(i >= lo, <<i>>)
           rest == When(i <= kmax \div m, g[i * m])
<1>1. CASE i <= hi
  <2>1. one \in Seq(D)
    <3>1. CASE i >= lo
      <4>1. i \in D
        BY <1>1, <3>1, KmaxType
      <4> HIDE DEF D
      <4>2. <<i>> \in Seq(D)
        BY <4>1
      <4>3. QED
        BY <3>1, <4>2 DEF When
    <3>2. CASE ~(i >= lo)
      BY <3>2 DEF When
    <3>3. QED
      BY <3>1, <3>2
  <2>2. rest \in Seq(D)
    <3>1. CASE i <= kmax \div m
      <4>1. i * m \in 1 .. kmax
        BY <3>1, NextPower
      <4>2. g[i * m] \in Seq(D)
        BY <4>1
      <4>3. QED
        BY <3>1, <4>2 DEF When
    <3>2. CASE ~(i <= kmax \div m)
      BY <3>2 DEF When
    <3>3. QED
      BY <3>1, <3>2
  <2>3. PowersStep(g, i, lo, hi, m) = one \o rest
    <3>1. ~(i > hi)
      BY <1>1, KmaxType
    <3>2. QED
      BY <3>1, Zenon DEF PowersStep
  <2> HIDE DEF one, rest, D
  <2>4. one \o rest \in Seq(D)
    BY <2>1, <2>2
  <2>5. QED
    BY <2>3, <2>4 DEF D
<1>2. CASE ~(i <= hi)
  <2>1. i > hi
    BY <1>2, KmaxType
  <2>2. PowersStep(g, i, lo, hi, m) = <<>>
    BY <2>1, Zenon DEF PowersStep
  <2>3. QED
    BY <2>2
<1>3. QED
  BY <1>1, <1>2

\* There is such a function: its values are found from the largest index down.
PowersFrom(g, t, lo, hi, m) ==
    \A i \in 1 .. kmax : i > kmax - t => g[i] = PowersStep(g, i, lo, hi, m)

LEMMA PowersExist ==
    ASSUME NEW lo \in Int, NEW hi \in Int, NEW m \in 2 .. kmax
    PROVE  \E g \in [1 .. kmax -> Seq(lo .. hi)] :
              g = [i \in 1 .. kmax |-> PowersStep(g, i, lo, hi, m)]
<1> DEFINE T == [1 .. kmax -> Seq(lo .. hi)]
           U == {t \in Nat : \E g \in T : PowersFrom(g, t, lo, hi, m)}
<1>1. kmax \in Nat
  BY KmaxType
<1>2. 0 \in U
  <2>1. [i \in 1 .. kmax |-> <<>>] \in T
    OBVIOUS
  <2>2. PowersFrom([i \in 1 .. kmax |-> <<>>], 0, lo, hi, m)
    BY <1>1 DEF PowersFrom
  <2>3. QED
    BY <2>1, <2>2
<1>3. ASSUME NEW t \in Nat, t \in U PROVE t + 1 \in U
  <2>1. PICK g \in T : PowersFrom(g, t, lo, hi, m)
    BY <1>3
  <2> DEFINE j == kmax - t
  <2>2. CASE j \notin 1 .. kmax
    <3>1. PowersFrom(g, t + 1, lo, hi, m)
      BY <1>1, <2>1, <2>2 DEF PowersFrom
    <3>2. QED
      BY <3>1
  <2>3. CASE j \in 1 .. kmax
    <3> DEFINE x == PowersStep(g, j, lo, hi, m)
               e == [g EXCEPT ![j] = x]
    <3>1. x \in Seq(lo .. hi)
      BY <2>3, PowersStepType
    <3> HIDE DEF x, j
    <3>2. e \in T /\ e[j] = x /\ \A i \in 1 .. kmax : i # j => e[i] = g[i]
      BY <2>3, <3>1
    <3> HIDE DEF e
    <3>3. ASSUME NEW i \in 1 .. kmax, i >= j
          PROVE  PowersStep(e, i, lo, hi, m) = PowersStep(g, i, lo, hi, m)
      <4>1. CASE i <= kmax \div m
        <5>1. i * m \in 1 .. kmax /\ i * m > i
          BY <4>1, NextPower
        <5>2. i * m # j
          <6> DEFINE p == i * m
          <6>1. p > i /\ p \in Int
            BY <1>1, <5>1
          <6> HIDE DEF p
          <6>2. p # j
            BY <1>1, <2>3, <3>3, <6>1
          <6>3. QED
            BY <6>2 DEF p
        <5>3. e[i * m] = g[i * m]
          BY <3>2, <5>1, <5>2
        <5>4. QED
          BY <5>3 DEF PowersStep
      <4>2. CASE ~(i <= kmax \div m)
        BY <4>2 DEF PowersStep, When
      <4>3. QED
        BY <4>1, <4>2
    <3>4. ASSUME NEW i \in 1 .. kmax, i > kmax - (t + 1)
          PROVE  e[i] = PowersStep(e, i, lo, hi, m)
      <4>1. i >= j
        BY <1>1, <3>4 DEF j
      <4>2. CASE i = j
        BY <3>2, <3>3, <4>1, <4>2 DEF x
      <4>3. CASE i # j
        <5>1. i > kmax - t
          BY <1>1, <4>1, <4>3 DEF j
        <5>2. g[i] = PowersStep(g, i, lo, hi, m)
          BY <2>1, <5>1 DEF PowersFrom
        <5>3. QED
          BY <3>2, <3>3, <4>1, <4>3, <5>2
      <4>4. QED
        BY <4>2, <4>3
    <3>5. PowersFrom(e, t + 1, lo, hi, m)
      BY <3>4 DEF PowersFrom
    <3>6. QED
      BY <3>2, <3>5
  <2>4. QED
    BY <2>2, <2>3
<1> HIDE DEF U
<1>4. Nat \subseteq U
  BY <1>2, <1>3, NatInductionSet
<1>5. kmax \in U
  BY <1>1, <1>4
<1>6. PICK g \in T : PowersFrom(g, kmax, lo, hi, m)
  BY <1>5 DEF U
<1>7. \A i \in 1 .. kmax : g[i] = PowersStep(g, i, lo, hi, m)
  BY <1>1, <1>6 DEF PowersFrom
<1>8. g = [i \in 1 .. kmax |-> PowersStep(g, i, lo, hi, m)]
  BY <1>7
<1>9. QED
  BY <1>8

\* The powers added lie between the bounds.
LEMMA AddPowersType ==
    ASSUME NEW lo \in Int, NEW hi \in Int, NEW m \in 2 .. kmax
    PROVE  AddPowers(lo, hi, m) \in Seq(lo .. hi)
<1> DEFINE Good(g) == g = [i \in 1 .. kmax |-> PowersStep(g, i, lo, hi, m)]
           h == CHOOSE g : Good(g)
           U == {t \in Nat : \A i \in 1 .. kmax : i > kmax - t => h[i] \in Seq(lo .. hi)}
<1>1. Good(h)
  <2>1. \E g : Good(g)
    BY PowersExist
  <2>2. QED
    BY <2>1, Zenon
<1>2. AddPowers(lo, hi, m) = h[1]
  BY DEF AddPowers, PowersStep
<1> HIDE DEF h
<1>3. kmax \in Nat \ {0}
  BY KmaxType
<1>4. 0 \in U
  BY <1>3
<1>5. ASSUME NEW t \in Nat, t \in U PROVE t + 1 \in U
  <2> SUFFICES ASSUME NEW i \in 1 .. kmax, i > kmax - (t + 1) PROVE h[i] \in Seq(lo .. hi)
    OBVIOUS
  <2> DEFINE g == [k \in 1 .. kmax |-> IF k > kmax - t THEN h[k] ELSE <<>>]
  <2>1. g \in [1 .. kmax -> Seq(lo .. hi)]
    <3>1. \A k \in 1 .. kmax : k > kmax - t => h[k] \in Seq(lo .. hi)
      BY <1>5
    <3> DEFINE S == Seq(lo .. hi)
    <3>2. <<>> \in S
      OBVIOUS
    <3> HIDE DEF S
    <3>3. \A k \in 1 .. kmax : (IF k > kmax - t THEN h[k] ELSE <<>>) \in S
      BY <3>1, <3>2, Zenon DEF S
    <3>4. g \in [1 .. kmax -> S]
      BY <3>3, Zenon
    <3>5. QED
      BY <3>4 DEF S
  <2>2. PowersStep(g, i, lo, hi, m) = PowersStep(h, i, lo, hi, m)
    <3>1. CASE i <= kmax \div m
      <4>1. i * m \in 1 .. kmax /\ i * m > i
        BY <3>1, NextPower
      <4>2. i * m > kmax - t
        BY <1>3, <4>1
      <4>3. g[i * m] = h[i * m]
        BY <4>1, <4>2
      <4>4. QED
        BY <4>3 DEF PowersStep
    <3>2. CASE ~(i <= kmax \div m)
      BY <3>2 DEF PowersStep, When
    <3>3. QED
      BY <3>1, <3>2
  <2> HIDE DEF g
  <2>3. h[i] = PowersStep(h, i, lo, hi, m)
    BY <1>1
  <2>4. QED
    BY <2>1, <2>2, <2>3, PowersStepType
<1> HIDE DEF U
<1>6. Nat \subseteq U
  BY <1>4, <1>5, NatInductionSet
<1>7. h[1] \in Seq(lo .. hi)
  BY <1>3, <1>6 DEF U
<1>8. QED
  BY <1>2, <1>7

\* The values that AddRange adds lie between the bounds.
LEMMA AddNegatedPowersType ==
    ASSUME NEW lo \in Int, NEW hi \in Int, NEW m \in 2 .. kmax
    PROVE  AddNegatedPowers(lo, hi, m) \in Seq(lo .. hi)
<1> DEFINE powers == AddPowers(-hi, -lo, m)
           D == lo .. hi
           n == Len(powers)
           s == [i \in 1 .. n |-> -powers[i]]
<1>1. powers \in Seq((-hi) .. (-lo))
  BY AddPowersType
<1> HIDE DEF powers
<1>2. n \in Nat /\ DOMAIN powers = 1 .. n /\ \A i \in 1 .. n : powers[i] \in (-hi) .. (-lo)
  BY <1>1, ElementOfSeq, LenProperties
<1>3. \A i \in 1 .. n : -powers[i] \in D
  BY <1>2
<1> HIDE DEF D, n
<1>4. s \in [1 .. n -> D]
  BY <1>3
<1> HIDE DEF s
<1>5. s \in Seq(D) /\ Len(s) = n /\ \A i \in 1 .. n : s[i] \in D
  BY <1>2, <1>4
<1>6. Reverse(s) \in Seq(D)
  <2>1. Reverse(s) = [i \in 1 .. n |-> s[(n - i) + 1]]
    BY <1>5 DEF Reverse
  <2>2. \A i \in 1 .. n : (n - i) + 1 \in 1 .. n
    BY <1>2
  <2>3. [i \in 1 .. n |-> s[(n - i) + 1]] \in [1 .. n -> D]
    BY <1>5, <2>2
  <2>4. QED
    BY <1>2, <2>1, <2>3
<1>7. AddNegatedPowers(lo, hi, m) = Reverse(s)
  BY <1>2 DEF AddNegatedPowers, powers, s
<1>8. QED
  BY <1>6, <1>7 DEF D

\* When(c, s) is a sequence over D if s is one whenever c holds.
LEMMA WhenType ==
    ASSUME NEW D, NEW c, NEW s, c => s \in Seq(D)
    PROVE  When(c, s) \in Seq(D)
<1>1. <<>> \in Seq(D)
  OBVIOUS
<1>2. QED
  BY <1>1 DEF When

LEMMA AddRangeType ==
    ASSUME NEW lo \in Int, NEW hi \in Int, lo <= hi, NEW m \in 2 .. kmax
    PROVE  AddRange(lo, hi, m) \in Seq(lo .. hi)
<1> DEFINE D == lo .. hi
           p1 == When(lo + 1 < 0, AddNegatedPowers(lo + 1, Least(hi - 1, -1), m))
           p2 == When(lo < 0 /\ hi >= 0, <<0>>)
           p3 == When(hi - 1 > 0, AddPowers(Most(lo + 1, 1), hi - 1, m))
           below == <<lo>> \o p1 \o p2 \o p3
           p4 == When(Last(below) # hi, <<hi>>)
<1>1. lo \in D /\ hi \in D
  OBVIOUS
<1>2. p1 \in Seq(D)
  <2> DEFINE h == Least(hi - 1, -1)
  <2>1. h \in Int /\ h <= hi /\ lo + 1 \in Int
    BY DEF Least
  <2> HIDE DEF h
  <2>2. (lo + 1) .. h \subseteq D
    BY <2>1
  <2>3. AddNegatedPowers(lo + 1, h, m) \in Seq((lo + 1) .. h)
    BY <2>1, AddNegatedPowersType
  <2> DEFINE E == (lo + 1) .. h
  <2> HIDE DEF D
  <2>4. AddNegatedPowers(lo + 1, h, m) \in Seq(D)
    <3>1. E \subseteq D /\ AddNegatedPowers(lo + 1, h, m) \in Seq(E)
      BY <2>2, <2>3
    <3> HIDE DEF E
    <3>2. QED
      BY <3>1, SeqMonotonic
  <2>5. QED
    BY <2>4, WhenType DEF h
<1>3. p2 \in Seq(D)
  <2>1. lo < 0 /\ hi >= 0 => 0 \in D
    OBVIOUS
  <2> HIDE DEF D
  <2>2. lo < 0 /\ hi >= 0 => <<0>> \in Seq(D)
    BY <2>1
  <2>3. QED
    BY <2>2, WhenType
<1>4. p3 \in Seq(D)
  <2> DEFINE l == Most(lo + 1, 1)
  <2>1. l \in Int /\ lo <= l /\ hi - 1 \in Int
    BY DEF Most
  <2> HIDE DEF l
  <2>2. l .. (hi - 1) \subseteq D
    BY <2>1
  <2>3. AddPowers(l, hi - 1, m) \in Seq(l .. (hi - 1))
    BY <2>1, AddPowersType
  <2> DEFINE E == l .. (hi - 1)
  <2> HIDE DEF D
  <2>4. AddPowers(l, hi - 1, m) \in Seq(D)
    <3>1. E \subseteq D /\ AddPowers(l, hi - 1, m) \in Seq(E)
      BY <2>2, <2>3
    <3> HIDE DEF E
    <3>2. QED
      BY <3>1, SeqMonotonic
  <2>5. QED
    BY <2>4, WhenType DEF l
<1>5. AddRange(lo, hi, m) = IF lo = hi THEN <<lo>>
                            ELSE IF lo + 1 = hi THEN <<lo, hi>> ELSE below \o p4
  <2>1. lo = hi => lo + 1 # hi
    OBVIOUS
  <2> HIDE DEF below, p4
  <2>2. AddRange(lo, hi, m) = CASE lo = hi -> <<lo>> [] lo + 1 = hi -> <<lo, hi>> [] OTHER -> below \o p4
    BY Zenon DEF AddRange, below, p4, p1, p2, p3
  <2>3. QED
    BY <2>1, <2>2
<1> HIDE DEF D, p1, p2, p3
<1>6. below \in Seq(D)
  <2>1. <<lo>> \in Seq(D)
    BY <1>1
  <2>2. QED
    BY <1>2, <1>3, <1>4, <2>1
<1> HIDE DEF below
<1>7. p4 \in Seq(D)
  <2>1. <<hi>> \in Seq(D)
    BY <1>1
  <2>2. QED
    BY <2>1, WhenType
<1> HIDE DEF p4
<1>8. <<lo>> \in Seq(D) /\ <<lo, hi>> \in Seq(D) /\ below \o p4 \in Seq(D)
  BY <1>1, <1>6, <1>7
<1>9. QED
  BY <1>5, <1>8 DEF D

\* The values that DenseRange adds lie between its bounds.
LEMMA DenseType ==
    ASSUME NEW lo \in Int, NEW hi \in Int, lo <= hi, NEW d \in Int, d > 0
    PROVE  Dense(lo, hi, d) \in Seq(lo .. hi)
<1> DEFINE q == (hi - lo) \div d
<1>1. q \in Nat /\ q * d <= hi - lo
  OBVIOUS
<1> HIDE DEF q
<1>2. ASSUME NEW i \in 1 .. q + 1 PROVE lo + (i - 1) * d \in lo .. hi
  <2>1. i - 1 \in Nat /\ i - 1 <= q
    BY <1>1
  <2> DEFINE k == i - 1
  <2> HIDE DEF k
  <2>2. k * d \in Nat /\ k * d <= q * d
    BY <1>1, <2>1 DEF k
  <2>3. lo + k * d \in lo .. hi
    BY <1>1, <2>2
  <2>4. QED
    BY <2>3 DEF k
<1> DEFINE s == [i \in 1 .. q + 1 |-> lo + (i - 1) * d]
           D == lo .. hi
<1>3. Dense(lo, hi, d) = s
  BY DEF Dense, q
<1>4. \A i \in 1 .. q + 1 : s[i] \in D
  BY <1>2
<1> HIDE DEF D
<1>5. s \in [1 .. q + 1 -> D]
  BY <1>4
<1> HIDE DEF s
<1>6. s \in Seq(D)
  BY <1>1, <1>5
<1>7. QED
  BY <1>3, <1>6 DEF D

-----------------------------------------------------------------------------
(* The combinations of ArgsProduct. *)

Lists == Seq(Tuple)

\* f[k] is the number of combinations of the first k lists.
StridesBy(f, lists) ==
    /\ f \in [0 .. Len(lists) -> Nat] /\ f[0] = 1
    /\ \A k \in 1 .. Len(lists) : f[k] = f[k - 1] * Len(lists[k])
    /\ \A k \in 0 .. Len(lists) : Stride(lists, k + 1) = f[k]

\* What the recursive function in Stride must satisfy.
StrideFolds(h, s) ==
    h = [t \in SUBSET DOMAIN s |-> IF t = {} THEN 1 ELSE h[t \ {Max(t)}] * Len(s[Max(t)])]

LEMMA StrideFoldsExist ==
    ASSUME NEW s \in Lists
    PROVE  \E h : StrideFolds(h, s)
<1> DEFINE n == Len(s)
           G == [p \in (1 .. n) \X Nat |-> p[2] * Len(s[p[1]])]
<1>1. n \in Nat /\ DOMAIN s = 1 .. n /\ \A k \in 1 .. n : Len(s[k]) \in Nat
  BY DEF Lists, Tuple
<1>2. \A k \in 1 .. n, v \in Nat : G[<<k, v>>] = v * Len(s[k]) /\ G[<<k, v>>] \in Nat
  BY <1>1
<1> HIDE DEF G
<1>3. PICK g \in [SUBSET (1 .. n) -> Nat] : FoldsLeft(g, n, G, 1)
  BY <1>1, <1>2, FoldLeftExists
<1>4. ASSUME NEW t \in SUBSET (1 .. n)
      PROVE  g[t] = IF t = {} THEN 1 ELSE g[t \ {Max(t)}] * Len(s[Max(t)])
  <2>1. g[t] = IF t = {} THEN 1 ELSE G[<<Max(t), g[t \ {Max(t)}]>>]
    BY <1>3 DEF FoldsLeft
  <2>2. CASE t # {}
    <3>1. Max(t) \in 1 .. n
      BY <1>1, <2>2, MaxIn
    <3>2. g[t \ {Max(t)}] \in Nat
      OBVIOUS
    <3>3. QED
      BY <1>2, <2>1, <2>2, <3>1, <3>2
  <2>3. QED
    BY <2>1, <2>2
<1>5. StrideFolds(g, s)
  BY <1>1, <1>4 DEF StrideFolds
<1>6. QED
  BY <1>5

LEMMA StridesExist ==
    ASSUME NEW lists \in Lists
    PROVE  \E f : StridesBy(f, lists)
<1> DEFINE n == Len(lists)
           G == [p \in (1 .. n) \X Nat |-> p[2] * Len(lists[p[1]])]
<1>1. n \in Nat /\ DOMAIN lists = 1 .. n /\ \A k \in 1 .. n : Len(lists[k]) \in Nat
  BY DEF Lists, Tuple
<1>2. \A k \in 1 .. n, v \in Nat : G[<<k, v>>] = v * Len(lists[k]) /\ G[<<k, v>>] \in Nat
  BY <1>1
<1> HIDE DEF G
<1>3. PICK f \in [0 .. n -> Nat] : Iterates(f, n, G, 1)
  BY <1>1, <1>2, FoldLeftPrefixes
<1>4. f[0] = 1 /\ \A k \in 1 .. n : f[k] = f[k - 1] * Len(lists[k])
  <2>1. \A k \in 1 .. n : k - 1 \in 0 .. n
    BY <1>1
  <2>2. QED
    BY <1>2, <1>3, <2>1 DEF Iterates
<1>5. ASSUME NEW m \in 0 .. n PROVE Stride(lists, m + 1) = f[m]
  <2> DEFINE s == SubSeq(lists, 1, m)
             h == CHOOSE g : StrideFolds(g, s)
  <2>1. /\ s \in Lists /\ Len(s) = m /\ DOMAIN s = 1 .. m /\ m \in Nat
        /\ \A k \in 1 .. m : s[k] = lists[k]
    BY <1>1 DEF Lists
  <2>2. (m + 1) - 1 = m
    BY <2>1
  <2>3. Stride(lists, m + 1) = h[DOMAIN s]
    BY <2>2 DEF Stride, FoldLeft, MapThenFoldSet, StrideFolds
  <2> HIDE DEF s
  <2>4. StrideFolds(h, s)
    <3>1. \E g : StrideFolds(g, s)
      BY <2>1, StrideFoldsExist
    <3>2. QED
      BY <3>1, Zenon
  <2> HIDE DEF h
  <2> DEFINE U == {k \in Nat : k <= m => h[1 .. k] = f[k]}
  <2>5. 0 \in U
    <3>1. 1 .. 0 = {}
      OBVIOUS
    <3>2. QED
      BY <1>4, <2>4, <3>1 DEF StrideFolds
  <2>6. ASSUME NEW k \in Nat, k \in U PROVE k + 1 \in U
    <3> SUFFICES ASSUME k + 1 <= m PROVE h[1 .. k + 1] = f[k + 1]
      OBVIOUS
    <3>1. k + 1 \in 1 .. m /\ k + 1 \in 1 .. n /\ (k + 1) - 1 = k /\ h[1 .. k] = f[k]
      BY <1>1, <2>1, <2>6
    <3>2. 1 .. k + 1 \in SUBSET (1 .. m) /\ 1 .. k + 1 # {}
          /\ Max(1 .. k + 1) = k + 1 /\ (1 .. k + 1) \ {k + 1} = 1 .. k
      BY <2>1, <3>1, FirstIndices
    <3>3. h[1 .. k + 1] = h[1 .. k] * Len(s[k + 1])
      BY <2>1, <2>4, <3>2 DEF StrideFolds
    <3>4. f[k + 1] = f[k] * Len(lists[k + 1])
      BY <1>4, <3>1
    <3>5. QED
      BY <2>1, <3>1, <3>3, <3>4
  <2> HIDE DEF U
  <2>7. Nat \subseteq U
    BY <2>5, <2>6, NatInductionSet
  <2>8. h[1 .. m] = f[m]
    BY <2>1, <2>7 DEF U
  <2>9. QED
    BY <2>1, <2>3, <2>8
<1>6. QED
  BY <1>3, <1>4, <1>5 DEF StridesBy

\* Each combination holds one value of each list.
LEMMA ProductType ==
    ASSUME NEW lists \in Lists
    PROVE  /\ Product(lists) \in Seq(Tuple)
           /\ \A i \in DOMAIN Product(lists) : Len(Product(lists)[i]) = Len(lists)
<1> DEFINE n == Len(lists)
<1>1. n \in Nat /\ DOMAIN lists = 1 .. n /\ \A k \in 1 .. n : lists[k] \in Tuple /\ Len(lists[k]) \in Nat
  BY DEF Lists, Tuple
<1>2. PICK f : StridesBy(f, lists)
  BY StridesExist
<1>3. /\ f \in [0 .. n -> Nat] /\ \A k \in 1 .. n : f[k] = f[k - 1] * Len(lists[k])
      /\ \A k \in 0 .. n : Stride(lists, k + 1) = f[k]
  BY <1>2 DEF StridesBy
<1> DEFINE N == f[n]
<1>4. N \in Nat /\ Stride(lists, n + 1) = N
  BY <1>1, <1>3
<1>5. ASSUME N > 0, NEW a \in 1 .. n
      PROVE  /\ Stride(lists, a) \in Nat \ {0}
             /\ Len(lists[a]) > 0
  <2> DEFINE U == {k \in Nat : k <= n => f[n - k] > 0}
  <2>1. 0 \in U
    BY <1>1, <1>5
  <2>2. ASSUME NEW k \in Nat, k \in U PROVE k + 1 \in U
    <3> SUFFICES ASSUME k + 1 <= n PROVE f[n - (k + 1)] > 0
      OBVIOUS
    <3> DEFINE j == n - k
    <3>1. j \in 1 .. n /\ n - (k + 1) = j - 1 /\ j - 1 \in 0 .. n /\ f[j] > 0
      BY <1>1, <2>2
    <3> HIDE DEF j
    <3>2. f[j] = f[j - 1] * Len(lists[j]) /\ f[j - 1] \in Nat /\ Len(lists[j]) \in Nat
      BY <1>1, <1>3, <3>1
    <3>3. f[j - 1] # 0
      BY <3>1, <3>2
    <3>4. f[j - 1] \in Nat
      BY <3>2
    <3>5. QED
      BY <3>1, <3>3, <3>4
  <2> HIDE DEF U
  <2>3. Nat \subseteq U
    BY <2>1, <2>2, NatInductionSet
  <2>4. \A k \in 0 .. n : f[k] > 0
    <3> TAKE k \in 0 .. n
    <3>1. n - k \in Nat /\ n - k <= n /\ n - (n - k) = k
      BY <1>1
    <3>2. n - k \in U
      BY <2>3, <3>1
    <3>3. QED
      BY <3>1, <3>2 DEF U
  <2>5. a - 1 \in 0 .. n /\ (a - 1) + 1 = a /\ a \in 0 .. n
    BY <1>1
  <2>6. Stride(lists, a) = f[a - 1]
    BY <1>3, <2>5
  <2>7. f[a] = f[a - 1] * Len(lists[a]) /\ f[a - 1] \in Nat /\ f[a - 1] > 0 /\ f[a] > 0 /\ Len(lists[a]) \in Nat
    BY <1>1, <1>3, <2>4, <2>5
  <2>8. Len(lists[a]) # 0
    BY <2>7
  <2>9. QED
    BY <2>6, <2>7, <2>8
<1> HIDE DEF N
<1> DEFINE T(i) == [a \in 1 .. n |-> lists[a][(((i - 1) \div Stride(lists, a)) % Len(lists[a])) + 1]]
<1>6. ASSUME NEW i \in 1 .. N PROVE T(i) \in Tuple /\ Len(T(i)) = n
  <2>1. ASSUME NEW a \in 1 .. n
        PROVE  lists[a][(((i - 1) \div Stride(lists, a)) % Len(lists[a])) + 1] \in Integer
    <3> DEFINE d == Stride(lists, a)
               l == Len(lists[a])
               q == (i - 1) \div d
               r == q % l
    <3>1. d \in Nat \ {0} /\ l \in Nat /\ l > 0 /\ i \in Nat /\ i - 1 \in Nat
      BY <1>1, <1>4, <1>5
    <3> HIDE DEF d, l
    <3>2. q \in Int
      BY <3>1
    <3> HIDE DEF q
    <3>3. r \in 0 .. (l - 1)
      BY <3>1, <3>2
    <3> HIDE DEF r
    <3>4. r + 1 \in 1 .. l
      BY <3>1, <3>3
    <3>5. lists[a][r + 1] \in Integer
      BY <1>1, <3>4 DEF Tuple, l
    <3>6. QED
      BY <3>5 DEF r, q, l, d
  <2>2. T(i) \in [1 .. n -> Integer]
    BY <2>1
  <2> HIDE DEF T
  <2>3. QED
    BY <1>1, <2>2 DEF Tuple
<1>7. Product(lists) = [i \in 1 .. N |-> T(i)]
  BY <1>1, <1>4 DEF Product
<1> HIDE DEF T
<1>8. [i \in 1 .. N |-> T(i)] \in [1 .. N -> Tuple]
  BY <1>6
<1>9. QED
  BY <1>4, <1>6, <1>7, <1>8

-----------------------------------------------------------------------------
(* What the methods make of a family. *)

\* A tuple that fits is as long as those there are and as the names.
LEMMA FitsAll ==
    ASSUME NEW b, WellFormed(b), NEW n \in Nat, Fits(b, n)
    PROVE  /\ b.args_ \in Seq(Tuple) /\ b.arg_names_ \in Seq(Text)
           /\ \A i \in DOMAIN b.args_ : Len(b.args_[i]) = n
           /\ b.args_ # <<>> \/ b.arg_names_ = <<>> \/ Len(b.arg_names_) = n
<1>1. b.args_ \in Seq(Tuple) /\ b.arg_names_ \in Seq(Text)
  BY DEF WellFormed, Benchmark
<1>2. CASE b.args_ = <<>>
  <2>1. DOMAIN b.args_ = {}
    BY <1>2
  <2>2. b.arg_names_ # <<>> => Len(b.arg_names_) \in {-1, n}
    BY <1>2 DEF Fits, ArgsCnt
  <2>3. Len(b.arg_names_) \in Nat
    BY <1>1
  <2>4. QED
    BY <1>1, <2>1, <2>2, <2>3
<1>3. CASE b.args_ # <<>>
  <2>1. Len(b.args_[1]) \in {-1, n}
    BY <1>3 DEF Fits, ArgsCnt
  <2>2. b.args_[1] \in Tuple
    BY <1>1, <1>3
  <2>3. Len(b.args_[1]) \in Nat
    BY <2>2 DEF Tuple
  <2>4. QED
    BY <1>1, <1>3, <2>1, <2>3 DEF WellFormed, Sized
<1>4. QED
  BY <1>2, <1>3

LEMMA ConcatElements ==
    ASSUME NEW D, NEW s \in Seq(D), NEW t \in Seq(D), NEW n,
           \A i \in DOMAIN s : Len(s[i]) = n, \A i \in DOMAIN t : Len(t[i]) = n
    PROVE  s \o t \in Seq(D) /\ \A i \in DOMAIN (s \o t) : Len((s \o t)[i]) = n
<1> DEFINE r == s \o t
<1>1. /\ r \in Seq(D) /\ Len(r) = Len(s) + Len(t) /\ Len(s) \in Nat /\ Len(t) \in Nat
      /\ DOMAIN r = 1 .. Len(r) /\ DOMAIN s = 1 .. Len(s) /\ DOMAIN t = 1 .. Len(t)
      /\ \A i \in 1 .. Len(s) : r[i] = s[i]
      /\ \A i \in 1 .. Len(t) : r[Len(s) + i] = t[i]
  BY ConcatProperties, LenProperties
<1> HIDE DEF r
<1>2. ASSUME NEW i \in DOMAIN r PROVE Len(r[i]) = n
  <2>1. CASE i <= Len(s)
    BY <1>1, <2>1
  <2>2. CASE ~(i <= Len(s))
    <3>1. i - Len(s) \in 1 .. Len(t) /\ Len(s) + (i - Len(s)) = i
      BY <1>1, <2>2
    <3>2. QED
      BY <1>1, <3>1
  <2>3. QED
    BY <2>1, <2>2
<1>3. QED
  BY <1>1, <1>2 DEF r

\* Tuples that fit leave a family well-formed.
LEMMA WithArgsKeeps ==
    ASSUME NEW b, WellFormed(b), NEW n \in Nat, Fits(b, n), NEW tuples \in Seq(Tuple),
           \A i \in DOMAIN tuples : Len(tuples[i]) = n
    PROVE  WellFormed(WithArgs(b, tuples))
<1>1. /\ b.args_ \in Seq(Tuple) /\ b.arg_names_ \in Seq(Text)
      /\ \A i \in DOMAIN b.args_ : Len(b.args_[i]) = n
      /\ b.args_ # <<>> \/ b.arg_names_ = <<>> \/ Len(b.arg_names_) = n
  BY FitsAll
<1> DEFINE r == b.args_ \o tuples
<1>2. r \in Seq(Tuple) /\ \A i \in DOMAIN r : Len(r[i]) = n
  BY <1>1, ConcatElements
<1>3. b.arg_names_ # <<>> => Len(b.arg_names_) = n
  <2>1. CASE b.args_ = <<>>
    BY <1>1, <2>1
  <2>2. CASE b.args_ # <<>>
    <3>1. 1 \in DOMAIN b.args_
      BY <1>1, <2>2
    <3>2. QED
      BY <1>1, <3>1 DEF WellFormed, Sized
  <2>3. QED
    BY <2>1, <2>2
<1>4. WithArgs(b, tuples) = [b EXCEPT !.args_ = r]
  BY DEF WithArgs
<1> HIDE DEF r
<1>5. [b EXCEPT !.args_ = r] \in Benchmark
  BY <1>2 DEF WellFormed, Benchmark
<1>6. Sized([b EXCEPT !.args_ = r])
  <2> DEFINE c == [b EXCEPT !.args_ = r]
  <2>1. c.args_ = r /\ c.arg_names_ = b.arg_names_
    BY DEF WellFormed, Benchmark
  <2> HIDE DEF c
  <2>2. \A i \in DOMAIN r : 1 \in DOMAIN r
    BY <1>2
  <2>3. Sized(c)
    BY <1>2, <1>3, <2>1, <2>2 DEF Sized
  <2>4. QED
    BY <2>3 DEF c
<1>7. Exclusive([b EXCEPT !.args_ = r])
  BY DEF WellFormed, Benchmark, Exclusive
<1>8. QED
  BY <1>4, <1>5, <1>6, <1>7 DEF WellFormed

\* So do names that fit.
LEMMA WithNamesKeeps ==
    ASSUME NEW b, WellFormed(b), NEW names \in Seq(Text), Fits(b, Len(names))
    PROVE  WellFormed([b EXCEPT !.arg_names_ = names])
<1> DEFINE c == [b EXCEPT !.arg_names_ = names]
<1>1. Len(names) \in Nat
  OBVIOUS
<1>2. b.args_ \in Seq(Tuple) /\ \A i \in DOMAIN b.args_ : Len(b.args_[i]) = Len(names)
  BY <1>1, FitsAll
<1>3. /\ c \in Benchmark /\ c.args_ = b.args_ /\ c.arg_names_ = names
      /\ Exclusive(c)
  BY DEF WellFormed, Benchmark, Exclusive
<1> HIDE DEF c
<1>4. \A i \in DOMAIN b.args_ : 1 \in DOMAIN b.args_
  BY <1>2
<1>5. QED
  BY <1>2, <1>3, <1>4 DEF WellFormed, Sized, c

\* More threads do.
LEMMA WithThreadsKeeps ==
    ASSUME NEW b, WellFormed(b), NEW counts \in Seq(1 .. kmax)
    PROVE  WellFormed(WithThreads(b, counts))
<1> DEFINE r == b.thread_counts_ \o counts
           c == [b EXCEPT !.thread_counts_ = r]
<1>1. r \in Seq(1 .. kmax)
  <2> DEFINE D == 1 .. kmax
  <2>1. b.thread_counts_ \in Seq(D) /\ counts \in Seq(D)
    BY DEF WellFormed, Benchmark
  <2> HIDE DEF D
  <2>2. r \in Seq(D)
    BY <2>1
  <2>3. QED
    BY <2>2 DEF D
<1>2. WithThreads(b, counts) = c
  BY DEF WithThreads
<1> HIDE DEF r
<1>3. /\ c \in Benchmark /\ c.args_ = b.args_ /\ c.arg_names_ = b.arg_names_
      /\ Exclusive(c)
  BY <1>1 DEF WellFormed, Benchmark, Exclusive
<1> HIDE DEF c
<1>4. QED
  BY <1>2, <1>3 DEF WellFormed, Sized

\* A method whose checks make a well-formed family keeps the registry.
LEMMA MethodKeeps ==
    ASSUME RegistryInv, NEW f \in DOMAIN families_, NEW checks, NEW b,
           checks => WellFormed(b), Method(f, checks, b)
    PROVE  RegistryInv'
<1>1. families_ \in Seq(Benchmark)
  BY DEF RegistryInv
<1>2. CASE checks
  <2>1. families_' = [families_ EXCEPT ![f] = b] /\ WellFormed(b) /\ b \in Benchmark
    BY <1>2 DEF Method, WellFormed
  <2>2. /\ families_' \in Seq(Benchmark) /\ DOMAIN families_' = DOMAIN families_
        /\ \A g \in DOMAIN families_ : families_'[g] = IF g = f THEN b ELSE families_[g]
    BY <1>1, <2>1, ExceptSeq
  <2>3. QED
    BY <2>1, <2>2 DEF RegistryInv
<1>3. CASE ~checks
  BY <1>3 DEF Method, RegistryInv
<1>4. QED
  BY <1>2, <1>3

-----------------------------------------------------------------------------
(* Every call keeps the registry. *)

LEMMA RangeMultiplierOf ==
    ASSUME NEW b, WellFormed(b)
    PROVE  b.range_multiplier_ \in 2 .. kmax
  BY DEF WellFormed, Benchmark

LEMMA IntegerRange ==
    ASSUME NEW lo \in Integer, NEW hi \in Integer
    PROVE  lo \in Int /\ hi \in Int /\ lo .. hi \subseteq Integer
  BY KmaxType DEF Integer

LEMMA NewBenchmarkFormed ==
    ASSUME NEW path \in PathNames, NEW function \in Functions
    PROVE  WellFormed(NewBenchmark(path, function))
<1> DEFINE b == NewBenchmark(path, function)
<1>1. <<>> \in Seq(Tuple) /\ <<>> \in Seq(Text) /\ <<>> \in Seq(1 .. kmax)
  <2>1. \A D : <<>> \in Seq(D)
    BY EmptySeq
  <2>2. QED
    BY <2>1, Zenon
<1>2. b \in Benchmark
  <2>1. path \o function \in Text /\ 0 \in 0 .. kmax
    <3>0. Paths \subseteq Seq(STRING) /\ Functions \subseteq Seq(STRING) /\ <<>> \in Seq(STRING)
      BY RegistrationAssumption, EmptySeq
    <3>1. path \in Seq(STRING) /\ function \in Seq(STRING)
      BY <3>0 DEF PathNames
    <3>2. path \in Text /\ function \in Text
      BY <3>1, SeqMonotonic DEF Text, Pieces
    <3>3. QED
      BY <3>2, KmaxType DEF Text
  <2>2. QED
    BY <1>1, <2>1, KmaxType DEF NewBenchmark, Benchmark
<1>3. b.args_ = <<>> /\ b.iterations_ = 0 /\ b.use_real_time_ = FALSE
  BY DEF NewBenchmark
<1> HIDE DEF b
<1>4. Sized(b) /\ Exclusive(b)
  <2>1. DOMAIN <<>> = 1 .. 0
    OBVIOUS
  <2>2. 1 .. 0 = {}
    OBVIOUS
  <2>3. QED
    BY <1>3, <2>1, <2>2 DEF Sized, Exclusive
<1>5. QED
  BY <1>2, <1>4 DEF WellFormed, b

LEMMA AppendedIs ==
    ASSUME NEW D, NEW s \in Seq(D), NEW x \in D
    PROVE  /\ Append(s, x) \in Seq(D)
           /\ \A f \in DOMAIN Append(s, x) :
                 Append(s, x)[f] = x \/ (f \in DOMAIN s /\ Append(s, x)[f] = s[f])
<1> DEFINE r == Append(s, x)
           n == Len(s)
<1>1. /\ r \in Seq(D) /\ n \in Nat /\ DOMAIN r = 1 .. n + 1 /\ DOMAIN s = 1 .. n
      /\ \A f \in 1 .. n : r[f] = s[f]
      /\ r[n + 1] = x
  BY AppendProperties, LenProperties
<1> HIDE DEF r, n
<1>2. ASSUME NEW f \in DOMAIN r PROVE r[f] = x \/ (f \in DOMAIN s /\ r[f] = s[f])
  <2>1. f \in 1 .. n \/ f = n + 1
    BY <1>1
  <2>2. QED
    BY <1>1, <2>1
<1>3. QED
  BY <1>1, <1>2 DEF r

LEMMA RegisterKeeps ==
    ASSUME RegistryInv, NEW path \in PathNames, NEW function \in Functions,
           Register(path, function)
    PROVE  RegistryInv'
<1> DEFINE b == NewBenchmark(path, function)
           r == Append(families_, b)
<1>1. WellFormed(b) /\ b \in Benchmark
  BY NewBenchmarkFormed DEF WellFormed
<1>2. families_' = r /\ families_ \in Seq(Benchmark)
  BY DEF Register, RegistryInv
<1>3. /\ r \in Seq(Benchmark)
      /\ \A f \in DOMAIN r : r[f] = b \/ (f \in DOMAIN families_ /\ r[f] = families_[f])
  <2> HIDE DEF b
  <2>1. QED
    BY <1>1, <1>2, AppendedIs
<1> HIDE DEF r, b
<1>4. \A f \in DOMAIN r : WellFormed(r[f])
  BY <1>1, <1>3 DEF RegistryInv
<1>5. QED
  BY <1>2, <1>3, <1>4 DEF RegistryInv

LEMMA SinglesType ==
    ASSUME NEW s \in Seq(Integer)
    PROVE  /\ Singles(s) \in Seq(Tuple)
           /\ \A i \in DOMAIN Singles(s) : Len(Singles(s)[i]) = 1
<1>1. Len(s) \in Nat /\ DOMAIN s = 1 .. Len(s) /\ \A i \in 1 .. Len(s) : s[i] \in Integer
  BY LenProperties
<1>2. \A x \in Integer : <<x>> \in Tuple /\ Len(<<x>>) = 1
  BY DEF Tuple
<1>3. Singles(s) = [i \in 1 .. Len(s) |-> <<s[i]>>]
  BY <1>1 DEF Singles
<1>4. \A i \in 1 .. Len(s) : <<s[i]>> \in Tuple /\ Len(<<s[i]>>) = 1
  BY <1>1, <1>2
<1>5. [i \in 1 .. Len(s) |-> <<s[i]>>] \in [1 .. Len(s) -> Tuple]
  BY <1>4
<1>6. QED
  BY <1>1, <1>3, <1>4, <1>5, SeqDef

LEMMA ArgsKeeps ==
    ASSUME RegistryInv, NEW f \in DOMAIN families_, NEW args \in Tuple, Args(f, args)
    PROVE  RegistryInv'
<1> DEFINE b == families_[f]
<1>1. WellFormed(b)
  BY DEF RegistryInv
<1>2. <<args>> \in Seq(Tuple) /\ Len(args) \in Nat /\ \A i \in DOMAIN <<args>> : Len(<<args>>[i]) = Len(args)
  BY DEF Tuple
<1>3. Method(f, Fits(b, Len(args)), WithArgs(b, <<args>>))
  BY DEF Args
<1> HIDE DEF b
<1>4. Fits(b, Len(args)) => WellFormed(WithArgs(b, <<args>>))
  BY <1>1, <1>2, WithArgsKeeps
<1>5. QED
  BY <1>3, <1>4, MethodKeeps

LEMMA AddRangeIntegers ==
    ASSUME NEW lo \in Integer, NEW hi \in Integer, lo <= hi, NEW m \in 2 .. kmax
    PROVE  AddRange(lo, hi, m) \in Seq(Integer)
<1> DEFINE D == lo .. hi
<1>1. D \subseteq Integer /\ AddRange(lo, hi, m) \in Seq(D)
  BY IntegerRange, AddRangeType
<1> HIDE DEF D
<1>2. QED
  BY <1>1, SeqMonotonic

LEMMA ArgRangeKeeps ==
    ASSUME RegistryInv, NEW f \in DOMAIN families_, NEW lo \in Integer, NEW hi \in Integer,
           ArgRange(f, lo, hi)
    PROVE  RegistryInv'
<1> DEFINE b == families_[f]
           s == AddRange(lo, hi, b.range_multiplier_)
<1>1. WellFormed(b)
  BY DEF RegistryInv
<1>2. Method(f, Fits(b, 1) /\ lo <= hi, WithArgs(b, Singles(s)))
  BY DEF ArgRange
<1> HIDE DEF b
<1>3. lo <= hi => s \in Seq(Integer)
  BY <1>1, RangeMultiplierOf, AddRangeIntegers
<1> HIDE DEF s
<1>4. Fits(b, 1) /\ lo <= hi => WellFormed(WithArgs(b, Singles(s)))
  BY <1>1, <1>3, SinglesType, WithArgsKeeps
<1>5. QED
  BY <1>2, <1>4, MethodKeeps

LEMMA ArgsProductKeeps ==
    ASSUME RegistryInv, NEW f \in DOMAIN families_, NEW lists \in Lists, ArgsProduct(f, lists)
    PROVE  RegistryInv'
<1> DEFINE b == families_[f]
           c == Fits(b, Len(lists)) /\ lists # <<>>
<1>1. WellFormed(b)
  BY DEF RegistryInv
<1>2. Method(f, c, WithArgs(b, Product(lists)))
  BY DEF ArgsProduct
<1> HIDE DEF b
<1>3. Len(lists) \in Nat
  BY DEF Lists
<1>4. c => WellFormed(WithArgs(b, Product(lists)))
  BY <1>1, <1>3, ProductType, WithArgsKeeps
<1> HIDE DEF c
<1>5. QED
  BY <1>2, <1>4, MethodKeeps

LEMMA RangesKeeps ==
    ASSUME RegistryInv, NEW f \in DOMAIN families_, NEW bounds \in Seq(Integer \X Integer),
           Ranges(f, bounds)
    PROVE  RegistryInv'
<1> DEFINE b == families_[f]
           n == Len(bounds)
           m == b.range_multiplier_
           lists == [a \in DOMAIN bounds |-> AddRange(bounds[a][1], bounds[a][2], m)]
           inOrder == \A a \in DOMAIN bounds : bounds[a][1] <= bounds[a][2]
           c == Fits(b, n) /\ bounds # <<>> /\ inOrder
<1>1. WellFormed(b)
  BY DEF RegistryInv
<1>2. Method(f, c, WithArgs(b, Product(lists)))
  BY DEF Ranges
<1> HIDE DEF b
<1>3. m \in 2 .. kmax
  BY <1>1, RangeMultiplierOf
<1> HIDE DEF m
<1>4. n \in Nat /\ DOMAIN bounds = 1 .. n /\ \A a \in 1 .. n : bounds[a][1] \in Integer /\ bounds[a][2] \in Integer
  BY DEF n
<1>5. ASSUME inOrder PROVE lists \in Lists /\ Len(lists) = n
  <2>1. ASSUME NEW a \in 1 .. n PROVE AddRange(bounds[a][1], bounds[a][2], m) \in Tuple
    <3>1. bounds[a][1] \in Integer /\ bounds[a][2] \in Integer /\ bounds[a][1] <= bounds[a][2]
      BY <1>4, <1>5
    <3>2. QED
      BY <1>3, <3>1, AddRangeIntegers DEF Tuple
  <2>2. lists \in [1 .. n -> Tuple]
    BY <1>4, <2>1
  <2> HIDE DEF lists
  <2>3. QED
    BY <1>4, <2>2 DEF Lists
<1> HIDE DEF lists, n
<1>6. c => WellFormed(WithArgs(b, Product(lists)))
  <2> SUFFICES ASSUME c PROVE WellFormed(WithArgs(b, Product(lists)))
    OBVIOUS
  <2>1. lists \in Lists /\ Len(lists) = n
    BY <1>5
  <2>2. QED
    BY <1>1, <1>4, <2>1, ProductType, WithArgsKeeps
<1> HIDE DEF c
<1>7. QED
  BY <1>2, <1>6, MethodKeeps

LEMMA DenseRangeKeeps ==
    ASSUME RegistryInv, NEW f \in DOMAIN families_, NEW lo \in Integer, NEW hi \in Integer,
           NEW step \in Integer, DenseRange(f, lo, hi, step)
    PROVE  RegistryInv'
<1> DEFINE b == families_[f]
           c == Fits(b, 1) /\ lo <= hi
           s == Dense(lo, hi, step)
           next == lo + ((hi - lo) \div step + 1) * step
<1>1. WellFormed(b)
  BY DEF RegistryInv
<1>2. \/ UNCHANGED families_
      \/ (c => step > 0) /\ Method(f, c, WithArgs(b, Singles(s)))
  <2>1. CASE c /\ (step <= 0 \/ next > kmax)
    BY <2>1 DEF DenseRange
  <2>2. CASE ~(c /\ (step <= 0 \/ next > kmax))
    <3>1. Method(f, c, WithArgs(b, Singles(s)))
      BY <2>2 DEF DenseRange
    <3>2. c => ~(step <= 0)
      BY <2>2
    <3>3. step \in Int
      BY IntegerRange
    <3>4. QED
      BY <3>1, <3>2, <3>3
  <2>3. QED
    BY <2>1, <2>2
<1> HIDE DEF b, next
<1>3. ASSUME lo <= hi, step > 0 PROVE s \in Seq(Integer)
  <2> DEFINE D == lo .. hi
  <2>1. lo \in Int /\ hi \in Int /\ step \in Int /\ D \subseteq Integer
    BY IntegerRange
  <2>2. s \in Seq(D)
    BY <1>3, <2>1, DenseType
  <2> HIDE DEF s, D
  <2>3. QED
    BY <2>1, <2>2, SeqMonotonic
<1> HIDE DEF s
<1>4. (c => step > 0) => (c => WellFormed(WithArgs(b, Singles(s))))
  BY <1>1, <1>3, SinglesType, WithArgsKeeps
<1> HIDE DEF c
<1>5. CASE UNCHANGED families_
  BY <1>5 DEF RegistryInv
<1>6. CASE (c => step > 0) /\ Method(f, c, WithArgs(b, Singles(s)))
  BY <1>4, <1>6, MethodKeeps
<1>7. QED
  BY <1>2, <1>5, <1>6

LEMMA ArgNamesKeeps ==
    ASSUME RegistryInv, NEW f \in DOMAIN families_, NEW names \in Seq(Text), ArgNames(f, names)
    PROVE  RegistryInv'
<1> DEFINE b == families_[f]
           c == [b EXCEPT !.arg_names_ = names]
<1>1. WellFormed(b)
  BY DEF RegistryInv
<1>2. Method(f, Fits(b, Len(names)), c)
  BY DEF ArgNames
<1> HIDE DEF b
<1>3. Fits(b, Len(names)) => WellFormed(c)
  BY <1>1, WithNamesKeeps
<1> HIDE DEF c
<1>4. QED
  BY <1>2, <1>3, MethodKeeps

\* The methods that store a setting: the arguments stay, the checks see to it
\* that settings that exclude each other are not both there.
LEMMA SettingKept ==
    ASSUME NEW b, WellFormed(b), NEW c \in Benchmark, c.args_ = b.args_, c.arg_names_ = b.arg_names_,
           Exclusive(c)
    PROVE  WellFormed(c)
  BY DEF WellFormed, Sized

LEMMA TimesKeep ==
    ASSUME RegistryInv, NEW f \in DOMAIN families_, NEW t \in Integer,
           MinTime(f, t) \/ MinWarmUpTime(f, t)
    PROVE  RegistryInv'
<1> DEFINE b == families_[f]
           c1 == [b EXCEPT !.min_time_ = t]
           c2 == [b EXCEPT !.min_warmup_time_ = t]
           unset == b.iterations_ = 0
<1>1. WellFormed(b)
  BY DEF RegistryInv
<1>2. Method(f, t > 0 /\ unset, c1) \/ Method(f, t >= 0 /\ unset, c2)
  BY DEF MinTime, MinWarmUpTime
<1> HIDE DEF b
<1>3. t > 0 /\ unset => WellFormed(c1)
  <2> SUFFICES ASSUME t > 0, unset PROVE WellFormed(c1)
    OBVIOUS
  <2>0. t \in 0 .. kmax
    BY KmaxType DEF Integer
  <2>1. c1 \in Benchmark /\ c1.args_ = b.args_ /\ c1.arg_names_ = b.arg_names_ /\ Exclusive(c1)
    BY <1>1, <2>0 DEF WellFormed, Benchmark, Exclusive
  <2> HIDE DEF c1
  <2>2. QED
    BY <1>1, <2>1, SettingKept
<1>4. t >= 0 /\ unset => WellFormed(c2)
  <2> SUFFICES ASSUME t >= 0, unset PROVE WellFormed(c2)
    OBVIOUS
  <2>0. t \in 0 .. kmax
    BY KmaxType DEF Integer
  <2>1. c2 \in Benchmark /\ c2.args_ = b.args_ /\ c2.arg_names_ = b.arg_names_ /\ Exclusive(c2)
    BY <1>1, <2>0 DEF WellFormed, Benchmark, Exclusive
  <2> HIDE DEF c2
  <2>2. QED
    BY <1>1, <2>1, SettingKept
<1> HIDE DEF c1, c2, unset
<1>5. QED
  BY <1>2, <1>3, <1>4, MethodKeeps

LEMMA CountsKeep ==
    ASSUME RegistryInv, NEW f \in DOMAIN families_, NEW n \in 0 .. 1,
           Iterations(f, n) \/ Repetitions(f, n)
    PROVE  RegistryInv'
<1>0. n \in 0 .. kmax
  BY KmaxType
<1> DEFINE b == families_[f]
           c1 == [b EXCEPT !.iterations_ = n]
           c2 == [b EXCEPT !.repetitions_ = n]
           unset == b.min_time_ = 0 /\ b.min_warmup_time_ = 0
<1>1. WellFormed(b)
  BY DEF RegistryInv
<1>2. Method(f, n > 0 /\ unset, c1) \/ Method(f, n > 0, c2)
  BY DEF Iterations, Repetitions
<1> HIDE DEF b
<1>3. unset => WellFormed(c1)
  <2> SUFFICES ASSUME unset PROVE WellFormed(c1)
    OBVIOUS
  <2>1. c1 \in Benchmark /\ c1.args_ = b.args_ /\ c1.arg_names_ = b.arg_names_ /\ Exclusive(c1)
    BY <1>0, <1>1 DEF WellFormed, Benchmark, Exclusive
  <2> HIDE DEF c1
  <2>2. QED
    BY <1>1, <2>1, SettingKept
<1>4. WellFormed(c2)
  <2>1. c2 \in Benchmark /\ c2.args_ = b.args_ /\ c2.arg_names_ = b.arg_names_ /\ Exclusive(c2)
    BY <1>0, <1>1 DEF WellFormed, Benchmark, Exclusive
  <2> HIDE DEF c2
  <2>2. QED
    BY <1>1, <2>1, SettingKept
<1> HIDE DEF c1, c2, unset
<1>5. QED
  BY <1>2, <1>3, <1>4, MethodKeeps

LEMMA TimersKeep ==
    ASSUME RegistryInv, NEW f \in DOMAIN families_,
           MeasureProcessCPUTime(f) \/ UseRealTime(f) \/ UseManualTime(f)
    PROVE  RegistryInv'
<1> DEFINE b == families_[f]
           c1 == [b EXCEPT !.measure_process_cpu_time_ = TRUE]
           c2 == [b EXCEPT !.use_real_time_ = TRUE]
           c3 == [b EXCEPT !.use_manual_time_ = TRUE]
           noManual == ~b.use_manual_time_
           noReal == ~b.use_real_time_
<1>1. WellFormed(b)
  BY DEF RegistryInv
<1>2. Method(f, TRUE, c1) \/ Method(f, noManual, c2) \/ Method(f, noReal, c3)
  BY DEF MeasureProcessCPUTime, UseRealTime, UseManualTime
<1> HIDE DEF b
<1>3. WellFormed(c1)
  <2>1. c1 \in Benchmark /\ c1.args_ = b.args_ /\ c1.arg_names_ = b.arg_names_ /\ Exclusive(c1)
    BY <1>1 DEF WellFormed, Benchmark, Exclusive
  <2> HIDE DEF c1
  <2>2. QED
    BY <1>1, <2>1, SettingKept
<1>4. noManual => WellFormed(c2)
  <2> SUFFICES ASSUME noManual PROVE WellFormed(c2)
    OBVIOUS
  <2>1. c2 \in Benchmark /\ c2.args_ = b.args_ /\ c2.arg_names_ = b.arg_names_ /\ Exclusive(c2)
    BY <1>1 DEF WellFormed, Benchmark, Exclusive
  <2> HIDE DEF c2
  <2>2. QED
    BY <1>1, <2>1, SettingKept
<1>5. noReal => WellFormed(c3)
  <2> SUFFICES ASSUME noReal PROVE WellFormed(c3)
    OBVIOUS
  <2>1. c3 \in Benchmark /\ c3.args_ = b.args_ /\ c3.arg_names_ = b.arg_names_ /\ Exclusive(c3)
    BY <1>1 DEF WellFormed, Benchmark, Exclusive
  <2> HIDE DEF c3
  <2>2. QED
    BY <1>1, <2>1, SettingKept
<1> HIDE DEF c1, c2, c3, noManual, noReal
<1>6. QED
  BY <1>2, <1>3, <1>4, <1>5, MethodKeeps

LEMMA RangeMultiplierKeeps ==
    ASSUME RegistryInv, NEW f \in DOMAIN families_, NEW m \in Integer, RangeMultiplier(f, m)
    PROVE  RegistryInv'
<1> DEFINE b == families_[f]
           c == [b EXCEPT !.range_multiplier_ = m]
<1>1. WellFormed(b)
  BY DEF RegistryInv
<1>2. Method(f, m > 1, c)
  BY DEF RangeMultiplier
<1> HIDE DEF b
<1>3. m > 1 => WellFormed(c)
  <2> SUFFICES ASSUME m > 1 PROVE WellFormed(c)
    OBVIOUS
  <2>1. m \in 2 .. kmax
    BY KmaxType DEF Integer
  <2>2. c \in Benchmark /\ c.args_ = b.args_ /\ c.arg_names_ = b.arg_names_ /\ Exclusive(c)
    BY <1>1, <2>1 DEF WellFormed, Benchmark, Exclusive
  <2> HIDE DEF c
  <2>3. QED
    BY <1>1, <2>2, SettingKept
<1> HIDE DEF c
<1>4. QED
  BY <1>2, <1>3, MethodKeeps

\* Threads: all counts are positive.
LEMMA PositiveSeq ==
    ASSUME NEW lo \in Int, NEW hi \in Int, lo > 0, hi <= kmax, NEW s \in Seq(lo .. hi)
    PROVE  s \in Seq(1 .. kmax)
<1> DEFINE D == lo .. hi
           E == 1 .. kmax
<1>1. D \subseteq E
  BY KmaxType
<1>2. s \in Seq(D)
  OBVIOUS
<1> HIDE DEF D, E
<1>3. s \in Seq(E)
  BY <1>1, <1>2, SeqMonotonic
<1>4. QED
  BY <1>3 DEF E

LEMMA OneCount ==
    ASSUME NEW t \in 1 .. kmax
    PROVE  <<t>> \in Seq(1 .. kmax)
<1> DEFINE E == 1 .. kmax
<1>1. t \in E
  OBVIOUS
<1> HIDE DEF E
<1>2. <<t>> \in Seq(E)
  BY <1>1
<1>3. QED
  BY <1>2 DEF E

LEMMA ThreadsKeep ==
    ASSUME RegistryInv, NEW f \in DOMAIN families_, NEW checks, NEW counts,
           checks => counts \in Seq(1 .. kmax), Method(f, checks, WithThreads(families_[f], counts))
    PROVE  RegistryInv'
<1>1. WellFormed(families_[f])
  BY DEF RegistryInv
<1>2. checks => WellFormed(WithThreads(families_[f], counts))
  BY <1>1, WithThreadsKeeps
<1>3. QED
  BY <1>2, MethodKeeps

LEMMA ThreadCountKeeps ==
    ASSUME RegistryInv, NEW f \in DOMAIN families_,
           ThreadPerCpu(f) \/ \E t \in 0 .. 1 : Threads(f, t)
    PROVE  RegistryInv'
<1>1. CASE ThreadPerCpu(f)
  <2>1. num_cpus \in 1 .. kmax
    BY RegistrationAssumption
  <2>2. Method(f, TRUE, WithThreads(families_[f], <<num_cpus>>))
    BY <1>1 DEF ThreadPerCpu
  <2>3. QED
    BY <2>1, <2>2, OneCount, ThreadsKeep
<1>2. ASSUME NEW t \in 0 .. 1, Threads(f, t) PROVE RegistryInv'
  <2>1. t > 0 => t \in 1 .. kmax
    BY KmaxType
  <2>2. Method(f, t > 0, WithThreads(families_[f], <<t>>))
    BY <1>2 DEF Threads
  <2>3. t > 0 => <<t>> \in Seq(1 .. kmax)
    BY <2>1, OneCount
  <2> HIDE DEF RegistryInv
  <2>4. QED
    BY <2>2, <2>3, ThreadsKeep
<1>3. QED
  BY <1>1, <1>2

LEMMA ThreadRangeKeeps ==
    ASSUME RegistryInv, NEW f \in DOMAIN families_, NEW min \in Integer, NEW max \in Integer,
           ThreadRange(f, min, max)
    PROVE  RegistryInv'
<1> DEFINE c == min > 0 /\ max >= min
           s == AddRange(min, max, 2)
<1>1. Method(f, c, WithThreads(families_[f], s))
  BY DEF ThreadRange
<1>2. ASSUME c PROVE s \in Seq(1 .. kmax)
  <2>1. min \in Int /\ max \in Int /\ min <= max /\ max <= kmax /\ min > 0
    BY <1>2, KmaxType DEF Integer
  <2>2. 2 \in 2 .. kmax
    BY KmaxType
  <2>3. s \in Seq(min .. max)
    BY <2>1, <2>2, AddRangeType
  <2> HIDE DEF s
  <2>4. QED
    BY <2>1, <2>3, PositiveSeq
<1> HIDE DEF c, s
<1>3. QED
  BY <1>1, <1>2, ThreadsKeep

LEMMA DenseThreadRangeKeeps ==
    ASSUME RegistryInv, NEW f \in DOMAIN families_, NEW min \in Integer, NEW max \in Integer,
           NEW stride \in Integer, DenseThreadRange(f, min, max, stride)
    PROVE  RegistryInv'
<1> DEFINE c == min > 0 /\ max >= min /\ stride >= 1
           dense == Dense(min, max - 1, stride)
           s == When(min < max, dense) \o <<max>>
           E == 1 .. kmax
<1>1. Method(f, c, WithThreads(families_[f], s))
  BY DEF DenseThreadRange
<1>2. ASSUME c PROVE s \in Seq(E)
  <2>1. /\ min \in Int /\ max \in Int /\ max - 1 \in Int /\ min > 0 /\ max - 1 <= kmax
        /\ stride \in Int /\ stride > 0 /\ max \in 1 .. kmax
    BY <1>2, KmaxType DEF Integer
  <2>2. min < max => dense \in Seq(E)
    <3> SUFFICES ASSUME min < max PROVE dense \in Seq(E)
      OBVIOUS
    <3>1. min <= max - 1
      BY <2>1
    <3>2. dense \in Seq(min .. (max - 1))
      BY <2>1, <3>1, DenseType
    <3> HIDE DEF dense
    <3>3. QED
      BY <2>1, <3>2, PositiveSeq
  <2>3. <<max>> \in Seq(E)
    BY <2>1, OneCount
  <2> HIDE DEF dense, E
  <2>4. When(min < max, dense) \in Seq(E)
    BY <2>2, WhenType
  <2>5. QED
    BY <2>3, <2>4
<1> HIDE DEF c, s
<1>3. QED
  BY <1>1, <1>2, ThreadsKeep DEF E

\* FindBenchmarks gives a family without arguments one empty tuple.
LEMMA FoundKeeps ==
    ASSUME NEW b, WellFormed(b)
    PROVE  WellFormed(Found(b))
<1>1. CASE ArgsCnt(b) = -1
  <2> DEFINE t == <<(<<>>)>>
  <2>1. <<>> \in Tuple /\ Len(<<>>) = 0
    BY EmptySeq DEF Tuple
  <2>2. t \in Seq(Tuple) /\ DOMAIN t = {1} /\ t[1] = <<>>
    BY <2>1
  <2>3. \A i \in DOMAIN t : Len(t[i]) = 0
    BY <2>1, <2>2
  <2>4. Fits(b, 0)
    BY <1>1 DEF Fits
  <2> HIDE DEF t
  <2>5. WellFormed(WithArgs(b, t))
    BY <2>2, <2>3, <2>4, WithArgsKeeps
  <2>6. Found(b) = WithArgs(b, t)
    BY <1>1 DEF Found, t
  <2>7. QED
    BY <2>5, <2>6
<1>2. CASE ArgsCnt(b) # -1
  BY <1>2 DEF Found
<1>3. QED
  BY <1>1, <1>2

LEMMA FindKeeps ==
    ASSUME RegistryInv, NEW filter, FindBenchmarks(filter)
    PROVE  RegistryInv'
<1> DEFINE n == Len(families_)
<1>1. n \in Nat /\ DOMAIN families_ = 1 .. n
  BY DEF RegistryInv
<1>2. families_' = [f \in 1 .. n |-> Found(families_[f])]
  BY <1>1 DEF FindBenchmarks
<1> HIDE DEF n
<1>3. \A f \in 1 .. n : WellFormed(Found(families_[f])) /\ Found(families_[f]) \in Benchmark
  BY <1>1, FoundKeeps DEF RegistryInv, WellFormed
<1>4. [f \in 1 .. n |-> Found(families_[f])] \in [1 .. n -> Benchmark]
  BY <1>3
<1>5. families_' \in Seq(Benchmark) /\ DOMAIN families_' = 1 .. n
  BY <1>1, <1>2, <1>4, SeqDef
<1>6. QED
  BY <1>2, <1>3, <1>5 DEF RegistryInv

-----------------------------------------------------------------------------
\* The values that a program calls the methods with.
LEMMA CallValues ==
    /\ ArgLists \subseteq Tuple /\ ArgProducts \subseteq Lists
    /\ RangeLists \subseteq Seq(Integer \X Integer) /\ NameLists \subseteq Seq(Text)
    /\ \A r \in RangeBounds : r[1] \in Integer /\ r[2] \in Integer
    /\ \A d \in DenseRanges : d[1] \in Integer /\ d[2] \in Integer /\ d[3] \in Integer
    /\ \A r \in ThreadRanges : r[1] \in Integer /\ r[2] \in Integer /\ r[3] \in Integer
    /\ Multipliers \subseteq Integer /\ Times \subseteq Integer
<1>1. RangeBounds \subseteq Integer \X Integer
  BY RegistrationAssumption
<1>2. DenseRanges \subseteq Integer \X Integer \X Integer
  BY RegistrationAssumption
<1>3. ThreadRanges \subseteq Integer \X Integer \X Integer
  BY RegistrationAssumption
<1>4. /\ ArgLists \subseteq Tuple /\ ArgProducts \subseteq Lists
      /\ RangeLists \subseteq Seq(Integer \X Integer) /\ NameLists \subseteq Seq(Seq(STRING))
      /\ Multipliers \subseteq Integer /\ Times \subseteq Integer
  BY RegistrationAssumption DEF Tuple, Lists
<1>5. Seq(Seq(STRING)) \subseteq Seq(Text)
  <2>1. Seq(STRING) \subseteq Text
    BY SeqMonotonic DEF Text, Pieces
  <2>2. QED
    BY <2>1, SeqMonotonic
<1>6. QED
  BY <1>1, <1>2, <1>3, <1>4, <1>5

LEMMA ArgumentsStep ==
    ASSUME RegistryInv, NEW f \in DOMAIN families_, AddArguments(f)
    PROVE  RegistryInv'
<1>1. CASE \E args \in ArgLists : Args(f, args)
  BY <1>1, CallValues, ArgsKeeps
<1>2. CASE \E r \in RangeBounds : ArgRange(f, r[1], r[2])
  BY <1>2, CallValues, ArgRangeKeeps
<1>3. CASE \E lists \in ArgProducts : ArgsProduct(f, lists)
  BY <1>3, CallValues, ArgsProductKeeps
<1>4. CASE \E bounds \in RangeLists : Ranges(f, bounds)
  BY <1>4, CallValues, RangesKeeps
<1>5. CASE \E d \in DenseRanges : DenseRange(f, d[1], d[2], d[3])
  BY <1>5, CallValues, DenseRangeKeeps
<1>6. CASE \E names \in NameLists : ArgNames(f, names)
  BY <1>6, CallValues, ArgNamesKeeps
<1>7. CASE \E m \in Multipliers : RangeMultiplier(f, m)
  BY <1>7, CallValues, RangeMultiplierKeeps
<1>8. QED
  BY <1>1, <1>2, <1>3, <1>4, <1>5, <1>6, <1>7 DEF AddArguments

LEMMA SettingsStep ==
    ASSUME RegistryInv, NEW f \in DOMAIN families_, AddSettings(f)
    PROVE  RegistryInv'
<1>1. CASE \E t \in Times : MinTime(f, t) \/ MinWarmUpTime(f, t)
  BY <1>1, CallValues, TimesKeep
<1>2. CASE \E n \in 0 .. 1 : Iterations(f, n) \/ Repetitions(f, n)
  BY <1>2, CountsKeep
<1>3. CASE MeasureProcessCPUTime(f) \/ UseRealTime(f) \/ UseManualTime(f)
  BY <1>3, TimersKeep
<1>4. QED
  BY <1>1, <1>2, <1>3 DEF AddSettings

LEMMA ThreadsStep ==
    ASSUME RegistryInv, NEW f \in DOMAIN families_, AddThreads(f)
    PROVE  RegistryInv'
<1>1. CASE ThreadPerCpu(f) \/ \E t \in 0 .. 1 : Threads(f, t)
  BY <1>1, ThreadCountKeeps
<1>2. CASE \E r \in ThreadRanges : ThreadRange(f, r[1], r[2])
  BY <1>2, CallValues, ThreadRangeKeeps
<1>3. CASE \E r \in ThreadRanges : DenseThreadRange(f, r[1], r[2], r[3])
  BY <1>3, CallValues, DenseThreadRangeKeeps
<1>4. QED
  BY <1>1, <1>2, <1>3 DEF AddThreads

LEMMA RegistryStep == RegistryInv /\ [Next]_vars => RegistryInv'
<1> SUFFICES ASSUME RegistryInv, [Next]_vars PROVE RegistryInv'
  OBVIOUS
<1>1. CASE UNCHANGED vars
  BY <1>1 DEF vars, RegistryInv
<1>2. CASE \E path \in PathNames, function \in Functions : Register(path, function)
  BY <1>2, RegisterKeeps
<1>3. CASE \E f \in DOMAIN families_ : AddArguments(f) \/ AddSettings(f) \/ AddThreads(f)
  BY <1>3, ArgumentsStep, SettingsStep, ThreadsStep
<1>4. CASE \E filter \in Filters : FindBenchmarks(filter)
  BY <1>4, FindKeeps
<1>5. CASE ClearBenchmarks
  <2>1. families_' = <<>>
    BY <1>5 DEF ClearBenchmarks
  <2>2. <<>> \in Seq(Benchmark) /\ DOMAIN <<>> = 1 .. 0 /\ 1 .. 0 = {}
    BY EmptySeq
  <2>3. QED
    BY <2>1, <2>2 DEF RegistryInv
<1>6. QED
  BY <1>1, <1>2, <1>3, <1>4, <1>5 DEF Next, PathNames

LEMMA RegistryInit == Init => RegistryInv
<1>1. <<>> \in Seq(Benchmark) /\ DOMAIN <<>> = 1 .. 0 /\ 1 .. 0 = {}
  BY EmptySeq
<1>2. QED
  BY <1>1 DEF Init, RegistryInv

\* The invariant of the registry: no argument that a range or a product adds
\* leaves its type, every count of threads is positive, and the tuples of a
\* family and its settings fit together.
THEOREM RegistrationInvariance == Spec => []RegistryInv
<1>1. QED
  BY RegistryInit, RegistryStep, PTL DEF Spec

\* FamiliesWellFormed, for every type, every argument list and range, and any
\* number of calls: instances of a family have as many arguments each as there
\* are names, and iterations exclude the times as the checks of MinTime,
\* MinWarmUpTime and Iterations mean them to.
THEOREM RegistrationFamiliesWellFormed == Spec => []FamiliesWellFormed
<1>1. RegistryInv => FamiliesWellFormed
  BY DEF RegistryInv, FamiliesWellFormed, ArgsOfOneSize, ExclusiveSettings, WellFormed, Sized, Exclusive
<1>2. QED
  BY <1>1, RegistrationInvariance, PTL

-----------------------------------------------------------------------------
(* Texts and the numbers in them. *)

LEMMA DigitsDiffer ==
    /\ \A d \in 0 .. 9 : Digit[d + 1] \in Numerals
    /\ \A d \in 0 .. 9, e \in 0 .. 9 : Digit[d + 1] = Digit[e + 1] => d = e
<1>1. /\ Digit[1] = "0" /\ Digit[2] = "1" /\ Digit[3] = "2" /\ Digit[4] = "3" /\ Digit[5] = "4"
      /\ Digit[6] = "5" /\ Digit[7] = "6" /\ Digit[8] = "7" /\ Digit[9] = "8" /\ Digit[10] = "9"
  BY DEF Digit
<1>2. \A d \in 0 .. 9 : \/ d + 1 = 1 \/ d + 1 = 2 \/ d + 1 = 3 \/ d + 1 = 4 \/ d + 1 = 5
                        \/ d + 1 = 6 \/ d + 1 = 7 \/ d + 1 = 8 \/ d + 1 = 9 \/ d + 1 = 10
  OBVIOUS
<1>3. \A d \in 0 .. 9 : Digit[d + 1] \in Numerals
  BY <1>1, <1>2 DEF Numerals
<1>4. ASSUME NEW d \in 0 .. 9, NEW e \in 0 .. 9, Digit[d + 1] = Digit[e + 1] PROVE d = e
  <2>1. \A p \in 1 .. 10, q \in 1 .. 10 : Digit[p] = Digit[q] => p = q
    <3>1. \A p \in 1 .. 10 : \/ p = 1 \/ p = 2 \/ p = 3 \/ p = 4 \/ p = 5
                             \/ p = 6 \/ p = 7 \/ p = 8 \/ p = 9 \/ p = 10
      OBVIOUS
    <3>2. QED
      BY <1>1, <3>1
  <2>2. d + 1 \in 1 .. 10 /\ e + 1 \in 1 .. 10
    OBVIOUS
  <2>3. d + 1 = e + 1
    BY <1>4, <2>1, <2>2
  <2>4. QED
    BY <2>3
<1>5. QED
  BY <1>3, <1>4

\* The last digit of a number and the rest of it.
LEMMA LastDigit ==
    ASSUME NEW n \in Nat
    PROVE  /\ n % 10 \in 0 .. 9 /\ n \div 10 \in Nat /\ n = 10 * (n \div 10) + (n % 10)
           /\ n >= 10 => n \div 10 < n /\ n \div 10 >= 1
  OBVIOUS

\* The recursive function Digits, one step.
DigitsStep(g, n) ==
    IF n < 10 THEN <<Digit[n + 1]>> ELSE Append(g[n \div 10], Digit[(n % 10) + 1])

DigitTexts == {s \in Seq(Numerals) : s # <<>>}

LEMMA DigitsStepType ==
    ASSUME NEW g, NEW n \in Nat, n >= 10 => g[n \div 10] \in DigitTexts
    PROVE  DigitsStep(g, n) \in DigitTexts
<1>1. CASE n < 10
  <2>1. Digit[n + 1] \in Numerals
    <3>1. n \in 0 .. 9
      BY <1>1
    <3>2. QED
      BY <3>1, DigitsDiffer
  <2>2. QED
    BY <1>1, <2>1 DEF DigitsStep, DigitTexts
<1>2. CASE ~(n < 10)
  <2> DEFINE s == g[n \div 10]
             d == Digit[(n % 10) + 1]
  <2>1. s \in Seq(Numerals) /\ d \in Numerals
    BY <1>2, DigitsDiffer, LastDigit DEF DigitTexts
  <2>2. DigitsStep(g, n) = Append(s, d)
    BY <1>2 DEF DigitsStep
  <2> HIDE DEF s, d
  <2>3. Append(s, d) \in Seq(Numerals) /\ Append(s, d) # <<>>
    BY <2>1, AppendProperties
  <2>4. QED
    BY <2>2, <2>3 DEF DigitTexts
<1>3. QED
  BY <1>1, <1>2

\* There is such a function: its values are found from the smallest number up.
DigitsBelow(g, t) == \A n \in 0 .. kmax + 1 : n < t => g[n] = DigitsStep(g, n)

LEMMA DigitsExist ==
    \E g \in [0 .. kmax + 1 -> DigitTexts] : g = [n \in 0 .. kmax + 1 |-> DigitsStep(g, n)]
<1> DEFINE T == [0 .. kmax + 1 -> DigitTexts]
           U == {t \in Nat : \E g \in T : DigitsBelow(g, t)}
<1>1. kmax \in Nat
  BY KmaxType
<1>2. 0 \in U
  <2>1. <<"0">> \in DigitTexts
    BY DEF DigitTexts, Numerals
  <2>2. [n \in 0 .. kmax + 1 |-> <<"0">>] \in T
    BY <2>1
  <2>3. DigitsBelow([n \in 0 .. kmax + 1 |-> <<"0">>], 0)
    BY DEF DigitsBelow
  <2>4. QED
    BY <2>2, <2>3
<1>3. ASSUME NEW t \in Nat, t \in U PROVE t + 1 \in U
  <2>1. PICK g \in T : DigitsBelow(g, t)
    BY <1>3
  <2>2. CASE t \notin 0 .. kmax + 1
    <3>1. DigitsBelow(g, t + 1)
      BY <1>1, <2>1, <2>2 DEF DigitsBelow
    <3>2. QED
      BY <2>1, <3>1
  <2>3. CASE t \in 0 .. kmax + 1
    <3> DEFINE x == DigitsStep(g, t)
               e == [g EXCEPT ![t] = x]
    <3>1. x \in DigitTexts
      <4>1. t >= 10 => t \div 10 \in 0 .. kmax + 1
        BY <1>1, <2>3, LastDigit
      <4>2. QED
        BY <2>1, <4>1, DigitsStepType
    <3> HIDE DEF x
    <3>2. e \in T /\ e[t] = x /\ \A n \in 0 .. kmax + 1 : n # t => e[n] = g[n]
      BY <2>1, <2>3, <3>1
    <3> HIDE DEF e
    <3>3. ASSUME NEW n \in 0 .. kmax + 1, n <= t
          PROVE  DigitsStep(e, n) = DigitsStep(g, n)
      <4>1. CASE n < 10
        BY <4>1 DEF DigitsStep
      <4>2. CASE ~(n < 10)
        <5>1. n \div 10 \in 0 .. kmax + 1 /\ n \div 10 # t
          BY <1>1, <3>3, <4>2, LastDigit
        <5>2. e[n \div 10] = g[n \div 10]
          BY <3>2, <5>1
        <5>3. QED
          BY <5>2 DEF DigitsStep
      <4>3. QED
        BY <4>1, <4>2
    <3>4. ASSUME NEW n \in 0 .. kmax + 1, n < t + 1 PROVE e[n] = DigitsStep(e, n)
      <4>1. n <= t
        BY <3>4
      <4>2. CASE n = t
        BY <3>2, <3>3, <4>1, <4>2 DEF x
      <4>3. CASE n # t
        <5>1. n < t
          BY <4>1, <4>3
        <5>2. g[n] = DigitsStep(g, n)
          BY <2>1, <5>1 DEF DigitsBelow
        <5>3. QED
          BY <3>2, <3>3, <4>1, <4>3, <5>2
      <4>4. QED
        BY <4>2, <4>3
    <3>5. DigitsBelow(e, t + 1)
      BY <3>4 DEF DigitsBelow
    <3>6. QED
      BY <3>2, <3>5
  <2>4. QED
    BY <2>2, <2>3
<1> HIDE DEF U
<1>4. Nat \subseteq U
  BY <1>2, <1>3, NatInductionSet
<1>5. kmax + 2 \in U
  BY <1>1, <1>4
<1>6. PICK g \in T : DigitsBelow(g, kmax + 2)
  BY <1>5 DEF U
<1>7. \A n \in 0 .. kmax + 1 : g[n] = DigitsStep(g, n)
  BY <1>1, <1>6 DEF DigitsBelow
<1>8. g = [n \in 0 .. kmax + 1 |-> DigitsStep(g, n)]
  BY <1>7
<1>9. QED
  BY <1>8

LEMMA DigitsAre ==
    /\ \A n \in 0 .. kmax + 1 : Digits[n] \in DigitTexts
    /\ \A n \in 0 .. kmax + 1 : Digits[n] = DigitsStep(Digits, n)
<1> DEFINE Is(g) == g = [n \in 0 .. kmax + 1 |-> DigitsStep(g, n)]
           d == CHOOSE g : Is(g)
<1>1. Digits = d
  BY DEF Digits, DigitsStep
<1>2. \E g : Is(g)
  BY DigitsExist
<1>3. Is(d)
  BY <1>2, Zenon
<1>4. \A n \in 0 .. kmax + 1 : Digits[n] = DigitsStep(Digits, n)
  BY <1>1, <1>3
<1> HIDE DEF d, Is
<1> DEFINE U == {t \in Nat : \A n \in 0 .. kmax + 1 : n < t => Digits[n] \in DigitTexts}
<1>5. kmax \in Nat
  BY KmaxType
<1>6. 0 \in U
  OBVIOUS
<1>7. ASSUME NEW t \in Nat, t \in U PROVE t + 1 \in U
  <2> SUFFICES ASSUME NEW n \in 0 .. kmax + 1, n < t + 1 PROVE Digits[n] \in DigitTexts
    OBVIOUS
  <2>1. n >= 10 => n \div 10 \in 0 .. kmax + 1 /\ n \div 10 < t
    BY <1>5, LastDigit
  <2>2. n >= 10 => Digits[n \div 10] \in DigitTexts
    BY <1>7, <2>1
  <2>3. QED
    BY <1>4, <2>2, DigitsStepType
<1> HIDE DEF U
<1>8. Nat \subseteq U
  BY <1>6, <1>7, NatInductionSet
<1>9. kmax + 2 \in U
  BY <1>5, <1>8
<1>10. QED
  BY <1>4, <1>5, <1>9 DEF U

\* Two numbers have different digits.
LEMMA DigitsInjective ==
    \A n \in 0 .. kmax + 1, m \in 0 .. kmax + 1 : Digits[n] = Digits[m] => n = m
<1> DEFINE U == {t \in Nat : \A n \in 0 .. kmax + 1, m \in 0 .. kmax + 1 :
                                n < t /\ Digits[n] = Digits[m] => n = m}
<1>1. kmax \in Nat
  BY KmaxType
<1>2. 0 \in U
  OBVIOUS
<1>3. ASSUME NEW t \in Nat, t \in U PROVE t + 1 \in U
  <2> SUFFICES ASSUME NEW n \in 0 .. kmax + 1, NEW m \in 0 .. kmax + 1, n < t + 1,
                      Digits[n] = Digits[m]
               PROVE  n = m
    OBVIOUS
  <2>1. ASSUME NEW k \in 0 .. kmax + 1, k < 10
        PROVE  Digits[k] = <<Digit[k + 1]>> /\ Len(Digits[k]) = 1
    <3>1. Digits[k] = <<Digit[k + 1]>>
      BY <2>1, DigitsAre DEF DigitsStep
    <3>2. QED
      BY <3>1
  <2>2. ASSUME NEW k \in 0 .. kmax + 1, ~(k < 10)
        PROVE  /\ k \div 10 \in 0 .. kmax + 1 /\ k \div 10 < k
               /\ Digits[k] = Append(Digits[k \div 10], Digit[(k % 10) + 1])
               /\ Digits[k \div 10] \in Seq(Numerals) /\ Digits[k \div 10] # <<>>
               /\ Digit[(k % 10) + 1] \in Numerals
    <3>1. k \div 10 \in 0 .. kmax + 1 /\ k \div 10 < k /\ k % 10 \in 0 .. 9
      BY <1>1, <2>2, LastDigit
    <3>2. Digits[k] = Append(Digits[k \div 10], Digit[(k % 10) + 1])
      BY <2>2, DigitsAre DEF DigitsStep
    <3>3. QED
      BY <3>1, <3>2, DigitsAre, DigitsDiffer DEF DigitTexts
  <2>3. ASSUME NEW k \in 0 .. kmax + 1, ~(k < 10) PROVE Len(Digits[k]) # 1
    <3> DEFINE s == Digits[k \div 10]
               d == Digit[(k % 10) + 1]
    <3>1. Digits[k] = Append(s, d) /\ s \in Seq(Numerals) /\ s # <<>>
      BY <2>2, <2>3
    <3> HIDE DEF s, d
    <3>2. QED
      BY <3>1
  <2>4. CASE n < 10 /\ m < 10
    <3>1. n \in 0 .. 9 /\ m \in 0 .. 9
      BY <2>4
    <3>2. <<Digit[n + 1]>> = <<Digit[m + 1]>>
      BY <2>1, <2>4
    <3> DEFINE p == Digit[n + 1]
               q == Digit[m + 1]
    <3>3. p = q
      <4> HIDE DEF p, q
      <4>1. <<p>> = <<q>> => p = q
        OBVIOUS
      <4>2. QED
        BY <3>2, <4>1 DEF p, q
    <3>4. QED
      BY <3>1, <3>3, DigitsDiffer
  <2>5. CASE ~(n < 10) /\ ~(m < 10)
    <3> DEFINE s == Digits[n \div 10]
               d == Digit[(n % 10) + 1]
               r == Digits[m \div 10]
               e == Digit[(m % 10) + 1]
    <3>1. Append(s, d) = Append(r, e) /\ s \in Seq(Numerals) /\ r \in Seq(Numerals)
      BY <2>2, <2>5
    <3>2. s = r /\ d = e
      <4> HIDE DEF s, d, r, e
      <4>1. QED
        BY <3>1, AppendInjective
    <3>3. n \div 10 = m \div 10
      <4>1. n \div 10 \in 0 .. kmax + 1 /\ m \div 10 \in 0 .. kmax + 1 /\ n \div 10 < t
        BY <1>1, <2>2, <2>5
      <4>2. QED
        BY <1>3, <3>2, <4>1
    <3>4. n % 10 = m % 10
      <4>1. n % 10 \in 0 .. 9 /\ m % 10 \in 0 .. 9
        BY LastDigit
      <4>2. QED
        BY <3>2, <4>1, DigitsDiffer
    <3>5. n = 10 * (n \div 10) + (n % 10) /\ m = 10 * (m \div 10) + (m % 10)
      BY LastDigit
    <3>6. QED
      BY <3>3, <3>4, <3>5
  <2>6. CASE (n < 10) # (m < 10)
    BY <2>1, <2>3, <2>6
  <2>7. QED
    BY <2>4, <2>5, <2>6
<1> HIDE DEF U
<1>4. Nat \subseteq U
  BY <1>2, <1>3, NatInductionSet
<1>5. kmax + 2 \in U
  BY <1>1, <1>4
<1>6. QED
  BY <1>1, <1>5 DEF U

\* Nothing in an integer's text, so that the integer ends before it.
Ends(t) == t = <<>> \/ t[1] \notin Figures

LEMMA DecimalType ==
    ASSUME NEW n \in Integer
    PROVE  Decimal(n) \in Seq(Figures) /\ Decimal(n) \in Text /\ Decimal(n) # <<>>
<1>1. kmax \in Nat
  BY KmaxType
<1>2. ASSUME NEW k \in 0 .. kmax + 1 PROVE Digits[k] \in Seq(Figures) /\ Digits[k] # <<>>
  <2>1. Digits[k] \in Seq(Numerals) /\ Digits[k] # <<>>
    BY DigitsAre DEF DigitTexts
  <2>2. QED
    BY <2>1, SeqMonotonic DEF Figures
<1>3. Decimal(n) \in Seq(Figures) /\ Decimal(n) # <<>>
  <2>1. CASE n < 0
    <3>1. -n \in 0 .. kmax + 1
      BY <1>1, <2>1 DEF Integer
    <3> DEFINE d == Digits[-n]
    <3>2. d \in Seq(Figures)
      BY <1>2, <3>1
    <3>3. Decimal(n) = <<"-">> \o d
      BY <2>1 DEF Decimal
    <3> HIDE DEF d
    <3>4. <<"-">> \in Seq(Figures)
      BY DEF Figures
    <3>5. <<"-">> \o d \in Seq(Figures) /\ Len(<<"-">> \o d) # 0
      BY <3>2, <3>4
    <3>6. QED
      BY <3>3, <3>5
  <2>2. CASE ~(n < 0)
    <3>1. n \in 0 .. kmax + 1
      BY <1>1, <2>2 DEF Integer
    <3>2. QED
      BY <1>2, <2>2, <3>1 DEF Decimal
  <2>3. QED
    BY <2>1, <2>2
<1>4. Figures \subseteq Pieces
  BY DEF Pieces
<1>5. QED
  BY <1>3, <1>4, SeqMonotonic DEF Text

LEMMA DecimalInjective ==
    ASSUME NEW n \in Integer, NEW m \in Integer, Decimal(n) = Decimal(m)
    PROVE  n = m
<1>1. kmax \in Nat
  BY KmaxType
<1>2. ASSUME NEW k \in Integer
      PROVE  /\ k < 0 => -k \in 0 .. kmax + 1 /\ Decimal(k) = <<"-">> \o Digits[-k]
             /\ ~(k < 0) => k \in 0 .. kmax + 1 /\ Decimal(k) = Digits[k]
  BY <1>1 DEF Integer, Decimal
<1>3. ASSUME NEW k \in 0 .. kmax + 1 PROVE Digits[k] \in Seq(Numerals) /\ Digits[k][1] # "-"
  <2>1. Digits[k] \in Seq(Numerals) /\ Digits[k] # <<>>
    BY DigitsAre DEF DigitTexts
  <2>2. Digits[k][1] \in Numerals
    BY <2>1
  <2>3. QED
    BY <2>1, <2>2 DEF Numerals
<1>4. ASSUME NEW k \in 0 .. kmax + 1 PROVE (<<"-">> \o Digits[k])[1] = "-"
  <2> DEFINE d == Digits[k]
  <2>1. d \in Seq(Numerals)
    BY <1>3
  <2> HIDE DEF d
  <2>2. (<<"-">> \o d)[1] = "-"
    BY <2>1
  <2>3. QED
    BY <2>2 DEF d
<1>5. CASE n < 0 /\ m < 0
  <2> DEFINE d == Digits[-n]
             e == Digits[-m]
  <2>1. -n \in 0 .. kmax + 1 /\ -m \in 0 .. kmax + 1
    BY <1>2, <1>5
  <2>2. d \in Seq(Pieces) /\ e \in Seq(Pieces) /\ <<"-">> \in Seq(Pieces)
    <3>1. d \in Seq(Numerals) /\ e \in Seq(Numerals)
      BY <1>3, <2>1
    <3>2. Numerals \subseteq Pieces
      BY DEF Pieces, Figures
    <3> HIDE DEF d, e
    <3>3. d \in Seq(Pieces) /\ e \in Seq(Pieces)
      BY <3>1, <3>2, SeqMonotonic
    <3>4. QED
      BY <3>3 DEF Pieces, Figures
  <2>3. <<"-">> \o d = <<"-">> \o e
    BY <1>2, <1>5
  <2>4. d = e
    <3> HIDE DEF d, e
    <3>1. QED
      BY <2>2, <2>3, ConcatSimplifications
  <2>5. -n = -m
    BY <2>1, <2>4, DigitsInjective
  <2>6. QED
    BY <2>5 DEF Integer
<1>6. CASE ~(n < 0) /\ ~(m < 0)
  BY <1>2, <1>6, DigitsInjective
<1>7. CASE (n < 0) # (m < 0)
  BY <1>2, <1>3, <1>4, <1>7
<1>8. QED
  BY <1>5, <1>6, <1>7

\* An integer is read off a text if what stands behind it ends it.
LEMMA DecimalEnds ==
    ASSUME NEW n \in Integer, NEW m \in Integer, NEW t \in Text, NEW u \in Text, Ends(t), Ends(u),
           Decimal(n) \o t = Decimal(m) \o u
    PROVE  n = m /\ t = u
<1> DEFINE d == Decimal(n)
           e == Decimal(m)
<1>1. d \in Seq(Figures) /\ d \in Seq(Pieces) /\ e \in Seq(Figures) /\ e \in Seq(Pieces)
  BY DecimalType DEF Text
<1>2. ~(Len(d) < Len(e))
  <2> HIDE DEF d, e
  <2> SUFFICES ASSUME Len(d) < Len(e) PROVE FALSE
    OBVIOUS
  <2> DEFINE k == Len(d) + 1
  <2>1. k \in 1 .. Len(e) /\ Len(d) \in Nat /\ Len(e) \in Nat /\ Len(t) \in Nat /\ Len(u) \in Nat
    BY <1>1 DEF Text
  <2>2. (e \o u)[k] = e[k] /\ e[k] \in Figures
    BY <1>1, <2>1, ConcatProperties DEF Text
  <2>3. Len(d) + Len(t) = Len(e) + Len(u)
    <3>1. Len(d \o t) = Len(d) + Len(t) /\ Len(e \o u) = Len(e) + Len(u)
      BY <1>1, ConcatProperties DEF Text
    <3>2. QED
      BY <3>1 DEF d, e
  <2>4. Len(t) >= 1 /\ t # <<>>
    BY <2>1, <2>3
  <2>5. (d \o t)[k] = t[1]
    <3>1. k \in 1 .. Len(d) + Len(t) /\ ~(k <= Len(d)) /\ k - Len(d) = 1
      BY <2>1, <2>4
    <3>2. QED
      BY <1>1, <3>1, ConcatProperties DEF Text
  <2>6. QED
    BY <2>2, <2>4, <2>5 DEF Ends, d, e
<1>3. ~(Len(e) < Len(d))
  <2> HIDE DEF d, e
  <2> SUFFICES ASSUME Len(e) < Len(d) PROVE FALSE
    OBVIOUS
  <2> DEFINE k == Len(e) + 1
  <2>1. k \in 1 .. Len(d) /\ Len(d) \in Nat /\ Len(e) \in Nat /\ Len(t) \in Nat /\ Len(u) \in Nat
    BY <1>1 DEF Text
  <2>2. (d \o t)[k] = d[k] /\ d[k] \in Figures
    BY <1>1, <2>1, ConcatProperties DEF Text
  <2>3. Len(d) + Len(t) = Len(e) + Len(u)
    <3>1. Len(d \o t) = Len(d) + Len(t) /\ Len(e \o u) = Len(e) + Len(u)
      BY <1>1, ConcatProperties DEF Text
    <3>2. QED
      BY <3>1 DEF d, e
  <2>4. Len(u) >= 1 /\ u # <<>>
    BY <2>1, <2>3
  <2>5. (e \o u)[k] = u[1]
    <3>1. k \in 1 .. Len(e) + Len(u) /\ ~(k <= Len(e)) /\ k - Len(e) = 1
      BY <2>1, <2>4
    <3>2. QED
      BY <1>1, <3>1, ConcatProperties DEF Text
  <2>6. QED
    BY <2>2, <2>4, <2>5 DEF Ends, d, e
<1>4. d = e
  <2> HIDE DEF d, e
  <2>1. Len(d) = Len(e) /\ Len(d) \in Nat /\ Len(e) \in Nat
    BY <1>1, <1>2, <1>3
  <2>2. ASSUME NEW k \in 1 .. Len(d) PROVE d[k] = e[k]
    <3>1. (d \o t)[k] = d[k] /\ (e \o u)[k] = e[k]
      BY <1>1, <2>1, ConcatProperties DEF Text
    <3>2. QED
      BY <3>1 DEF d, e
  <2>3. QED
    BY <1>1, <2>1, <2>2, SeqEqual
<1>5. n = m
  BY <1>4, DecimalInjective
<1>6. t = u
  <2>1. d \o t = d \o u
    BY <1>4
  <2> HIDE DEF d
  <2>2. QED
    BY <1>1, <2>1, ConcatSimplifications DEF Text
<1>7. QED
  BY <1>5, <1>6


-----------------------------------------------------------------------------
(* Names. *)

LEMMA WhenText == ASSUME NEW c, NEW s \in Text PROVE When(c, s) \in Text
  BY EmptySeq DEF When, Text

LEMMA ConcatText == ASSUME NEW s \in Text, NEW t \in Text PROVE s \o t \in Text
  BY ConcatProperties DEF Text

\* The same text in front says that the rests are the same.
LEMMA SameFront ==
    ASSUME NEW s \in Text, NEW t \in Text, NEW u \in Text, s \o t = s \o u
    PROVE  t = u
  BY ConcatSimplifications DEF Text

Regroups(s, t, u) == (s \o t) \o u = s \o (t \o u)

LEMMA Regroup == ASSUME NEW s \in Text, NEW t \in Text, NEW u \in Text PROVE Regroups(s, t, u)
  BY ConcatAssociative DEF Text, Regroups

LEMMA NothingBehind == ASSUME NEW s \in Text PROVE s \o <<>> = s /\ <<>> \o s = s
  BY ConcatEmptySeq DEF Text

LEMMA ConcatNone ==
    ASSUME NEW s \in Text, NEW t \in Text
    PROVE  s \o t = <<>> <=> s = <<>> /\ t = <<>>
  BY ConcatEqualIffEmpty DEF Text

LEMMA WordTexts ==
    /\ <<>> \in Text /\ <<"/">> \in Text /\ <<":">> \in Text /\ <<"[">> \in Text /\ <<"]">> \in Text
    /\ <<"min_time:">> \in Text /\ <<"min_warmup_time:">> \in Text /\ <<"iterations:">> \in Text
    /\ <<"repeats:">> \in Text /\ <<"process_time">> \in Text /\ <<"manual_time">> \in Text
    /\ <<"real_time">> \in Text /\ <<"threads:">> \in Text
<1>1. \A x \in Pieces : <<x>> \in Text
  BY DEF Text
<1>2. /\ "/" \in Pieces /\ ":" \in Pieces /\ "[" \in Pieces /\ "]" \in Pieces
      /\ "min_time:" \in Pieces /\ "min_warmup_time:" \in Pieces /\ "iterations:" \in Pieces
      /\ "repeats:" \in Pieces /\ "process_time" \in Pieces /\ "manual_time" \in Pieces
      /\ "real_time" \in Pieces /\ "threads:" \in Pieces
  BY DEF Pieces
<1>3. <<>> \in Text
  BY EmptySeq DEF Text
<1>4. QED
  BY <1>1, <1>2, <1>3

\* A delimiter in front ends an integer.
LEMMA DelimiterEnds ==
    ASSUME NEW s \in Text
    PROVE  Ends(<<"/">> \o s) /\ Ends(<<"]">> \o s) /\ Ends(<<"]">>)
<1>1. "/" \notin Figures /\ "]" \notin Figures
  BY DEF Figures, Numerals
<1>2. (<<"/">> \o s)[1] = "/" /\ (<<"]">> \o s)[1] = "]" /\ <<"]">>[1] = "]"
  BY WordTexts DEF Text
<1>3. QED
  BY <1>1, <1>2 DEF Ends

LEMMA ArgPrefixText ==
    ASSUME NEW b \in Benchmark, NEW i \in Nat \ {0}
    PROVE  /\ ArgPrefix(b, i) \in Text /\ (i = 1 => ArgPrefix(b, i) = ArgName(b, i))
           /\ ArgName(b, i) \in Text
           /\ i > 1 => ArgPrefix(b, i) = <<"/">> \o ArgName(b, i)
<1>1. ArgName(b, i) \in Text
  <2>1. b.arg_names_ \in Seq(Text)
    BY DEF Benchmark
  <2>2. CASE i <= Len(b.arg_names_) /\ b.arg_names_[i] # <<>>
    <3>1. b.arg_names_[i] \in Text
      BY <2>1, <2>2, LenProperties
    <3>2. QED
      BY <2>2, <3>1, WordTexts, ConcatText DEF ArgName
  <2>3. CASE ~(i <= Len(b.arg_names_) /\ b.arg_names_[i] # <<>>)
    BY <2>3, WordTexts DEF ArgName
  <2>4. QED
    BY <2>2, <2>3
<1> DEFINE a == ArgName(b, i)
<1> HIDE DEF a
<1>2. <<>> \o a = a
  BY <1>1, NothingBehind DEF a
<1>3. ArgPrefix(b, i) = (IF i > 1 THEN <<"/">> ELSE <<>>) \o a
  BY DEF ArgPrefix, When, a
<1>4. <<"/">> \o a \in Text
  BY <1>1, WordTexts, ConcatText DEF a
<1>5. CASE i > 1
  BY <1>1, <1>3, <1>4, <1>5 DEF a
<1>6. CASE i = 1
  <2>1. ~(i > 1)
    BY <1>6
  <2>2. ArgPrefix(b, i) = a
    BY <1>2, <1>3, <2>1
  <2>3. QED
    BY <1>1, <1>6, <2>1, <2>2 DEF a
<1>7. QED
  BY <1>5, <1>6

\* The text of the arguments, one argument more.
LEMMA ArgsTextAppend ==
    ASSUME NEW b \in Benchmark
    PROVE  /\ ArgsText(b, <<>>) = <<>>
           /\ \A a \in Tuple : ArgsText(b, a) \in Text
           /\ \A a \in Tuple, x \in Integer :
                 ArgsText(b, Append(a, x)) = ArgsText(b, a) \o (ArgPrefix(b, Len(a) + 1) \o Decimal(x))
<1> DEFINE T(a) == [i \in DOMAIN a |-> ArgPrefix(b, i) \o Decimal(a[i])]
<1>1. ASSUME NEW a \in Tuple
      PROVE  T(a) \in Seq(Text) /\ Len(T(a)) = Len(a)
  <2>1. Len(a) \in Nat /\ DOMAIN a = 1 .. Len(a) /\ \A i \in 1 .. Len(a) : a[i] \in Integer
    BY LenProperties DEF Tuple
  <2>2. ASSUME NEW i \in 1 .. Len(a) PROVE ArgPrefix(b, i) \o Decimal(a[i]) \in Text
    <3>1. i \in Nat \ {0}
      BY <2>1
    <3>2. ArgPrefix(b, i) \in Text /\ Decimal(a[i]) \in Text
      BY <2>1, <3>1, ArgPrefixText, DecimalType
    <3>3. QED
      BY <3>2, ConcatText
  <2>3. T(a) \in [1 .. Len(a) -> Text]
    BY <2>1, <2>2
  <2> HIDE DEF T
  <2>4. QED
    BY <2>1, <2>3, SeqDef
<1>2. ArgsText(b, <<>>) = <<>>
  <2>1. T(<<>>) = <<>>
    OBVIOUS
  <2>2. QED
    BY <2>1, FlattenProperties DEF ArgsText
<1>3. ASSUME NEW a \in Tuple PROVE ArgsText(b, a) \in Text
  <2>1. T(a) \in Seq(Text)
    BY <1>1
  <2> HIDE DEF T
  <2>2. FlattenSeq(T(a)) \in Text
    BY <2>1, FlattenProperties DEF Text
  <2>3. QED
    BY <2>2 DEF ArgsText, T
<1>4. ASSUME NEW a \in Tuple, NEW x \in Integer
      PROVE  ArgsText(b, Append(a, x)) = ArgsText(b, a) \o (ArgPrefix(b, Len(a) + 1) \o Decimal(x))
  <2> DEFINE n == Len(a)
             c == Append(a, x)
             p == ArgPrefix(b, n + 1) \o Decimal(x)
  <2>1. /\ n \in Nat /\ DOMAIN a = 1 .. n /\ DOMAIN c = 1 .. n + 1 /\ c \in Tuple /\ Len(c) = n + 1
        /\ c[n + 1] = x /\ \A i \in 1 .. n : c[i] = a[i]
    BY LenProperties, AppendProperties DEF Tuple
  <2> HIDE DEF c, n
  <2>2. p \in Text
    <3>1. n + 1 \in Nat \ {0}
      BY <2>1
    <3>2. QED
      BY <3>1, ArgPrefixText, DecimalType, ConcatText
  <2>3. /\ T(a) \in Seq(Text) /\ Len(T(a)) = n /\ T(c) \in Seq(Text) /\ Len(T(c)) = n + 1
    BY <1>1, <2>1 DEF n
  <2>4. /\ \A i \in 1 .. n : T(c)[i] = T(a)[i]
        /\ T(c)[n + 1] = p
    BY <2>1
  <2> HIDE DEF T, p
  <2>5. T(c) = Append(T(a), p)
    <3> DEFINE r == Append(T(a), p)
    <3>1. /\ r \in Seq(Text) /\ Len(r) = n + 1 /\ r[n + 1] = p
          /\ \A i \in 1 .. n : r[i] = T(a)[i]
      BY <2>2, <2>3, AppendProperties
    <3> HIDE DEF r
    <3>2. \A i \in 1 .. n + 1 : i \in 1 .. n \/ i = n + 1
      BY <2>1
    <3>3. \A i \in 1 .. n + 1 : T(c)[i] = r[i]
      BY <2>4, <3>1, <3>2
    <3>4. QED
      BY <2>1, <2>3, <3>1, <3>3, SeqEqual DEF r
  <2>6. FlattenSeq(Append(T(a), p)) = FlattenSeq(T(a)) \o p
    BY <2>2, <2>3, FlattenProperties DEF Text
  <2>7. QED
    BY <2>5, <2>6 DEF ArgsText, T, p, c, n
<1>5. QED
  BY <1>2, <1>3, <1>4

\* The text of the arguments is there if there are any.
LEMMA ArgsTextThere ==
    ASSUME NEW b \in Benchmark, NEW a \in Tuple
    PROVE  ArgsText(b, a) = <<>> <=> a = <<>>
<1>1. CASE a = <<>>
  BY <1>1, ArgsTextAppend
<1>2. CASE a # <<>>
  <2>1. PICK s \in Tuple, x \in Integer : a = Append(s, x)
    BY <1>2, SequenceEmptyOrAppend DEF Tuple
  <2> DEFINE q == ArgsText(b, s)
             p == ArgPrefix(b, Len(s) + 1)
             d == Decimal(x)
  <2>2. ArgsText(b, a) = q \o (p \o d) /\ q \in Text
    BY <2>1, ArgsTextAppend
  <2>3. Len(s) + 1 \in Nat \ {0}
    BY LenProperties DEF Tuple
  <2>4. p \in Text /\ d \in Text /\ d # <<>>
    BY <2>3, ArgPrefixText, DecimalType
  <2> HIDE DEF q, p, d
  <2>5. p \o d \in Text /\ p \o d # <<>>
    BY <2>4, ConcatText, ConcatNone
  <2> DEFINE r == p \o d
  <2> HIDE DEF r
  <2>6. q \o r # <<>>
    BY <2>2, <2>5, ConcatNone DEF r
  <2>7. QED
    BY <1>2, <2>2, <2>6 DEF r
<1>3. QED
  BY <1>1, <1>2

\* As many arguments are read off their text, if what stands behind it ends an integer.
ArgsRead(b, n) ==
    \A a \in Tuple, c \in Tuple, t \in Text, u \in Text :
        /\ Len(a) = n /\ Len(c) = n
        /\ n = 0 \/ (Ends(t) /\ Ends(u))
        /\ ArgsText(b, a) \o t = ArgsText(b, c) \o u
        => a = c /\ t = u

LEMMA ArgsTell == ASSUME NEW b \in Benchmark PROVE \A n \in Nat : ArgsRead(b, n)
<1> DEFINE U == {n \in Nat : ArgsRead(b, n)}
<1>1. 0 \in U
  <2> SUFFICES ASSUME NEW a \in Tuple, NEW c \in Tuple, NEW t \in Text, NEW u \in Text,
                      Len(a) = 0, Len(c) = 0, ArgsText(b, a) \o t = ArgsText(b, c) \o u
               PROVE  a = c /\ t = u
    BY DEF ArgsRead
  <2>1. a = <<>> /\ c = <<>>
    BY DEF Tuple
  <2>2. ArgsText(b, a) = <<>> /\ ArgsText(b, c) = <<>>
    BY <2>1, ArgsTextAppend
  <2>3. QED
    BY <2>1, <2>2, NothingBehind
<1>2. ASSUME NEW n \in Nat, n \in U PROVE n + 1 \in U
  <2> SUFFICES ASSUME NEW a \in Tuple, NEW c \in Tuple, NEW t \in Text, NEW u \in Text,
                      Len(a) = n + 1, Len(c) = n + 1, n + 1 = 0 \/ (Ends(t) /\ Ends(u)),
                      ArgsText(b, a) \o t = ArgsText(b, c) \o u
               PROVE  a = c /\ t = u
    <3>1. n + 1 \in Nat
      OBVIOUS
    <3>2. QED
      BY <3>1, Zenon DEF ArgsRead
  <2>0. Ends(t) /\ Ends(u)
    OBVIOUS
  <2>1. \A v \in Tuple : Len(v) = n + 1 => \E s \in Tuple, x \in Integer : v = Append(s, x) /\ Len(s) = n
    <3> SUFFICES ASSUME NEW v \in Tuple, Len(v) = n + 1
                 PROVE  \E s \in Tuple, x \in Integer : v = Append(s, x) /\ Len(s) = n
      OBVIOUS
    <3>1. v # <<>>
      OBVIOUS
    <3>2. PICK s \in Tuple, x \in Integer : v = Append(s, x)
      BY <3>1, SequenceEmptyOrAppend DEF Tuple
    <3>3. Len(v) = Len(s) + 1 /\ Len(s) \in Nat
      BY <3>2, AppendProperties, LenProperties DEF Tuple
    <3>4. QED
      BY <3>2, <3>3
  <2>2. PICK s \in Tuple, x \in Integer : a = Append(s, x) /\ Len(s) = n
    BY <2>1
  <2>3. PICK r \in Tuple, y \in Integer : c = Append(r, y) /\ Len(r) = n
    BY <2>1
  <2> DEFINE p == ArgPrefix(b, n + 1)
             f == ArgsText(b, s)
             g == ArgsText(b, r)
             dx == Decimal(x)
             dy == Decimal(y)
             xt == dx \o t
             yu == dy \o u
  <2>4. /\ f \in Text /\ g \in Text /\ p \in Text /\ dx \in Text /\ dy \in Text
        /\ xt \in Text /\ yu \in Text /\ p \o dx \in Text /\ p \o dy \in Text
        /\ p \o xt \in Text /\ p \o yu \in Text
    <3>1. f \in Text /\ g \in Text
      BY ArgsTextAppend
    <3>2. n + 1 \in Nat \ {0}
      OBVIOUS
    <3>3. p \in Text /\ dx \in Text /\ dy \in Text
      BY <3>2, ArgPrefixText, DecimalType
    <3> HIDE DEF f, g, p, dx, dy
    <3>4. QED
      BY <3>1, <3>3, ConcatText
  <2>5. ArgsText(b, a) = f \o (p \o dx) /\ ArgsText(b, c) = g \o (p \o dy)
    <3>1. ArgsText(b, Append(s, x)) = f \o (ArgPrefix(b, Len(s) + 1) \o dx)
      BY ArgsTextAppend, Zenon
    <3>2. ArgsText(b, Append(r, y)) = g \o (ArgPrefix(b, Len(r) + 1) \o dy)
      BY ArgsTextAppend, Zenon
    <3> HIDE DEF f, g, dx, dy
    <3>3. QED
      BY <2>2, <2>3, <3>1, <3>2
  <2>6. n > 0 => Ends(p \o xt) /\ Ends(p \o yu)
    <3> SUFFICES ASSUME n > 0 PROVE Ends(p \o xt) /\ Ends(p \o yu)
      OBVIOUS
    <3> DEFINE q == ArgName(b, n + 1)
    <3>1. p = <<"/">> \o q /\ q \in Text
      <4>1. n + 1 \in Nat \ {0} /\ n + 1 > 1
        OBVIOUS
      <4>2. QED
        BY <4>1, ArgPrefixText
    <3> HIDE DEF q, p, xt, yu
    <3>2. p \o xt = <<"/">> \o (q \o xt) /\ p \o yu = <<"/">> \o (q \o yu)
      <4> DEFINE slash == <<"/">>
      <4>1. slash \in Text
        BY WordTexts
      <4> HIDE DEF slash
      <4>2. (slash \o q) \o xt = slash \o (q \o xt) /\ (slash \o q) \o yu = slash \o (q \o yu)
        <5>1. Regroups(slash, q, xt) /\ Regroups(slash, q, yu)
          BY <2>4, <3>1, <4>1, Regroup
        <5>2. QED
          BY <5>1 DEF Regroups
      <4>3. QED
        BY <3>1, <4>2 DEF slash
    <3>3. q \o xt \in Text /\ q \o yu \in Text
      BY <2>4, <3>1, ConcatText
    <3>4. QED
      BY <3>2, <3>3, DelimiterEnds
  <2>7. f \o (p \o xt) = g \o (p \o yu)
    <3> DEFINE px == p \o dx
               py == p \o dy
    <3>1. /\ ArgsText(b, a) = f \o px /\ ArgsText(b, c) = g \o py /\ px \in Text /\ py \in Text
          /\ f \in Text /\ g \in Text /\ p \in Text /\ dx \in Text /\ dy \in Text
      BY <2>4, <2>5
    <3>2. xt = dx \o t /\ yu = dy \o u /\ px = p \o dx /\ py = p \o dy
      OBVIOUS
    <3> HIDE DEF f, g, p, dx, dy, px, py, xt, yu
    <3>3. /\ Regroups(p, dx, t) /\ Regroups(p, dy, u)
          /\ Regroups(f, px, t) /\ Regroups(g, py, u)
      BY <3>1, Regroup
    <3>4. px \o t = p \o xt /\ py \o u = p \o yu
      BY <3>2, <3>3 DEF Regroups
    <3>5. (f \o px) \o t = f \o (px \o t) /\ (g \o py) \o u = g \o (py \o u)
      BY <3>3 DEF Regroups
    <3>6. QED
      BY <3>1, <3>4, <3>5
  <2>8. s = r /\ p \o xt = p \o yu
    <3> HIDE DEF f, g, p, xt, yu
    <3>1. ArgsRead(b, n)
      BY <1>2
    <3>2. n = 0 \/ (Ends(p \o xt) /\ Ends(p \o yu))
      BY <2>6
    <3>3. ArgsText(b, s) \o (p \o xt) = ArgsText(b, r) \o (p \o yu)
      BY <2>7 DEF f, g
    <3>4. QED
      BY <2>2, <2>3, <2>4, <3>1, <3>2, <3>3, Zenon DEF ArgsRead
  <2>9. xt = yu
    <3> HIDE DEF p, xt, yu
    <3>1. QED
      BY <2>4, <2>8, SameFront
  <2>10. x = y /\ t = u
    BY <2>0, <2>9, DecimalEnds
  <2>11. QED
    BY <2>2, <2>3, <2>8, <2>10
<1> HIDE DEF U
<1>3. Nat \subseteq U
  BY <1>1, <1>2, NatInductionSet
<1>4. QED
  BY <1>3 DEF U

LEMMA JoinText ==
    ASSUME NEW s \in Text, NEW h \in Text
    PROVE  Join(s, h) \in Text
<1> DEFINE w == When(s # <<>> /\ h # <<>>, <<"/">>)
<1>1. w \in Text
  BY WordTexts, WhenText
<1> HIDE DEF w
<1>2. (s \o w) \o h \in Text
  BY <1>1, ConcatText
<1>3. QED
  BY <1>2 DEF Join, w

\* What Join puts behind a text that is not empty.
Behind(h) == When(h # <<>>, <<"/">>) \o h

LEMMA BehindText ==
    ASSUME NEW h \in Text
    PROVE  /\ Behind(h) \in Text
           /\ h = <<>> => Behind(h) = <<>>
           /\ h # <<>> => Behind(h) = <<"/">> \o h
<1>1. CASE h = <<>>
  <2>1. When(h # <<>>, <<"/">>) = <<>>
    BY <1>1 DEF When
  <2>2. Behind(h) = <<>> \o <<>>
    BY <1>1, <2>1 DEF Behind
  <2>3. QED
    BY <1>1, <2>2, WordTexts, NothingBehind
<1>2. CASE h # <<>>
  <2>1. When(h # <<>>, <<"/">>) = <<"/">>
    BY <1>2 DEF When
  <2>2. Behind(h) = <<"/">> \o h
    BY <2>1 DEF Behind
  <2>3. QED
    BY <1>2, <2>2, WordTexts, ConcatText
<1>3. QED
  BY <1>1, <1>2

JoinsBehind(s, m, h) == Join(s \o m, h) = s \o (m \o Behind(h))

LEMMA JoinBehind ==
    ASSUME NEW s \in Text, NEW m \in Text, NEW h \in Text, s # <<>>
    PROVE  JoinsBehind(s, m, h)
<1> DEFINE w == When(h # <<>>, <<"/">>)
           sm == s \o m
           x == Behind(h)
<1>1. w \in Text /\ sm \in Text /\ sm # <<>> /\ x \in Text
  BY WordTexts, WhenText, ConcatText, ConcatNone, BehindText
<1>2. Join(sm, h) = (sm \o w) \o h
  <2> HIDE DEF sm
  <2>1. (sm # <<>> /\ h # <<>>) = (h # <<>>)
    BY <1>1
  <2>2. QED
    BY <2>1 DEF Join, w
<1>3. x = w \o h
  BY DEF Behind
<1> HIDE DEF w, x
<1>4. Regroups(sm, w, h) /\ Regroups(s, m, x)
  <2> HIDE DEF sm
  <2>1. Regroups(sm, w, h) /\ Regroups(s, m, x)
    BY <1>1, Regroup
  <2>2. QED
    BY <2>1
<1>5. (sm \o w) \o h = sm \o x /\ sm \o x = s \o (m \o x)
  BY <1>3, <1>4 DEF Regroups
<1>6. QED
  BY <1>2, <1>5 DEF JoinsBehind, sm, x

\* Nothing, or something behind a delimiter.
Delimited(t) == t = <<>> \/ \E u \in Text : t = <<"/">> \o u

LEMMA DelimitedBehind ==
    ASSUME NEW m \in Text, NEW h \in Text, Delimited(m)
    PROVE  Delimited(Behind(h)) /\ Delimited(m \o Behind(h)) /\ Ends(m \o Behind(h))
<1> DEFINE x == Behind(h)
<1>1. x \in Text /\ Delimited(x)
  BY BehindText DEF Delimited
<1> HIDE DEF x
<1>2. Delimited(m \o x)
  <2>1. CASE m = <<>>
    BY <1>1, <2>1, NothingBehind
  <2>2. CASE m # <<>>
    <3>1. PICK u \in Text : m = <<"/">> \o u
      BY <2>2 DEF Delimited
    <3> DEFINE slash == <<"/">>
    <3>2. slash \in Text
      BY WordTexts
    <3> HIDE DEF slash
    <3>3. Regroups(slash, u, x)
      BY <1>1, <3>2, Regroup
    <3>4. m \o x = slash \o (u \o x) /\ u \o x \in Text
      BY <1>1, <3>1, <3>3, ConcatText DEF Regroups, slash
    <3>5. QED
      BY <3>4 DEF Delimited, slash
  <2>3. QED
    BY <2>1, <2>2
<1>3. \A t \in Text : Delimited(t) => Ends(t)
  BY DelimiterEnds DEF Delimited, Ends
<1>4. m \o x \in Text
  BY <1>1, ConcatText
<1>5. QED
  BY <1>1, <1>2, <1>3, <1>4 DEF x

LEMMA SecondsText == ASSUME NEW t \in 0 .. kmax PROVE Seconds(t) \in Text
<1> DEFINE digit(n) == Digit[(n % 10) + 1]
           whole == Decimal(t \div 1000)
           a == digit(t \div 100)
           b == digit(t \div 10)
           c == digit(t)
<1>1. whole \in Text
  <2>1. t \div 1000 \in Integer
    BY KmaxType DEF Integer
  <2>2. QED
    BY <2>1, DecimalType
<1>2. a \in Pieces /\ b \in Pieces /\ c \in Pieces
  <2>1. \A n \in Nat : digit(n) \in Numerals
    BY DigitsDiffer, LastDigit
  <2>2. t \in Nat /\ t \div 10 \in Nat /\ t \div 100 \in Nat
    BY KmaxType
  <2> HIDE DEF digit
  <2>3. QED
    BY <2>1, <2>2 DEF Pieces, Figures
<1>3. Seconds(t) = whole \o <<".", a, b, c>>
  BY DEF Seconds
<1> HIDE DEF whole, a, b, c
<1>4. <<".", a, b, c>> \in Seq(Pieces)
  <2>1. "." \in Pieces
    BY DEF Pieces
  <2>2. QED
    BY <1>2, <2>1
<1>5. QED
  BY <1>1, <1>3, <1>4, ConcatText DEF Text

\* The parts of a name. All but the arguments and the threads are the family's.
LEMMA NameParts ==
    ASSUME NEW b \in Benchmark, NEW args \in Tuple, NEW threads \in 1 .. kmax
    PROVE  LET n == name(b, args, threads)
           IN  /\ n.function_name \in Text /\ n.args \in Text /\ n.min_time \in Text
               /\ n.min_warmup_time \in Text /\ n.iterations \in Text /\ n.repetitions \in Text
               /\ n.time_type \in Text /\ n.threads \in Text
               /\ n.args = ArgsText(b, args)
               /\ n.threads = When(b.thread_counts_ # <<>>, <<"threads:">> \o Decimal(threads))
<1> DEFINE n == name(b, args, threads)
<1>1. n.function_name = b.name_ /\ b.name_ \in Text
  BY DEF name, Benchmark
<1>2. n.args = ArgsText(b, args) /\ n.args \in Text
  <2>1. n.args = ArgsText(b, args)
    BY Zenon DEF name
  <2>2. QED
    BY <2>1, ArgsTextAppend
<1>3. n.min_time \in Text /\ n.min_warmup_time \in Text
  <2>1. b.min_time_ \in 0 .. kmax /\ b.min_warmup_time_ \in 0 .. kmax
    BY DEF Benchmark
  <2> DEFINE x == <<"min_time:">> \o Seconds(b.min_time_)
             y == <<"min_warmup_time:">> \o Seconds(b.min_warmup_time_)
  <2>2. x \in Text /\ y \in Text
    BY <2>1, SecondsText, WordTexts, ConcatText
  <2>3. n.min_time = When(b.min_time_ # 0, x) /\ n.min_warmup_time = When(b.min_warmup_time_ # 0, y)
    BY Zenon DEF name
  <2> HIDE DEF x, y
  <2>4. QED
    BY <2>2, <2>3, WhenText
<1>4. n.iterations \in Text /\ n.repetitions \in Text
  <2>1. b.iterations_ \in Integer /\ b.repetitions_ \in Integer
    BY KmaxType DEF Benchmark, Integer
  <2> DEFINE x == <<"iterations:">> \o Decimal(b.iterations_)
             y == <<"repeats:">> \o Decimal(b.repetitions_)
  <2>2. x \in Text /\ y \in Text
    BY <2>1, DecimalType, WordTexts, ConcatText
  <2>3. n.iterations = When(b.iterations_ # 0, x) /\ n.repetitions = When(b.repetitions_ # 0, y)
    BY Zenon DEF name
  <2> HIDE DEF x, y
  <2>4. QED
    BY <2>2, <2>3, WhenText
<1>5. n.time_type \in Text
  <2> DEFINE x == When(b.measure_process_cpu_time_, <<"process_time">>)
             y == IF b.use_manual_time_ THEN <<"manual_time">>
                  ELSE When(b.use_real_time_, <<"real_time">>)
  <2>1. x \in Text /\ y \in Text
    BY WordTexts, WhenText
  <2>2. n.time_type = Join(x, y)
    BY Zenon DEF name
  <2> HIDE DEF x, y
  <2>3. QED
    BY <2>1, <2>2, JoinText
<1>6. n.threads \in Text /\ n.threads = When(b.thread_counts_ # <<>>, <<"threads:">> \o Decimal(threads))
  <2>1. threads \in Integer
    BY KmaxType DEF Integer
  <2> DEFINE x == <<"threads:">> \o Decimal(threads)
  <2>2. x \in Text
    BY <2>1, DecimalType, WordTexts, ConcatText
  <2>3. n.threads = When(b.thread_counts_ # <<>>, x)
    BY Zenon DEF name
  <2> HIDE DEF x
  <2>4. n.threads \in Text
    BY <2>2, <2>3, WhenText
  <2>5. QED
    BY <2>3, <2>4 DEF x
<1>7. QED
  BY <1>1, <1>2, <1>3, <1>4, <1>5, <1>6

\* What stands in a plain build's name before the threads, and between the
\* arguments and the threads.
BeforeThreads(n) ==
    LET args == Join(n.function_name, n.args)
        times == Join(Join(args, n.min_time), n.min_warmup_time)
        counts == Join(Join(times, n.iterations), n.repetitions)
    IN  Join(counts, n.time_type)
Middle(n) ==
    Behind(n.min_time) \o Behind(n.min_warmup_time) \o Behind(n.iterations)
        \o Behind(n.repetitions) \o Behind(n.time_type)

LEMMA StrOfParts ==
    ASSUME NEW n, n.function_name \in Text, n.args \in Text, n.min_time \in Text,
           n.min_warmup_time \in Text, n.iterations \in Text, n.repetitions \in Text,
           n.time_type \in Text, n.threads \in Text, ~codspeed
    PROVE  /\ str(n) = Join(BeforeThreads(n), n.threads) /\ BeforeThreads(n) \in Text
           /\ LET head == Join(n.function_name, n.args)
                  rest == Middle(n) \o Behind(n.threads)
              IN  /\ head \in Text /\ Middle(n) \in Text /\ rest \in Text /\ Ends(rest)
                  /\ head # <<>> => str(n) = head \o rest
<1> DEFINE head == Join(n.function_name, n.args)
           t1 == n.min_time
           t2 == n.min_warmup_time
           t3 == n.iterations
           t4 == n.repetitions
           t5 == n.time_type
           t6 == n.threads
           m1 == Behind(t1)
           m2 == m1 \o Behind(t2)
           m3 == m2 \o Behind(t3)
           m4 == m3 \o Behind(t4)
           m5 == m4 \o Behind(t5)
           m6 == m5 \o Behind(t6)
           j1 == Join(head, t1)
           j2 == Join(j1, t2)
           j3 == Join(j2, t3)
           j4 == Join(j3, t4)
           j5 == Join(j4, t5)
<1>1. str(n) = Join(j5, t6) /\ BeforeThreads(n) = j5 /\ Middle(n) = m5
  BY DEF str, BeforeThreads, Middle
<1>2. /\ head \in Text /\ t1 \in Text /\ t2 \in Text /\ t3 \in Text /\ t4 \in Text /\ t5 \in Text
      /\ t6 \in Text
  BY JoinText
<1> HIDE DEF head, t1, t2, t3, t4, t5, t6
<1>3. j5 \in Text
  <2>1. j1 \in Text
    BY <1>2, JoinText
  <2> HIDE DEF j1
  <2>2. j2 \in Text
    BY <1>2, <2>1, JoinText
  <2> HIDE DEF j2
  <2>3. j3 \in Text
    BY <1>2, <2>2, JoinText
  <2> HIDE DEF j3
  <2>4. j4 \in Text
    BY <1>2, <2>3, JoinText
  <2> HIDE DEF j4
  <2>5. QED
    BY <1>2, <2>4, JoinText
<1>4. m1 \in Text /\ Delimited(m1)
  <2>1. <<>> \in Text /\ Delimited(<<>>)
    BY WordTexts DEF Delimited
  <2>2. QED
    BY <1>2, <2>1, BehindText, DelimitedBehind
<1> HIDE DEF m1
<1>5. m2 \in Text /\ Delimited(m2)
  BY <1>2, <1>4, BehindText, ConcatText, DelimitedBehind
<1> HIDE DEF m2
<1>6. m3 \in Text /\ Delimited(m3)
  BY <1>2, <1>5, BehindText, ConcatText, DelimitedBehind
<1> HIDE DEF m3
<1>7. m4 \in Text /\ Delimited(m4)
  BY <1>2, <1>6, BehindText, ConcatText, DelimitedBehind
<1> HIDE DEF m4
<1>8. m5 \in Text /\ Delimited(m5)
  BY <1>2, <1>7, BehindText, ConcatText, DelimitedBehind
<1> HIDE DEF m5
<1>9. m6 \in Text /\ Ends(m6)
  BY <1>2, <1>8, BehindText, ConcatText, DelimitedBehind
<1>10. ASSUME head # <<>> PROVE Join(j5, t6) = head \o m6
  <2>1. j1 = head \o m1
    <3> DEFINE none == <<>>
    <3>1. none \in Text
      BY WordTexts
    <3>2. Join(head \o none, t1) = head \o (none \o Behind(t1))
      <4> HIDE DEF none
      <4>1. JoinsBehind(head, none, t1)
        BY <1>2, <1>10, <3>1, JoinBehind
      <4>2. QED
        BY <4>1 DEF JoinsBehind
    <3>3. head \o <<>> = head /\ <<>> \o m1 = m1
      BY <1>2, <1>4, NothingBehind
    <3>4. QED
      BY <3>2, <3>3 DEF m1
  <2>2. j2 = head \o m2
    <3>1. JoinsBehind(head, m1, t2)
      BY <1>2, <1>4, <1>10, JoinBehind
    <3>2. QED
      BY <2>1, <3>1 DEF JoinsBehind, m2
  <2> HIDE DEF j1
  <2>3. j3 = head \o m3
    <3>1. JoinsBehind(head, m2, t3)
      BY <1>2, <1>5, <1>10, JoinBehind
    <3>2. QED
      BY <2>2, <3>1 DEF JoinsBehind, m3
  <2> HIDE DEF j2
  <2>4. j4 = head \o m4
    <3>1. JoinsBehind(head, m3, t4)
      BY <1>2, <1>6, <1>10, JoinBehind
    <3>2. QED
      BY <2>3, <3>1 DEF JoinsBehind, m4
  <2> HIDE DEF j3
  <2>5. j5 = head \o m5
    <3>1. JoinsBehind(head, m4, t5)
      BY <1>2, <1>7, <1>10, JoinBehind
    <3>2. QED
      BY <2>4, <3>1 DEF JoinsBehind, m5
  <2> HIDE DEF j4
  <2>6. JoinsBehind(head, m5, t6)
    BY <1>2, <1>8, <1>10, JoinBehind
  <2>7. QED
    BY <2>5, <2>6 DEF JoinsBehind
<1> HIDE DEF j5, m6
<1>11. m6 = Middle(n) \o Behind(n.threads) /\ head = Join(n.function_name, n.args)
  BY <1>1 DEF m6, head, t6
<1>12. QED
  BY <1>1, <1>2, <1>3, <1>8, <1>9, <1>10, <1>11 DEF t6

-----------------------------------------------------------------------------
(* The instances that are found. *)

\* What a family may be combined with: no counts of threads mean one thread.
ChoicesOf(b) ==
    {x \in [args : ToSet(b.args_), threads : 1 .. kmax] : b.thread_counts_ = <<>> => x.threads = 1}

\* The instances of some families, and that a set holds them.
InstancesOf(benchmarks) ==
    UNION {{Instance(f, benchmarks[f], x) : x \in ChoicesOf(benchmarks[f])} : f \in DOMAIN benchmarks}
Yields(I, benchmarks) ==
    \A f \in DOMAIN benchmarks : \A x \in ChoicesOf(benchmarks[f]) : Instance(f, benchmarks[f], x) \in I

\* FoundInv: what is found are instances of the families that there were.
FoundInv ==
    \E benchmarks \in Seq(Benchmark) :
        /\ \A f \in DOMAIN benchmarks : WellFormed(benchmarks[f])
        /\ \A k \in DOMAIN found : found[k].instance \in InstancesOf(benchmarks)

LEMMA YieldsAll == ASSUME NEW benchmarks PROVE Yields(InstancesOf(benchmarks), benchmarks)
  BY DEF Yields, InstancesOf

\* The entries of a list of instances.
Entries(I) == [instance : I, family_index : Nat, per_family_instance_index : Int]

LEMMA ThreadCounts ==
    ASSUME NEW b \in Benchmark
    PROVE  /\ thread_counts(b) \in Seq(1 .. kmax)
           /\ b.thread_counts_ = <<>> => thread_counts(b) = <<1>>
<1>1. b.thread_counts_ \in Seq(1 .. kmax)
  BY DEF Benchmark
<1>2. <<1>> \in Seq(1 .. kmax)
  BY KmaxType, OneCount
<1>3. QED
  BY <1>1, <1>2 DEF thread_counts

LEMMA CombinationsType ==
    ASSUME NEW b \in Benchmark
    PROVE  Combinations(b) \in Seq(ChoicesOf(b))
<1> DEFINE C == ChoicesOf(b)
           s == b.args_
           t == thread_counts(b)
           P(i) == [j \in DOMAIN t |-> [args |-> s[i], threads |-> t[j]]]
           ss == [i \in DOMAIN s |-> P(i)]
<1>1. Len(s) \in Nat /\ DOMAIN s = 1 .. Len(s) /\ \A i \in DOMAIN s : s[i] \in Tuple
  BY LenProperties DEF Benchmark
<1>2. /\ Len(t) \in Nat /\ DOMAIN t = 1 .. Len(t) /\ \A j \in DOMAIN t : t[j] \in 1 .. kmax
      /\ b.thread_counts_ = <<>> => \A j \in DOMAIN t : t[j] = 1
  <2>1. t \in Seq(1 .. kmax) /\ (b.thread_counts_ = <<>> => t = <<1>>)
    BY ThreadCounts
  <2> HIDE DEF t
  <2> DEFINE E == 1 .. kmax
  <2>2. Len(t) \in Nat /\ DOMAIN t = 1 .. Len(t) /\ \A j \in DOMAIN t : t[j] \in E
    <3>1. t \in Seq(E)
      BY <2>1
    <3> HIDE DEF E
    <3>2. QED
      BY <3>1, LenProperties
  <2>3. \A j \in DOMAIN <<1>> : <<1>>[j] = 1
    OBVIOUS
  <2>4. QED
    BY <2>1, <2>2, <2>3
<1> HIDE DEF t
<1>3. ASSUME NEW i \in DOMAIN s PROVE P(i) \in Seq(C)
  <2>1. ASSUME NEW j \in DOMAIN t PROVE [args |-> s[i], threads |-> t[j]] \in C
    BY <1>1, <1>2 DEF ChoicesOf, ToSet
  <2> HIDE DEF C
  <2>2. P(i) \in [1 .. Len(t) -> C]
    BY <1>2, <2>1
  <2> HIDE DEF P
  <2>3. QED
    BY <1>2, <2>2, SeqDef
<1> HIDE DEF P, C
<1>4. ss \in [1 .. Len(s) -> Seq(C)]
  BY <1>1, <1>3
<1> HIDE DEF ss
<1>5. ss \in Seq(Seq(C))
  BY <1>1, <1>4, SeqDef
<1>6. FlattenSeq(ss) \in Seq(C)
  BY <1>5, FlattenProperties
<1>7. QED
  BY <1>6 DEF Combinations, ss, P, t, C

\* The instances of one family, and those that match.
Made(benchmarks, f) ==
    LET all == Combinations(benchmarks[f])
    IN  [k \in DOMAIN all |-> Instance(f, benchmarks[f], all[k])]
Matching(benchmarks, filter, f) ==
    Among(Made(benchmarks, f), {x \in ToSet(Made(benchmarks, f)) : Runs(filter, x.name)})

\* What FindBenchmarks adds for one family.
FindFamily(benchmarks, filter, acc, f) ==
    LET matching == Matching(benchmarks, filter, f)
    IN  [index |-> NextFamilyIndex(acc.index, matching),
         list |-> acc.list \o [k \in DOMAIN matching |->
             [instance |-> matching[k], family_index |-> acc.index,
              per_family_instance_index |-> k - 1]]]

Accumulated(I) == [index : Nat, list : Seq(Entries(I))]

LEMMA MadeType ==
    ASSUME NEW I, NEW benchmarks \in Seq(Benchmark), Yields(I, benchmarks), NEW f \in DOMAIN benchmarks
    PROVE  Made(benchmarks, f) \in Seq(I)
<1> DEFINE b == benchmarks[f]
           all == Combinations(b)
           n == Len(all)
           made == [k \in DOMAIN all |-> Instance(f, b, all[k])]
<1>1. b \in Benchmark /\ f \in Nat
  <2>1. DOMAIN benchmarks = 1 .. Len(benchmarks) /\ Len(benchmarks) \in Nat
    BY LenProperties
  <2>2. QED
    BY <2>1
<1> HIDE DEF b
<1>2. all \in Seq(ChoicesOf(b))
  BY <1>1, CombinationsType
<1> HIDE DEF all
<1>3. n \in Nat /\ DOMAIN all = 1 .. n /\ \A k \in 1 .. n : all[k] \in ChoicesOf(b)
  BY <1>2, LenProperties
<1> HIDE DEF n
<1>4. \A k \in 1 .. n : Instance(f, b, all[k]) \in I
  BY <1>3 DEF Yields, b
<1>5. made \in Seq(I)
  <2>1. made \in [1 .. n -> I]
    BY <1>3, <1>4
  <2> HIDE DEF made
  <2>2. QED
    BY <1>3, <2>1, SeqDef
<1>6. QED
  BY <1>5, Zenon DEF Made, made, all, b

LEMMA FindFamilyType ==
    ASSUME NEW I, NEW benchmarks \in Seq(Benchmark), Yields(I, benchmarks), NEW filter, NEW acc \in Accumulated(I),
           NEW f \in DOMAIN benchmarks
    PROVE  LET next == FindFamily(benchmarks, filter, acc, f)
           IN  /\ next \in Accumulated(I)
               /\ Len(next.list) = Len(acc.list) + Len(Matching(benchmarks, filter, f))
<1> DEFINE matching == Matching(benchmarks, filter, f)
           m == Len(matching)
           more == [k \in DOMAIN matching |->
                       [instance |-> matching[k], family_index |-> acc.index,
                        per_family_instance_index |-> k - 1]]
           l == acc.list \o more
           i == NextFamilyIndex(acc.index, matching)
<1>1. matching \in Seq(I)
  BY MadeType, AmongProperties DEF Matching
<1> HIDE DEF matching
<1>2. more \in Seq(Entries(I)) /\ Len(more) = m
  <2>1. m \in Nat /\ DOMAIN matching = 1 .. m /\ \A k \in 1 .. m : matching[k] \in I
    BY <1>1, LenProperties
  <2> HIDE DEF m
  <2>2. ASSUME NEW k \in 1 .. m
        PROVE  [instance |-> matching[k], family_index |-> acc.index,
                per_family_instance_index |-> k - 1] \in Entries(I)
    BY <2>1 DEF Entries, Accumulated
  <2>3. more \in [1 .. m -> Entries(I)]
    BY <2>1, <2>2
  <2> HIDE DEF more
  <2>4. QED
    BY <2>1, <2>3, SeqDef
<1> HIDE DEF more
<1>3. l \in Seq(Entries(I)) /\ Len(l) = Len(acc.list) + m
  <2> DEFINE a == acc.list
             E == Entries(I)
  <2>1. a \in Seq(E)
    BY DEF Accumulated
  <2> HIDE DEF a, E
  <2>2. more \in Seq(E) /\ Len(more) = m
    BY <1>2 DEF E
  <2>3. a \o more \in Seq(E) /\ Len(a \o more) = Len(a) + Len(more)
    BY <2>1, <2>2, ConcatProperties
  <2>4. QED
    BY <2>2, <2>3 DEF a, E
<1>4. i \in Nat
  BY DEF NextFamilyIndex, Accumulated
<1>5. FindFamily(benchmarks, filter, acc, f) = [index |-> i, list |-> l]
  BY Zenon DEF FindFamily, matching, more
<1> HIDE DEF l, i
<1>6. [index |-> i, list |-> l] \in Accumulated(I)
  BY <1>3, <1>4 DEF Accumulated
<1>7. QED
  BY <1>3, <1>5, <1>6 DEF matching, m

\* What the recursive function in Instances must satisfy.
FindFolds(h, benchmarks, filter, s) ==
    h = [t \in SUBSET DOMAIN s |->
            IF t = {} THEN [index |-> 0, list |-> <<>>]
            ELSE FindFamily(benchmarks, filter, h[t \ {Max(t)}], s[Max(t)])]

LEMMA FindFoldsExist ==
    ASSUME NEW I, NEW benchmarks \in Seq(Benchmark), Yields(I, benchmarks), NEW filter,
           NEW s, s = [f \in DOMAIN benchmarks |-> f]
    PROVE  \E h : FindFolds(h, benchmarks, filter, s)
<1> DEFINE n == Len(benchmarks)
           A == Accumulated(I)
           base == [index |-> 0, list |-> <<>>]
           G == [p \in (1 .. n) \X A |-> FindFamily(benchmarks, filter, p[2], p[1])]
<1>1. n \in Nat /\ DOMAIN benchmarks = 1 .. n
  BY LenProperties
<1>2. base \in A
  BY EmptySeq DEF Accumulated
<1>3. \A k \in 1 .. n, v \in A : FindFamily(benchmarks, filter, v, k) \in A
  BY <1>1, FindFamilyType
<1> HIDE DEF A, n, base
<1>4. \A k \in 1 .. n, v \in A :
          G[<<k, v>>] = FindFamily(benchmarks, filter, v, k) /\ G[<<k, v>>] \in A
  BY <1>3
<1> HIDE DEF G
<1>5. PICK g \in [SUBSET (1 .. n) -> A] : FoldsLeft(g, n, G, base)
  BY <1>1, <1>2, <1>4, FoldLeftExists
<1>6. ASSUME NEW t \in SUBSET (1 .. n)
      PROVE  g[t] = IF t = {} THEN base ELSE FindFamily(benchmarks, filter, g[t \ {Max(t)}], s[Max(t)])
  <2>1. g[t] = IF t = {} THEN base ELSE G[<<Max(t), g[t \ {Max(t)}]>>]
    BY <1>5 DEF FoldsLeft
  <2>2. CASE t # {}
    <3>1. Max(t) \in 1 .. n
      BY <1>1, <2>2, MaxIn
    <3>2. g[t \ {Max(t)}] \in A /\ s[Max(t)] = Max(t)
      BY <1>1, <3>1
    <3>3. QED
      BY <1>4, <2>1, <2>2, <3>1, <3>2
  <2>3. QED
    BY <2>1, <2>2
<1>7. DOMAIN s = 1 .. n
  BY <1>1
<1>8. FindFolds(g, benchmarks, filter, s)
  BY <1>6, <1>7 DEF FindFolds, base
<1>9. QED
  BY <1>8

\* p[k] is what has been found in the first k families.
Finding(p, benchmarks, filter, I) ==
    LET n == Len(benchmarks)
    IN  /\ p \in [0 .. n -> Accumulated(I)]
        /\ p[0] = [index |-> 0, list |-> <<>>]
        /\ \A k \in 1 .. n : p[k] = FindFamily(benchmarks, filter, p[k - 1], k)
        /\ Instances(benchmarks, filter) = p[n].list

LEMMA FindingExists ==
    ASSUME NEW I, NEW benchmarks \in Seq(Benchmark), Yields(I, benchmarks), NEW filter
    PROVE  \E p : Finding(p, benchmarks, filter, I)
<1> DEFINE n == Len(benchmarks)
           A == Accumulated(I)
           s == [f \in DOMAIN benchmarks |-> f]
           h == CHOOSE g : FindFolds(g, benchmarks, filter, s)
           base == [index |-> 0, list |-> <<>>]
<1>1. n \in Nat /\ DOMAIN benchmarks = 1 .. n
  BY LenProperties
<1>2. DOMAIN s = 1 .. n /\ \A k \in 1 .. n : s[k] = k
  BY <1>1
<1>3. Instances(benchmarks, filter) = h[DOMAIN s].list
  BY DEF Instances, FoldLeft, MapThenFoldSet, FindFolds, FindFamily, Matching, Made
<1>4. \E g : FindFolds(g, benchmarks, filter, s)
  BY FindFoldsExist
<1> HIDE DEF s
<1>5. FindFolds(h, benchmarks, filter, s)
  BY <1>4, Zenon
<1> HIDE DEF h, n
<1>6. h[1 .. 0] = base
  <2>1. 1 .. 0 = {}
    OBVIOUS
  <2>2. QED
    BY <1>5, <2>1 DEF FindFolds
<1>7. base \in A
  BY EmptySeq DEF Accumulated
<1> HIDE DEF A, base
<1>8. ASSUME NEW k \in 1 .. n
      PROVE  h[1 .. k] = FindFamily(benchmarks, filter, h[1 .. k - 1], k)
  <2> DEFINE t == 1 .. k
  <2>1. /\ t \in SUBSET (1 .. n) /\ t # {} /\ Max(t) = k /\ t \ {k} = 1 .. k - 1
    BY <1>1, FirstIndices
  <2> HIDE DEF t
  <2>2. h[t] = FindFamily(benchmarks, filter, h[t \ {Max(t)}], s[Max(t)])
    BY <1>2, <1>5, <2>1 DEF FindFolds
  <2>3. QED
    BY <1>2, <2>1, <2>2 DEF t
<1> DEFINE p == [k \in 0 .. n |-> h[1 .. k]]
           U == {k \in Nat : k <= n => h[1 .. k] \in A}
<1>9. 0 \in U
  BY <1>6, <1>7
<1>10. ASSUME NEW k \in Nat, k \in U PROVE k + 1 \in U
  <2> SUFFICES ASSUME k + 1 <= n PROVE h[1 .. k + 1] \in A
    OBVIOUS
  <2>1. k + 1 \in 1 .. n /\ (k + 1) - 1 = k /\ h[1 .. k] \in A /\ k + 1 \in DOMAIN benchmarks
    BY <1>1, <1>10
  <2>2. h[1 .. k + 1] = FindFamily(benchmarks, filter, h[1 .. k], k + 1)
    BY <1>8, <2>1
  <2>3. QED
    BY <2>1, <2>2, FindFamilyType DEF A
<1> HIDE DEF U
<1>11. Nat \subseteq U
  BY <1>9, <1>10, NatInductionSet
<1>12. \A k \in 0 .. n : p[k] = h[1 .. k] /\ p[k] \in A
  BY <1>1, <1>11 DEF U
<1>13. p \in [0 .. n -> A]
  BY <1>12
<1> HIDE DEF p
<1>14. \A k \in 1 .. n : k \in 0 .. n /\ k - 1 \in 0 .. n
  BY <1>1
<1>15. 0 \in 0 .. n /\ n \in 0 .. n
  BY <1>1
<1>16. p[0] = base /\ \A k \in 1 .. n : p[k] = FindFamily(benchmarks, filter, p[k - 1], k)
  BY <1>6, <1>8, <1>12, <1>14, <1>15
<1>17. Instances(benchmarks, filter) = p[n].list
  BY <1>2, <1>3, <1>12, <1>15
<1>18. Finding(p, benchmarks, filter, I)
  BY <1>13, <1>16, <1>17 DEF Finding, base, A, n
<1>19. QED
  BY <1>18

\* FindBenchmarks lists instances only.
LEMMA InstancesType ==
    ASSUME NEW I, NEW benchmarks \in Seq(Benchmark), Yields(I, benchmarks), NEW filter
    PROVE  Instances(benchmarks, filter) \in Seq(Entries(I))
<1>1. PICK p : Finding(p, benchmarks, filter, I)
  BY FindingExists
<1>2. Len(benchmarks) \in 0 .. Len(benchmarks)
  BY LenProperties
<1>3. QED
  BY <1>1, <1>2 DEF Finding, Accumulated

LEMMA FoundStep == RegistryInv /\ FoundInv /\ [Next]_vars => FoundInv'
<1> SUFFICES ASSUME RegistryInv, FoundInv, [Next]_vars PROVE FoundInv'
  OBVIOUS
<1>1. CASE UNCHANGED vars
  BY <1>1 DEF vars, FoundInv
<1>2. ASSUME UNCHANGED found PROVE FoundInv'
  BY <1>2 DEF FoundInv
<1>3. CASE \E path \in PathNames, function \in Functions : Register(path, function)
  BY <1>2, <1>3 DEF Register
<1>4. CASE \E f \in DOMAIN families_ : AddArguments(f) \/ AddSettings(f) \/ AddThreads(f)
  <2>1. PICK f \in DOMAIN families_ : AddArguments(f) \/ AddSettings(f) \/ AddThreads(f)
    BY <1>4
  <2>2. ASSUME AddArguments(f) PROVE UNCHANGED found
    BY <2>2, Zenon DEF AddArguments, Args, ArgRange, ArgsProduct, Ranges, DenseRange, ArgNames,
        RangeMultiplier, Method
  <2>3. ASSUME AddSettings(f) PROVE UNCHANGED found
    BY <2>3, Zenon DEF AddSettings, MinTime, MinWarmUpTime, Iterations, Repetitions,
        MeasureProcessCPUTime, UseRealTime, UseManualTime, Method
  <2>4. ASSUME AddThreads(f) PROVE UNCHANGED found
    BY <2>4, Zenon DEF AddThreads, Threads, ThreadPerCpu, ThreadRange, DenseThreadRange, Method
  <2>5. QED
    BY <1>2, <2>1, <2>2, <2>3, <2>4
<1>5. CASE \E filter \in Filters : FindBenchmarks(filter)
  <2>1. PICK filter \in Filters : FindBenchmarks(filter)
    BY <1>5
  <2>2. families_' \in Seq(Benchmark) /\ \A f \in DOMAIN families_' : WellFormed(families_'[f])
    BY <2>1, FindKeeps DEF RegistryInv
  <2>3. found' = Instances(families_', filter)
    BY <2>1 DEF FindBenchmarks
  <2> DEFINE I == InstancesOf(families_')
  <2>4. Yields(I, families_')
    BY YieldsAll
  <2> HIDE DEF I
  <2>5. found' \in Seq(Entries(I))
    BY <2>2, <2>3, <2>4, InstancesType
  <2>6. \A k \in DOMAIN found' : found'[k] \in Entries(I)
    BY <2>5, LenProperties
  <2>7. \A k \in DOMAIN found' : found'[k].instance \in I
    BY <2>6 DEF Entries
  <2>8. QED
    BY <2>2, <2>7 DEF FoundInv, I
<1>6. CASE ClearBenchmarks
  BY <1>2, <1>6 DEF ClearBenchmarks
<1>7. QED
  BY <1>1, <1>3, <1>4, <1>5, <1>6 DEF Next, PathNames

\* Names of one family that are the same are of the same arguments, and outside
\* of a CodSpeed build of as many threads.
LEMMA NamesSame ==
    ASSUME NEW b, WellFormed(b), NEW x \in ChoicesOf(b), NEW w \in ChoicesOf(b),
           str(name(b, x.args, x.threads)) = str(name(b, w.args, w.threads))
    PROVE  x.args = w.args /\ (~codspeed => x.threads = w.threads)
<1> DEFINE n == name(b, x.args, x.threads)
           m == name(b, w.args, w.threads)
           a == x.args
           c == w.args
           p == ArgsText(b, a)
           q == ArgsText(b, c)
<1>1. b \in Benchmark
  BY DEF WellFormed
<1>2. /\ a \in Tuple /\ c \in Tuple /\ x.threads \in 1 .. kmax /\ w.threads \in 1 .. kmax
      /\ b.thread_counts_ = <<>> => x.threads = w.threads
      /\ Len(a) = Len(c) /\ Len(a) \in Nat
  <2>1. b.args_ \in Seq(Tuple)
    BY <1>1 DEF Benchmark
  <2>2. PICK i \in DOMAIN b.args_ : a = b.args_[i]
    BY DEF ChoicesOf, ToSet
  <2>3. PICK j \in DOMAIN b.args_ : c = b.args_[j]
    BY DEF ChoicesOf, ToSet
  <2>4. Len(a) = Len(b.args_[1]) /\ Len(c) = Len(b.args_[1])
    BY <2>2, <2>3 DEF WellFormed, Sized
  <2>5. a \in Tuple /\ c \in Tuple
    BY <2>1, <2>2, <2>3, LenProperties
  <2>6. Len(a) \in Nat
    BY <2>5 DEF Tuple
  <2>7. /\ x.threads \in 1 .. kmax /\ w.threads \in 1 .. kmax
        /\ b.thread_counts_ = <<>> => x.threads = 1 /\ w.threads = 1
    BY DEF ChoicesOf
  <2>8. QED
    BY <2>4, <2>5, <2>6, <2>7
<1>3. p \in Text /\ q \in Text /\ (p = <<>> <=> a = <<>>) /\ (q = <<>> <=> c = <<>>)
  BY <1>1, <1>2, ArgsTextAppend, ArgsTextThere
<1>4. /\ n.function_name \in Text /\ n.args \in Text /\ n.min_time \in Text
      /\ n.min_warmup_time \in Text /\ n.iterations \in Text /\ n.repetitions \in Text
      /\ n.time_type \in Text /\ n.threads \in Text /\ n.args = p
      /\ n.threads = When(b.thread_counts_ # <<>>, <<"threads:">> \o Decimal(x.threads))
  BY <1>1, <1>2, NameParts
<1>5. /\ m.function_name \in Text /\ m.args \in Text /\ m.min_time \in Text
      /\ m.min_warmup_time \in Text /\ m.iterations \in Text /\ m.repetitions \in Text
      /\ m.time_type \in Text /\ m.threads \in Text /\ m.args = q
      /\ m.threads = When(b.thread_counts_ # <<>>, <<"threads:">> \o Decimal(w.threads))
  BY <1>1, <1>2, NameParts
<1>6. /\ n.function_name = m.function_name /\ n.min_time = m.min_time
      /\ n.min_warmup_time = m.min_warmup_time /\ n.iterations = m.iterations
      /\ n.repetitions = m.repetitions /\ n.time_type = m.time_type
  BY Zenon DEF name
<1>7. str(n) = str(m)
  OBVIOUS
<1> HIDE DEF n, m
<1>8. ASSUME NEW t \in Text, NEW u \in Text, Ends(t), Ends(u), p \o t = q \o u PROVE a = c
  <2>1. ArgsRead(b, Len(a))
    BY <1>1, <1>2, ArgsTell
  <2> HIDE DEF a, c
  <2>2. ArgsText(b, a) \o t = ArgsText(b, c) \o u
    BY <1>8
  <2>3. QED
    BY <1>2, <1>8, <2>1, <2>2, Zenon DEF ArgsRead
<1>9. ASSUME a = <<>> PROVE a = c
  <2> HIDE DEF a, c, p, q
  <2>1. c = <<>>
    BY <1>2, <1>9 DEF Tuple
  <2>2. QED
    BY <1>9, <2>1
<1> HIDE DEF p, q
<1>10. ASSUME a # <<>>, codspeed PROVE a = c
  <2> DEFINE f == n.function_name
             open == <<"[">>
             close == <<"]">>
  <2>1. p # <<>> /\ q # <<>>
    <3>1. c # <<>>
      BY <1>2, <1>10 DEF Tuple
    <3>2. QED
      BY <1>3, <1>10, <3>1
  <2>2. str(n) = f \o ((open \o p) \o close) /\ str(m) = f \o ((open \o q) \o close)
    BY <1>4, <1>5, <1>6, <1>10, <2>1 DEF str, When
  <2>3. f \in Text /\ open \in Text /\ close \in Text /\ Ends(close)
    BY <1>4, WordTexts, DelimiterEnds
  <2> HIDE DEF f, open, close
  <2>4. Regroups(open, p, close) /\ Regroups(open, q, close)
    BY <1>3, <2>3, Regroup
  <2> DEFINE pc == p \o close
             qc == q \o close
  <2>5. pc \in Text /\ qc \in Text
    BY <1>3, <2>3, ConcatText
  <2>6. f \o (open \o pc) = f \o (open \o qc)
    BY <1>7, <2>2, <2>4 DEF Regroups
  <2> HIDE DEF pc, qc
  <2>7. open \o pc \in Text /\ open \o qc \in Text
    BY <2>3, <2>5, ConcatText
  <2>8. open \o pc = open \o qc
    BY <2>3, <2>6, <2>7, SameFront
  <2>9. pc = qc
    BY <2>3, <2>5, <2>8, SameFront
  <2>10. QED
    BY <1>8, <2>3, <2>9 DEF pc, qc
<1>11. ASSUME a # <<>>, ~codspeed PROVE a = c
  <2> DEFINE f == n.function_name
             d == f \o When(f # <<>>, <<"/">>)
             t == Middle(n) \o Behind(n.threads)
             u == Middle(m) \o Behind(m.threads)
  <2>1. p # <<>> /\ q # <<>>
    <3>1. c # <<>>
      BY <1>2, <1>11 DEF Tuple
    <3>2. QED
      BY <1>3, <1>11, <3>1
  <2>2. Join(f, n.args) = d \o p /\ Join(m.function_name, m.args) = d \o q
    BY <1>4, <1>5, <1>6, <2>1 DEF Join
  <2>3. d \in Text
    <3>1. When(f # <<>>, <<"/">>) \in Text
      BY WordTexts, WhenText
    <3>2. QED
      BY <1>4, <3>1, ConcatText
  <2> HIDE DEF d
  <2>4. d \o p # <<>> /\ d \o q # <<>>
    BY <1>3, <2>1, <2>3, ConcatNone
  <2>5. str(n) = (d \o p) \o t /\ t \in Text /\ Ends(t)
    BY <1>4, <1>11, <2>2, <2>4, StrOfParts
  <2>6. str(m) = (d \o q) \o u /\ u \in Text /\ Ends(u)
    BY <1>5, <1>11, <2>2, <2>4, StrOfParts
  <2> HIDE DEF t, u
  <2>7. Regroups(d, p, t) /\ Regroups(d, q, u)
    BY <1>3, <2>3, <2>5, <2>6, Regroup
  <2>8. d \o (p \o t) = d \o (q \o u)
    BY <1>7, <2>5, <2>6, <2>7 DEF Regroups
  <2>9. p \o t \in Text /\ q \o u \in Text
    BY <1>3, <2>5, <2>6, ConcatText
  <2>10. p \o t = q \o u
    BY <2>3, <2>8, <2>9, SameFront
  <2>11. QED
    BY <1>8, <2>5, <2>6, <2>10
<1>12. a = c
  BY <1>9, <1>10, <1>11
<1>13. ASSUME ~codspeed, b.thread_counts_ # <<>> PROVE x.threads = w.threads
  <2> DEFINE word == <<"threads:">>
             k == Decimal(x.threads)
             l == Decimal(w.threads)
             g == BeforeThreads(n)
             h == word \o k
             i == word \o l
  <2>1. x.threads \in Integer /\ w.threads \in Integer
    BY <1>2, KmaxType DEF Integer
  <2>2. word \in Text /\ k \in Text /\ l \in Text /\ k # <<>> /\ l # <<>>
    BY <2>1, DecimalType, WordTexts
  <2>3. n.threads = h /\ m.threads = i
    BY <1>4, <1>5, <1>13 DEF When
  <2> HIDE DEF word, k, l
  <2>4. h \in Text /\ i \in Text /\ h # <<>> /\ i # <<>>
    BY <2>2, ConcatText, ConcatNone
  <2> HIDE DEF h, i
  <2>5. BeforeThreads(n) = BeforeThreads(m)
    BY <1>4, <1>5, <1>6, <1>12 DEF BeforeThreads, p, q
  <2>6. str(n) = Join(g, h) /\ g \in Text
    BY <1>4, <1>13, <2>3, StrOfParts
  <2>7. str(m) = Join(g, i)
    BY <1>5, <1>13, <2>3, <2>5, StrOfParts
  <2> HIDE DEF g
  <2> DEFINE e == g \o When(g # <<>>, <<"/">>)
  <2>8. Join(g, h) = e \o h /\ Join(g, i) = e \o i
    BY <2>4 DEF Join
  <2>9. e \in Text
    <3>1. When(g # <<>>, <<"/">>) \in Text
      BY WordTexts, WhenText
    <3>2. QED
      BY <2>6, <3>1, ConcatText
  <2> HIDE DEF e
  <2>10. h = i
    BY <1>7, <2>4, <2>6, <2>7, <2>8, <2>9, SameFront
  <2>11. k = l
    BY <2>2, <2>10, SameFront DEF h, i
  <2>12. QED
    BY <2>1, <2>11, DecimalInjective DEF k, l
<1>14. QED
  BY <1>2, <1>12, <1>13

\* NamesTellApart, for every family, setting and filter: an argument's digits end
\* at the delimiter behind it, and the parts between the arguments and the
\* threads are the family's, so that equal texts are read back to equal
\* arguments and, in a plain build, to as many threads.
THEOREM RegistrationNamesTellApart == Spec => []NamesTellApart
<1>1. Init => FoundInv
  <2>1. DOMAIN <<>> = 1 .. 0 /\ 1 .. 0 = {} /\ <<>> \in Seq(Benchmark)
    OBVIOUS
  <2>2. QED
    BY <2>1 DEF Init, FoundInv
<1>2. FoundInv => NamesTellApart
  <2> SUFFICES ASSUME FoundInv, NEW k \in DOMAIN found, NEW l \in DOMAIN found, Namesakes(k, l)
               PROVE  /\ found[k].instance.args = found[l].instance.args
                      /\ ~codspeed => found[k].instance.threads = found[l].instance.threads
    BY DEF NamesTellApart
  <2>1. PICK benchmarks \in Seq(Benchmark) :
            /\ \A f \in DOMAIN benchmarks : WellFormed(benchmarks[f])
            /\ \A j \in DOMAIN found : found[j].instance \in InstancesOf(benchmarks)
    BY DEF FoundInv
  <2> DEFINE y == found[k].instance
             z == found[l].instance
  <2>2. PICK f \in DOMAIN benchmarks : \E x \in ChoicesOf(benchmarks[f]) : y = Instance(f, benchmarks[f], x)
    BY <2>1 DEF InstancesOf
  <2>3. PICK x \in ChoicesOf(benchmarks[f]) : y = Instance(f, benchmarks[f], x)
    BY <2>2
  <2>4. PICK g \in DOMAIN benchmarks : \E w \in ChoicesOf(benchmarks[g]) : z = Instance(g, benchmarks[g], w)
    BY <2>1 DEF InstancesOf
  <2>5. PICK w \in ChoicesOf(benchmarks[g]) : z = Instance(g, benchmarks[g], w)
    BY <2>4
  <2> HIDE DEF y, z
  <2>6. /\ y.benchmark = f /\ y.args = x.args /\ y.threads = x.threads
        /\ y.name = name(benchmarks[f], x.args, x.threads)
    BY <2>3, Zenon DEF Instance
  <2>7. /\ z.benchmark = g /\ z.args = w.args /\ z.threads = w.threads
        /\ z.name = name(benchmarks[g], w.args, w.threads)
    BY <2>5, Zenon DEF Instance
  <2>8. f = g /\ str(y.name) = str(z.name)
    BY <2>6, <2>7 DEF Namesakes, y, z
  <2>9. WellFormed(benchmarks[f])
    BY <2>1
  <2>10. x.args = w.args /\ (~codspeed => x.threads = w.threads)
    BY <2>6, <2>7, <2>8, <2>9, NamesSame
  <2>11. QED
    BY <2>6, <2>7, <2>10 DEF y, z
<1>3. QED
  BY <1>1, <1>2, RegistrationInvariance, FoundStep, PTL DEF Spec

-----------------------------------------------------------------------------
(* Finding again. *)

LEMMA FoundTwice ==
    ASSUME NEW b, WellFormed(b)
    PROVE  Found(Found(b)) = Found(b)
<1>1. CASE ArgsCnt(b) = -1
  <2> DEFINE t == <<(<<>>)>>
             c == WithArgs(b, t)
  <2>1. b.args_ \in Seq(Tuple) /\ b \in Benchmark
    BY DEF WellFormed, Benchmark
  <2>2. b.args_ = <<>>
    <3>1. b.args_ # <<>> => b.args_[1] \in Tuple
      BY <2>1
    <3>2. b.args_ # <<>> => Len(b.args_[1]) \in Nat
      BY <3>1 DEF Tuple
    <3>3. QED
      BY <1>1, <3>2 DEF ArgsCnt
  <2>3. Found(b) = c
    BY <1>1 DEF Found
  <2>4. t # <<>> /\ t[1] = <<>> /\ Len(t[1]) = 0
    OBVIOUS
  <2>5. c.args_ = t
    <3>1. <<>> \o t = t
      OBVIOUS
    <3> HIDE DEF t
    <3>2. QED
      BY <2>1, <2>2, <3>1 DEF WithArgs, Benchmark
  <2> HIDE DEF c, t
  <2>6. ArgsCnt(c) = 0
    BY <2>4, <2>5 DEF ArgsCnt
  <2>7. QED
    BY <2>3, <2>6 DEF Found
<1>2. CASE ArgsCnt(b) # -1
  BY <1>2 DEF Found
<1>3. QED
  BY <1>1, <1>2

\* A filter and its negation share out the names that are not disabled.
LEMMA RunsEither ==
    ASSUME NEW filter, filter.negative \in BOOLEAN,
           NEW opposite, opposite.re = filter.re, opposite.negative = ~filter.negative, NEW n
    PROVE  /\ ~IsDisabled(n) <=> Runs(filter, n) \/ Runs(opposite, n)
           /\ ~(Runs(filter, n) /\ Runs(opposite, n))
<1>1. Match(opposite, n) <=> Match(filter, n)
  BY DEF Match
<1>2. Match(filter, n) \in BOOLEAN /\ Match(opposite, n) \in BOOLEAN
  BY DEF Match
<1>3. (Match(filter, n) # filter.negative) <=> ~(Match(opposite, n) # opposite.negative)
  BY <1>1, <1>2
<1>4. QED
  BY <1>3, Zenon DEF Runs

\* Two selections that share out what a third selects.
LEMMA SelectionsShared ==
    ASSUME NEW D, NEW R, NEW s \in Seq(D), NEW g \in [D -> R], NEW S, NEW T, NEW V,
           \A x \in D : (x \in V <=> g[x] \in S \/ g[x] \in T) /\ ~(g[x] \in S /\ g[x] \in T)
    PROVE  /\ Each(g, s) \in Seq(R)
           /\ Len(Among(Each(g, s), S)) + Len(Among(Each(g, s), T)) = Len(Among(s, V))
<1>a. /\ Among(<<>>, S) = <<>>
      /\ \A q \in Seq(R) : Among(q, S) \in Seq(R)
      /\ \A q \in Seq(R), y \in R :
            Among(Append(q, y), S) = IF y \in S THEN Append(Among(q, S), y) ELSE Among(q, S)
  BY AmongProperties
<1>b. /\ Among(<<>>, T) = <<>>
      /\ \A q \in Seq(R) : Among(q, T) \in Seq(R)
      /\ \A q \in Seq(R), y \in R :
            Among(Append(q, y), T) = IF y \in T THEN Append(Among(q, T), y) ELSE Among(q, T)
  BY AmongProperties
<1>c. /\ Among(<<>>, V) = <<>>
      /\ \A q \in Seq(D) : Among(q, V) \in Seq(D)
      /\ \A q \in Seq(D), y \in D :
            Among(Append(q, y), V) = IF y \in V THEN Append(Among(q, V), y) ELSE Among(q, V)
  BY AmongProperties
<1> DEFINE U == {q \in Seq(D) : Len(Among(Each(g, q), S)) + Len(Among(Each(g, q), T)) = Len(Among(q, V))}
<1>1. <<>> \in U
  <2>1. Len(<<>>) = 0 /\ <<>> \in Seq(D)
    OBVIOUS
  <2>2. QED
    BY <1>a, <1>b, <1>c, <2>1, EachEmpty
<1>2. ASSUME NEW q \in Seq(D), NEW x \in D, q \in U PROVE Append(q, x) \in U
  <2> DEFINE e == Each(g, q)
             y == g[x]
             s1 == Among(e, S)
             s2 == Among(e, T)
             s3 == Among(q, V)
  <2>1. e \in Seq(R) /\ y \in R /\ Each(g, Append(q, x)) = Append(e, y)
    <3>1. e \in Seq(R) /\ y \in R
      BY EachType
    <3>2. Each(g, q) \in Seq(R) /\ Each(g, Append(q, x)) = Append(Each(g, q), g[x])
      BY <3>1, EachAppend, SMTT(30)
    <3>3. QED
      BY <3>1, <3>2
  <2>2. Len(s1) + Len(s2) = Len(s3)
    BY <1>2
  <2>3. (x \in V <=> y \in S \/ y \in T) /\ ~(y \in S /\ y \in T)
    OBVIOUS
  <2> HIDE DEF e, y
  <2>4. /\ Among(Append(e, y), S) = IF y \in S THEN Append(s1, y) ELSE s1
        /\ Among(Append(e, y), T) = IF y \in T THEN Append(s2, y) ELSE s2
        /\ Among(Append(q, x), V) = IF x \in V THEN Append(s3, x) ELSE s3
    BY <1>a, <1>b, <1>c, <2>1
  <2>5. s1 \in Seq(R) /\ s2 \in Seq(R) /\ s3 \in Seq(D)
    BY <1>a, <1>b, <1>c, <2>1
  <2> HIDE DEF s1, s2, s3
  <2>6. /\ Len(Append(s1, y)) = Len(s1) + 1 /\ Len(Append(s2, y)) = Len(s2) + 1
        /\ Len(Append(s3, x)) = Len(s3) + 1
        /\ Len(s1) \in Nat /\ Len(s2) \in Nat /\ Len(s3) \in Nat
    BY <2>1, <2>5
  <2> DEFINE n1 == Among(Append(e, y), S)
             n2 == Among(Append(e, y), T)
             n3 == Among(Append(q, x), V)
  <2>7. Len(n1) + Len(n2) = Len(n3)
    <3>1. CASE y \in S
      <4>1. n1 = Append(s1, y) /\ n2 = s2 /\ n3 = Append(s3, x)
        BY <2>3, <2>4, <3>1
      <4> HIDE DEF n1, n2, n3
      <4>2. QED
        BY <2>2, <2>6, <4>1
    <3>2. CASE y \in T
      <4>1. n1 = s1 /\ n2 = Append(s2, y) /\ n3 = Append(s3, x)
        BY <2>3, <2>4, <3>2
      <4> HIDE DEF n1, n2, n3
      <4>2. QED
        BY <2>2, <2>6, <4>1
    <3>3. CASE y \notin S /\ y \notin T
      <4>1. n1 = s1 /\ n2 = s2 /\ n3 = s3
        BY <2>3, <2>4, <3>3
      <4> HIDE DEF n1, n2, n3
      <4>2. QED
        BY <2>2, <4>1
    <3>4. QED
      BY <3>1, <3>2, <3>3
  <2>8. Append(q, x) \in Seq(D)
    OBVIOUS
  <2>9. QED
    BY <2>1, <2>7, <2>8
<1> HIDE DEF U
<1>3. Seq(D) \subseteq U
  BY <1>1, <1>2, SequenceInduction
<1>4. QED
  BY <1>3, EachType DEF U

ArgsAndThreads == [args : Tuple, threads : 1 .. kmax]

Enabled(benchmarks, f) ==
    LET all == Combinations(benchmarks[f])
    IN  Among(all, {x \in ToSet(all) : ~IsDisabled(name(benchmarks[f], x.args, x.threads))})

\* Each enabled combination of a family matches the filter or its negation.
LEMMA FamilyShared ==
    ASSUME NEW benchmarks \in Seq(Benchmark), NEW f \in DOMAIN benchmarks,
           NEW filter, filter.negative \in BOOLEAN,
           NEW opposite, opposite.re = filter.re, opposite.negative = ~filter.negative
    PROVE  /\ Len(Matching(benchmarks, filter, f)) + Len(Matching(benchmarks, opposite, f))
                   = Len(Enabled(benchmarks, f))
           /\ Enabled(benchmarks, f) \in Seq(ArgsAndThreads)
           /\ Len(Matching(benchmarks, filter, f)) \in Nat
           /\ Len(Matching(benchmarks, opposite, f)) \in Nat
<1> DEFINE b == benchmarks[f]
           C == ChoicesOf(b)
           all == Combinations(b)
           g == [x \in C |-> Instance(f, b, x)]
           R == {g[x] : x \in C}
           made == Each(g, all)
           S == {y \in R : Runs(filter, y.name)}
           T == {y \in R : Runs(opposite, y.name)}
           V == {x \in C : ~IsDisabled(name(b, x.args, x.threads))}
<1>1. b \in Benchmark
  <2>1. DOMAIN benchmarks = 1 .. Len(benchmarks) /\ Len(benchmarks) \in Nat
    BY LenProperties
  <2>2. QED
    BY <2>1
<1> HIDE DEF b
<1>2. all \in Seq(C) /\ \A k \in DOMAIN all : all[k] \in C
  <2>1. all \in Seq(C)
    BY <1>1, CombinationsType
  <2> HIDE DEF all, C
  <2>2. QED
    BY <2>1, LenProperties
<1>3. C \subseteq ArgsAndThreads
  <2>1. b.args_ \in Seq(Tuple)
    BY <1>1 DEF Benchmark
  <2>2. ToSet(b.args_) \subseteq Tuple
    BY <2>1, ToSetProperties
  <2>3. QED
    BY <2>2 DEF ChoicesOf, ArgsAndThreads
<1> HIDE DEF all, C
<1>4. g \in [C -> R] /\ \A x \in C : g[x] = Instance(f, b, x)
  OBVIOUS
<1>5. Made(benchmarks, f) = made
  <2>1. Made(benchmarks, f) = [k \in DOMAIN all |-> Instance(f, b, all[k])]
    BY DEF Made, all, b
  <2>2. \A k \in DOMAIN all : g[all[k]] = Instance(f, b, all[k])
    BY <1>2, <1>4
  <2> HIDE DEF g
  <2>3. QED
    BY <2>1, <2>2 DEF Each
<1>6. \A x \in C : g[x].name = name(b, x.args, x.threads)
  BY <1>4, Zenon DEF Instance
<1> HIDE DEF g
<1>7. made \in Seq(R)
  BY <1>2, <1>4, EachType
<1>8. \A x \in C : (x \in V <=> g[x] \in S \/ g[x] \in T) /\ ~(g[x] \in S /\ g[x] \in T)
  <2> TAKE x \in C
  <2> DEFINE n == name(b, x.args, x.threads)
  <2>1. g[x].name = n /\ g[x] \in R
    BY <1>4, <1>6
  <2> HIDE DEF n
  <2>2. (~IsDisabled(n) <=> Runs(filter, n) \/ Runs(opposite, n)) /\ ~(Runs(filter, n) /\ Runs(opposite, n))
    BY RunsEither
  <2>3. x \in V <=> ~IsDisabled(n)
    BY DEF n
  <2>4. (g[x] \in S <=> Runs(filter, n)) /\ (g[x] \in T <=> Runs(opposite, n))
    BY <2>1
  <2>5. QED
    BY <2>2, <2>3, <2>4
<1> HIDE DEF R, made
<1>9. ToSet(made) \subseteq R
  BY <1>7, ToSetProperties
<1>10. Matching(benchmarks, filter, f) = Among(made, S)
  BY <1>5, <1>7, <1>9, AmongAgree DEF Matching
<1>11. Matching(benchmarks, opposite, f) = Among(made, T)
  BY <1>5, <1>7, <1>9, AmongAgree DEF Matching
<1>12. Enabled(benchmarks, f) = Among(all, V)
  <2>1. ToSet(all) \subseteq C
    BY <1>2, ToSetProperties
  <2> DEFINE W == {x \in ToSet(all) : ~IsDisabled(name(b, x.args, x.threads))}
  <2>2. \A x \in ToSet(all) : x \in W <=> x \in V
    BY <2>1
  <2>3. Enabled(benchmarks, f) = Among(all, W)
    BY DEF Enabled, all, b
  <2> HIDE DEF W, V
  <2>4. QED
    BY <1>2, <2>2, <2>3, AmongAgree
<1> HIDE DEF S, T, V
<1>13. /\ Among(made, S) \in Seq(R) /\ Among(made, T) \in Seq(R) /\ Among(all, V) \in Seq(C)
  BY <1>2, <1>7, AmongProperties
<1>14. Len(Among(made, S)) + Len(Among(made, T)) = Len(Among(all, V))
  <2>1. all \in Seq(C) /\ g \in [C -> R]
    BY <1>2, <1>4
  <2>2. /\ Each(g, all) \in Seq(R)
        /\ Len(Among(Each(g, all), S)) + Len(Among(Each(g, all), T)) = Len(Among(all, V))
    BY <1>8, <2>1, SelectionsShared, SMTT(30)
  <2>3. QED
    BY <2>2 DEF made
<1>15. Among(all, V) \in Seq(ArgsAndThreads)
  BY <1>3, <1>13, SeqMonotonic
<1>16. QED
  BY <1>10, <1>11, <1>12, <1>13, <1>14, <1>15, LenProperties

\* The enabled combinations are as many as match the filter or its negation.
LEMMA AllShared ==
    ASSUME NEW benchmarks \in Seq(Benchmark), NEW filter, filter.negative \in BOOLEAN,
           NEW opposite, opposite.re = filter.re, opposite.negative = ~filter.negative
    PROVE  Len(Instances(benchmarks, filter)) + Len(Instances(benchmarks, opposite))
               = Len(FlattenSeq([f \in DOMAIN benchmarks |-> Enabled(benchmarks, f)]))
<1> DEFINE n == Len(benchmarks)
           I == InstancesOf(benchmarks)
           e == [f \in DOMAIN benchmarks |-> Enabled(benchmarks, f)]
<1>1. n \in Nat /\ DOMAIN benchmarks = 1 .. n
  BY LenProperties
<1>a. Yields(I, benchmarks)
  BY YieldsAll
<1>2. PICK p : Finding(p, benchmarks, filter, I)
  BY <1>a, FindingExists
<1>3. PICK q : Finding(q, benchmarks, opposite, I)
  BY <1>a, FindingExists
<1>4. e \in Seq(Seq(ArgsAndThreads)) /\ Len(e) = n /\ \A k \in 1 .. n : e[k] = Enabled(benchmarks, k)
  <2>1. \A f \in DOMAIN benchmarks : Enabled(benchmarks, f) \in Seq(ArgsAndThreads)
    BY FamilyShared
  <2> HIDE DEF n
  <2>2. e \in [1 .. n -> Seq(ArgsAndThreads)] /\ \A k \in 1 .. n : e[k] = Enabled(benchmarks, k)
    BY <1>1, <2>1
  <2> HIDE DEF e
  <2>3. QED
    BY <1>1, <2>2, SeqDef
<1> HIDE DEF e, I, n
<1> DEFINE count == [k \in 0 .. n |-> Len(p[k].list) + Len(q[k].list)]
           total == [k \in 0 .. n |-> Len(FlattenSeq(SubSeq(e, 1, k)))]
           U == {k \in Nat : k <= n => count[k] = total[k]}
<1>5. /\ \A k \in 0 .. n : count[k] = Len(p[k].list) + Len(q[k].list)
      /\ \A k \in 0 .. n : total[k] = Len(FlattenSeq(SubSeq(e, 1, k)))
  OBVIOUS
<1> HIDE DEF count, total
<1>6. count[0] = total[0]
  <2>1. 0 \in 0 .. n
    BY <1>1
  <2>2. SubSeq(e, 1, 0) = <<>> /\ Len(<<>>) = 0
    BY <1>4
  <2>3. total[0] = 0
    BY <1>5, <2>1, <2>2, FlattenProperties
  <2>4. Len(p[0].list) = 0 /\ Len(q[0].list) = 0
    <3>1. p[0].list = <<>> /\ q[0].list = <<>>
      BY <1>2, <1>3 DEF Finding
    <3>2. QED
      BY <2>2, <3>1
  <2> DEFINE lp == Len(p[0].list)
             lq == Len(q[0].list)
  <2>5. count[0] = lp + lq
    BY <1>5, <2>1
  <2>6. lp = 0 /\ lq = 0
    BY <2>4
  <2> HIDE DEF lp, lq, U
  <2>7. QED
    BY <2>3, <2>5, <2>6
<1>7. ASSUME NEW k \in Nat, k + 1 <= n, count[k] = total[k] PROVE count[k + 1] = total[k + 1]
  <2> DEFINE j == k + 1
             pk == p[k]
             qk == q[k]
             m1 == Len(Matching(benchmarks, filter, j))
             m2 == Len(Matching(benchmarks, opposite, j))
  <2>1. /\ j \in 1 .. n /\ j - 1 = k /\ k \in 0 .. n /\ j \in 0 .. n /\ j \in DOMAIN benchmarks
        /\ k < Len(e)
    BY <1>1, <1>4, <1>7
  <2> HIDE DEF j
  <2>2. /\ pk \in Accumulated(I) /\ qk \in Accumulated(I)
        /\ p[j] = FindFamily(benchmarks, filter, pk, j)
        /\ q[j] = FindFamily(benchmarks, opposite, qk, j)
    BY <1>2, <1>3, <2>1 DEF Finding, n
  <2> HIDE DEF pk, qk
  <2>3. p[j] \in Accumulated(I) /\ Len(p[j].list) = Len(pk.list) + m1
    BY <1>a, <2>1, <2>2, FindFamilyType
  <2>4. q[j] \in Accumulated(I) /\ Len(q[j].list) = Len(qk.list) + m2
    BY <1>a, <2>1, <2>2, FindFamilyType
  <2>5. m1 + m2 = Len(e[j]) /\ m1 \in Nat /\ m2 \in Nat
    BY <1>4, <2>1, FamilyShared
  <2> HIDE DEF m1, m2
  <2>6. total[j] = total[k] + Len(e[j]) /\ total[k] \in Nat /\ Len(e[j]) \in Nat
    <3> DEFINE a == SubSeq(e, 1, k)
               x == e[j]
               y == FlattenSeq(a)
    <3>1. SubSeq(e, 1, j) = Append(a, x) /\ a \in Seq(Seq(ArgsAndThreads)) /\ x \in Seq(ArgsAndThreads)
      BY <1>4, <2>1, FirstAndNext DEF j
    <3>2. total[k] = Len(y) /\ total[j] = Len(FlattenSeq(SubSeq(e, 1, j)))
      BY <1>5, <2>1
    <3> HIDE DEF a, x
    <3>3. FlattenSeq(Append(a, x)) = y \o x /\ y \in Seq(ArgsAndThreads)
      BY <3>1, FlattenProperties
    <3> HIDE DEF y
    <3>4. Len(y \o x) = Len(y) + Len(x) /\ Len(y) \in Nat /\ Len(x) \in Nat
      BY <3>1, <3>3, LenProperties
    <3>5. QED
      BY <3>1, <3>2, <3>3, <3>4 DEF x
  <2>7. Len(pk.list) + Len(qk.list) = total[k]
    BY <1>5, <1>7, <2>1 DEF pk, qk
  <2>8. Len(pk.list) \in Nat /\ Len(qk.list) \in Nat
    BY <2>2, LenProperties DEF Accumulated
  <2>9. count[j] = Len(p[j].list) + Len(q[j].list)
    BY <1>5, <2>1
  <2> DEFINE lp == Len(pk.list)
             lq == Len(qk.list)
             np == Len(p[j].list)
             nq == Len(q[j].list)
             le == Len(e[j])
  <2>10. /\ np = lp + m1 /\ nq = lq + m2 /\ m1 + m2 = le /\ total[j] = total[k] + le
         /\ lp + lq = total[k] /\ count[j] = np + nq
         /\ lp \in Nat /\ lq \in Nat /\ m1 \in Nat /\ m2 \in Nat /\ le \in Nat /\ total[k] \in Nat
    BY <2>3, <2>4, <2>5, <2>6, <2>7, <2>8, <2>9
  <2> HIDE DEF lp, lq, np, nq, le
  <2>11. count[j] = total[j]
    BY <2>10
  <2>12. QED
    BY <2>11 DEF j
<1>8. \A k \in Nat : k \in U => k + 1 \in U
  BY <1>1, <1>7
<1>9. 0 \in U
  BY <1>6
<1> HIDE DEF U
<1>10. Nat \subseteq U
  BY <1>8, <1>9, NatInductionSet
<1>11. count[n] = total[n] /\ n \in 0 .. n
  BY <1>1, <1>10 DEF U
<1>12. SubSeq(e, 1, n) = e
  BY <1>4, SubSeqFull
<1>13. Instances(benchmarks, filter) = p[n].list /\ Instances(benchmarks, opposite) = q[n].list
  BY <1>2, <1>3 DEF Finding, n
<1>14. QED
  BY <1>5, <1>11, <1>12, <1>13 DEF e

\* Finding again and finding by the negation, for one call.
LEMMA FindStep ==
    ASSUME RegistryInv, NEW filter \in Filters, FindBenchmarks(filter)
    PROVE  LET opposite == [filter EXCEPT !.negative = ~@]
           IN  /\ found' = Instances([f \in DOMAIN families_' |-> Found(families_'[f])], filter)
               /\ Len(found') + Len(Instances(families_', opposite))
                      = Len(FlattenSeq([f \in DOMAIN families_' |-> Enabled(families_', f)]))
<1> DEFINE n == Len(families_)
           F == families_'
           opposite == [filter EXCEPT !.negative = ~@]
<1>1. n \in Nat /\ DOMAIN families_ = 1 .. n /\ \A f \in 1 .. n : WellFormed(families_[f])
  BY DEF RegistryInv
<1>2. F = [f \in DOMAIN families_ |-> Found(families_[f])] /\ found' = Instances(F, filter)
  BY DEF FindBenchmarks
<1>3. F \in Seq(Benchmark)
  BY FindKeeps DEF RegistryInv
<1> HIDE DEF F, n
<1>4. \A f \in DOMAIN F : Found(F[f]) = F[f]
  BY <1>1, <1>2, FoundTwice
<1>5. [f \in DOMAIN F |-> Found(F[f])] = F
  <2>1. F = [f \in DOMAIN F |-> F[f]]
    BY <1>2
  <2>2. QED
    BY <1>4, <2>1
<1>6. filter.negative \in BOOLEAN /\ opposite.re = filter.re /\ opposite.negative = ~filter.negative
  BY RegistrationAssumption
<1> HIDE DEF opposite
<1>7. Len(Instances(F, filter)) + Len(Instances(F, opposite))
          = Len(FlattenSeq([f \in DOMAIN F |-> Enabled(F, f)]))
  BY <1>3, <1>6, AllShared
<1>8. QED
  BY <1>2, <1>5, <1>7 DEF F, opposite

\* FindAgain, for every registry and filter: a second RunSpecifiedBenchmarks
\* finds what the first did, and each enabled instance is found by a filter or
\* by its negation, and by one of them only.
THEOREM RegistrationFindAgain == Spec => FindAgain
<1>1. RegistryInv /\ [Next]_vars =>
          [\A filter \in Filters : FindBenchmarks(filter) =>
              LET opposite == [filter EXCEPT !.negative = ~@]
                  enabled(f) ==
                      LET all == Combinations(families_'[f])
                      IN  Among(all, {x \in ToSet(all) : ~IsDisabled(name(families_'[f], x.args, x.threads))})
                  each == FlattenSeq([f \in DOMAIN families_' |-> enabled(f)])
              IN  /\ found' = Instances([f \in DOMAIN families_' |-> Found(families_'[f])], filter)
                  /\ Len(found') + Len(Instances(families_', opposite)) = Len(each)]_vars
  BY FindStep, Zenon DEF Enabled
<1>2. QED
  BY <1>1, RegistrationInvariance, PTL DEF Spec, FindAgain
=============================================================================
