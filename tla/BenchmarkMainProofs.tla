------------------------- MODULE BenchmarkMainProofs -------------------------
(***************************************************************************)
(* Proofs about BenchmarkMain, for all command lines, environments,        *)
(* programs and results: which arguments Initialize leaves, which setting  *)
(* of a flag prevails, that no run is left out of an output, that values   *)
(* stand in their columns, and that a JSON output is a document.           *)
(***************************************************************************)
EXTENDS BenchmarkMain, FoldLemmas

-----------------------------------------------------------------------------
(* Which argument sets which flag. *)

\* The pieces of the flags' texts and of the arguments.
Piece == {"--", "=", "program", "benchmark_out", "_format"} \cup Names
         \cup UNION {ToSet(text) : text \in Arguments}

LEMMA ArgumentsType == Arguments \subseteq Seq(Piece)
<1>1. SUFFICES ASSUME NEW text \in Arguments PROVE text \in Seq(Piece)
  OBVIOUS
<1>2. text \in Seq(STRING)
  BY CommandLineAssumption
<1>3. Len(text) \in Nat /\ DOMAIN text = 1 .. Len(text) /\ text = [k \in 1 .. Len(text) |-> text[k]]
  BY <1>2, LenProperties
<1>4. \A k \in 1 .. Len(text) : text[k] \in ToSet(text)
  BY <1>3 DEF ToSet
<1>5. ToSet(text) \subseteq Piece
  BY DEF Piece
<1>6. text \in [1 .. Len(text) -> Piece]
  BY <1>3, <1>4, <1>5
<1>7. QED
  BY <1>3, <1>6, SeqDef

LEMMA TextType ==
    ASSUME NEW f \in Names
    PROVE  Text(f) \in Seq(Piece) /\ Len(Text(f)) \in Nat /\ Len(Text(f)) >= 2
<1>1. f \in Piece /\ "--" \in Piece /\ "benchmark_out" \in Piece /\ "_format" \in Piece
  BY DEF Piece
<1>2. QED
  BY <1>1 DEF Text

LEMMA PrefixPieces ==
    ASSUME NEW D, NEW s \in Seq(D), NEW t \in Seq(D)
    PROVE  IsPrefix(s, t) <=> Len(s) <= Len(t) /\ \A k \in 1 .. Len(s) : s[k] = t[k]
<1>1. Len(s) \in Nat /\ Len(t) \in Nat
  BY LenProperties
<1>2. SUFFICES ASSUME Len(s) <= Len(t)
               PROVE  SubSeq(s, 1, Len(s)) = SubSeq(t, 1, Len(s))
                          <=> \A k \in 1 .. Len(s) : s[k] = t[k]
  BY DEF IsPrefix
<1>3. QED
  BY <1>1, <1>2

LEMMA NamedIs ==
    ASSUME NEW D, NEW s \in Seq(D), NEW t \in Seq(D), NEW x \in D
    PROVE  IsPrefix(Append(s, x), t)
               <=> IsPrefix(s, t) /\ Len(t) > Len(s) /\ t[Len(s) + 1] = x
<1> DEFINE r == Append(s, x)
<1>1. /\ r \in Seq(D) /\ Len(r) = Len(s) + 1 /\ Len(s) \in Nat /\ Len(t) \in Nat
      /\ r[Len(s) + 1] = x /\ \A k \in 1 .. Len(s) : r[k] = s[k]
  BY AppendProperties, LenProperties
<1> HIDE DEF r
<1>2. IsPrefix(r, t) <=> Len(r) <= Len(t) /\ \A k \in 1 .. Len(r) : r[k] = t[k]
  BY <1>1, PrefixPieces
<1>3. IsPrefix(s, t) <=> Len(s) <= Len(t) /\ \A k \in 1 .. Len(s) : s[k] = t[k]
  BY PrefixPieces
<1> DEFINE n == Len(s)
<1> HIDE DEF n
<1>4. (\A k \in 1 .. n + 1 : r[k] = t[k]) <=> (\A k \in 1 .. n : r[k] = t[k]) /\ r[n + 1] = t[n + 1]
  <2>1. n \in Nat
    BY <1>1 DEF n
  <2>2. 1 .. n + 1 = (1 .. n) \cup {n + 1}
    BY <2>1
  <2>3. QED
    BY <2>2, Zenon
<1>5. (\A k \in 1 .. n : r[k] = t[k]) <=> (\A k \in 1 .. n : s[k] = t[k])
  BY <1>1, Zenon DEF n
<1>6. Len(r) <= Len(t) <=> n <= Len(t) /\ Len(t) > n
  BY <1>1 DEF n
<1>7. r[n + 1] = x /\ Len(r) = n + 1
  BY <1>1 DEF n
<1>8. IsPrefix(r, t) <=> Len(t) > n /\ (\A k \in 1 .. n : s[k] = t[k]) /\ t[n + 1] = x
  <2>1. (\A k \in 1 .. n + 1 : r[k] = t[k]) <=> (\A k \in 1 .. n : s[k] = t[k]) /\ t[n + 1] = x
    BY <1>4, <1>5, <1>7, Zenon
  <2>2. Len(r) <= Len(t) <=> Len(t) > n
    BY <1>1, <1>6 DEF n
  <2>3. IsPrefix(r, t) <=> Len(r) <= Len(t) /\ \A k \in 1 .. n + 1 : r[k] = t[k]
    BY <1>2, <1>7, Zenon
  <2>4. QED
    BY <2>1, <2>2, <2>3, Zenon
<1>9. IsPrefix(s, t) <=> n <= Len(t) /\ \A k \in 1 .. n : s[k] = t[k]
  BY <1>3 DEF n
<1>10. QED
  BY <1>1, <1>8, <1>9 DEF r, n

\* str is an argument that gives the flag a value, after "=".
Named(str, flag) == IsPrefix(Append(Text(flag), "="), str)
ValueText(str, flag) == SubSeq(str, Len(Text(flag)) + 2, Len(str))

LEMMA ParseFlagValueIs ==
    ASSUME NEW f \in Names, NEW str \in Seq(Piece), NEW optional \in BOOLEAN
    PROVE  ParseFlagValue(str, f, optional)
               = IF optional /\ str = Text(f) THEN {<<>>}
                 ELSE IF Named(str, f) THEN {ValueText(str, f)} ELSE {}
<1> DEFINE t == Text(f)
           n == Len(t)
<1>1. t \in Seq(Piece) /\ n \in Nat /\ Len(str) \in Nat /\ "=" \in Piece
  BY TextType, LenProperties DEF Piece
<1>2. Named(str, f) <=> IsPrefix(t, str) /\ Len(str) > n /\ str[n + 1] = "="
  BY <1>1, NamedIs DEF Named
<1>3. IsPrefix(t, str) <=> n <= Len(str) /\ \A k \in 1 .. n : t[k] = str[k]
  BY <1>1, PrefixPieces
<1> HIDE DEF t
<1>4. IsPrefix(t, str) /\ Len(str) = n <=> str = t
  <2>1. ASSUME IsPrefix(t, str), Len(str) = n PROVE str = t
    BY <1>1, <1>3, <2>1, SeqEqual
  <2>2. QED
    BY <1>1, <1>3, <2>1
<1>5. ParseFlagValue(str, f, optional)
          = IF ~IsPrefix(t, str) THEN {}
            ELSE IF optional /\ Len(str) = n THEN {<<>>}
            ELSE IF Len(str) > n /\ str[n + 1] = "=" THEN {SubSeq(str, n + 2, Len(str))}
            ELSE {}
  BY DEF ParseFlagValue, t
<1>6. ValueText(str, f) = SubSeq(str, n + 2, Len(str))
  BY DEF ValueText, t
<1> HIDE DEF n
<1>7. CASE ~IsPrefix(t, str)
  BY <1>2, <1>4, <1>5, <1>7 DEF t
<1>8. CASE IsPrefix(t, str) /\ Len(str) = n
  BY <1>1, <1>2, <1>4, <1>5, <1>6, <1>8 DEF t
<1>9. CASE IsPrefix(t, str) /\ Len(str) # n
  BY <1>1, <1>2, <1>4, <1>5, <1>6, <1>9 DEF t
<1>10. QED
  BY <1>7, <1>8, <1>9

LEMMA ChosenFromOne == ASSUME NEW x PROVE (CHOOSE y \in {x} : TRUE) = x
  OBVIOUS

\* What the text after "=" sets a flag to that is not a map.
Converted(flag, text) ==
    IF flag \in Bools THEN {IsTruthyFlagValue(text)}
    ELSE IF flag \in Strings THEN {text}
    ELSE IF flag \in Int32s THEN ParseInt32(text) ELSE ParseDouble(text)

LEMMA ConvertedIs ==
    ASSUME NEW flag \in Names \ KeyValues, NEW text
    PROVE  /\ Converted(flag, text) = {} \/ \E v : Converted(flag, text) = {v}
           /\ Converted(flag, text)
                = CASE flag \in Bools -> {IsTruthyFlagValue(text)}
                    [] flag \in Strings -> {text}
                    [] flag \in Int32s -> ParseInt32(text)
                    [] flag \in Doubles -> ParseDouble(text)
<1>1. Converted(flag, text) = {} \/ \E v : Converted(flag, text) = {v}
  BY DEF Converted, ParseInt32, ParseDouble
<1>2. /\ flag \in Bools => flag \notin Strings \cup Int32s \cup Doubles
      /\ flag \in Strings => flag \notin Int32s \cup Doubles
      /\ flag \in Int32s => flag \notin Doubles
      /\ flag \in Bools \cup Strings \cup Int32s \cup Doubles
  BY DEF Names, Bools, Strings, Int32s, Doubles, KeyValues
<1>3. QED
  BY <1>1, <1>2 DEF Converted

LEMMA SetToConverted ==
    ASSUME NEW f \in Names \ KeyValues, NEW str
    PROVE  SetTo(str, f) = IF f \in Bools /\ str = Text(f) THEN {TRUE}
                           ELSE IF Named(str, f) THEN Converted(f, ValueText(str, f)) ELSE {}
<1>1. f \notin KeyValues
  OBVIOUS
<1>2. SetTo(str, f) = IF f \in Bools /\ str = Text(f) THEN {TRUE}
                      ELSE IF ~Named(str, f) THEN {}
                      ELSE CASE f \in Bools -> {IsTruthyFlagValue(ValueText(str, f))}
                             [] f \in Strings -> {ValueText(str, f)}
                             [] f \in Int32s -> ParseInt32(ValueText(str, f))
                             [] f \in Doubles -> ParseDouble(ValueText(str, f))
  <2>1. CASE f \in Bools /\ str = Text(f)
    BY <2>1 DEF SetTo
  <2>2. CASE ~(f \in Bools /\ str = Text(f)) /\ ~Named(str, f)
    BY <2>2 DEF SetTo, Named
  <2>3. CASE ~(f \in Bools /\ str = Text(f)) /\ Named(str, f)
    <3>1. f \in Bools \cup Strings \cup Int32s \cup Doubles
      BY DEF Names
    <3>2. QED
      BY <1>1, <2>3, <3>1 DEF SetTo, Named, ValueText
  <2>4. QED
    BY <2>1, <2>2, <2>3
<1>3. QED
  BY <1>2, ConvertedIs

\* ParseFlag consumes an argument that sets the flag, and keeps the value else.
LEMMA ParseFlagConsumes ==
    ASSUME NEW f \in Names \ KeyValues, NEW str \in Seq(Piece), NEW old
    PROVE  /\ ParseFlag(str, f, old).consumed <=> SetTo(str, f) # {}
           /\ IF SetTo(str, f) = {} THEN ParseFlag(str, f, old).value = old
              ELSE {ParseFlag(str, f, old).value} = SetTo(str, f)
<1> DEFINE bool == f \in Bools
           texts == ParseFlagValue(str, f, bool)
           text == CHOOSE t \in texts : TRUE
           parsed == Converted(f, text)
<1>0. bool \in BOOLEAN
  OBVIOUS
<1> HIDE DEF bool
<1>1. texts = IF bool /\ str = Text(f) THEN {<<>>}
              ELSE IF Named(str, f) THEN {ValueText(str, f)} ELSE {}
  BY <1>0, ParseFlagValueIs
<1>2. parsed = CASE f \in Bools -> {IsTruthyFlagValue(text)}
                 [] f \in Strings -> {text}
                 [] f \in Int32s -> ParseInt32(text)
                 [] f \in Doubles -> ParseDouble(text)
  BY ConvertedIs
<1>3. parsed = {} \/ \E v : parsed = {v}
  BY ConvertedIs
<1> HIDE DEF parsed
<1>4. ParseFlag(str, f, old)
          = IF texts = {} THEN [consumed |-> FALSE, value |-> old]
            ELSE IF parsed = {} THEN [consumed |-> FALSE, value |-> old]
            ELSE [consumed |-> TRUE, value |-> CHOOSE v \in parsed : TRUE]
  BY <1>2 DEF ParseFlag, bool
<1>5. SetTo(str, f) = IF texts = {} THEN {} ELSE parsed
  <2>1. CASE bool /\ str = Text(f)
    <3>1. texts = {<<>>} /\ text = <<>>
      BY <1>1, <2>1, ChosenFromOne
    <3>2. IsTruthyFlagValue(<<>>) = TRUE
      BY DEF IsTruthyFlagValue
    <3>3. parsed = {TRUE}
      BY <2>1, <3>1, <3>2 DEF parsed, Converted, bool
    <3>4. QED
      BY <2>1, <3>1, <3>3, SetToConverted DEF bool
  <2>2. CASE ~(bool /\ str = Text(f)) /\ Named(str, f)
    <3>1. texts = {ValueText(str, f)} /\ text = ValueText(str, f)
      BY <1>1, <2>2, ChosenFromOne
    <3>2. QED
      BY <2>2, <3>1, SetToConverted DEF parsed, bool
  <2>3. CASE ~(bool /\ str = Text(f)) /\ ~Named(str, f)
    BY <1>1, <2>3, SetToConverted DEF bool
  <2>4. QED
    BY <2>1, <2>2, <2>3
<1> HIDE DEF texts
<1>6. CASE texts = {} \/ parsed = {}
  BY <1>4, <1>5, <1>6
<1>7. CASE texts # {} /\ parsed # {}
  <2>1. PICK v : parsed = {v}
    BY <1>3, <1>7
  <2>2. (CHOOSE x \in parsed : TRUE) = v
    BY <2>1, ChosenFromOne
  <2>3. QED
    BY <1>4, <1>5, <1>7, <2>1, <2>2
<1>8. QED
  BY <1>6, <1>7

\* The pieces that a text is split into are a sequence.
LEMMA PairsLen ==
    ASSUME NEW D, NEW text \in Seq(D)
    PROVE  Len(Pairs(text)) \in Nat /\ DOMAIN Pairs(text) = 1 .. Len(Pairs(text))
<1>1. PICK n \in Nat : DOMAIN StrSplit(text, ",") = 1 .. n
  <2>1. CASE text = <<>>
    <3>1. StrSplit(text, ",") = <<>>
      BY <2>1 DEF StrSplit
    <3>2. DOMAIN <<>> = 1 .. 0
      OBVIOUS
    <3>3. QED
      BY <3>1, <3>2
  <2>2. CASE text # <<>>
    <3> DEFINE cuts == {k \in DOMAIN text : text[k] = ","}
    <3>1. DOMAIN text = 1 .. Len(text) /\ Len(text) \in Nat
      BY LenProperties
    <3>2. IsFiniteSet(DOMAIN text)
      BY <3>1, FS_Interval
    <3>3. IsFiniteSet(cuts)
      BY <3>2, FS_Subset
    <3> HIDE DEF cuts
    <3>4. Cardinality(cuts) + 1 \in Nat
      BY <3>3, FS_CardinalityType
    <3>5. DOMAIN StrSplit(text, ",") = 1 .. Cardinality(cuts) + 1
      BY <2>2 DEF StrSplit, cuts
    <3>6. QED
      BY <3>4, <3>5
  <2>3. QED
    BY <2>1, <2>2
<1>2. DOMAIN Pairs(text) = 1 .. n
  BY <1>1 DEF Pairs
<1> DEFINE p == Pairs(text)
<1>3. p = [k \in 1 .. n |-> p[k]]
  BY <1>2 DEF Pairs
<1> HIDE DEF p
<1>4. Len(p) = n
  BY <1>3
<1>5. QED
  BY <1>2, <1>4 DEF p

LEMMA ParseFlagPairs ==
    ASSUME NEW f \in KeyValues, NEW str \in Seq(Piece), NEW old
    PROVE  ParseFlag(str, f, old).consumed <=> SetTo(str, f) # {}
<1> DEFINE texts == ParseFlagValue(str, f, FALSE)
           text == CHOOSE t \in texts : TRUE
           pairs == Pairs(text)
           bad == {k \in 1 .. Len(pairs) : Len(pairs[k]) # 2}
           good == IF bad # {} THEN Min(bad) ELSE 0
<1>1. f \in Names /\ f \notin Bools \cup Strings \cup Int32s \cup Doubles
  BY DEF Names, Bools, Strings, Int32s, Doubles, KeyValues
<1>2. texts = IF Named(str, f) THEN {ValueText(str, f)} ELSE {}
  BY <1>1, ParseFlagValueIs
<1>3. good = SelectInSeq(pairs, LAMBDA kv : Len(kv) # 2)
  BY DEF SelectInSeq
<1> HIDE DEF good
<1>4. ParseFlag(str, f, old).consumed <=> texts # {} /\ good = 0
  <2>1. (f \in Bools) = FALSE
    BY <1>1
  <2>2. QED
    BY <1>1, <1>3, <2>1 DEF ParseFlag
<1>5. CASE ~Named(str, f)
  BY <1>1, <1>2, <1>4, <1>5 DEF SetTo, Named
<1>6. CASE Named(str, f)
  <2>1. texts = {ValueText(str, f)} /\ text = ValueText(str, f)
    <3>1. texts = {ValueText(str, f)}
      BY <1>2, <1>6
    <3>2. QED
      BY <3>1, ChosenFromOne
  <2>2. SetTo(str, f) # {} <=> \A k \in DOMAIN Pairs(ValueText(str, f)) :
                                   Len(Pairs(ValueText(str, f))[k]) = 2
    BY <1>1, <1>6 DEF SetTo, Named, ValueText
  <2>3. ValueText(str, f) \in Seq(Piece)
    <3>1. Len(str) \in Nat /\ Len(Text(f)) \in Nat /\ \A k \in 1 .. Len(str) : str[k] \in Piece
      BY <1>1, TextType, LenProperties
    <3>2. \A k \in Len(Text(f)) + 2 .. Len(str) : str[k] \in Piece
      BY <3>1
    <3>3. QED
      BY <3>1, <3>2, SubSeqProperties DEF ValueText
  <2>4. Len(pairs) \in Nat /\ DOMAIN pairs = 1 .. Len(pairs)
    BY <2>1, <2>3, PairsLen
  <2>5. SetTo(str, f) # {} <=> bad = {}
    BY <2>1, <2>2, <2>4
  <2> HIDE DEF pairs
  <2>6. good = 0 <=> bad = {}
    <3>1. ASSUME bad # {} PROVE Min(bad) \in bad
      <4>1. bad \in SUBSET Nat
        BY <2>4
      <4> HIDE DEF bad
      <4>2. PICK x \in bad : \A y \in bad : x <= y
        BY <3>1, <4>1, NatLeast
      <4>3. QED
        BY <4>2 DEF Min
    <3>2. ASSUME bad # {} PROVE Min(bad) # 0
      BY <2>4, <3>1, <3>2
    <3>3. QED
      BY <3>2 DEF good
  <2>7. QED
    BY <1>4, <2>1, <2>5, <2>6
<1>7. QED
  BY <1>5, <1>6

-----------------------------------------------------------------------------
(* What Initialize has read of the command line. *)

\* The arguments that have been parsed, those that were consumed included.
Read == (i - 1) + (Len(given) - argc)

Line == Seq(Seq(Piece))

ParsingInv ==
    /\ given \in Line /\ argv \in Line /\ Len(argv) = Len(given)
    /\ i \in Nat /\ argc \in Nat /\ 2 <= i /\ 1 <= argc /\ argc <= Len(given) /\ i <= argc + 1
    /\ Parsed => i > argc

\* In front, the program and the arguments read that set no flag; from i on,
\* those to be read, as they were given.
ArgumentsInv ==
    /\ ToSet(argv) \subseteq ToSet(given)
    /\ \A j \in i .. argc : argv[j] = given[j + (Len(given) - argc)]
    /\ SubSeq(argv, 1, i - 1) = <<given[1]>> \o Among(SubSeq(Tail(given), 1, Read - 1), Others)

\* The flag has what the last of the first n arguments that sets it sets it to.
Setting(f, n) == {k \in 1 .. n : SetTo(given[k], f) # {}}
Settled(f, n) ==
    IF Setting(f, n) = {} THEN FLAGS[f] = FromEnv(f, env)
    ELSE {FLAGS[f]} = SetTo(given[Max(Setting(f, n))], f)
SettingsInv == \A f \in Names \ KeyValues : Settled(f, Read)

LEMMA LineProperties ==
    ASSUME ParsingInv
    PROVE  /\ Len(given) \in Nat /\ DOMAIN given = 1 .. Len(given) /\ DOMAIN argv = 1 .. Len(given)
           /\ \A k \in 1 .. Len(given) : given[k] \in Seq(Piece) /\ argv[k] \in Seq(Piece)
           /\ Read \in Nat /\ 1 <= Read /\ Read <= Len(given) /\ given # <<>>
  BY LenProperties DEF ParsingInv, Line, Read

\* The argument that ParseArgument is at.
LEMMA ReadNext ==
    ASSUME ParsingInv, ArgumentsInv, i <= argc
    PROVE  /\ argv[i] = given[Read + 1] /\ Read + 1 <= Len(given) /\ argv[i] \in Seq(Piece)
           /\ argv[i] = Tail(given)[Read] /\ argv[i] \in ToSet(given)
<1>1. /\ Len(given) \in Nat /\ DOMAIN given = 1 .. Len(given) /\ Read \in Nat /\ 1 <= Read
      /\ given \in Line /\ given # <<>> /\ i \in Nat /\ argc \in Nat /\ 2 <= i /\ argc <= Len(given)
      /\ \A k \in 1 .. Len(given) : given[k] \in Seq(Piece)
  BY LineProperties DEF ParsingInv
<1>2. i + (Len(given) - argc) = Read + 1 /\ Read + 1 <= Len(given)
  BY <1>1 DEF Read
<1>3. argv[i] = given[Read + 1]
  BY <1>1, <1>2 DEF ArgumentsInv
<1>4. Tail(given)[Read] = given[Read + 1]
  BY <1>1, <1>2, HeadTailProperties DEF Line
<1>5. QED
  BY <1>1, <1>2, <1>3, <1>4 DEF ToSet

\* An argument is consumed if it sets a flag, whatever the flags are.
LEMMA ConsumedSets ==
    ASSUME NEW str \in Seq(Piece), NEW old
    PROVE  (\E f \in Names : ParseFlag(str, f, old[f]).consumed)
               <=> ~ \A f \in Names : SetTo(str, f) = {}
<1>1. \A f \in Names : ParseFlag(str, f, old[f]).consumed <=> SetTo(str, f) # {}
  <2>1. SUFFICES ASSUME NEW f \in Names
                 PROVE  ParseFlag(str, f, old[f]).consumed <=> SetTo(str, f) # {}
    OBVIOUS
  <2>2. CASE f \in KeyValues
    BY <2>2, ParseFlagPairs
  <2>3. CASE f \notin KeyValues
    BY <2>3, ParseFlagConsumes
  <2>4. QED
    BY <2>2, <2>3
<1>2. QED
  BY <1>1

LEMMA ParsingInit == CommandLineInit => ParsingInv /\ ArgumentsInv /\ SettingsInv
<1>1. SUFFICES ASSUME CommandLineInit PROVE ParsingInv /\ ArgumentsInv /\ SettingsInv
  OBVIOUS
<1>2. PICK s \in BoundedSeq(Arguments, MaxArguments) : given = <<<<"program">>>> \o s
  BY <1>1 DEF CommandLineInit
<1>3. s \in Seq(Arguments)
  BY CommandLineAssumption DEF BoundedSeq, SeqOf
<1>4. s \in Line
  BY <1>3, ArgumentsType, SeqMonotonic DEF Line
<1>5. <<"program">> \in Seq(Piece)
  BY DEF Piece
<1>6. given \in Line /\ Len(given) = 1 + Len(s) /\ Len(s) \in Nat /\ given[1] = <<"program">>
  BY <1>2, <1>4, <1>5, LenProperties DEF Line
<1>7. ParsingInv
  BY <1>1, <1>6 DEF CommandLineInit, ParsingInv, Parsed
<1>8. Read = 1
  BY <1>1, <1>6 DEF CommandLineInit, Read
<1>9. ArgumentsInv
  <2>1. SubSeq(given, 1, 1) = <<given[1]>>
    <3>1. SubSeq(given, 1, 1) = <<given[1]>> \o SubSeq(given, 2, 1)
      BY <1>6, SubSeqRecursiveFirst DEF Line
    <3>2. SubSeq(given, 2, 1) = <<>>
      BY SubSeqEmpty
    <3>3. <<given[1]>> \o <<>> = <<given[1]>>
      OBVIOUS
    <3>4. QED
      BY <3>1, <3>2, <3>3
  <2>2. SubSeq(Tail(given), 1, 0) = <<>>
    BY SubSeqEmpty
  <2>3. Among(<<>>, Others) = <<>>
    BY AmongProperties
  <2>4. <<given[1]>> \o <<>> = <<given[1]>>
    OBVIOUS
  <2>5. \A j \in i .. argc : argv[j] = given[j + (Len(given) - argc)]
    BY <1>1, <1>6 DEF CommandLineInit
  <2>6. argv = given /\ i - 1 = 1 /\ Read - 1 = 0
    BY <1>1, <1>8 DEF CommandLineInit
  <2>7. SubSeq(argv, 1, i - 1) = <<given[1]>> \o Among(SubSeq(Tail(given), 1, Read - 1), Others)
    BY <2>1, <2>2, <2>3, <2>4, <2>6
  <2>8. QED
    BY <2>5, <2>6, <2>7 DEF ArgumentsInv
<1>10. SettingsInv
  <2>1. SUFFICES ASSUME NEW f \in Names \ KeyValues PROVE Settled(f, 1)
    BY <1>8 DEF SettingsInv
  <2> DEFINE program_text == <<"program">>
  <2>2. SetTo(program_text, f) = {}
    <3>1. Text(f) \in Seq(Piece) /\ Len(Text(f)) \in Nat /\ Len(Text(f)) >= 2 /\ "=" \in Piece
      BY TextType DEF Piece
    <3>2. Len(program_text) = 1 /\ program_text \in Seq(Piece)
      BY <1>5
    <3> HIDE DEF program_text
    <3>3. ~Named(program_text, f)
      BY <3>1, <3>2, NamedIs DEF Named
    <3>4. ASSUME program_text = Text(f) PROVE FALSE
      <4>1. Len(program_text) = Len(Text(f))
        BY <3>4
      <4>2. Len(program_text) = 1 /\ Len(Text(f)) \in Nat /\ Len(Text(f)) >= 2
        BY <3>1, <3>2
      <4> DEFINE n == Len(Text(f))
      <4>3. n \in Nat /\ n >= 2 /\ n = 1
        BY <4>1, <4>2
      <4>4. QED
        BY <4>3
    <3>5. QED
      BY <3>3, <3>4, SetToConverted
  <2>3. Setting(f, 1) = {}
    BY <1>6, <2>2 DEF Setting
  <2>4. QED
    BY <1>1, <2>3 DEF Settled, CommandLineInit
<1>11. QED
  BY <1>7, <1>9, <1>10

LEMMA ParseArgumentLine == ParsingInv /\ ArgumentsInv /\ ParseArgument => ParsingInv' /\ Read' = Read + 1
<1>1. SUFFICES ASSUME ParsingInv, ArgumentsInv, ParseArgument
               PROVE  ParsingInv' /\ Read' = Read + 1
  OBVIOUS
<1> DEFINE str == argv[i]
           consumed == \E f \in Names : ParseFlag(str, f, FLAGS[f]).consumed
<1>2. /\ at = "parsing" /\ i <= argc /\ given' = given
      /\ IF consumed THEN argv' = Compacted /\ argc' = argc - 1 /\ i' = i /\ at' = at
         ELSE i' = i + 1 /\ argv' = argv /\ argc' = argc /\ at' \in {"exit", "parsing"}
  BY <1>1 DEF ParseArgument
<1>3. /\ Len(given) \in Nat /\ DOMAIN argv = 1 .. Len(given) /\ Len(argv) = Len(given)
      /\ i \in Nat /\ argc \in Nat /\ 2 <= i /\ 1 <= argc /\ argc <= Len(given)
      /\ \A k \in 1 .. Len(given) : argv[k] \in Seq(Piece)
  BY <1>1, LineProperties DEF ParsingInv
<1> HIDE DEF consumed
<1>4. CASE consumed
  <2>1. Compacted \in [1 .. Len(given) -> Seq(Piece)]
    BY <1>3 DEF Compacted
  <2>2. Compacted \in Line /\ Len(Compacted) = Len(given)
    BY <1>3, <2>1 DEF Line
  <2>3. QED
    BY <1>1, <1>2, <1>3, <1>4, <2>2 DEF ParsingInv, Read, Parsed
<1>5. CASE ~consumed
  BY <1>1, <1>2, <1>3, <1>5 DEF ParsingInv, Read, Parsed
<1>6. QED
  BY <1>4, <1>5

LEMMA ParseArgumentKeepsRest ==
    ASSUME ParsingInv, ArgumentsInv, ParseArgument
    PROVE  /\ (ToSet(argv) \subseteq ToSet(given))'
           /\ (\A j \in i .. argc : argv[j] = given[j + (Len(given) - argc)])'
           /\ argv' \in Line /\ Len(argv') = Len(given)
           /\ \A j \in 1 .. i - 1 : argv'[j] = argv[j]
<1> DEFINE consumed == \E f \in Names : ParseFlag(argv[i], f, FLAGS[f]).consumed
<1>1. /\ i <= argc /\ given' = given
      /\ IF consumed THEN argv' = Compacted /\ argc' = argc - 1 /\ i' = i
         ELSE i' = i + 1 /\ argv' = argv /\ argc' = argc
  BY DEF ParseArgument
<1>2. /\ Len(given) \in Nat /\ DOMAIN argv = 1 .. Len(given) /\ Len(argv) = Len(given)
      /\ i \in Nat /\ argc \in Nat /\ 2 <= i /\ 1 <= argc /\ argc <= Len(given)
      /\ argv' \in Line /\ Len(argv') = Len(given)
  BY <1>1, LineProperties, ParseArgumentLine DEF ParsingInv
<1> HIDE DEF consumed
<1>3. CASE consumed
  <2>1. argv' = [j \in 1 .. Len(given) |-> IF j \in i .. argc - 1 THEN argv[j + 1] ELSE argv[j]]
    BY <1>1, <1>2, <1>3 DEF Compacted
  <2>2. ToSet(argv') \subseteq ToSet(argv)
    BY <1>2, <2>1 DEF ToSet
  <2>3. ASSUME NEW j \in i .. argc - 1 PROVE argv'[j] = given[j + (Len(given) - (argc - 1))]
    <3>1. j + 1 \in i .. argc /\ (j + 1) + (Len(given) - argc) = j + (Len(given) - (argc - 1))
      BY <1>2
    <3>2. argv'[j] = argv[j + 1]
      BY <1>2, <2>1
    <3>3. QED
      BY <3>1, <3>2 DEF ArgumentsInv
  <2>4. \A j \in 1 .. i - 1 : argv'[j] = argv[j]
    BY <1>1, <1>2, <2>1
  <2>5. QED
    BY <1>1, <1>2, <1>3, <2>2, <2>3, <2>4 DEF ArgumentsInv
<1>4. CASE ~consumed
  BY <1>1, <1>2, <1>4 DEF ArgumentsInv
<1>5. QED
  BY <1>3, <1>4

LEMMA ParseArgumentKeeps == ParsingInv /\ ArgumentsInv /\ ParseArgument => ArgumentsInv'
<1>1. SUFFICES ASSUME ParsingInv, ArgumentsInv, ParseArgument PROVE ArgumentsInv'
  OBVIOUS
<1> DEFINE str == argv[i]
           rest == Tail(given)
           consumed == \E f \in Names : ParseFlag(str, f, FLAGS[f]).consumed
           front == SubSeq(argv, 1, i - 1)
           before == SubSeq(rest, 1, Read - 1)
           prog == <<given[1]>>
<1>2. /\ i <= argc /\ given' = given
      /\ IF consumed THEN i' = i ELSE i' = i + 1 /\ argv' = argv
  BY <1>1 DEF ParseArgument
<1>3. /\ str = rest[Read] /\ str \in Seq(Piece) /\ str \in ToSet(given) /\ Read + 1 <= Len(given)
  BY <1>1, <1>2, ReadNext
<1>4. consumed <=> str \notin Others
  BY <1>3, ConsumedSets DEF Others
<1>5. Others' = Others
  BY <1>2 DEF Others
<1>6. /\ rest \in Line /\ Len(rest) = Len(given) - 1 /\ Read \in Nat /\ 1 <= Read
      /\ i \in Nat /\ 2 <= i /\ Len(given) \in Nat /\ i <= Len(argv) /\ argv \in Line
      /\ given[1] \in Seq(Piece)
  BY <1>1, <1>2, LineProperties, HeadTailProperties DEF ParsingInv, Line
<1>7. Read' = Read + 1
  BY <1>1, ParseArgumentLine
<1>8. SubSeq(rest, 1, Read) = Append(before, str) /\ before \in Line
  <2>1. Read - 1 \in Nat /\ Read - 1 < Len(rest) /\ (Read - 1) + 1 = Read
    BY <1>3, <1>6
  <2>2. QED
    BY <1>3, <1>6, <2>1, FirstAndNext DEF Line
<1>9. /\ \A q \in Line : Among(q, Others) \in Line
      /\ \A q \in Line, x \in Seq(Piece) : Among(Append(q, x), Others)
             = IF x \in Others THEN Append(Among(q, Others), x) ELSE Among(q, Others)
  BY AmongProperties DEF Line
<1>10. Among(SubSeq(rest, 1, Read), Others)
           = IF consumed THEN Among(before, Others) ELSE Append(Among(before, Others), str)
  <2>1. Among(Append(before, str), Others)
            = IF str \in Others THEN Append(Among(before, Others), str) ELSE Among(before, Others)
    BY <1>3, <1>8, <1>9, Zenon
  <2>2. QED
    BY <1>4, <1>8, <2>1, Zenon
<1>11. front = prog \o Among(before, Others)
  BY <1>1 DEF ArgumentsInv
<1>12. SubSeq(argv', 1, i' - 1) = IF consumed THEN front ELSE Append(front, str)
  <2>1. CASE consumed
    <3>1. /\ \A j \in 1 .. i - 1 : argv'[j] = argv[j]
          /\ argv' \in Line /\ Len(argv') = Len(given) /\ Len(argv) = Len(given)
      BY <1>1, ParseArgumentKeepsRest DEF ParsingInv
    <3>2. SubSeq(argv', 1, i - 1) = SubSeq(argv, 1, i - 1)
      BY <1>6, <3>1 DEF Line
    <3>3. QED
      BY <1>2, <2>1, <3>2
  <2>2. CASE ~consumed
    <3>1. i - 1 \in Nat /\ i - 1 < Len(argv) /\ (i - 1) + 1 = i /\ i' - 1 = i /\ argv' = argv
      BY <1>2, <1>6, <2>2
    <3>2. SubSeq(argv, 1, (i - 1) + 1) = Append(SubSeq(argv, 1, i - 1), argv[(i - 1) + 1])
      BY <1>6, <3>1, FirstAndNext DEF Line
    <3>3. QED
      BY <2>2, <3>1, <3>2
  <2>3. QED
    BY <2>1, <2>2
<1>13. prog \in Line /\ Among(before, Others) \in Line
  <2>1. \A x \in Seq(Piece) : <<x>> \in Line
    BY DEF Line
  <2>2. prog \in Line
    BY <1>6, <2>1
  <2>3. Among(before, Others) \in Line
    BY <1>8, <1>9
  <2>4. QED
    BY <2>2, <2>3
<1> HIDE DEF consumed, front, before, prog, rest, str
<1>14. Append(prog \o Among(before, Others), str) = prog \o Append(Among(before, Others), str)
  <2> DEFINE sel == Among(before, Others)
             D == Seq(Piece)
  <2>1. prog \in Seq(D) /\ sel \in Seq(D) /\ str \in D
    BY <1>3, <1>13 DEF Line
  <2> HIDE DEF sel, D
  <2>2. Append(prog \o sel, str) = prog \o Append(sel, str)
    BY <2>1
  <2>3. QED
    BY <2>2 DEF sel
<1>15. SubSeq(argv', 1, i' - 1) = prog \o Among(SubSeq(rest, 1, Read), Others)
  <2>1. CASE consumed
    BY <1>10, <1>11, <1>12, <2>1
  <2>2. CASE ~consumed
    BY <1>10, <1>11, <1>12, <1>14, <2>2
  <2>3. QED
    BY <2>1, <2>2
<1>16. (Read + 1) - 1 = Read
  BY <1>6
<1>17. SubSeq(argv', 1, i' - 1) = <<given'[1]>> \o Among(SubSeq(Tail(given'), 1, Read' - 1), Others')
  BY <1>2, <1>5, <1>7, <1>15, <1>16 DEF prog, rest
<1>18. QED
  BY <1>1, <1>17, ParseArgumentKeepsRest DEF ArgumentsInv

LEMMA ParseArgumentSettles ==
    ParsingInv /\ ArgumentsInv /\ SettingsInv /\ ParseArgument => SettingsInv'
<1> SUFFICES ASSUME ParsingInv, ArgumentsInv, SettingsInv, ParseArgument
             PROVE  SettingsInv'
  OBVIOUS
<1>0. PICK n : n = Read + 1
  OBVIOUS
<1>1. SUFFICES ASSUME NEW f \in Names \ KeyValues PROVE Settled(f, n)'
  <2>1. Read' = n
    BY <1>0, ParseArgumentLine
  <2>2. QED
    BY <2>1 DEF SettingsInv, Settled, Setting
<1> DEFINE str == argv[i]
           before == Setting(f, Read)
           after == Setting(f, n)
<1>2. given' = given /\ env' = env /\ i <= argc /\ FLAGS'[f] = ParseFlag(str, f, FLAGS[f]).value
  BY DEF ParseArgument
<1>3. str = given[Read + 1] /\ str \in Seq(Piece)
  BY <1>2, ReadNext
<1>4. Read \in Nat /\ n = Read + 1
  BY <1>0, LineProperties
<1>5. Settled(f, Read)
  BY DEF SettingsInv
<1>6. Settled(f, n)' = IF after = {} THEN FLAGS'[f] = FromEnv(f, env)
                      ELSE {FLAGS'[f]} = SetTo(given[Max(after)], f)
  BY <1>2 DEF Settled, Setting
<1>7. CASE SetTo(str, f) = {}
  <2>1. after = before
    BY <1>3, <1>4, <1>7 DEF Setting
  <2>2. FLAGS'[f] = FLAGS[f]
    BY <1>2, <1>3, <1>7, ParseFlagConsumes
  <2>3. QED
    BY <1>5, <1>6, <2>1, <2>2 DEF Settled
<1>8. CASE SetTo(str, f) # {}
  <2>1. after \in SUBSET (1 .. n) /\ n \in after /\ n \in Nat
    BY <1>3, <1>4, <1>8 DEF Setting
  <2> HIDE DEF after
  <2>2. Max(after) \in after /\ \A y \in after : y <= Max(after)
    BY <1>4, <2>1, MaxIn
  <2>3. Max(after) = n
    <3>1. Max(after) \in 1 .. n
      BY <2>1, <2>2
    <3>2. n <= Max(after)
      BY <2>1, <2>2
    <3>3. QED
      BY <2>1, <3>1, <3>2
  <2>4. {FLAGS'[f]} = SetTo(str, f)
    BY <1>2, <1>3, <1>8, ParseFlagConsumes
  <2>5. QED
    BY <1>3, <1>4, <1>6, <2>1, <2>3, <2>4
<1>9. QED
  BY <1>7, <1>8

-----------------------------------------------------------------------------
(* The rest of the program leaves the arguments and the flags alone. *)

Settle == UNCHANGED <<env, given, argv, argc, i, FLAGS>>

LEMMA LaterSteps ==
    ASSUME [Next]_vars, ~ParseArgument
    PROVE  Settle /\ (Parsed' => i > argc \/ Parsed)
<1>1. CASE CheckFlags
  BY <1>1 DEF CheckFlags, Settle
<1>2. CASE ReportUnrecognizedArguments
  BY <1>2 DEF ReportUnrecognizedArguments, Settle, Parsed
<1>3. CASE SetUpReporters
  BY <1>3 DEF SetUpReporters, GoTo, Exit, Settle, Parsed
<1>4. CASE FindBenchmarks
  BY <1>4 DEF FindBenchmarks, GoTo, Settle, Parsed
<1>5. CASE ListTests
  BY <1>5 DEF ListTests, GoTo, Settle, Parsed
<1>6. CASE Context
  BY <1>6 DEF Context, GoTo, Exit, Settle, Parsed
<1>7. ASSUME NEW batch \in Batches, Report(batch) PROVE Settle /\ Parsed
  BY <1>7 DEF Report, Exit, commandVars, Settle, Parsed
<1>8. CASE NoIterations
  BY <1>8 DEF NoIterations, Exit, Settle, Parsed
<1>9. CASE LastReported
  BY <1>9 DEF LastReported, GoTo, Settle, Parsed
<1>10. CASE FinalizeReporters
  BY <1>10 DEF FinalizeReporters, GoTo, Settle, Parsed
<1>11. CASE Returned
  BY <1>11 DEF Returned, GoTo, Exit, Settle, Parsed
<1>12. CASE UNCHANGED vars
  BY <1>12 DEF vars, commandVars, Settle, Parsed
<1>13. QED
  BY <1>1, <1>2, <1>3, <1>4, <1>5, <1>6, <1>7, <1>8, <1>9, <1>10, <1>11, <1>12
     DEF Next, CommandLineNext

LEMMA ParsingStep ==
    ASSUME ParsingInv, ArgumentsInv, SettingsInv, [Next]_vars
    PROVE  ParsingInv' /\ ArgumentsInv' /\ SettingsInv'
<1>1. CASE ParseArgument
  BY <1>1, ParseArgumentLine, ParseArgumentKeeps, ParseArgumentSettles
<1>2. CASE ~ParseArgument
  <2>1. Settle /\ (Parsed' => i > argc \/ Parsed)
    BY <1>2, LaterSteps
  <2>2. Read' = Read
    BY <2>1 DEF Settle, Read
  <2>3. ParsingInv'
    BY <2>1 DEF ParsingInv, Settle
  <2>4. Others' = Others
    BY <2>1 DEF Settle, Others
  <2>5. ArgumentsInv'
    BY <2>1, <2>2, <2>4 DEF ArgumentsInv, Settle
  <2>6. SettingsInv'
    BY <2>1, <2>2 DEF SettingsInv, Settled, Setting, Settle
  <2>7. QED
    BY <2>3, <2>5, <2>6
<1>3. QED
  BY <1>1, <1>2

LEMMA ParsingAlways == Spec => [](ParsingInv /\ ArgumentsInv /\ SettingsInv)
<1>1. Init => ParsingInv /\ ArgumentsInv /\ SettingsInv
  BY ParsingInit DEF Init
<1>2. ParsingInv /\ ArgumentsInv /\ SettingsInv /\ [Next]_vars
          => (ParsingInv /\ ArgumentsInv /\ SettingsInv)'
  BY ParsingStep
<1>3. QED
  BY <1>1, <1>2, PTL DEF Spec

\* ParseCommandLineFlags compacts argv in place while it reads it: what is left
\* are the arguments that set no flag, each once and in their order, and behind
\* them nothing that was not an argument.
THEOREM MainArgumentsLeft == Spec => []ArgumentsLeft
<1>1. ASSUME ParsingInv, ArgumentsInv PROVE ArgumentsLeft
  <2>1. SUFFICES ASSUME Parsed
                 PROVE  SubSeq(argv, 1, argc) = <<given[1]>> \o Among(Tail(given), Others)
    BY <1>1 DEF ArgumentsLeft, ArgumentsInv
  <2>2. /\ i \in Nat /\ argc \in Nat /\ i = argc + 1 /\ i - 1 = argc /\ Len(given) \in Nat
        /\ given \in Line /\ given # <<>>
    BY <1>1, <2>1, LineProperties DEF ParsingInv
  <2>3. Read - 1 = Len(given) - 1
    BY <2>2 DEF Read
  <2>4. Tail(given) \in Line /\ Len(Tail(given)) = Len(given) - 1
    BY <2>2, HeadTailProperties DEF Line
  <2>5. SubSeq(Tail(given), 1, Len(Tail(given))) = Tail(given)
    BY <2>4, SubSeqFull DEF Line
  <2>6. SubSeq(argv, 1, i - 1) = <<given[1]>> \o Among(SubSeq(Tail(given), 1, Read - 1), Others)
    BY <1>1 DEF ArgumentsInv
  <2>7. QED
    BY <2>2, <2>3, <2>4, <2>5, <2>6
<1>2. ParsingInv /\ ArgumentsInv /\ SettingsInv => ArgumentsLeft
  BY <1>1
<1>3. QED
  BY <1>2, ParsingAlways, PTL

\* user_guide.md: of the settings of a flag the last one on the command line
\* prevails, over earlier ones and over the environment.
THEOREM MainLastSwitchPrevails == Spec => []LastSwitchPrevails
<1>1. ASSUME ParsingInv, SettingsInv PROVE LastSwitchPrevails
  <2>1. SUFFICES ASSUME Parsed, NEW f \in Names \ KeyValues
                 PROVE  LET setting == {k \in DOMAIN given : SetTo(given[k], f) # {}}
                        IN  IF setting = {} THEN FLAGS[f] = FromEnv(f, env)
                            ELSE {FLAGS[f]} = SetTo(given[Max(setting)], f)
    BY DEF LastSwitchPrevails
  <2>2. /\ i \in Nat /\ argc \in Nat /\ i = argc + 1 /\ Len(given) \in Nat
        /\ DOMAIN given = 1 .. Len(given)
    BY <1>1, <2>1, LineProperties DEF ParsingInv
  <2>3. Settled(f, Read)
    BY <1>1 DEF SettingsInv
  <2>4. Read = Len(given)
    BY <2>2 DEF Read
  <2>5. QED
    BY <2>2, <2>3, <2>4 DEF Settled, Setting
<1>2. ParsingInv /\ ArgumentsInv /\ SettingsInv => LastSwitchPrevails
  BY <1>1
<1>3. QED
  BY <1>2, ParsingAlways, PTL

-----------------------------------------------------------------------------
(* What reporters write. *)

Columns == {Ordered(names) : names \in SUBSET ToSet(Counters)}
CsvRow(names, run) == [run |-> run, fields |-> CsvFields(names, run), times |-> CsvTimes(run)]

\* Everything that is written to an output.
Item ==
    {Open, Comma, Close, Basic} \cup {[header |-> h] : h \in Columns}
    \cup {[header |-> elements \o h] : h \in Columns}
    \cup {JsonObject(run) : run \in Run} \cup {ConsoleLine(run) : run \in Run}
    \cup {CsvRow(p[1], p[2]) : p \in (SUBSET ToSet(Counters)) \X Run}

RunItem == {item \in Item : IsRun(item)}
runOf == [item \in RunItem |-> item.run]

LEMMA PlainItems ==
    /\ Open \in Item /\ Comma \in Item /\ Close \in Item /\ Basic \in Item
    /\ ~IsRun(Open) /\ ~IsRun(Comma) /\ ~IsRun(Close) /\ ~IsRun(Basic)
    /\ \A h \in Columns : /\ [header |-> h] \in Item /\ ~IsRun([header |-> h])
                          /\ [header |-> elements \o h] \in Item
                          /\ ~IsRun([header |-> elements \o h])
  BY DEF Item, IsRun, Open, Comma, Close, Basic

LEMMA JsonItems ==
    ASSUME NEW run \in Run
    PROVE  JsonObject(run) \in RunItem /\ JsonObject(run).run = run
  BY DEF Item, RunItem, IsRun, JsonObject

LEMMA ConsoleItems ==
    ASSUME NEW run \in Run
    PROVE  ConsoleLine(run) \in RunItem /\ ConsoleLine(run).run = run
  BY DEF Item, RunItem, IsRun, ConsoleLine

LEMMA CsvItems ==
    ASSUME NEW run \in Run, NEW names \in SUBSET ToSet(Counters)
    PROVE  CsvRow(names, run) \in RunItem /\ CsvRow(names, run).run = run
<1>1. CsvRow(names, run) \in Item
  <2>1. <<names, run>> \in (SUBSET ToSet(Counters)) \X Run
    OBVIOUS
  <2>2. CsvRow(<<names, run>>[1], <<names, run>>[2]) = CsvRow(names, run)
    OBVIOUS
  <2>3. CsvRow(names, run) \in {CsvRow(p[1], p[2]) : p \in (SUBSET ToSet(Counters)) \X Run}
    BY <2>1, <2>2
  <2>4. QED
    BY <2>3 DEF Item
<1>2. QED
  BY <1>1 DEF RunItem, IsRun, CsvRow

LEMMA RunOfType == runOf \in [RunItem -> Run]
<1>1. ASSUME NEW item \in RunItem PROVE item.run \in Run
  <2>1. item \in Item /\ IsRun(item)
    BY DEF RunItem
  <2>2. CASE \E run \in Run : item = JsonObject(run)
    BY <2>2, JsonItems
  <2>3. CASE \E run \in Run : item = ConsoleLine(run)
    BY <2>3, ConsoleItems
  <2>4. CASE \E p \in (SUBSET ToSet(Counters)) \X Run : item = CsvRow(p[1], p[2])
    BY <2>4, CsvItems
  <2>5. CASE item \in {Open, Comma, Close, Basic} \/ \E h \in Columns : item = [header |-> h]
             \/ \E g \in Columns : item = [header |-> elements \o g]
    BY <2>1, <2>5, PlainItems
  <2>6. QED
    BY <2>1, <2>2, <2>3, <2>4, <2>5 DEF Item
<1>2. QED
  BY <1>1 DEF runOf

\* The runs in an output are those of the items selected.
LEMMA RunsOfIs ==
    ASSUME NEW out \in Seq(Item)
    PROVE  /\ Among(out, RunItem) \in Seq(RunItem)
           /\ RunsOf(out) = Each(runOf, Among(out, RunItem))
           /\ RunsOf(out) \in Seq(Run)
<1> DEFINE runs == {item \in ToSet(out) : IsRun(item)}
           items == Among(out, runs)
<1>1. ToSet(out) \subseteq Item
  BY ToSetProperties
<1>2. \A item \in ToSet(out) : item \in runs <=> item \in RunItem
  BY <1>1 DEF RunItem
<1> HIDE DEF runs
<1>3. items = Among(out, RunItem)
  BY <1>2, AmongAgree
<1>4. ToSet(Among(out, RunItem)) \subseteq RunItem
  BY AmongElements
<1>5. Among(out, RunItem) \in Seq(Item)
  BY AmongProperties
<1>6. items \in Seq(RunItem)
  BY <1>3, <1>4, <1>5, SeqOfHeld
<1>7. RunsOf(out) = [k \in DOMAIN items |-> items[k].run]
  BY DEF RunsOf, runs
<1> HIDE DEF items
<1>8. \A k \in DOMAIN items : items[k].run = runOf[items[k]]
  <2>1. \A k \in DOMAIN items : items[k] \in RunItem
    BY <1>6, LenProperties
  <2>2. QED
    BY <2>1 DEF runOf
<1>9. RunsOf(out) = Each(runOf, items)
  BY <1>7, <1>8 DEF Each
<1>10. Each(runOf, items) \in Seq(Run)
  BY <1>6, RunOfType, EachType
<1>11. QED
  BY <1>3, <1>6, <1>9, <1>10

LEMMA RunsOfEmpty == RunsOf(<<>>) = <<>>
<1>1. <<>> \in Seq(Item)
  OBVIOUS
<1>2. Among(<<>>, RunItem) = <<>>
  BY AmongProperties
<1>3. QED
  BY <1>1, <1>2, RunsOfIs, EachEmpty

LEMMA RunsOfConcat ==
    ASSUME NEW s \in Seq(Item), NEW t \in Seq(Item)
    PROVE  RunsOf(s \o t) = RunsOf(s) \o RunsOf(t)
<1>1. s \o t \in Seq(Item)
  OBVIOUS
<1>2. Among(s \o t, RunItem) = Among(s, RunItem) \o Among(t, RunItem)
  BY AmongConcat
<1>3. /\ RunsOf(s) = Each(runOf, Among(s, RunItem)) /\ Among(s, RunItem) \in Seq(RunItem)
      /\ RunsOf(t) = Each(runOf, Among(t, RunItem)) /\ Among(t, RunItem) \in Seq(RunItem)
      /\ RunsOf(s \o t) = Each(runOf, Among(s \o t, RunItem))
  BY <1>1, RunsOfIs
<1>4. Each(runOf, Among(s, RunItem) \o Among(t, RunItem))
          = Each(runOf, Among(s, RunItem)) \o Each(runOf, Among(t, RunItem))
  BY <1>3, EachConcat
<1>5. QED
  BY <1>2, <1>3, <1>4

LEMMA RunsOfOne ==
    ASSUME NEW x \in Item
    PROVE  RunsOf(<<x>>) = IF x \in RunItem THEN <<x.run>> ELSE <<>>
<1>1. <<>> \in Seq(Item) /\ <<x>> \in Seq(Item) /\ Append(<<>>, x) = <<x>>
  OBVIOUS
<1>2. Among(<<x>>, RunItem) = IF x \in RunItem THEN <<x>> ELSE <<>>
  <2>1. /\ Among(<<>>, RunItem) = <<>>
        /\ \A q \in Seq(Item), y \in Item : Among(Append(q, y), RunItem)
               = IF y \in RunItem THEN Append(Among(q, RunItem), y) ELSE Among(q, RunItem)
    BY AmongProperties
  <2>2. Among(Append(<<>>, x), RunItem)
            = IF x \in RunItem THEN Append(<<>>, x) ELSE <<>>
    BY <1>1, <2>1
  <2>3. QED
    BY <1>1, <2>2
<1>3. RunsOf(<<x>>) = Each(runOf, Among(<<x>>, RunItem))
  BY <1>1, RunsOfIs
<1>4. CASE x \in RunItem
  <2>1. Each(runOf, <<x>>) = <<runOf[x]>>
    BY DEF Each
  <2>2. runOf[x] = x.run
    BY <1>4 DEF runOf
  <2>3. QED
    BY <1>2, <1>3, <1>4, <2>1, <2>2
<1>5. CASE x \notin RunItem
  BY <1>2, <1>3, <1>5, EachEmpty
<1>6. QED
  BY <1>4, <1>5

-----------------------------------------------------------------------------
(* Each reporter writes all runs that it is given, once and in order. *)

ReporterType ==
    [kind : Kinds, tabular : BOOLEAN, error_stream_ : {"apart", "output"}, ndebug : BOOLEAN,
     out : Seq(Item), check_failed : BOOLEAN,
     first_report_ : BOOLEAN, printed_header_ : BOOLEAN,
     user_counter_names_ : SUBSET ToSet(Counters), prev_counters_ : SUBSET ToSet(Counters)]

\* q is what r becomes by reporting these runs, unless a check fails.
Reports(q, r, runs) ==
    /\ q \in ReporterType
    /\ q.check_failed = FALSE => r.check_failed = FALSE /\ RunsOf(q.out) = RunsOf(r.out) \o runs

LEMMA WriteType ==
    ASSUME NEW r \in ReporterType, NEW items \in Seq(Item)
    PROVE  /\ Write(r, items) \in ReporterType
           /\ Write(r, items).out = r.out \o items
           /\ Write(r, items).check_failed = r.check_failed
           /\ Write(r, items).kind = r.kind
           /\ RunsOf(Write(r, items).out) = RunsOf(r.out) \o RunsOf(items)
<1>1. r.out \in Seq(Item)
  BY DEF ReporterType
<1>2. r.out \o items \in Seq(Item)
  BY <1>1
<1>3. Write(r, items) = [r EXCEPT !.out = r.out \o items]
  BY DEF Write
<1> DEFINE out == r.out \o items
<1>4. out \in Seq(Item)
  BY <1>2
<1>5. Write(r, items) = [r EXCEPT !.out = out]
  BY <1>3
<1> HIDE DEF out
<1>6. /\ Write(r, items) \in ReporterType
      /\ Write(r, items).out = out
      /\ Write(r, items).check_failed = r.check_failed
      /\ Write(r, items).kind = r.kind
  BY <1>4, <1>5 DEF ReporterType
<1>7. RunsOf(out) = RunsOf(r.out) \o RunsOf(items)
  BY <1>1, RunsOfConcat DEF out
<1>8. QED
  BY <1>6, <1>7 DEF out

\* What a reporter has written after it writes items with these runs.
LEMMA WrittenRuns ==
    ASSUME NEW r \in ReporterType, NEW items \in Seq(Item), NEW runs, RunsOf(items) = runs
    PROVE  /\ Write(r, items) \in ReporterType /\ Write(r, items).check_failed = r.check_failed
           /\ RunsOf(Write(r, items).out) = RunsOf(r.out) \o runs
<1>1. RunsOf(Write(r, items).out) = RunsOf(r.out) \o RunsOf(items)
  BY WriteType
<1>2. Write(r, items) \in ReporterType /\ Write(r, items).check_failed = r.check_failed
  BY WriteType
<1>3. QED
  BY <1>1, <1>2, Zenon

LEMMA CountersType ==
    ASSUME NEW run \in Run
    PROVE  run.counters \in SUBSET ToSet(Counters)
  BY DEF Run

\* With the commas between them.
LEMMA SeparatedRuns ==
    ASSUME NEW runs \in Seq(Run)
    PROVE  LET objects == [k \in DOMAIN runs |-> JsonObject(runs[k])]
           IN  Separated(objects) \in Seq(Item) /\ RunsOf(Separated(objects)) = runs
<1> DEFINE n == Len(runs)
           objects == [k \in DOMAIN runs |-> JsonObject(runs[k])]
           part(k) == <<objects[k]>> \o When(k # n, <<Comma>>)
           ss == [k \in 1 .. n |-> part(k)]
           g == [q \in Seq(Item) |-> RunsOf(q)]
<1>1. n \in Nat /\ DOMAIN runs = 1 .. n /\ \A k \in 1 .. n : runs[k] \in Run
  BY LenProperties
<1>2. Len(objects) = n /\ DOMAIN objects = 1 .. n
  BY <1>1
<1>3. Separated(objects) = FlattenSeq(ss)
  <2> HIDE DEF objects
  <2>1. Separated(objects)
            = FlattenSeq([k \in 1 .. n |-> <<objects[k]>> \o When(k # n, <<Comma>>)])
    BY <1>2 DEF Separated
  <2>2. QED
    BY <2>1
<1>4. ASSUME NEW k \in 1 .. n PROVE part(k) \in Seq(Item) /\ RunsOf(part(k)) = <<runs[k]>>
  <2> DEFINE x == JsonObject(runs[k])
             w == When(k # n, <<Comma>>)
  <2>1. x \in RunItem /\ x \in Item /\ x.run = runs[k]
    BY <1>1, JsonItems DEF RunItem
  <2>2. part(k) = <<x>> \o w
    BY <1>1
  <2> HIDE DEF x
  <2>3. w \in Seq(Item) /\ RunsOf(w) = <<>>
    <3>1. CASE k # n
      <4>1. w = <<Comma>>
        BY <3>1 DEF When
      <4>2. <<Comma>> \in Seq(Item) /\ Comma \notin RunItem /\ Comma \in Item
        BY PlainItems DEF RunItem
      <4>3. RunsOf(<<Comma>>) = <<>>
        BY <4>2, RunsOfOne
      <4>4. QED
        BY <4>1, <4>2, <4>3
    <3>2. CASE k = n
      BY <3>2, RunsOfEmpty DEF When
    <3>3. QED
      BY <3>1, <3>2
  <2> HIDE DEF w
  <2>4. <<x>> \in Seq(Item) /\ RunsOf(<<x>>) = <<runs[k]>>
    <3>1. RunsOf(<<x>>) = IF x \in RunItem THEN <<x.run>> ELSE <<>>
      BY <2>1, RunsOfOne
    <3>2. <<x>> \in Seq(Item)
      BY <2>1
    <3>3. QED
      BY <2>1, <3>1, <3>2
  <2>5. RunsOf(<<x>> \o w) = RunsOf(<<x>>) \o RunsOf(w)
    BY <2>3, <2>4, RunsOfConcat
  <2>6. <<x>> \o w \in Seq(Item) /\ <<runs[k]>> \o <<>> = <<runs[k]>>
    BY <2>3, <2>4
  <2>7. QED
    BY <2>2, <2>3, <2>4, <2>5, <2>6
<1> HIDE DEF part
<1>5. ss \in Seq(Seq(Item)) /\ DOMAIN ss = 1 .. n
  BY <1>1, <1>4
<1>6. g \in [Seq(Item) -> Seq(Run)]
  BY RunsOfIs
<1>7. /\ g[<<>>] = <<>>
      /\ \A s \in Seq(Item), t \in Seq(Item) : g[s \o t] = g[s] \o g[t]
  <2>1. ASSUME NEW s \in Seq(Item), NEW t \in Seq(Item) PROVE g[s \o t] = g[s] \o g[t]
    <3>1. s \o t \in Seq(Item)
      OBVIOUS
    <3>2. QED
      BY <3>1, RunsOfConcat
  <2>2. <<>> \in Seq(Item)
    OBVIOUS
  <2>3. QED
    BY <2>1, <2>2, RunsOfEmpty
<1>8. Each(g, ss) = [k \in 1 .. n |-> <<runs[k]>>]
  <2>1. \A k \in 1 .. n : g[ss[k]] = <<runs[k]>>
    BY <1>4
  <2> HIDE DEF g, ss
  <2>2. QED
    BY <1>5, <2>1 DEF Each
<1> HIDE DEF g, ss, objects
<1>9. g[FlattenSeq(ss)] = FlattenSeq(Each(g, ss))
  BY <1>5, <1>6, <1>7, FlattenEach
<1>10. FlattenSeq([k \in 1 .. n |-> <<runs[k]>>]) = runs
  BY <1>1, FlattenSingles
<1>11. FlattenSeq(ss) \in Seq(Item)
  BY <1>5, FlattenProperties
<1>12. g[FlattenSeq(ss)] = RunsOf(FlattenSeq(ss))
  BY <1>11 DEF g
<1>13. QED
  BY <1>3, <1>8, <1>9, <1>10, <1>11, <1>12 DEF objects

LEMMA JsonReports ==
    ASSUME NEW r \in ReporterType, NEW runs \in Seq(Run)
    PROVE  Reports(JsonRuns(r, runs), r, runs)
<1> DEFINE objects == [k \in DOMAIN runs |-> JsonObject(runs[k])]
           comma == When(~r.first_report_, <<Comma>>)
           written == Write(r, comma \o Separated(objects))
<1>1. CASE runs = <<>>
  <2>1. JsonRuns(r, runs) = r
    BY <1>1 DEF JsonRuns
  <2>2. r.out \in Seq(Item)
    BY DEF ReporterType
  <2>3. RunsOf(r.out) \in Seq(Run)
    BY <2>2, RunsOfIs
  <2>4. RunsOf(r.out) \o runs = RunsOf(r.out)
    BY <1>1, <2>3
  <2>5. QED
    BY <2>1, <2>4 DEF Reports
<1>2. CASE runs # <<>>
  <2>1. JsonRuns(r, runs) = [written EXCEPT !.first_report_ = FALSE]
    BY <1>2 DEF JsonRuns
  <2>2. comma \in Seq(Item) /\ RunsOf(comma) = <<>>
    <3>1. CASE r.first_report_
      BY <3>1, RunsOfEmpty DEF When
    <3>2. CASE ~r.first_report_
      <4>1. comma = <<Comma>>
        BY <3>2 DEF When
      <4>2. <<Comma>> \in Seq(Item) /\ Comma \notin RunItem /\ Comma \in Item
        BY PlainItems DEF RunItem
      <4>3. RunsOf(<<Comma>>) = <<>>
        BY <4>2, RunsOfOne
      <4>4. QED
        BY <4>1, <4>2, <4>3
    <3>3. QED
      BY <3>1, <3>2
  <2> HIDE DEF comma
  <2>3. Separated(objects) \in Seq(Item) /\ RunsOf(Separated(objects)) = runs
    BY SeparatedRuns
  <2> HIDE DEF objects
  <2> DEFINE items == comma \o Separated(objects)
  <2>4. items \in Seq(Item)
    BY <2>2, <2>3
  <2>5. RunsOf(items) = RunsOf(comma) \o RunsOf(Separated(objects))
    BY <2>2, <2>3, RunsOfConcat
  <2>6. RunsOf(items) = runs
    BY <2>2, <2>3, <2>5
  <2>7. written = Write(r, items)
    OBVIOUS
  <2> HIDE DEF items
  <2>8. /\ written \in ReporterType /\ written.check_failed = r.check_failed
        /\ RunsOf(written.out) = RunsOf(r.out) \o runs
    BY <2>4, <2>6, <2>7, WrittenRuns, Zenon
  <2> HIDE DEF written
  <2>9. /\ [written EXCEPT !.first_report_ = FALSE] \in ReporterType
        /\ [written EXCEPT !.first_report_ = FALSE].out = written.out
        /\ [written EXCEPT !.first_report_ = FALSE].check_failed = written.check_failed
    BY <2>8 DEF ReporterType
  <2>10. QED
    BY <2>1, <2>8, <2>9 DEF Reports
<1>3. QED
  BY <1>1, <1>2

LEMMA CsvReports ==
    ASSUME NEW r \in ReporterType, NEW runs \in Seq(Run)
    PROVE  Reports(CsvRuns(r, runs), r, runs)
<1> DEFINE n == Len(runs)
           used == (UNION {runs[k].counters : k \in DOMAIN runs}) \ Rates
           names == IF r.printed_header_ THEN r.user_counter_names_ ELSE used
           header == IF r.printed_header_ THEN <<>> ELSE <<[header |-> elements \o Ordered(names)]>>
           rows == [k \in DOMAIN runs |-> CsvRow(names, runs[k])]
           written == Write(r, header \o rows)
<1>1. n \in Nat /\ DOMAIN runs = 1 .. n /\ \A k \in 1 .. n : runs[k] \in Run
  BY LenProperties
<1>2. names \in SUBSET ToSet(Counters)
  <2>1. r.user_counter_names_ \in SUBSET ToSet(Counters)
    BY DEF ReporterType
  <2>2. used \in SUBSET ToSet(Counters)
    BY <1>1, CountersType
  <2>3. QED
    BY <2>1, <2>2
<1>3. CsvRuns(r, runs) = IF used \subseteq names \/ r.ndebug
                         THEN [written EXCEPT !.printed_header_ = TRUE, !.user_counter_names_ = names]
                         ELSE [r EXCEPT !.check_failed = TRUE]
  BY DEF CsvRuns, CsvRow
<1> HIDE DEF names, used
<1>4. header \in Seq(Item) /\ RunsOf(header) = <<>>
  <2>1. CASE r.printed_header_
    BY <2>1, RunsOfEmpty
  <2>2. CASE ~r.printed_header_
    <3> DEFINE x == [header |-> elements \o Ordered(names)]
    <3>1. Ordered(names) \in Columns
      BY <1>2 DEF Columns
    <3>2. x \in Item /\ x \notin RunItem
      BY <3>1, PlainItems DEF RunItem
    <3>3. header = <<x>>
      BY <2>2
    <3> HIDE DEF x, header
    <3>4. <<x>> \in Seq(Item)
      BY <3>2
    <3>5. QED
      BY <3>2, <3>3, <3>4, RunsOfOne
  <2>3. QED
    BY <2>1, <2>2
<1> HIDE DEF header
<1>5. /\ rows \in Seq(RunItem) /\ rows \in Seq(Item) /\ DOMAIN rows = 1 .. n
      /\ \A k \in 1 .. n : rows[k] \in RunItem /\ rows[k].run = runs[k]
  <2>1. \A k \in 1 .. n : CsvRow(names, runs[k]) \in RunItem /\ CsvRow(names, runs[k]).run = runs[k]
    BY <1>1, <1>2, CsvItems
  <2>2. rows \in [1 .. n -> RunItem]
    BY <1>1, <2>1
  <2>3. RunItem \subseteq Item
    BY DEF RunItem
  <2>4. QED
    BY <1>1, <2>1, <2>2, <2>3, SeqDef
<1> HIDE DEF rows
<1>6. RunsOf(rows) = runs
  <2>1. ToSet(rows) \subseteq RunItem
    BY <1>5 DEF ToSet
  <2>2. Among(rows, RunItem) = rows
    BY <1>5, <2>1, AmongAll
  <2>3. RunsOf(rows) = Each(runOf, rows)
    BY <1>5, <2>2, RunsOfIs
  <2>4. Each(runOf, rows) = [k \in 1 .. n |-> runs[k]]
    BY <1>5 DEF Each, runOf
  <2>5. QED
    BY <1>1, <2>3, <2>4
<1> DEFINE items == header \o rows
<1>7. items \in Seq(Item) /\ RunsOf(items) = runs
  <2>1. RunsOf(items) = RunsOf(header) \o RunsOf(rows)
    BY <1>4, <1>5, RunsOfConcat
  <2>2. QED
    BY <1>4, <1>5, <1>6, <2>1
<1>8. written = Write(r, items)
  OBVIOUS
<1> HIDE DEF items
<1>9. /\ written \in ReporterType /\ written.check_failed = r.check_failed
      /\ RunsOf(written.out) = RunsOf(r.out) \o runs
  BY <1>7, <1>8, WrittenRuns, Zenon
<1> HIDE DEF written
<1> DEFINE q == [written EXCEPT !.printed_header_ = TRUE, !.user_counter_names_ = names]
<1>10. q \in ReporterType /\ q.out = written.out /\ q.check_failed = written.check_failed
  BY <1>2, <1>9 DEF ReporterType
<1>11. [r EXCEPT !.check_failed = TRUE] \in ReporterType
       /\ [r EXCEPT !.check_failed = TRUE].check_failed = TRUE
  BY DEF ReporterType
<1>12. CASE used \subseteq names \/ r.ndebug
  BY <1>3, <1>9, <1>10, <1>12 DEF Reports
<1>13. CASE ~(used \subseteq names \/ r.ndebug)
  BY <1>3, <1>11, <1>13 DEF Reports
<1>14. QED
  BY <1>12, <1>13

LEMMA TwoElements ==
    ASSUME NEW D, NEW x \in D, NEW y \in D, NEW r \in Seq(D), Len(r) = 2, r[1] = x, r[2] = y
    PROVE  r = <<x, y>>
  OBVIOUS

LEMMA TwoJoined ==
    ASSUME NEW D, NEW x \in D, NEW y \in D
    PROVE  <<x, y>> = <<x>> \o <<y>>
<1> SUFFICES ASSUME NEW r, r = <<x>> \o <<y>> PROVE r = <<x, y>>
  OBVIOUS
<1>1. r \in Seq(D) /\ Len(r) = 2 /\ r[1] = x /\ r[2] = y
  OBVIOUS
<1>2. QED
  BY <1>1, TwoElements

LEMMA AppendBehind ==
    ASSUME NEW s \in Seq(Run), NEW t \in Seq(Run), NEW x \in Run
    PROVE  (s \o t) \o <<x>> = s \o Append(t, x)
  OBVIOUS

LEMMA ConsoleReportsOne ==
    ASSUME NEW r \in ReporterType, NEW run \in Run
    PROVE  /\ ConsoleRun(r, run) \in ReporterType
           /\ ConsoleRun(r, run).check_failed = r.check_failed
           /\ RunsOf(ConsoleRun(r, run).out) = RunsOf(r.out) \o <<run>>
<1> DEFINE x == [header |-> Ordered(run.counters)]
           y == ConsoleLine(run)
           w == Write(r, <<x, y>>)
<1>1. run.counters \in SUBSET ToSet(Counters)
  BY CountersType
<1>2. x \in Item /\ x \notin RunItem
  <2>1. Ordered(run.counters) \in Columns
    BY <1>1 DEF Columns
  <2>2. QED
    BY <2>1, PlainItems DEF RunItem
<1>3. y \in RunItem /\ y \in Item /\ y.run = run
  BY ConsoleItems DEF RunItem
<1>4. ConsoleRun(r, run) = IF PrintsHeader(r, run)
                           THEN [w EXCEPT !.printed_header_ = TRUE, !.prev_counters_ = run.counters]
                           ELSE Write(r, <<y>>)
  BY DEF ConsoleRun
<1> HIDE DEF x, y
<1>5. <<x>> \in Seq(Item) /\ <<y>> \in Seq(Item) /\ <<x, y>> = <<x>> \o <<y>> /\ <<x, y>> \in Seq(Item)
  <2>1. <<x>> \in Seq(Item) /\ <<y>> \in Seq(Item)
    BY <1>2, <1>3
  <2>2. <<x, y>> = <<x>> \o <<y>>
    BY <1>2, <1>3, TwoJoined
  <2>3. QED
    BY <2>1, <2>2
<1>6. RunsOf(<<x>>) = <<>> /\ RunsOf(<<y>>) = <<run>>
  BY <1>2, <1>3, RunsOfOne
<1>7. RunsOf(<<x, y>>) = <<run>>
  <2>1. RunsOf(<<x>> \o <<y>>) = RunsOf(<<x>>) \o RunsOf(<<y>>)
    BY <1>5, RunsOfConcat
  <2>2. <<>> \o <<run>> = <<run>>
    OBVIOUS
  <2>3. QED
    BY <1>5, <1>6, <2>1, <2>2
<1>8. /\ w \in ReporterType /\ w.check_failed = r.check_failed
      /\ RunsOf(w.out) = RunsOf(r.out) \o <<run>>
  BY <1>5, <1>7, WrittenRuns, Zenon
<1> HIDE DEF w
<1> DEFINE q == [w EXCEPT !.printed_header_ = TRUE, !.prev_counters_ = run.counters]
<1>9. q \in ReporterType /\ q.out = w.out /\ q.check_failed = w.check_failed
  BY <1>1, <1>8 DEF ReporterType
<1>10. CASE PrintsHeader(r, run)
  BY <1>4, <1>8, <1>9, <1>10
<1>11. CASE ~PrintsHeader(r, run)
  BY <1>4, <1>5, <1>6, <1>11, WriteType
<1>12. QED
  BY <1>10, <1>11

\* f[k] is the reporter when it has reported the first k runs.
ConsoleFold(f, r, runs) ==
    /\ f \in [0 .. Len(runs) -> ReporterType]
    /\ f[0] = r /\ FoldLeft(ConsoleRun, r, runs) = f[Len(runs)]
    /\ \A k \in 1 .. Len(runs) : f[k] = ConsoleRun(f[k - 1], runs[k])

\* What the recursive function in that FoldLeft must satisfy.
ConsoleFolds(h, r, runs) ==
    h = [t \in SUBSET DOMAIN runs |->
            IF t = {} THEN r ELSE ConsoleRun(h[t \ {Max(t)}], runs[Max(t)])]

LEMMA ConsoleFoldExists ==
    ASSUME NEW r \in ReporterType, NEW runs \in Seq(Run)
    PROVE  \E f : ConsoleFold(f, r, runs)
<1> DEFINE n == Len(runs)
           G == [p \in (1 .. n) \X ReporterType |-> ConsoleRun(p[2], runs[p[1]])]
           h == CHOOSE g : ConsoleFolds(g, r, runs)
<1>1. n \in Nat /\ DOMAIN runs = 1 .. n /\ \A k \in 1 .. n : runs[k] \in Run
  BY LenProperties
<1>2. \A k \in 1 .. n, v \in ReporterType :
          G[<<k, v>>] = ConsoleRun(v, runs[k]) /\ G[<<k, v>>] \in ReporterType
  BY <1>1, ConsoleReportsOne
<1> HIDE DEF G
<1>3. PICK g \in [SUBSET (1 .. n) -> ReporterType] : FoldsLeft(g, n, G, r)
  BY <1>1, <1>2, FoldLeftExists
<1>4. ASSUME NEW t \in SUBSET (1 .. n)
      PROVE  g[t] = IF t = {} THEN r ELSE ConsoleRun(g[t \ {Max(t)}], runs[Max(t)])
  <2>1. g[t] = IF t = {} THEN r ELSE G[<<Max(t), g[t \ {Max(t)}]>>]
    BY <1>3 DEF FoldsLeft
  <2>2. CASE t # {}
    <3>1. Max(t) \in 1 .. n
      BY <1>1, <2>2, MaxIn
    <3>2. g[t \ {Max(t)}] \in ReporterType
      OBVIOUS
    <3>3. QED
      BY <1>2, <2>1, <2>2, <3>1, <3>2
  <2>3. QED
    BY <2>1, <2>2
<1>5. ConsoleFolds(g, r, runs)
  BY <1>1, <1>4 DEF ConsoleFolds
<1>6. ConsoleFolds(h, r, runs)
  BY <1>5
<1>7. FoldLeft(ConsoleRun, r, runs) = h[DOMAIN runs]
  BY DEF FoldLeft, MapThenFoldSet, ConsoleFolds
<1> HIDE DEF h
<1> DEFINE f == [k \in 0 .. n |-> h[1 .. k]]
<1>8. f[0] = r
  <2>1. 1 .. 0 = {}
    OBVIOUS
  <2>2. QED
    BY <1>1, <1>6, <2>1 DEF ConsoleFolds
<1>9. ASSUME NEW k \in 1 .. n PROVE f[k] = ConsoleRun(f[k - 1], runs[k])
  <2>1. k \in Nat \ {0} /\ 1 .. k \in SUBSET (1 .. n) /\ 1 .. k # {} /\ k - 1 \in 0 .. n /\ k \in 0 .. n
    BY <1>1
  <2>2. Max(1 .. k) = k /\ (1 .. k) \ {k} = 1 .. (k - 1)
    BY <2>1, MaxOfInterval
  <2>3. h[1 .. k] = ConsoleRun(h[1 .. (k - 1)], runs[k])
    BY <1>1, <1>6, <2>1, <2>2 DEF ConsoleFolds
  <2>4. QED
    BY <2>1, <2>3
<1>10. f[n] = h[DOMAIN runs]
  BY <1>1
<1> HIDE DEF f
<1>11. \A k \in 0 .. n : f[k] \in ReporterType
  <2> DEFINE U == {k \in Nat : k <= n => f[k] \in ReporterType}
  <2>1. 0 \in U
    BY <1>8
  <2>2. ASSUME NEW k \in Nat, k \in U PROVE k + 1 \in U
    <3> SUFFICES ASSUME k + 1 <= n PROVE f[k + 1] \in ReporterType
      OBVIOUS
    <3>1. k + 1 \in 1 .. n /\ (k + 1) - 1 = k /\ f[k] \in ReporterType
      BY <1>1, <2>2
    <3>2. f[k + 1] = ConsoleRun(f[k], runs[k + 1]) /\ runs[k + 1] \in Run
      BY <1>1, <1>9, <3>1
    <3>3. QED
      BY <3>1, <3>2, ConsoleReportsOne
  <2> HIDE DEF U
  <2>3. Nat \subseteq U
    BY <2>1, <2>2, NatInductionSet
  <2>4. QED
    BY <1>1, <2>3 DEF U
<1>12. f \in [0 .. n -> ReporterType]
  BY <1>11 DEF f
<1>13. ConsoleFold(f, r, runs)
  BY <1>7, <1>8, <1>9, <1>10, <1>12 DEF ConsoleFold
<1>14. QED
  BY <1>13

LEMMA ConsoleReports ==
    ASSUME NEW r \in ReporterType, NEW runs \in Seq(Run)
    PROVE  Reports(FoldLeft(ConsoleRun, r, runs), r, runs)
<1> DEFINE n == Len(runs)
<1>1. n \in Nat /\ DOMAIN runs = 1 .. n /\ \A k \in 1 .. n : runs[k] \in Run
  BY LenProperties
<1>2. PICK f : ConsoleFold(f, r, runs)
  BY ConsoleFoldExists
<1>3. /\ f \in [0 .. n -> ReporterType] /\ f[0] = r /\ FoldLeft(ConsoleRun, r, runs) = f[n]
      /\ \A k \in 1 .. n : f[k] = ConsoleRun(f[k - 1], runs[k])
  BY <1>2 DEF ConsoleFold
<1> DEFINE base == RunsOf(r.out)
           Goal(k) == f[k].check_failed = r.check_failed /\ RunsOf(f[k].out) = base \o SubSeq(runs, 1, k)
           U == {k \in Nat : k <= n => Goal(k)}
<1>4. base \in Seq(Run)
  <2>1. r.out \in Seq(Item)
    BY DEF ReporterType
  <2>2. QED
    BY <2>1, RunsOfIs
<1> HIDE DEF base
<1>5. 0 \in U
  <2>1. SubSeq(runs, 1, 0) = <<>> /\ base \o <<>> = base
    BY <1>4, SubSeqEmpty
  <2>2. QED
    BY <1>3, <2>1 DEF base
<1>6. ASSUME NEW k \in Nat, k \in U PROVE k + 1 \in U
  <2> SUFFICES ASSUME k + 1 <= n PROVE Goal(k + 1)
    OBVIOUS
  <2>1. k + 1 \in 1 .. n /\ (k + 1) - 1 = k /\ k \in 0 .. n /\ k < n /\ runs[k + 1] \in Run
    BY <1>1
  <2>2. f[k + 1] = ConsoleRun(f[k], runs[k + 1]) /\ f[k] \in ReporterType
    BY <1>3, <2>1
  <2>3. /\ f[k + 1].check_failed = f[k].check_failed
        /\ RunsOf(f[k + 1].out) = RunsOf(f[k].out) \o <<runs[k + 1]>>
    BY <2>1, <2>2, ConsoleReportsOne
  <2>4. Goal(k)
    BY <1>6, <2>1
  <2>5. /\ SubSeq(runs, 1, k + 1) = Append(SubSeq(runs, 1, k), runs[k + 1])
        /\ SubSeq(runs, 1, k) \in Seq(Run)
    BY <2>1, FirstAndNext
  <2> DEFINE s == SubSeq(runs, 1, k)
             x == runs[k + 1]
  <2>6. s \in Seq(Run) /\ x \in Run
    BY <2>1, <2>5
  <2>7. RunsOf(f[k].out) = base \o s
    BY <2>4
  <2>8. SubSeq(runs, 1, k + 1) = Append(s, x)
    BY <2>5
  <2> HIDE DEF s, x
  <2>9. (base \o s) \o <<x>> = base \o Append(s, x)
    BY <1>4, <2>6, AppendBehind, Zenon
  <2>10. QED
    BY <2>3, <2>4, <2>7, <2>8, <2>9 DEF x
<1> HIDE DEF U
<1>7. Nat \subseteq U
  BY <1>5, <1>6, NatInductionSet
<1>8. Goal(n)
  BY <1>1, <1>7 DEF U
<1>9. SubSeq(runs, 1, n) = runs
  BY SubSeqFull
<1>10. f[n] \in ReporterType
  BY <1>1, <1>3
<1>11. QED
  BY <1>3, <1>8, <1>9, <1>10 DEF Reports, base

LEMMA ReportRunsReports ==
    ASSUME NEW r \in ReporterType, NEW runs \in Seq(Run)
    PROVE  Reports(ReportRuns(r, runs), r, runs)
<1>1. r.kind \in {"console", "json", "csv"}
  BY DEF ReporterType, Kinds
<1>2. CASE r.kind = "json"
  BY <1>2, JsonReports DEF ReportRuns
<1>3. CASE r.kind = "csv"
  BY <1>3, CsvReports DEF ReportRuns
<1>4. CASE r.kind = "console"
  BY <1>4, ConsoleReports DEF ReportRuns
<1>5. QED
  BY <1>1, <1>2, <1>3, <1>4

LEMMA BatchType ==
    ASSUME NEW batch \in Batches
    PROVE  batch.non_aggregates \in Seq(Run) /\ batch.aggregates_only \in Seq(Run)
  BY MainAssumption

LEMMA DueType ==
    ASSUME NEW batch \in Batches, NEW only
    PROVE  Due(batch, only) \in Seq(Run)
<1>1. batch.non_aggregates \o batch.aggregates_only \in Seq(Run)
  BY BatchType
<1>2. QED
  BY <1>1, BatchType DEF Due

\* Both calls of ReportRuns together report what is due.
LEMMA ReportOneReports ==
    ASSUME NEW r \in ReporterType, NEW batch \in Batches, NEW only
    PROVE  Reports(ReportOne(r, only, batch), r, Due(batch, only))
<1> DEFINE a == batch.non_aggregates
           b == batch.aggregates_only
           first == IF only /\ b # <<>> THEN r ELSE ReportRuns(r, a)
           base == RunsOf(r.out)
<1>1. a \in Seq(Run) /\ b \in Seq(Run)
  BY BatchType
<1>2. ReportOne(r, only, batch) = IF b = <<>> THEN first ELSE ReportRuns(first, b)
  BY DEF ReportOne
<1>3. Due(batch, only) = IF only /\ b # <<>> THEN b ELSE a \o b
  BY DEF Due
<1>4. base \in Seq(Run)
  <2>1. r.out \in Seq(Item)
    BY DEF ReporterType
  <2>2. QED
    BY <2>1, RunsOfIs
<1> HIDE DEF a, b, base
<1>5. CASE b = <<>>
  <2>1. a \o b = a
    BY <1>1, <1>5
  <2>2. ReportOne(r, only, batch) = ReportRuns(r, a) /\ Due(batch, only) = a
    BY <1>2, <1>3, <1>5, <2>1
  <2>3. QED
    BY <1>1, <2>2, ReportRunsReports
<1>6. CASE b # <<>> /\ only
  <2>1. ReportOne(r, only, batch) = ReportRuns(r, b) /\ Due(batch, only) = b
    BY <1>2, <1>3, <1>6
  <2>2. QED
    BY <1>1, <2>1, ReportRunsReports
<1>7. CASE b # <<>> /\ ~only
  <2> DEFINE p == ReportRuns(r, a)
             q == ReportRuns(p, b)
  <2>1. ReportOne(r, only, batch) = q /\ Due(batch, only) = a \o b
    BY <1>2, <1>3, <1>7
  <2>2. Reports(p, r, a)
    BY <1>1, ReportRunsReports
  <2>3. p \in ReporterType
    BY <2>2 DEF Reports
  <2>4. Reports(q, p, b)
    BY <1>1, <2>3, ReportRunsReports
  <2> HIDE DEF p, q
  <2>5. ASSUME q.check_failed = FALSE
        PROVE  r.check_failed = FALSE /\ RunsOf(q.out) = RunsOf(r.out) \o (a \o b)
    <3>1. p.check_failed = FALSE /\ RunsOf(q.out) = RunsOf(p.out) \o b
      BY <2>4, <2>5 DEF Reports
    <3>2. r.check_failed = FALSE /\ RunsOf(p.out) = base \o a
      BY <2>2, <3>1 DEF Reports, base
    <3>3. (base \o a) \o b = base \o (a \o b)
      BY <1>1, <1>4, ConcatAssociative
    <3>4. QED
      BY <3>1, <3>2, <3>3 DEF base
  <2>6. q \in ReporterType
    BY <2>4 DEF Reports
  <2>7. QED
    BY <2>1, <2>5, <2>6 DEF Reports
<1>8. QED
  BY <1>5, <1>6, <1>7

-----------------------------------------------------------------------------
(* The outputs from the first suite to the last. *)

\* What is to be in an output of these batches.
DisplayDues(bs) == FlattenSeq([k \in DOMAIN bs |-> Due(bs[k], DisplayOnly(bs[k]))])
FileDues(bs) == FlattenSeq([k \in DOMAIN bs |-> Due(bs[k], FileOnly(bs[k]))])

Formats == {<<"console">>, <<"json">>, <<"csv">>}

OutputsType ==
    /\ program \in Programs /\ reported \in Seq(Batches)
    /\ display \in SUBSET ReporterType /\ file \in SUBSET ReporterType

\* CheckFlags lets no other formats pass.
FormatsInv ==
    Parsed => FLAGS["benchmark_format"] \in Formats /\ FLAGS["benchmark_out_format"] \in Formats

\* A failed check ends the program.
Unfailed == at # "exit" => \A r \in display \cup file : r.check_failed = FALSE

\* A suite begins with outputs of its own.
Blank == at \in {"find", "context"} => \A r \in display \cup file : r.out = <<>>

Complete ==
    at \in {"report", "finalize"} =>
        /\ \A r \in display : RunsOf(r.out) = DisplayDues(reported)
        /\ \A r \in file : RunsOf(r.out) = FileDues(reported)

OutputsInv == OutputsType /\ FormatsInv /\ Unfailed /\ Blank /\ Complete

\* What is due with one more batch.
LEMMA DueAppend ==
    ASSUME NEW d \in [Batches -> Seq(Run)], NEW bs \in Seq(Batches), NEW batch \in Batches
    PROVE  FlattenSeq(Each(d, Append(bs, batch))) = FlattenSeq(Each(d, bs)) \o d[batch]
<1>1. Each(d, Append(bs, batch)) = Append(Each(d, bs), d[batch])
  BY EachAppend
<1>2. Each(d, bs) \in Seq(Seq(Run)) /\ d[batch] \in Seq(Run)
  BY EachType
<1>3. FlattenSeq(Append(Each(d, bs), d[batch])) = FlattenSeq(Each(d, bs)) \o d[batch]
  BY <1>2, FlattenProperties
<1>4. QED
  BY <1>1, <1>3

LEMMA DisplayDueAppend ==
    ASSUME NEW bs \in Seq(Batches), NEW batch \in Batches
    PROVE  DisplayDues(Append(bs, batch)) = DisplayDues(bs) \o Due(batch, DisplayOnly(batch))
<1> DEFINE d == [b \in Batches |-> Due(b, DisplayOnly(b))]
<1>1. d \in [Batches -> Seq(Run)]
  BY DueType
<1>2. ASSUME NEW s \in Seq(Batches) PROVE DisplayDues(s) = FlattenSeq(Each(d, s))
  <2>1. \A k \in DOMAIN s : s[k] \in Batches
    BY LenProperties
  <2>2. Each(d, s) = [k \in DOMAIN s |-> Due(s[k], DisplayOnly(s[k]))]
    BY <2>1 DEF Each
  <2>3. QED
    BY <2>2 DEF DisplayDues
<1>3. Append(bs, batch) \in Seq(Batches)
  OBVIOUS
<1>4. d[batch] = Due(batch, DisplayOnly(batch))
  OBVIOUS
<1> HIDE DEF d
<1>5. FlattenSeq(Each(d, Append(bs, batch))) = FlattenSeq(Each(d, bs)) \o d[batch]
  BY <1>1, DueAppend
<1>6. QED
  BY <1>2, <1>3, <1>4, <1>5

LEMMA FileDueAppend ==
    ASSUME NEW bs \in Seq(Batches), NEW batch \in Batches
    PROVE  FileDues(Append(bs, batch)) = FileDues(bs) \o Due(batch, FileOnly(batch))
<1> DEFINE d == [b \in Batches |-> Due(b, FileOnly(b))]
<1>1. d \in [Batches -> Seq(Run)]
  BY DueType
<1>2. ASSUME NEW s \in Seq(Batches) PROVE FileDues(s) = FlattenSeq(Each(d, s))
  <2>1. \A k \in DOMAIN s : s[k] \in Batches
    BY LenProperties
  <2>2. Each(d, s) = [k \in DOMAIN s |-> Due(s[k], FileOnly(s[k]))]
    BY <2>1 DEF Each
  <2>3. QED
    BY <2>2 DEF FileDues
<1>3. Append(bs, batch) \in Seq(Batches)
  OBVIOUS
<1>4. d[batch] = Due(batch, FileOnly(batch))
  OBVIOUS
<1> HIDE DEF d
<1>5. FlattenSeq(Each(d, Append(bs, batch))) = FlattenSeq(Each(d, bs)) \o d[batch]
  BY <1>1, DueAppend
<1>6. QED
  BY <1>2, <1>3, <1>4, <1>5

LEMMA DuesOfNone == DisplayDues(<<>>) = <<>> /\ FileDues(<<>>) = <<>>
<1>1. ASSUME NEW f PROVE [k \in DOMAIN <<>> |-> f[k]] = <<>>
  OBVIOUS
<1>2. /\ [k \in DOMAIN <<>> |-> Due(<<>>[k], DisplayOnly(<<>>[k]))] = <<>>
      /\ [k \in DOMAIN <<>> |-> Due(<<>>[k], FileOnly(<<>>[k]))] = <<>>
  OBVIOUS
<1>3. FlattenSeq(<<>>) = <<>>
  BY FlattenProperties
<1>4. QED
  BY <1>2, <1>3 DEF DisplayDues, FileDues

\* What is due of the batches depends on the flags, which no step changes that
\* leaves the flags alone.
LEMMA DuesKept ==
    ASSUME FLAGS' = FLAGS
    PROVE  DisplayDues(reported)' = DisplayDues(reported') /\ FileDues(reported)' = FileDues(reported')
  BY DEF DisplayDues, FileDues, DisplayOnly, FileOnly

\* A switch is on or off.
LEMMA TabularType == ASSUME SettingsInv PROVE tabular \in BOOLEAN
<1> DEFINE f == "benchmark_counters_tabular"
<1>1. f \in Bools /\ f \in Names \ KeyValues /\ f \notin Doubles
  BY DEF Names, Bools, KeyValues, Doubles
<1> HIDE DEF f
<1>2. Settled(f, Read)
  BY <1>1 DEF SettingsInv
<1>3. FromEnv(f, env) \in BOOLEAN
  <2>1. Default(f) = FALSE
    BY <1>1 DEF Default, f, Doubles, KeyValues
  <2>2. CASE f \notin DOMAIN env
    BY <2>1, <2>2 DEF FromEnv
  <2>3. CASE f \in DOMAIN env
    <3>1. (CHOOSE value \in {IsTruthyFlagValue(env[f])} : TRUE) = IsTruthyFlagValue(env[f])
      BY ChosenFromOne
    <3>2. f \notin Strings \cup Int32s \cup Doubles \cup KeyValues
      BY DEF f, Strings, Int32s, Doubles, KeyValues
    <3>3. FromEnv(f, env) = IsTruthyFlagValue(env[f])
      BY <1>1, <2>3, <3>1, <3>2 DEF FromEnv
    <3>4. QED
      BY <3>3 DEF IsTruthyFlagValue
  <2>4. QED
    BY <2>2, <2>3
<1>4. ASSUME NEW str, SetTo(str, f) # {} PROVE SetTo(str, f) \subseteq BOOLEAN
  <2>1. Converted(f, ValueText(str, f)) = {IsTruthyFlagValue(ValueText(str, f))}
    BY <1>1 DEF Converted
  <2>2. IsTruthyFlagValue(ValueText(str, f)) \in BOOLEAN
    BY DEF IsTruthyFlagValue
  <2>3. SetTo(str, f) \subseteq {TRUE} \cup Converted(f, ValueText(str, f))
    BY <1>1, SetToConverted
  <2>4. QED
    BY <2>1, <2>2, <2>3
<1>5. FLAGS[f] \in BOOLEAN
  <2>1. CASE Setting(f, Read) = {}
    BY <1>2, <1>3, <2>1 DEF Settled
  <2>2. CASE Setting(f, Read) # {}
    <3>1. {FLAGS[f]} = SetTo(given[Max(Setting(f, Read))], f)
      BY <1>2, <2>2 DEF Settled
    <3>2. SetTo(given[Max(Setting(f, Read))], f) # {}
      BY <3>1
    <3>3. QED
      BY <1>4, <3>1, <3>2
  <2>3. QED
    BY <2>1, <2>2
<1>6. QED
  BY <1>5 DEF tabular, f

\* A reporter that has been made, or is used again.
LEMMA ReporterMade ==
    ASSUME NEW kind \in Kinds, NEW t \in BOOLEAN, NEW e \in {"apart", "output"}, NEW d \in BOOLEAN
    PROVE  Reporter(kind, t, e, d) \in ReporterType /\ Reporter(kind, t, e, d).check_failed = FALSE
<1>1. <<>> \in Seq(Item)
  OBVIOUS
<1>2. QED
  BY <1>1 DEF Reporter, ReporterType

LEMMA ReporterCleared ==
    ASSUME NEW r \in ReporterType
    PROVE  /\ [r EXCEPT !.out = <<>>] \in ReporterType
           /\ [r EXCEPT !.out = <<>>].out = <<>>
           /\ [r EXCEPT !.out = <<>>].check_failed = r.check_failed
<1>1. <<>> \in Seq(Item)
  OBVIOUS
<1>2. QED
  BY <1>1 DEF ReporterType

\* The lines of the context are not a run.
LEMMA BasicContextWritesNoRun ==
    ASSUME NEW r \in ReporterType, r.out = <<>>
    PROVE  /\ PrintBasicContext(r) \in ReporterType
           /\ PrintBasicContext(r).check_failed = r.check_failed
           /\ RunsOf(PrintBasicContext(r).out) = <<>>
<1>1. Basic \in Item /\ Basic \notin RunItem
  BY PlainItems DEF RunItem
<1>2. <<Basic>> \in Seq(Item)
  BY <1>1
<1>3. RunsOf(<<Basic>>) = <<>>
  BY <1>1, RunsOfOne
<1>4. RunsOf(r.out) \o RunsOf(<<Basic>>) = <<>>
  BY <1>3, RunsOfEmpty
<1>5. CASE r.error_stream_ = "output"
  <2>1. PrintBasicContext(r) = Write(r, <<Basic>>)
    BY <1>5 DEF PrintBasicContext
  <2>2. QED
    BY <1>2, <1>4, <2>1, WriteType
<1>6. CASE r.error_stream_ # "output"
  BY <1>6, RunsOfEmpty DEF PrintBasicContext
<1>7. QED
  BY <1>5, <1>6

\* ReportContext and Finalize write no run.
LEMMA ContextWritesNoRun ==
    ASSUME NEW r \in ReporterType, r.out = <<>>
    PROVE  /\ ReportContext(r) \in ReporterType
           /\ ReportContext(r).check_failed = r.check_failed
           /\ RunsOf(ReportContext(r).out) = <<>>
<1>1. r.kind \in {"console", "json", "csv"}
  BY DEF ReporterType, Kinds
<1>2. CASE r.kind = "json"
  <2>1. Open \in Item /\ Open \notin RunItem
    BY PlainItems DEF RunItem
  <2>2. <<Open>> \in Seq(Item)
    BY <2>1
  <2>3. RunsOf(<<Open>>) = <<>>
    BY <2>1, RunsOfOne
  <2>4. RunsOf(r.out) \o RunsOf(<<Open>>) = <<>>
    BY <2>3, RunsOfEmpty
  <2>5. ReportContext(r) = Write(r, <<Open>>)
    BY <1>2 DEF ReportContext
  <2>6. QED
    BY <2>2, <2>4, <2>5, WriteType
<1>3. CASE r.kind = "csv"
  BY <1>3, BasicContextWritesNoRun DEF ReportContext
<1>4. CASE r.kind = "console"
  <2> DEFINE q == [r EXCEPT !.printed_header_ = FALSE, !.prev_counters_ = {}]
  <2>1. q \in ReporterType /\ q.out = r.out /\ q.check_failed = r.check_failed
    BY DEF ReporterType
  <2>2. ReportContext(r) = PrintBasicContext(q)
    BY <1>4 DEF ReportContext
  <2> HIDE DEF q
  <2>3. QED
    BY <2>1, <2>2, BasicContextWritesNoRun
<1>5. QED
  BY <1>1, <1>2, <1>3, <1>4

LEMMA FinalizeType ==
    ASSUME NEW r \in ReporterType
    PROVE  Finalize(r) \in ReporterType /\ Finalize(r).check_failed = r.check_failed
<1>1. Close \in Item
  BY PlainItems
<1>2. <<Close>> \in Seq(Item)
  BY <1>1
<1>3. QED
  BY <1>2, WriteType DEF Finalize

LEMMA OutputsInit == Init => OutputsInv
<1>1. SUFFICES ASSUME Init PROVE OutputsInv
  OBVIOUS
<1>2. /\ program \in Programs /\ display = {} /\ file = {} /\ reported = <<>> /\ at = "parsing"
  BY <1>1 DEF Init, CommandLineInit
<1>3. <<>> \in Seq(Batches)
  OBVIOUS
<1>4. QED
  BY <1>2, <1>3 DEF OutputsInv, OutputsType, FormatsInv, Unfailed, Blank, Complete, Parsed

\* The formats stay what CheckFlags has seen.
LEMMA FormatsKept == ASSUME FormatsInv, [Next]_vars PROVE FormatsInv'
<1>1. CASE ParseArgument
  BY <1>1 DEF ParseArgument, FormatsInv, Parsed
<1>2. CASE CheckFlags
  BY <1>2 DEF CheckFlags, FormatsInv, Parsed, Formats
<1>3. CASE ~ParseArgument /\ ~CheckFlags
  <2>1. FLAGS' = FLAGS
    BY <1>3, LaterSteps DEF Settle
  <2>2. Parsed' => Parsed
    <3>1. CASE ReportUnrecognizedArguments
      BY <3>1 DEF ReportUnrecognizedArguments, Parsed
    <3>2. CASE UNCHANGED vars
      BY <3>2 DEF vars, commandVars, Parsed
    <3>3. CASE \E batch \in Batches : Report(batch)
      BY <3>3 DEF Report, Parsed
    <3>4. CASE SetUpReporters \/ FindBenchmarks \/ ListTests \/ Context
      BY <3>4 DEF SetUpReporters, FindBenchmarks, ListTests, Context, Parsed
    <3>5. CASE NoIterations \/ LastReported \/ FinalizeReporters \/ Returned
      BY <3>5 DEF NoIterations, LastReported, FinalizeReporters, Returned, Parsed
    <3>6. QED
      BY <1>3, <3>1, <3>2, <3>3, <3>4, <3>5 DEF Next, CommandLineNext
  <2>3. QED
    BY <2>1, <2>2 DEF FormatsInv
<1>4. QED
  BY <1>1, <1>2, <1>3

\* Steps that leave the outputs alone.
LEMMA OutputsKept ==
    ASSUME OutputsInv, FormatsInv', UNCHANGED mainVars, at' = "exit" \/ at # "exit",
           at' \in {"find", "context"} => at \in {"find", "context"},
           at' \in {"report", "finalize"} => at \in {"report", "finalize"} /\ FLAGS' = FLAGS
    PROVE  OutputsInv'
<1>1. UNCHANGED <<program, display, file, reported>>
  BY DEF mainVars
<1>2. OutputsType'
  BY <1>1 DEF OutputsInv, OutputsType
<1>3. Unfailed'
  BY <1>1 DEF OutputsInv, Unfailed
<1>4. Blank'
  BY <1>1 DEF OutputsInv, Blank
<1>5. Complete'
  BY <1>1, DuesKept DEF OutputsInv, Complete
<1>6. QED
  BY <1>2, <1>3, <1>4, <1>5 DEF OutputsInv

Fine == {r \in ReporterType : r.check_failed = FALSE}

\* The reporters of the next suite, made or used again.
LEMMA SetUpTypes ==
    ASSUME OutputsInv, SettingsInv, at = "initialized"
    PROVE  DisplayReporter \subseteq Fine /\ FileReporter \subseteq Fine
<1>2. program \in Programs /\ reported \in Seq(Batches)
  BY DEF OutputsInv, OutputsType
<1>3. /\ program.display \in {"default"} \cup Kinds /\ program.file \in {"default"} \cup Kinds
      /\ program.ndebug \in BOOLEAN
  BY <1>2, MainAssumption
<1>4. FLAGS["benchmark_format"][1] \in Kinds /\ FLAGS["benchmark_out_format"][1] \in Kinds
  <2>1. FLAGS["benchmark_format"] \in Formats /\ FLAGS["benchmark_out_format"] \in Formats
    BY DEF OutputsInv, FormatsInv, Parsed
  <2>2. \A f \in Formats : f[1] \in Kinds
    BY DEF Formats, Kinds
  <2>3. QED
    BY <2>1, <2>2
<1>5. tabular \in BOOLEAN
  BY TabularType
<1>6. /\ display \in SUBSET ReporterType /\ file \in SUBSET ReporterType
      /\ \A r \in display \cup file : r.check_failed = FALSE
  BY DEF OutputsInv, OutputsType, Unfailed
<1>7. \A kind \in Kinds, t \in BOOLEAN, e \in {"apart", "output"} :
         Reporter(kind, t, e, program.ndebug) \in Fine
  BY <1>3, ReporterMade DEF Fine
<1>8. display \subseteq Fine /\ file \subseteq Fine
  BY <1>6 DEF Fine
<1>9. DisplayReporter \subseteq Fine
  BY <1>3, <1>4, <1>5, <1>7, <1>8 DEF DisplayReporter
<1>10. FileReporter \subseteq Fine
  BY <1>3, <1>4, <1>5, <1>7, <1>8 DEF FileReporter
<1>11. QED
  BY <1>9, <1>10

LEMMA SetUpReportersKeeps ==
    ASSUME OutputsInv, SettingsInv, FormatsInv', SetUpReporters
    PROVE  OutputsInv'
<1>1. /\ at = "initialized" /\ program' = program /\ reported' = reported
  BY DEF SetUpReporters
<1>2. /\ program \in Programs /\ reported \in Seq(Batches)
      /\ display \in SUBSET ReporterType /\ file \in SUBSET ReporterType
      /\ \A r \in display \cup file : r.check_failed = FALSE
  BY <1>1 DEF OutputsInv, OutputsType, Unfailed
<1>3. DisplayReporter \subseteq Fine /\ FileReporter \subseteq Fine
  BY <1>1, SetUpTypes
<1>11. CASE UNCHANGED <<display, file>> /\ at' = "exit"
  BY <1>1, <1>2, <1>11 DEF OutputsInv, OutputsType, Unfailed, Blank, Complete
<1>12. CASE /\ display' = {[r EXCEPT !.out = <<>>] : r \in DisplayReporter}
            /\ file' = {[r EXCEPT !.out = <<>>] : r \in FileReporter}
            /\ at' \in {"exit", "find"}
  <2>1. ASSUME NEW r \in Fine
        PROVE  /\ [r EXCEPT !.out = <<>>] \in ReporterType
               /\ [r EXCEPT !.out = <<>>].out = <<>>
               /\ [r EXCEPT !.out = <<>>].check_failed = FALSE
    BY ReporterCleared DEF Fine
  <2>2. \A r \in display' \cup file' : r \in ReporterType /\ r.out = <<>> /\ r.check_failed = FALSE
    BY <1>3, <1>12, <2>1
  <2>3. QED
    BY <1>1, <1>2, <1>12, <2>2 DEF OutputsInv, OutputsType, Unfailed, Blank, Complete
<1>13. QED
  BY <1>11, <1>12 DEF SetUpReporters, GoTo, Exit

LEMMA ContextKeeps ==
    ASSUME OutputsInv, FormatsInv', Context
    PROVE  OutputsInv'
<1> DEFINE accepted == program.accepts \/ program.display = "default"
<1>1. /\ at = "context" /\ program' = program /\ reported' = <<>> /\ FLAGS' = FLAGS
      /\ display' = IF accepted THEN {ReportContext(r) : r \in display} ELSE display
      /\ file' = IF accepted THEN {ReportContext(r) : r \in file} ELSE file
      /\ at' \in {"exit", "report", "finalize"}
  BY DEF Context, Exit, GoTo
<1> HIDE DEF accepted
<1>2. /\ display \in SUBSET ReporterType /\ file \in SUBSET ReporterType /\ program \in Programs
      /\ \A r \in display \cup file : r.check_failed = FALSE /\ r.out = <<>>
  BY <1>1 DEF OutputsInv, OutputsType, Unfailed, Blank
<1>3. ASSUME NEW r \in ReporterType, r.check_failed = FALSE, r.out = <<>>
      PROVE  /\ ReportContext(r) \in ReporterType /\ ReportContext(r).check_failed = FALSE
             /\ RunsOf(ReportContext(r).out) = <<>> /\ RunsOf(r.out) = <<>>
  BY <1>3, ContextWritesNoRun, RunsOfEmpty
<1>4. \A r \in display' \cup file' :
         r \in ReporterType /\ r.check_failed = FALSE /\ RunsOf(r.out) = <<>>
  BY <1>1, <1>2, <1>3
<1>5. DisplayDues(reported)' = <<>> /\ FileDues(reported)' = <<>>
  BY <1>1, DuesKept, DuesOfNone
<1>6. <<>> \in Seq(Batches)
  OBVIOUS
<1>7. QED
  BY <1>1, <1>2, <1>4, <1>5, <1>6 DEF OutputsInv, OutputsType, Unfailed, Blank, Complete

LEMMA ReportKeeps ==
    ASSUME OutputsInv, FormatsInv', NEW batch \in Batches, Report(batch)
    PROVE  OutputsInv'
<1> DEFINE shown == {ReportOne(r, DisplayOnly(batch), batch) : r \in display}
           filed == {ReportOne(r, FileOnly(batch), batch) : r \in file}
           failed == \E r \in shown \cup filed : r.check_failed
           displayDue == Due(batch, DisplayOnly(batch))
           fileDue == Due(batch, FileOnly(batch))
<1>1. /\ at = "report" /\ program' = program /\ reported' = Append(reported, batch) /\ FLAGS' = FLAGS
      /\ display' = shown /\ file' = filed
      /\ IF failed THEN at' = "exit" ELSE at' = at
  BY DEF Report, Exit, commandVars
<1>2. /\ display \in SUBSET ReporterType /\ file \in SUBSET ReporterType /\ program \in Programs
      /\ reported \in Seq(Batches)
  BY DEF OutputsInv, OutputsType
<1>3. /\ \A r \in display : Reports(ReportOne(r, DisplayOnly(batch), batch), r, displayDue)
      /\ \A r \in file : Reports(ReportOne(r, FileOnly(batch), batch), r, fileDue)
  BY <1>2, ReportOneReports
<1>4. shown \in SUBSET ReporterType /\ filed \in SUBSET ReporterType
  BY <1>3 DEF Reports
<1>5. reported' \in Seq(Batches)
  BY <1>1, <1>2
<1>6. OutputsType'
  BY <1>1, <1>2, <1>4, <1>5 DEF OutputsType
<1>7. \A r \in shown \cup filed : r.check_failed \in BOOLEAN
  BY <1>4 DEF ReporterType
<1> HIDE DEF shown, filed
<1>8. Unfailed'
  BY <1>1, <1>7 DEF Unfailed
<1>9. Blank'
  BY <1>1 DEF Blank
<1>10. Complete'
  <2>1. SUFFICES ASSUME at' \in {"report", "finalize"}
                 PROVE  /\ \A r \in shown : RunsOf(r.out) = DisplayDues(Append(reported, batch))
                        /\ \A r \in filed : RunsOf(r.out) = FileDues(Append(reported, batch))
    BY <1>1, DuesKept DEF Complete
  <2>2. \A r \in shown \cup filed : r.check_failed = FALSE
    BY <1>1, <1>7, <2>1
  <2>3. /\ DisplayDues(Append(reported, batch)) = DisplayDues(reported) \o displayDue
        /\ FileDues(Append(reported, batch)) = FileDues(reported) \o fileDue
    BY <1>2, DisplayDueAppend, FileDueAppend
  <2>4. /\ \A r \in display : RunsOf(r.out) = DisplayDues(reported)
        /\ \A r \in file : RunsOf(r.out) = FileDues(reported)
    BY <1>1 DEF OutputsInv, Complete
  <2> HIDE DEF displayDue, fileDue
  <2>5. ASSUME NEW q \in shown PROVE RunsOf(q.out) = DisplayDues(Append(reported, batch))
    <3>1. PICK r \in display : q = ReportOne(r, DisplayOnly(batch), batch)
      BY DEF shown
    <3>2. Reports(q, r, displayDue) /\ q.check_failed = FALSE
      BY <1>3, <2>2, <3>1
    <3>3. RunsOf(q.out) = RunsOf(r.out) \o displayDue
      BY <3>2 DEF Reports
    <3>4. QED
      BY <2>3, <2>4, <3>3
  <2>6. ASSUME NEW q \in filed PROVE RunsOf(q.out) = FileDues(Append(reported, batch))
    <3>1. PICK r \in file : q = ReportOne(r, FileOnly(batch), batch)
      BY DEF filed
    <3>2. Reports(q, r, fileDue) /\ q.check_failed = FALSE
      BY <1>3, <2>2, <3>1
    <3>3. RunsOf(q.out) = RunsOf(r.out) \o fileDue
      BY <3>2 DEF Reports
    <3>4. QED
      BY <2>3, <2>4, <3>3
  <2>7. QED
    BY <2>5, <2>6
<1>11. QED
  BY <1>6, <1>8, <1>9, <1>10 DEF OutputsInv

LEMMA FinalizeKeeps ==
    ASSUME OutputsInv, FormatsInv', FinalizeReporters
    PROVE  OutputsInv'
<1>1. /\ at = "finalize" /\ at' = "returned" /\ program' = program /\ reported' = reported
      /\ display' = {Finalize(r) : r \in display} /\ file' = {Finalize(r) : r \in file}
  BY DEF FinalizeReporters, GoTo
<1>2. /\ display \in SUBSET ReporterType /\ file \in SUBSET ReporterType /\ program \in Programs
      /\ reported \in Seq(Batches) /\ \A r \in display \cup file : r.check_failed = FALSE
  BY <1>1 DEF OutputsInv, OutputsType, Unfailed
<1>3. \A r \in ReporterType : Finalize(r) \in ReporterType /\ Finalize(r).check_failed = r.check_failed
  BY FinalizeType
<1>4. \A r \in display' \cup file' : r \in ReporterType /\ r.check_failed = FALSE
  BY <1>1, <1>2, <1>3
<1>5. QED
  BY <1>1, <1>2, <1>4 DEF OutputsInv, OutputsType, Unfailed, Blank, Complete

LEMMA OutputsStep ==
    ASSUME OutputsInv, SettingsInv, [Next]_vars
    PROVE  OutputsInv'
<1>0. FormatsInv'
  BY FormatsKept DEF OutputsInv
<1>1. CASE CommandLineNext /\ UNCHANGED mainVars
  <2>1. at # "exit" /\ at' \notin {"find", "context", "report", "finalize"}
    BY <1>1 DEF CommandLineNext, ParseArgument, CheckFlags, ReportUnrecognizedArguments
  <2>2. QED
    BY <1>0, <1>1, <2>1, OutputsKept
<1>2. CASE SetUpReporters
  BY <1>0, <1>2, SetUpReportersKeeps
<1>3. CASE FindBenchmarks
  <2>1. /\ at = "find" /\ at' \in {"returned", "listed", "context"}
        /\ UNCHANGED <<program, display, file, reported>>
    BY <1>3 DEF FindBenchmarks, GoTo
  <2>2. QED
    BY <1>0, <2>1 DEF OutputsInv, OutputsType, Unfailed, Blank, Complete
<1>4. CASE ListTests
  BY <1>0, <1>4, OutputsKept DEF ListTests, GoTo
<1>5. CASE Context
  BY <1>0, <1>5, ContextKeeps
<1>6. CASE \E batch \in Batches : Report(batch)
  BY <1>0, <1>6, ReportKeeps
<1>7. CASE NoIterations
  BY <1>0, <1>7, OutputsKept DEF NoIterations, Exit
<1>8. CASE LastReported
  BY <1>0, <1>8, OutputsKept DEF LastReported, GoTo
<1>9. CASE FinalizeReporters
  BY <1>0, <1>9, FinalizeKeeps
<1>10. CASE Returned
  BY <1>0, <1>10, OutputsKept DEF Returned, GoTo, Exit
<1>11. CASE UNCHANGED vars
  <2>1. UNCHANGED mainVars /\ at' = at /\ FLAGS' = FLAGS
    BY <1>11 DEF vars, commandVars
  <2>2. CASE at # "exit"
    BY <1>0, <2>1, <2>2, OutputsKept
  <2>3. CASE at = "exit"
    BY <1>0, <2>1, <2>3, OutputsKept
  <2>4. QED
    BY <2>2, <2>3
<1>12. QED
  BY <1>1, <1>2, <1>3, <1>4, <1>5, <1>6, <1>7, <1>8, <1>9, <1>10, <1>11 DEF Next

\* What a suite's results become in an output, when its reporters are finalized:
\* each output has all runs that were reported, once and in order, whatever its
\* format; the repetitions are left out only where the flags or the benchmark ask
\* for aggregates only in this output, and never where there is no aggregate.
THEOREM MainNothingLeftOut == Spec => []NothingLeftOut
<1>1. Init => OutputsInv
  BY OutputsInit
<1>2. OutputsInv /\ (ParsingInv /\ ArgumentsInv /\ SettingsInv) /\ [Next]_vars => OutputsInv'
  BY OutputsStep
<1>3. OutputsInv => NothingLeftOut
  BY DEF OutputsInv, Complete, NothingLeftOut, DisplayDues, FileDues
<1>4. QED
  BY <1>1, <1>2, <1>3, ParsingAlways, PTL DEF Spec
-----------------------------------------------------------------------------
(* Names in their order. *)

LEMMA OrderedIs ==
    ASSUME NEW names
    PROVE  /\ Ordered(names) \in Seq(STRING) /\ ToSet(Ordered(names)) = ToSet(Counters) \cap names
           /\ IsInjective(Ordered(names))
           /\ names = {} => Ordered(names) = <<>>
<1>1. Ordered(names) = Among(Counters, names)
  BY DEF Ordered
<1>2. Counters \in Seq(STRING) /\ IsInjective(Counters)
  BY CountersAssumption
<1>3. Among(Counters, names) \in Seq(STRING)
  BY <1>2, AmongProperties
<1>4. ToSet(Among(Counters, names)) = ToSet(Counters) \cap names
  BY <1>2, AmongElements
<1>5. IsInjective(Among(Counters, names))
  BY <1>2, AmongInjective
<1>6. ASSUME names = {} PROVE Among(Counters, names) = <<>>
  BY <1>2, <1>6, AmongNone
<1>7. QED
  BY <1>1, <1>3, <1>4, <1>5, <1>6
-----------------------------------------------------------------------------
(* The columns of a CSV file. *)

\* What is between two commas with nothing between them.
Nothing == ""

\* The fields before those of the user counters, for a run that was not skipped.
Rate(run, c) == IF c \in run.counters THEN c ELSE Nothing
SecondFields(run) ==
    <<Rate(run, "bytes_per_second"), Rate(run, "items_per_second"), "label", Nothing, Nothing>>
FixedFields(run) ==
    <<"name">> \o <<IF run.type \notin {"big_o", "rms"} THEN "iterations" ELSE Nothing>>
    \o <<"real_time", "cpu_time">>
    \o <<IF run.type \notin {"rms", "percentage"} THEN "time_unit" ELSE Nothing>>
    \o SecondFields(run)

UserFields(names, run) == [k \in DOMAIN Ordered(names) |-> Rate(run, Ordered(names)[k])]

LEMMA CsvFieldsIs ==
    ASSUME NEW names, NEW run
    PROVE  CsvFields(names, run) = IF run.skipped # "no" THEN SkippedFields
                                   ELSE FixedFields(run) \o UserFields(names, run)
  BY Zenon DEF CsvFields, FixedFields, SecondFields, UserFields, Rate, Nothing

Empty(n) == [k \in 1 .. n |-> Nothing]

LEMMA SkippedFieldsIs ==
    SkippedFields = <<"name">> \o Empty(Len(elements) - 3) \o <<"error_occurred", "error_message">>
  BY Zenon DEF SkippedFields, Empty, Nothing

Titles == {"name", "iterations", "real_time", "cpu_time", "time_unit", "bytes_per_second",
           "items_per_second", "label", "error_occurred", "error_message"}
Texts == STRING \cup Titles \cup {Nothing}

LEMMA ElementsAre ==
    /\ elements \in Seq(Texts) /\ Len(elements) = 10
    /\ elements[1] = "name" /\ elements[2] = "iterations" /\ elements[3] = "real_time"
    /\ elements[4] = "cpu_time" /\ elements[5] = "time_unit" /\ elements[6] = "bytes_per_second"
    /\ elements[7] = "items_per_second" /\ elements[8] = "label"
    /\ elements[9] = "error_occurred" /\ elements[10] = "error_message"
<1>1. elements \in Seq(Titles)
  BY DEF elements, Titles
<1>2. elements \in Seq(Texts)
  <2>1. ToSet(elements) \subseteq Titles /\ Titles \subseteq Texts
    BY <1>1, ToSetProperties DEF Texts
  <2>2. QED
    BY <1>1, <2>1, SeqOfHeld
<1>3. Len(elements) = 10
  BY DEF elements
<1>4. /\ elements[1] = "name" /\ elements[2] = "iterations" /\ elements[3] = "real_time"
      /\ elements[4] = "cpu_time" /\ elements[5] = "time_unit"
  BY DEF elements
<1>5. /\ elements[6] = "bytes_per_second" /\ elements[7] = "items_per_second"
      /\ elements[8] = "label" /\ elements[9] = "error_occurred" /\ elements[10] = "error_message"
  BY DEF elements
<1>6. QED
  BY <1>2, <1>3, <1>4, <1>5

LEMMA FiveOf ==
    ASSUME NEW D, NEW a \in D, NEW b \in D, NEW c \in D, NEW d \in D, NEW e \in D
    PROVE  LET s == <<a>> \o <<b>> \o <<c, d>> \o <<e>>
           IN  s \in Seq(D) /\ Len(s) = 5 /\ s[1] = a /\ s[2] = b /\ s[3] = c /\ s[4] = d /\ s[5] = e
<1> DEFINE p == <<a>> \o <<b>>
           u == <<c, d>>
           q == p \o u
           v == <<e>>
           r == q \o v
<1>1. p \in Seq(D) /\ Len(p) = 2 /\ p[1] = a /\ p[2] = b
  OBVIOUS
<1>2. u \in Seq(D) /\ Len(u) = 2 /\ u[1] = c /\ u[2] = d
  OBVIOUS
<1>3. v \in Seq(D) /\ Len(v) = 1 /\ v[1] = e
  OBVIOUS
<1>4. r = <<a>> \o <<b>> \o <<c, d>> \o <<e>>
  OBVIOUS
<1> HIDE DEF p, u, v
<1>5. q \in Seq(D) /\ IsJoin(q, p, u)
  BY <1>1, <1>2, JoinIs
<1> HIDE DEF q
<1>6. Len(q) = 4 /\ q[1] = a /\ q[2] = b /\ q[3] = c /\ q[4] = d
  BY <1>1, <1>2, <1>5 DEF IsJoin
<1>7. r \in Seq(D) /\ IsJoin(r, q, v)
  BY <1>3, <1>5, JoinIs
<1> HIDE DEF r
<1>8. QED
  BY <1>3, <1>4, <1>6, <1>7 DEF IsJoin

LEMMA TextsAre ==
    /\ Nothing \in Texts
    /\ "name" \in Texts /\ "iterations" \in Texts /\ "real_time" \in Texts /\ "cpu_time" \in Texts
    /\ "time_unit" \in Texts /\ "bytes_per_second" \in Texts /\ "items_per_second" \in Texts
    /\ "label" \in Texts /\ "error_occurred" \in Texts /\ "error_message" \in Texts
  BY DEF Texts, Titles

\* Ten fields, each in the column of its name, with the rates that the run has.
LEMMA FixedFieldsAre ==
    ASSUME NEW run
    PROVE  /\ FixedFields(run) \in Seq(Texts) /\ Len(FixedFields(run)) = 10
           /\ \A k \in 1 .. 10 : FixedFields(run)[k] \in {Nothing, elements[k]}
           /\ Rates \cap run.counters \subseteq ToSet(FixedFields(run))
<1> DEFINE b == IF run.type \notin {"big_o", "rms"} THEN "iterations" ELSE Nothing
           e == IF run.type \notin {"rms", "percentage"} THEN "time_unit" ELSE Nothing
           f == Rate(run, "bytes_per_second")
           g == Rate(run, "items_per_second")
           s == <<"name">> \o <<b>> \o <<"real_time", "cpu_time">> \o <<e>>
           t == SecondFields(run)
           r == FixedFields(run)
<1>1. /\ b \in {Nothing, "iterations"} /\ e \in {Nothing, "time_unit"}
      /\ f \in {Nothing, "bytes_per_second"} /\ g \in {Nothing, "items_per_second"}
      /\ "bytes_per_second" \in run.counters => f = "bytes_per_second"
      /\ "items_per_second" \in run.counters => g = "items_per_second"
  BY DEF Rate
<1>2. t = <<f, g, "label", Nothing, Nothing>>
  BY DEF SecondFields
<1>3. r = s \o t
  BY DEF FixedFields
<1> HIDE DEF b, e, f, g, r
<1>4. b \in Texts /\ e \in Texts /\ f \in Texts /\ g \in Texts
  BY <1>1, TextsAre
<1>5. /\ s \in Seq(Texts) /\ Len(s) = 5
      /\ s[1] = "name" /\ s[2] = b /\ s[3] = "real_time" /\ s[4] = "cpu_time" /\ s[5] = e
  BY <1>4, TextsAre, FiveOf
<1> HIDE DEF s, t
<1>6. /\ t \in Seq(Texts) /\ Len(t) = 5
      /\ t[1] = f /\ t[2] = g /\ t[3] = "label" /\ t[4] = Nothing /\ t[5] = Nothing
  BY <1>2, <1>4, TextsAre
<1>7. r \in Seq(Texts) /\ IsJoin(r, s, t)
  BY <1>3, <1>5, <1>6, JoinIs
<1>8. /\ Len(r) = 10
      /\ r[1] = "name" /\ r[2] = b /\ r[3] = "real_time" /\ r[4] = "cpu_time" /\ r[5] = e
      /\ r[6] = f /\ r[7] = g /\ r[8] = "label" /\ r[9] = Nothing /\ r[10] = Nothing
  BY <1>5, <1>6, <1>7 DEF IsJoin
<1>9. ASSUME NEW k \in 1 .. 10 PROVE r[k] \in {Nothing, elements[k]}
  <2>1. k \in {1, 2, 3, 4, 5} \/ k \in {6, 7, 8, 9, 10}
    OBVIOUS
  <2>2. CASE k \in {1, 2, 3, 4, 5}
    BY <1>1, <1>8, <2>2, ElementsAre
  <2>3. CASE k \in {6, 7, 8, 9, 10}
    BY <1>1, <1>8, <2>3, ElementsAre
  <2>4. QED
    BY <2>1, <2>2, <2>3
<1>10. ASSUME NEW c \in Rates \cap run.counters PROVE c \in ToSet(r)
  <2>1. DOMAIN r = 1 .. 10
    BY <1>7, <1>8, LenProperties
  <2>2. c = r[6] \/ c = r[7]
    BY <1>1, <1>8 DEF Rates
  <2>3. QED
    BY <2>1, <2>2 DEF ToSet
<1>11. QED
  BY <1>7, <1>8, <1>9, <1>10 DEF r

LEMMA SkippedFieldsAre ==
    /\ SkippedFields \in Seq(Texts) /\ Len(SkippedFields) = 10
    /\ \A k \in 1 .. 10 : SkippedFields[k] \in {Nothing, elements[k]}
    /\ "error_message" \in ToSet(SkippedFields)
<1> DEFINE p == <<"name">>
           u == Empty(7)
           q == p \o u
           v == <<"error_occurred", "error_message">>
           r == q \o v
<1>1. p \in Seq(Texts) /\ Len(p) = 1 /\ p[1] = "name"
  BY TextsAre
<1>2. u \in Seq(Texts) /\ Len(u) = 7 /\ \A k \in 1 .. 7 : u[k] = Nothing
  BY TextsAre DEF Empty
<1>3. v \in Seq(Texts) /\ Len(v) = 2 /\ v[1] = "error_occurred" /\ v[2] = "error_message"
  BY TextsAre
<1>4. SkippedFields = r
  <2>1. Len(elements) - 3 = 7
    BY ElementsAre
  <2>2. QED
    BY <2>1, SkippedFieldsIs
<1> HIDE DEF p, u, v
<1>5. q \in Seq(Texts) /\ IsJoin(q, p, u)
  BY <1>1, <1>2, JoinIs
<1> HIDE DEF q
<1>6. Len(q) = 8 /\ q[1] = "name" /\ \A k \in 2 .. 8 : q[k] = Nothing
  <2>1. Len(q) = 8 /\ q[1] = p[1] /\ \A k \in 1 .. 7 : q[1 + k] = u[k]
    BY <1>1, <1>2, <1>5 DEF IsJoin
  <2>2. ASSUME NEW k \in 2 .. 8 PROVE q[k] = Nothing
    <3>1. k - 1 \in 1 .. 7 /\ 1 + (k - 1) = k
      OBVIOUS
    <3>2. QED
      BY <1>2, <2>1, <3>1
  <2>3. QED
    BY <1>1, <2>1, <2>2
<1>7. r \in Seq(Texts) /\ IsJoin(r, q, v)
  BY <1>3, <1>5, JoinIs
<1> HIDE DEF r
<1>8. /\ Len(r) = 10 /\ r[1] = "name" /\ \A k \in 2 .. 8 : r[k] = Nothing
      /\ r[9] = "error_occurred" /\ r[10] = "error_message"
  BY <1>3, <1>6, <1>7 DEF IsJoin
<1>9. ASSUME NEW k \in 1 .. 10 PROVE r[k] \in {Nothing, elements[k]}
  <2>1. k \in 2 .. 8 \/ k \in {1, 9, 10}
    OBVIOUS
  <2>2. CASE k \in 2 .. 8
    BY <1>8, <2>2
  <2>3. CASE k \in {1, 9, 10}
    BY <1>8, <2>3, ElementsAre
  <2>4. QED
    BY <2>1, <2>2, <2>3
<1>10. "error_message" \in ToSet(r)
  <2>1. DOMAIN r = 1 .. 10
    BY <1>7, <1>8, LenProperties
  <2>2. QED
    BY <1>8, <2>1 DEF ToSet
<1>11. QED
  BY <1>4, <1>7, <1>8, <1>9, <1>10

\* What StandsIn says of a line under these columns.
LineFits(line, columns, ndebug) ==
    LET forCounters == Rates \cup {columns[k] : k \in Len(elements) + 1 .. Len(columns)}
    IN  /\ IsRun(line) /\ Len(line.fields) <= Len(columns)
        /\ \A f \in DOMAIN line.fields : line.fields[f] \in {Nothing, columns[f]}
        /\ ~ndebug => line.run.counters \subseteq forCounters
        /\ IF line.run.skipped # "no" THEN "error_message" \in ToSet(line.fields)
           ELSE line.run.counters \cap forCounters \subseteq ToSet(line.fields)

\* The rows that may stand under columns for these names.
RowsOf(names, ndebug) ==
    {CsvRow(names, run) : run \in {x \in Run : ndebug \/ x.counters \ Rates \subseteq names}}

LEMMA UserFieldsAre ==
    ASSUME NEW names, NEW run
    PROVE  /\ UserFields(names, run) \in Seq(Texts)
           /\ Len(UserFields(names, run)) = Len(Ordered(names))
           /\ \A k \in 1 .. Len(Ordered(names)) :
                 UserFields(names, run)[k] \in {Nothing, Ordered(names)[k]}
           /\ ToSet(Counters) \cap names \cap run.counters \subseteq ToSet(UserFields(names, run))
<1> DEFINE s == Ordered(names)
           n == Len(s)
           u == UserFields(names, run)
<1>1. /\ s \in Seq(STRING) /\ n \in Nat /\ DOMAIN s = 1 .. n
      /\ ToSet(s) = ToSet(Counters) \cap names
  BY OrderedIs, LenProperties
<1> HIDE DEF s, n
<1>2. u = [k \in 1 .. n |-> Rate(run, s[k])]
  BY <1>1 DEF UserFields, s
<1>3. ASSUME NEW k \in 1 .. n
      PROVE  /\ Rate(run, s[k]) \in {Nothing, s[k]} /\ Rate(run, s[k]) \in Texts
             /\ s[k] \in run.counters => Rate(run, s[k]) = s[k]
  <2>1. s[k] \in STRING
    BY <1>1, LenProperties
  <2>2. QED
    BY <2>1 DEF Rate, Texts
<1> HIDE DEF u
<1>4. u \in Seq(Texts) /\ Len(u) = n /\ DOMAIN u = 1 .. n
  <2>1. u \in [1 .. n -> Texts]
    BY <1>2, <1>3
  <2>2. QED
    BY <1>1, <2>1, SeqDef
<1>5. \A k \in 1 .. n : u[k] \in {Nothing, s[k]}
  BY <1>2, <1>3
<1>6. ASSUME NEW c \in ToSet(Counters) \cap names \cap run.counters PROVE c \in ToSet(u)
  <2>1. PICK k \in 1 .. n : c = s[k]
    BY <1>1 DEF ToSet
  <2>2. u[k] = c
    BY <1>2, <1>3, <2>1
  <2>3. QED
    BY <1>4, <2>2 DEF ToSet
<1>7. QED
  BY <1>1, <1>4, <1>5, <1>6 DEF u, s, n

\* Two rows of which each part stands in its columns.
LEMMA JoinedFit ==
    ASSUME NEW D, NEW s \in Seq(D), NEW t \in Seq(D), NEW c \in Seq(D), NEW d \in Seq(D), NEW e,
           Len(s) = Len(c), Len(t) = Len(d),
           \A k \in 1 .. Len(s) : s[k] \in {e, c[k]}, \A k \in 1 .. Len(t) : t[k] \in {e, d[k]}
    PROVE  \A k \in DOMAIN (s \o t) : (s \o t)[k] \in {e, (c \o d)[k]}
<1> DEFINE r == s \o t
           h == c \o d
           n == Len(s)
           m == Len(t)
<1>1. r \in Seq(D) /\ h \in Seq(D) /\ IsJoin(r, s, t) /\ IsJoin(h, c, d) /\ n \in Nat /\ m \in Nat
  BY JoinIs, LenProperties
<1> HIDE DEF r, h
<1>2. DOMAIN r = 1 .. n + m
  BY <1>1, LenProperties DEF IsJoin
<1>3. /\ \A k \in 1 .. n : r[k] = s[k] /\ h[k] = c[k]
      /\ \A k \in 1 .. m : r[n + k] = t[k] /\ h[n + k] = d[k]
  BY <1>1 DEF IsJoin
<1>4. \A k \in 1 .. n : s[k] \in {e, c[k]}
  OBVIOUS
<1>5. \A k \in 1 .. m : t[k] \in {e, d[k]}
  OBVIOUS
<1> HIDE DEF n, m
<1>6. ASSUME NEW k \in 1 .. n + m PROVE r[k] \in {e, h[k]}
  <2>1. CASE k <= n
    BY <1>1, <1>3, <1>4, <2>1
  <2>2. CASE ~(k <= n)
    <3>1. k - n \in 1 .. m /\ n + (k - n) = k
      BY <1>1, <2>2
    <3>2. r[k] = t[k - n] /\ h[k] = d[k - n]
      BY <1>3, <3>1
    <3>3. QED
      BY <1>5, <3>1, <3>2
  <2>3. QED
    BY <2>1, <2>2
<1>7. QED
  BY <1>2, <1>6 DEF r, h

LEMMA RowFits ==
    ASSUME NEW names, NEW d, NEW line \in RowsOf(names, d)
    PROVE  LineFits(line, elements \o Ordered(names), d)
<1>1. PICK run \in Run : line = CsvRow(names, run) /\ (d \/ run.counters \ Rates \subseteq names)
  BY DEF RowsOf
<1> DEFINE s == Ordered(names)
           columns == elements \o s
           fixed == FixedFields(run)
           user == UserFields(names, run)
           forCounters == Rates \cup {columns[k] : k \in Len(elements) + 1 .. Len(columns)}
<1>2. /\ IsRun(line) /\ line.run = run /\ line.fields = CsvFields(names, run)
      /\ run.counters \subseteq ToSet(Counters)
  BY <1>1, CountersType DEF IsRun, CsvRow
<1>3. elements \in Seq(Texts) /\ Len(elements) = 10 /\ s \in Seq(Texts)
  <2>1. s \in Seq(STRING) /\ STRING \subseteq Texts
    BY OrderedIs DEF Texts
  <2>2. ToSet(s) \subseteq Texts
    BY <2>1, ToSetProperties
  <2>3. QED
    BY <2>1, <2>2, SeqOfHeld, ElementsAre
<1>4. /\ user \in Seq(Texts) /\ Len(user) = Len(s)
      /\ \A k \in 1 .. Len(user) : user[k] \in {Nothing, s[k]}
      /\ ToSet(Counters) \cap names \cap run.counters \subseteq ToSet(user)
  BY UserFieldsAre
<1>a. ToSet(s) = ToSet(Counters) \cap names
  BY OrderedIs
<1> HIDE DEF s, user
<1>5. columns \in Seq(Texts) /\ IsJoin(columns, elements, s) /\ Len(s) \in Nat
  BY <1>3, JoinIs, LenProperties
<1>b. forCounters = Rates \cup ToSet(s)
  <2> HIDE DEF columns
  <2>1. Len(columns) = 10 + Len(s) /\ \A k \in 1 .. Len(s) : columns[10 + k] = s[k]
    BY <1>3, <1>5 DEF IsJoin
  <2>2. DOMAIN s = 1 .. Len(s)
    BY <1>3, LenProperties
  <2>3. ASSUME NEW k \in 11 .. Len(columns) PROVE k - 10 \in 1 .. Len(s) /\ columns[k] = s[k - 10]
    <3>1. k - 10 \in 1 .. Len(s) /\ 10 + (k - 10) = k
      BY <1>5, <2>1
    <3>2. QED
      BY <2>1, <3>1
  <2>4. ASSUME NEW k \in 1 .. Len(s) PROVE 10 + k \in 11 .. Len(columns) /\ columns[10 + k] = s[k]
    BY <1>5, <2>1
  <2>5. {columns[k] : k \in 11 .. Len(columns)} = {s[k] : k \in 1 .. Len(s)}
    BY <2>3, <2>4
  <2>6. ToSet(s) = {s[k] : k \in 1 .. Len(s)} /\ Len(elements) + 1 = 11
    BY <1>3, <2>2 DEF ToSet
  <2>7. QED
    BY <2>5, <2>6
<1>c. ~d => run.counters \subseteq forCounters
  BY <1>1, <1>2, <1>a, <1>b
<1> HIDE DEF forCounters
<1>d. ASSUME Len(line.fields) <= Len(columns),
             \A f \in DOMAIN line.fields : line.fields[f] \in {Nothing, columns[f]},
             IF run.skipped # "no" THEN "error_message" \in ToSet(line.fields)
             ELSE run.counters \cap forCounters \subseteq ToSet(line.fields)
      PROVE  LineFits(line, columns, d)
  BY <1>2, <1>c, <1>d DEF LineFits, forCounters
<1>6. CASE run.skipped # "no"
  <2>1. line.fields = SkippedFields
    BY <1>2, <1>6, CsvFieldsIs
  <2>2. /\ SkippedFields \in Seq(Texts) /\ Len(SkippedFields) = 10 /\ DOMAIN SkippedFields = 1 .. 10
        /\ \A k \in 1 .. 10 : SkippedFields[k] \in {Nothing, elements[k]}
        /\ "error_message" \in ToSet(SkippedFields)
    BY SkippedFieldsAre, LenProperties
  <2> HIDE DEF columns
  <2>3. \A k \in 1 .. 10 : SkippedFields[k] \in {Nothing, columns[k]}
    BY <1>3, <1>5, <2>2 DEF IsJoin
  <2>4. 10 <= Len(columns)
    BY <1>3, <1>5 DEF IsJoin
  <2>5. LineFits(line, columns, d)
    BY <1>6, <1>d, <2>1, <2>2, <2>3, <2>4
  <2>6. QED
    BY <2>5 DEF columns, s
<1>7. CASE run.skipped = "no"
  <2>1. line.fields = fixed \o user
    BY <1>2, <1>7, CsvFieldsIs DEF user
  <2>2. /\ fixed \in Seq(Texts) /\ Len(fixed) = Len(elements)
        /\ \A k \in 1 .. Len(fixed) : fixed[k] \in {Nothing, elements[k]}
        /\ Rates \cap run.counters \subseteq ToSet(fixed)
    BY <1>3, FixedFieldsAre
  <2> HIDE DEF fixed
  <2>3. \A k \in DOMAIN (fixed \o user) : (fixed \o user)[k] \in {Nothing, columns[k]}
    BY <1>3, <1>4, <2>2, JoinedFit
  <2>4. fixed \o user \in Seq(Texts) /\ IsJoin(fixed \o user, fixed, user)
    BY <1>4, <2>2, JoinIs
  <2>5. ToSet(fixed \o user) = ToSet(fixed) \cup ToSet(user)
    BY <1>4, <2>2, ToSetProperties
  <2> HIDE DEF columns
  <2>6. Len(fixed \o user) <= Len(columns)
    BY <1>4, <1>5, <2>2, <2>4, LenProperties DEF IsJoin
  <2>7. run.counters \cap forCounters \subseteq ToSet(fixed \o user)
    BY <1>4, <1>a, <1>b, <2>2, <2>5
  <2>8. LineFits(line, columns, d)
    BY <1>7, <1>d, <2>1, <2>3, <2>6, <2>7
  <2>9. QED
    BY <2>8 DEF columns, s
<1>8. QED
  BY <1>6, <1>7
-----------------------------------------------------------------------------
(* What reporters have written is laid out, and stays so with each report. *)

\* The times of what is in an output, in its format.
TimesFit(kind, item) ==
    IsRun(item) /\ ~(kind = "csv" /\ item.run.type = "rms") => item.times = AsReported(item.run)
AllFit(kind, out) == \A item \in ToSet(out) : TimesFit(kind, item)
TimesOf(r) == AllFit(r.kind, r.out)

\* The header that a line of a console stands under is the last before it.
IsHeader(item) == "header" \in DOMAIN item
StandsUnder(out, k, columns) ==
    \E j \in 1 .. k : /\ IsHeader(out[j]) /\ out[j].header = columns
                      /\ \A l \in j + 1 .. k : ~IsHeader(out[l])
Headed(out) == \A k \in DOMAIN out : IsRun(out[k]) => StandsUnder(out, k, out[k].columns)
HeadedOf(r) == r.kind = "console" /\ r.tabular => Headed(r.out)
Under(r) ==
    r.kind = "console" /\ r.tabular =>
        /\ Headed(r.out)
        /\ r.printed_header_ => StandsUnder(r.out, Len(r.out), Ordered(r.prev_counters_))

\* The context where it is written to the output, then a header and rows that fit it.
HeaderOf(names) == [header |-> elements \o Ordered(names)]
Lead(r) == IF r.error_stream_ = "output" THEN <<Basic>> ELSE <<>>
CsvShape(r) ==
    IF r.printed_header_
    THEN \E rows \in Seq(RowsOf(r.user_counter_names_, r.ndebug)) :
             r.out = Lead(r) \o (<<HeaderOf(r.user_counter_names_)>> \o rows)
    ELSE r.out = Lead(r)
Lines(r) == r.kind = "csv" /\ r.check_failed = FALSE => CsvShape(r)

\* Objects with a comma behind each, and a document that is not closed yet.
Objects == {JsonObject(run) : run \in Run}
Alternating ==
    {s \in Seq(Item) : Len(s) % 2 = 0 /\ \A k \in 1 .. Len(s) : IF k % 2 = 1 THEN s[k] \in Objects
                                                                ELSE s[k] = Comma}
Document(out) == \E s \in Alternating, x \in Objects : out = (<<Open>> \o s) \o <<x>>
Began(r) == r.kind = "json" => IF r.first_report_ THEN r.out = <<Open>> ELSE Document(r.out)

Good(r) == TimesOf(r) /\ Under(r)
First(r) == Lines(r) /\ Began(r)
Shown(r) == /\ r.kind = "csv" /\ r.check_failed = FALSE => r.printed_header_
            /\ r.kind = "json" => ~r.first_report_

\* What a report makes of r; some says if it was of any run.
Lays(q, r, some) ==
    /\ q.kind = r.kind /\ q.tabular = r.tabular
    /\ q.error_stream_ = r.error_stream_ /\ q.ndebug = r.ndebug
    /\ Good(r) => Good(q)
    /\ First(r) => First(q)
    /\ Shown(r) \/ some => Shown(q)

\* Times that fit each item of two sequences fit their concatenation.
LEMMA TimesConcat ==
    ASSUME NEW kind, NEW s \in Seq(Item), NEW t \in Seq(Item),
           AllFit(kind, s), AllFit(kind, t)
    PROVE  AllFit(kind, s \o t)
<1>1. ToSet(s \o t) = ToSet(s) \cup ToSet(t)
  BY ToSetProperties
<1>2. QED
  BY <1>1 DEF AllFit

LEMMA OneFits ==
    ASSUME NEW kind, NEW x
    PROVE  AllFit(kind, <<>>) /\ (TimesFit(kind, x) => AllFit(kind, <<x>>))
<1>1. ToSet(<<>>) = {} /\ ToSet(<<x>>) = {x}
  BY DEF ToSet
<1>2. QED
  BY <1>1 DEF AllFit

LEMMA FitsAppended ==
    ASSUME NEW kind, NEW s \in Seq(Item), NEW x \in Item, AllFit(kind, s), TimesFit(kind, x)
    PROVE  AllFit(kind, Append(s, x))
<1>1. ToSet(Append(s, x)) = ToSet(s) \cup {x}
  BY ToSetProperties
<1>2. QED
  BY <1>1 DEF AllFit

\* Concatenation is associative, for these three.
Associates(a, b, c) == (a \o b) \o c = a \o (b \o c)

LEMMA ThreeJoined ==
    ASSUME NEW D, NEW a \in Seq(D), NEW b \in Seq(D), NEW c \in Seq(D)
    PROVE  Associates(a, b, c)
  BY ConcatAssociative DEF Associates

LEMMA WriteKeeps ==
    ASSUME NEW r \in ReporterType, NEW items
    PROVE  /\ Write(r, items).tabular = r.tabular
           /\ Write(r, items).error_stream_ = r.error_stream_ /\ Write(r, items).ndebug = r.ndebug
  BY DEF Write, ReporterType

LEMMA LeadIs ==
    ASSUME NEW r
    PROVE  Lead(r) \in Seq(Item)
<1>1. Basic \in Item
  BY PlainItems
<1>2. <<Basic>> \in Seq(Item) /\ <<>> \in Seq(Item)
  BY <1>1
<1>3. QED
  BY <1>2 DEF Lead

LEMMA CsvLays ==
    ASSUME NEW r \in ReporterType, r.kind = "csv", NEW runs \in Seq(Run), NEW some
    PROVE  Lays(CsvRuns(r, runs), r, some)
<1> DEFINE n == Len(runs)
           used == (UNION {runs[k].counters : k \in DOMAIN runs}) \ Rates
           names == IF r.printed_header_ THEN r.user_counter_names_ ELSE used
           header == IF r.printed_header_ THEN <<>> ELSE <<HeaderOf(names)>>
           rows == [k \in DOMAIN runs |-> CsvRow(names, runs[k])]
           items == header \o rows
           out == r.out \o items
           q == CsvRuns(r, runs)
<1>1. n \in Nat /\ DOMAIN runs = 1 .. n /\ \A k \in 1 .. n : runs[k] \in Run
  BY LenProperties
<1>2. r.out \in Seq(Item) /\ r.printed_header_ \in BOOLEAN /\ r.check_failed \in BOOLEAN
  BY DEF ReporterType
<1>3. names \in SUBSET ToSet(Counters)
  <2>1. r.user_counter_names_ \in SUBSET ToSet(Counters)
    BY DEF ReporterType
  <2>2. used \in SUBSET ToSet(Counters)
    BY <1>1, CountersType
  <2>3. QED
    BY <2>1, <2>2
<1>4. q = IF used \subseteq names \/ r.ndebug
          THEN [Write(r, items) EXCEPT !.printed_header_ = TRUE, !.user_counter_names_ = names]
          ELSE [r EXCEPT !.check_failed = TRUE]
  BY DEF CsvRuns, CsvRow, HeaderOf
<1>5. CASE ~(used \subseteq names \/ r.ndebug)
  <2>1. q = [r EXCEPT !.check_failed = TRUE]
    BY <1>4, <1>5
  <2> HIDE DEF q, used, names, header, rows, items, out
  <2>2. /\ q.kind = r.kind /\ q.tabular = r.tabular /\ q.out = r.out /\ q.check_failed = TRUE
        /\ q.error_stream_ = r.error_stream_ /\ q.ndebug = r.ndebug
        /\ q.printed_header_ = r.printed_header_ /\ q.prev_counters_ = r.prev_counters_
    BY <2>1 DEF ReporterType
  <2>3. Good(q) <=> Good(r)
    BY <2>2 DEF Good, TimesOf, Under
  <2>4. First(q) /\ Shown(q)
    BY <2>2 DEF First, Lines, Began, Shown
  <2>5. QED
    BY <2>2, <2>3, <2>4 DEF Lays, q
<1>6. CASE used \subseteq names \/ r.ndebug
  <2> HIDE DEF used, names
  <2> DEFINE Rows == RowsOf(names, r.ndebug)
             lead == Lead(r)
  <2>a. ASSUME NEW k \in 1 .. n PROVE r.ndebug \/ runs[k].counters \ Rates \subseteq names
    <3>1. runs[k].counters \ Rates \subseteq used
      <4> DEFINE each == {runs[j].counters : j \in DOMAIN runs}
      <4>1. runs[k].counters \in each
        BY <1>1
      <4>2. used = (UNION each) \ Rates
        BY DEF used
      <4> HIDE DEF each
      <4>3. QED
        BY <4>1, <4>2
    <3>2. QED
      BY <1>6, <3>1
  <2>1. rows \in Seq(Rows) /\ rows \in Seq(Item) /\ Len(rows) = n
        /\ \A k \in 1 .. n : \E run \in Run : rows[k] = CsvRow(names, run)
    <3>1. \A k \in 1 .. n : CsvRow(names, runs[k]) \in Rows /\ CsvRow(names, runs[k]) \in Item
      BY <1>1, <1>3, <2>a, CsvItems DEF RowsOf, RunItem
    <3>2. rows \in [1 .. n -> Rows] /\ rows \in [1 .. n -> Item]
      BY <1>1, <3>1
    <3>3. QED
      BY <1>1, <3>2, SeqDef
  <2>2. /\ header \in Seq(Item) /\ HeaderOf(names) \in Item /\ ~IsRun(HeaderOf(names))
        /\ IF r.printed_header_ THEN header = <<>> ELSE header = <<HeaderOf(names)>>
    <3>1. Ordered(names) \in Columns
      BY <1>3 DEF Columns
    <3>2. HeaderOf(names) \in Item /\ ~IsRun(HeaderOf(names))
      BY <3>1, PlainItems DEF HeaderOf
    <3>3. QED
      BY <1>2, <3>2
  <2>3. AllFit("csv", header) /\ AllFit("csv", rows)
    <3>1. AllFit("csv", header)
      <4>1. TimesFit("csv", HeaderOf(names))
        BY <2>2 DEF TimesFit
      <4>2. QED
        BY <2>2, <4>1, OneFits
    <3>2. \A run \in Run : TimesFit("csv", CsvRow(names, run))
      BY DEF TimesFit, CsvRow, CsvTimes, AsReported
    <3>3. ASSUME NEW item \in ToSet(rows) PROVE TimesFit("csv", item)
      <4>1. PICK k \in 1 .. n : item = rows[k]
        BY <1>1 DEF ToSet
      <4>2. QED
        BY <2>1, <3>2, <4>1
    <3>4. QED
      BY <3>1, <3>3 DEF AllFit
  <2>b. Rows \subseteq Item
    BY <1>3, CsvItems DEF RowsOf, RunItem
  <2> HIDE DEF header, rows, Rows
  <2>4. items \in Seq(Item) /\ AllFit("csv", items)
    BY <2>1, <2>2, <2>3, TimesConcat
  <2> HIDE DEF items
  <2>5. /\ Write(r, items) \in ReporterType /\ Write(r, items).out = out
        /\ Write(r, items).kind = r.kind /\ Write(r, items).check_failed = r.check_failed
    BY <2>4, WriteType
  <2>6. /\ Write(r, items).tabular = r.tabular
        /\ Write(r, items).error_stream_ = r.error_stream_ /\ Write(r, items).ndebug = r.ndebug
    BY WriteKeeps
  <2> DEFINE w == Write(r, items)
  <2> HIDE DEF w, out, q
  <2>7. q = [w EXCEPT !.printed_header_ = TRUE, !.user_counter_names_ = names]
    BY <1>4, <1>6 DEF w
  <2>8. /\ q.kind = "csv" /\ q.kind = r.kind /\ q.tabular = r.tabular /\ q.out = out
        /\ q.error_stream_ = r.error_stream_ /\ q.ndebug = r.ndebug
        /\ q.check_failed = r.check_failed
        /\ q.printed_header_ = TRUE /\ q.user_counter_names_ = names
    BY <2>5, <2>6, <2>7 DEF ReporterType, w
  <2>9. ASSUME Good(r) PROVE Good(q)
    <3>1. AllFit("csv", r.out)
      BY <2>9 DEF Good, TimesOf
    <3>2. AllFit("csv", out)
      BY <1>2, <2>4, <3>1, TimesConcat DEF out
    <3>3. QED
      BY <2>8, <3>2 DEF Good, TimesOf, Under
  <2>10. ASSUME First(r) PROVE First(q)
    <3>1. SUFFICES ASSUME q.check_failed = FALSE PROVE CsvShape(q)
      BY <2>8 DEF First, Lines, Began
    <3>2. CsvShape(r)
      BY <2>8, <2>10, <3>1 DEF First, Lines
    <3> DEFINE H == <<HeaderOf(names)>>
    <3>a. lead \in Seq(Item) /\ H \in Seq(Item)
      BY <2>2, LeadIs
    <3>b. IF r.printed_header_ THEN \E s \in Seq(RowsOf(r.user_counter_names_, r.ndebug)) :
                                       r.out = lead \o (<<HeaderOf(r.user_counter_names_)>> \o s)
          ELSE r.out = lead
      BY <3>2 DEF CsvShape
    <3>c. lead = Lead(q)
      BY <2>8 DEF Lead
    <3> HIDE DEF lead
    <3>3. \E s \in Seq(Rows) : out = lead \o (H \o s)
      <4>1. CASE ~r.printed_header_
        <5>1. r.out = lead /\ items = H \o rows
          BY <2>2, <3>b, <4>1 DEF items
        <5>2. out = lead \o (H \o rows)
          BY <5>1 DEF out
        <5>3. QED
          BY <2>1, <5>2
      <4>2. CASE r.printed_header_
        <5>1. names = r.user_counter_names_ /\ items = rows
          BY <2>1, <2>2, <4>2 DEF names, items
        <5>2. PICK s \in Seq(Rows) : r.out = lead \o (H \o s)
          BY <3>b, <4>2, <5>1 DEF Rows
        <5>3. s \o rows \in Seq(Rows)
          BY <2>1
        <5>4. out = lead \o (H \o (s \o rows))
          <6>1. s \in Seq(Item) /\ rows \in Seq(Item)
            BY <2>1, <2>b
          <6>2. out = (lead \o (H \o s)) \o rows
            BY <5>1, <5>2 DEF out
          <6> HIDE DEF H
          <6>3. H \o s \in Seq(Item)
            BY <3>a, <6>1
          <6>4. Associates(H, s, rows)
            BY <3>a, <6>1, ThreeJoined
          <6>5. Associates(lead, H \o s, rows)
            BY <3>a, <6>1, <6>3, ThreeJoined
          <6>6. QED
            BY <6>2, <6>4, <6>5, Zenon DEF Associates
        <5>5. QED
          BY <5>3, <5>4
      <4>3. QED
        BY <4>1, <4>2
    <3>4. QED
      BY <2>8, <3>3, <3>c DEF CsvShape, Rows
  <2>11. Shown(q)
    BY <2>8 DEF Shown
  <2>12. QED
    BY <2>8, <2>9, <2>10, <2>11 DEF Lays, q
<1>7. QED
  BY <1>5, <1>6

LEMMA ObjectsAre ==
    ASSUME NEW x \in Objects
    PROVE  /\ x \in Item /\ IsRun(x) /\ TimesFit("json", x)
           /\ \E run \in Run : x.keys = JsonKeys(run)
<1>1. PICK run \in Run : x = JsonObject(run)
  BY DEF Objects
<1>2. x \in Item /\ IsRun(x)
  BY <1>1, JsonItems DEF RunItem
<1>3. TimesFit("json", x) /\ x.keys = JsonKeys(run)
  BY <1>1 DEF TimesFit, JsonObject, JsonTimes, AsReported
<1>4. QED
  BY <1>2, <1>3

LEMMA AlternatingConcat ==
    ASSUME NEW s \in Alternating, NEW t \in Alternating
    PROVE  s \o t \in Alternating
<1> DEFINE r == s \o t
           n == Len(s)
           m == Len(t)
           At(k, x) == IF k % 2 = 1 THEN x \in Objects ELSE x = Comma
<1>1. /\ s \in Seq(Item) /\ t \in Seq(Item) /\ n \in Nat /\ m \in Nat /\ n % 2 = 0 /\ m % 2 = 0
      /\ \A k \in 1 .. n : At(k, s[k])
      /\ \A k \in 1 .. m : At(k, t[k])
  BY LenProperties DEF Alternating
<1>2. r \in Seq(Item) /\ IsJoin(r, s, t)
  BY <1>1, JoinIs
<1>3. /\ Len(r) = n + m
      /\ \A k \in 1 .. n : r[k] = s[k]
      /\ \A k \in 1 .. m : r[n + k] = t[k]
  BY <1>2 DEF IsJoin
<1> HIDE DEF r, n, m
<1>4. ASSUME NEW k \in 1 .. n + m PROVE At(k, r[k])
  <2>1. CASE k <= n
    <3>1. k \in 1 .. n
      BY <1>1, <2>1
    <3> HIDE DEF At
    <3>2. At(k, s[k]) /\ r[k] = s[k]
      BY <1>1, <1>3, <3>1
    <3>3. QED
      BY <3>2
  <2>2. CASE ~(k <= n)
    <3>1. k - n \in 1 .. m /\ n + (k - n) = k /\ (k - n) % 2 = k % 2
      BY <1>1, <2>2
    <3> HIDE DEF At
    <3>2. At(k - n, t[k - n]) /\ r[k] = t[k - n]
      BY <1>1, <1>3, <3>1
    <3>3. QED
      BY <3>1, <3>2 DEF At
  <2>3. QED
    BY <2>1, <2>2
<1>5. (n + m) % 2 = 0
  BY <1>1
<1>6. QED
  BY <1>2, <1>3, <1>4, <1>5 DEF Alternating, r

LEMMA AlternatingPair ==
    ASSUME NEW x \in Objects
    PROVE  <<x>> \o <<Comma>> \in Alternating
<1> DEFINE s == <<x>> \o <<Comma>>
<1>1. x \in Item /\ Comma \in Item
  BY ObjectsAre, PlainItems
<1>2. s \in Seq(Item) /\ Len(s) = 2 /\ s[1] = x /\ s[2] = Comma
  BY <1>1
<1> HIDE DEF s
<1>3. \A k \in 1 .. 2 : IF k % 2 = 1 THEN s[k] \in Objects ELSE s[k] = Comma
  <2>1. 1 % 2 = 1 /\ 2 % 2 = 0
    OBVIOUS
  <2>2. \A k \in 1 .. 2 : k = 1 \/ k = 2
    OBVIOUS
  <2>3. QED
    BY <1>2, <2>1, <2>2
<1>4. Len(s) % 2 = 0
  BY <1>2
<1>5. s \in Alternating
  BY <1>2, <1>3, <1>4 DEF Alternating
<1>6. QED
  BY <1>5 DEF s

LEMMA AlternatingNone == <<>> \in Alternating
<1>1. <<>> \in Seq(Item) /\ Len(<<>>) = 0
  OBVIOUS
<1>2. QED
  BY <1>1 DEF Alternating

\* The objects of some runs with commas between them: a comma behind each but the last.
LEMMA SeparatedAlternates ==
    ASSUME NEW runs \in Seq(Run), runs # <<>>
    PROVE  LET objects == [k \in DOMAIN runs |-> JsonObject(runs[k])]
           IN  \E s \in Alternating, x \in Objects : Separated(objects) = s \o <<x>>
<1> DEFINE n == Len(runs)
           objects == [k \in DOMAIN runs |-> JsonObject(runs[k])]
           part(k) == <<objects[k]>> \o When(k # n, <<Comma>>)
           ss == [k \in 1 .. n |-> part(k)]
           front == [k \in 1 .. n - 1 |-> <<objects[k]>> \o <<Comma>>]
           x == objects[n]
<1>1. n \in Nat \ {0} /\ DOMAIN runs = 1 .. n /\ \A k \in 1 .. n : runs[k] \in Run
  BY LenProperties, EmptySeq
<1>2. Len(objects) = n /\ DOMAIN objects = 1 .. n
  BY <1>1
<1>3. \A k \in 1 .. n : objects[k] \in Objects
  BY <1>1 DEF Objects
<1> HIDE DEF objects, n
<1>4. Separated(objects) = FlattenSeq(ss)
  BY <1>2 DEF Separated
<1>5. front \in Seq(Alternating) /\ Len(front) = n - 1
  <2>1. \A k \in 1 .. n - 1 : <<objects[k]>> \o <<Comma>> \in Alternating
    BY <1>1, <1>3, AlternatingPair
  <2> DEFINE m == n - 1
  <2>2. m \in Nat
    BY <1>1
  <2>3. front \in [1 .. m -> Alternating]
    BY <2>1
  <2> HIDE DEF m, front
  <2>4. front \in Seq(Alternating) /\ Len(front) = m
    BY <2>2, <2>3, SeqDef
  <2>5. QED
    BY <2>4 DEF m
<1>6. x \in Objects /\ x \in Item
  BY <1>1, <1>3, ObjectsAre
<1>7. Alternating \subseteq Seq(Item)
  BY DEF Alternating
<1>8. part(n) = <<x>>
  <2>1. When(n # n, <<Comma>>) = <<>>
    BY DEF When
  <2>2. <<x>> \o <<>> = <<x>>
    BY <1>6
  <2>3. QED
    BY <2>1, <2>2
<1>9. \A k \in 1 .. n - 1 : part(k) = front[k]
  <2>1. ASSUME NEW k \in 1 .. n - 1 PROVE When(k # n, <<Comma>>) = <<Comma>>
    BY <1>1 DEF When
  <2>2. QED
    BY <2>1
<1> HIDE DEF part, x
<1>10. ss = Append(front, <<x>>)
  <2>1. \A k \in 1 .. n : ss[k] = IF k <= n - 1 THEN front[k] ELSE <<x>>
    BY <1>1, <1>8, <1>9
  <2>2. DOMAIN ss = 1 .. n
    OBVIOUS
  <2> HIDE DEF ss
  <2> DEFINE f == Append(front, <<x>>)
             B == Alternating \cup {<<x>>}
  <2>3. front \in Seq(B) /\ <<x>> \in B
    BY <1>5
  <2> HIDE DEF front, B
  <2>4. /\ f \in Seq(B) /\ Len(f) = (n - 1) + 1 /\ \A k \in 1 .. n - 1 : f[k] = front[k]
        /\ f[(n - 1) + 1] = <<x>>
    BY <1>5, <2>3, AppendProperties
  <2> HIDE DEF f
  <2>5. DOMAIN f = 1 .. n /\ \A k \in 1 .. n : f[k] = ss[k]
    BY <1>1, <2>1, <2>4, LenProperties
  <2>6. ss = [k \in 1 .. n |-> ss[k]] /\ f = [k \in 1 .. n |-> f[k]]
    <3>1. f = [k \in 1 .. Len(f) |-> f[k]] /\ Len(f) = n
      BY <1>1, <2>4, LenProperties
    <3>2. QED
      BY <3>1 DEF ss
  <2>7. ss = f
    BY <2>5, <2>6
  <2>8. QED
    BY <2>7 DEF f
<1> HIDE DEF ss, front
<1>11. FlattenSeq(front) \in Alternating
  BY <1>5, <1>7, AlternatingNone, AlternatingConcat, FlattenClosed
<1>12. FlattenSeq(ss) = FlattenSeq(front) \o <<x>>
  <2>1. front \in Seq(Seq(Item)) /\ <<x>> \in Seq(Item)
    <3>1. ToSet(front) \subseteq Seq(Item)
      BY <1>5, <1>7, ToSetProperties
    <3>2. front \in Seq(Seq(Item))
      BY <1>5, <3>1, SeqOfHeld
    <3>3. QED
      BY <1>6, <3>2
  <2>2. QED
    BY <1>10, <2>1, FlattenProperties
<1>13. QED
  BY <1>4, <1>6, <1>11, <1>12 DEF objects

LEMMA SixJoined ==
    ASSUME NEW D, NEW a \in Seq(D), NEW b \in Seq(D), NEW c \in Seq(D), NEW d \in Seq(D),
           NEW e \in Seq(D), NEW f \in Seq(D)
    PROVE  ((a \o b) \o c) \o (d \o (e \o f)) = (a \o ((b \o (c \o d)) \o e)) \o f
<1> DEFINE ab == a \o b
           abc == ab \o c
           cd == c \o d
           bcd == b \o cd
           abcd == a \o bcd
           ef == e \o f
<1>1. /\ ab \in Seq(D) /\ abc \in Seq(D) /\ cd \in Seq(D) /\ bcd \in Seq(D) /\ abcd \in Seq(D)
      /\ ef \in Seq(D)
  OBVIOUS
<1> HIDE DEF ab, abc, cd, bcd, abcd, ef
<1>2. /\ Associates(abc, d, ef) /\ Associates(ab, c, d) /\ Associates(a, b, cd)
      /\ Associates(abcd, e, f) /\ Associates(a, bcd, e)
  BY <1>1, ThreeJoined
<1>3. abc \o (d \o ef) = (abc \o d) \o ef /\ abcd \o ef = (abcd \o e) \o f
  BY <1>2, Zenon DEF Associates, ef
<1>4. abc \o d = ab \o cd
  BY <1>2, Zenon DEF Associates, abc, cd
<1>5. ab \o cd = abcd
  BY <1>2, Zenon DEF Associates, ab, bcd, abcd
<1>6. abcd \o e = a \o (bcd \o e)
  BY <1>2, Zenon DEF Associates, abcd
<1>7. abc \o (d \o ef) = (a \o (bcd \o e)) \o f
  BY <1>3, <1>4, <1>5, <1>6, Zenon
<1>8. QED
  BY <1>7, Zenon DEF ab, abc, cd, bcd, ef

LEMMA JsonLays ==
    ASSUME NEW r \in ReporterType, r.kind = "json", NEW runs \in Seq(Run)
    PROVE  Lays(JsonRuns(r, runs), r, runs # <<>>)
<1> DEFINE objects == [k \in DOMAIN runs |-> JsonObject(runs[k])]
           comma == When(~r.first_report_, <<Comma>>)
           items == comma \o Separated(objects)
           q == JsonRuns(r, runs)
           out == r.out \o items
<1>1. CASE runs = <<>>
  <2>1. q = r
    BY <1>1 DEF JsonRuns
  <2>2. QED
    BY <1>1, <2>1 DEF Lays
<1>2. CASE runs # <<>>
  <2>1. q = [Write(r, items) EXCEPT !.first_report_ = FALSE]
    BY <1>2 DEF JsonRuns
  <2>2. PICK s \in Alternating, x \in Objects : Separated(objects) = s \o <<x>>
    BY <1>2, SeparatedAlternates
  <2> HIDE DEF objects
  <2>3. /\ s \in Seq(Item) /\ x \in Item /\ <<x>> \in Seq(Item) /\ TimesFit("json", x)
        /\ Comma \in Item /\ Open \in Item /\ ~IsRun(Comma)
    BY ObjectsAre, PlainItems DEF Alternating
  <2>a. IF r.first_report_ THEN comma = <<>> ELSE comma = <<Comma>>
    BY DEF When
  <2> HIDE DEF comma
  <2>4. s \o <<x>> \in Seq(Item) /\ AllFit("json", s \o <<x>>)
    <3>1. AllFit("json", s)
      <4>1. \A k \in DOMAIN s : s[k] \in Objects \/ s[k] = Comma
        BY <2>3, LenProperties DEF Alternating
      <4>2. QED
        BY <2>3, <4>1, ObjectsAre DEF AllFit, ToSet, TimesFit
    <3>2. AllFit("json", <<x>>)
      BY <2>3, OneFits
    <3>3. AllFit("json", s \o <<x>>)
      BY <2>3, <3>1, <3>2, TimesConcat
    <3>4. QED
      BY <2>3, <3>3
  <2>5. comma \in Seq(Item) /\ AllFit("json", comma)
    <3>1. CASE r.first_report_
      <4>1. comma = <<>>
        BY <2>a, <3>1
      <4>2. AllFit("json", comma)
        BY <4>1, OneFits
      <4>3. QED
        BY <4>1, <4>2
    <3>2. CASE ~r.first_report_
      <4>1. comma = <<Comma>>
        BY <2>a, <3>2
      <4>2. TimesFit("json", Comma)
        BY <2>3 DEF TimesFit
      <4>3. AllFit("json", comma)
        BY <4>1, <4>2, OneFits
      <4>4. QED
        BY <2>3, <4>1, <4>3
    <3>3. QED
      BY <3>1, <3>2
  <2>6. items = comma \o (s \o <<x>>)
    BY <2>2
  <2>7. items \in Seq(Item) /\ AllFit("json", items)
    <3> DEFINE rest == s \o <<x>>
    <3>1. rest \in Seq(Item) /\ AllFit("json", rest) /\ items = comma \o rest
      BY <2>4, <2>6
    <3> HIDE DEF rest, items
    <3>2. AllFit("json", comma \o rest)
      BY <2>5, <3>1, TimesConcat
    <3>3. QED
      BY <2>5, <3>1, <3>2
  <2> HIDE DEF items
  <2>8. /\ Write(r, items) \in ReporterType /\ Write(r, items).out = out
        /\ Write(r, items).kind = r.kind /\ Write(r, items).tabular = r.tabular
        /\ Write(r, items).error_stream_ = r.error_stream_ /\ Write(r, items).ndebug = r.ndebug
    BY <2>7, WriteKeeps, WriteType
  <2> DEFINE w == Write(r, items)
  <2> HIDE DEF w, out, q
  <2>9. /\ q.kind = "json" /\ q.kind = r.kind /\ q.tabular = r.tabular /\ q.out = out
        /\ q.error_stream_ = r.error_stream_ /\ q.ndebug = r.ndebug
        /\ q.first_report_ = FALSE
    <3>1. q = [w EXCEPT !.first_report_ = FALSE]
      BY <2>1 DEF w
    <3>2. /\ w \in ReporterType /\ w.kind = r.kind /\ w.tabular = r.tabular /\ w.out = out
          /\ w.error_stream_ = r.error_stream_ /\ w.ndebug = r.ndebug
      BY <2>8 DEF w
    <3>3. QED
      BY <3>1, <3>2 DEF ReporterType
  <2>10. r.out \in Seq(Item) /\ r.first_report_ \in BOOLEAN
    BY DEF ReporterType
  <2>11. ASSUME Good(r) PROVE Good(q)
    <3>1. AllFit("json", r.out)
      BY <2>11 DEF Good, TimesOf
    <3>2. AllFit("json", out)
      BY <2>7, <2>10, <3>1, TimesConcat DEF out
    <3>3. QED
      BY <2>9, <3>2 DEF Good, TimesOf, Under
  <2>12. ASSUME First(r) PROVE First(q)
    <3>1. IF r.first_report_ THEN r.out = <<Open>> ELSE Document(r.out)
      BY <2>12 DEF First, Began
    <3>2. Document(out)
      <4>1. CASE r.first_report_
        <5>1. items = s \o <<x>>
          BY <2>4, <2>6, <2>a, <4>1
        <5>2. <<Open>> \in Seq(Item)
          BY <2>3
        <5>3. out = (<<Open>> \o s) \o <<x>>
          <6>1. out = <<Open>> \o (s \o <<x>>)
            BY <3>1, <4>1, <5>1 DEF out
          <6>2. QED
            BY <2>3, <5>2, <6>1, ThreeJoined DEF Associates
        <5>4. QED
          BY <5>3 DEF Document
      <4>2. CASE ~r.first_report_
        <5>1. PICK t \in Alternating, y \in Objects : r.out = (<<Open>> \o t) \o <<y>>
          BY <3>1, <4>2 DEF Document
        <5>2. /\ t \in Seq(Item) /\ <<y>> \in Seq(Item) /\ <<Open>> \in Seq(Item)
              /\ <<Comma>> \in Seq(Item)
          BY <2>3, ObjectsAre DEF Alternating
        <5>3. out = (<<Open>> \o ((t \o (<<y>> \o <<Comma>>)) \o s)) \o <<x>>
          <6>1. out = ((<<Open>> \o t) \o <<y>>) \o (<<Comma>> \o (s \o <<x>>))
            BY <2>6, <2>a, <4>2, <5>1 DEF out
          <6>2. QED
            BY <2>3, <5>2, <6>1, SixJoined
        <5>4. (t \o (<<y>> \o <<Comma>>)) \o s \in Alternating
          BY AlternatingPair, AlternatingConcat
        <5>5. QED
          BY <5>3, <5>4 DEF Document
      <4>3. QED
        BY <4>1, <4>2
    <3>3. QED
      BY <2>9, <3>2 DEF First, Lines, Began
  <2>13. Shown(q)
    BY <2>9 DEF Shown
  <2>14. QED
    BY <2>9, <2>11, <2>12, <2>13 DEF Lays, q
<1>3. QED
  BY <1>1, <1>2
\* What stands under a header still does when more is written below it.
LEMMA StandsKept ==
    ASSUME NEW D, NEW s \in Seq(D), NEW x \in D, NEW k \in 1 .. Len(s), NEW columns,
           StandsUnder(s, k, columns)
    PROVE  StandsUnder(Append(s, x), k, columns)
<1> DEFINE r == Append(s, x)
<1>1. Len(s) \in Nat /\ \A l \in 1 .. Len(s) : r[l] = s[l]
  BY AppendProperties, LenProperties
<1>2. PICK j \in 1 .. k : /\ IsHeader(s[j]) /\ s[j].header = columns
                          /\ \A l \in j + 1 .. k : ~IsHeader(s[l])
  BY DEF StandsUnder
<1> HIDE DEF r
<1>3. r[j] = s[j] /\ \A l \in j + 1 .. k : r[l] = s[l]
  BY <1>1
<1>4. StandsUnder(r, k, columns)
  BY <1>2, <1>3 DEF StandsUnder
<1>5. QED
  BY <1>4 DEF r

LEMMA StandsAppended ==
    ASSUME NEW D, NEW s \in Seq(D), NEW x \in D
    PROVE  /\ IsHeader(x) => StandsUnder(Append(s, x), Len(s) + 1, x.header)
           /\ \A columns : ~IsHeader(x) /\ StandsUnder(s, Len(s), columns)
                              => StandsUnder(Append(s, x), Len(s) + 1, columns)
<1> DEFINE r == Append(s, x)
           n == Len(s)
<1>1. n \in Nat /\ r[n + 1] = x /\ \A l \in 1 .. n : r[l] = s[l]
  BY AppendProperties, LenProperties
<1> HIDE DEF r, n
<1>2. ASSUME IsHeader(x) PROVE StandsUnder(r, n + 1, x.header)
  <2>1. n + 1 \in 1 .. n + 1 /\ \A l \in (n + 1) + 1 .. n + 1 : ~IsHeader(r[l])
    BY <1>1
  <2>2. QED
    BY <1>1, <1>2, <2>1 DEF StandsUnder
<1>3. ASSUME NEW columns, ~IsHeader(x), StandsUnder(s, n, columns)
      PROVE  StandsUnder(r, n + 1, columns)
  <2>1. PICK j \in 1 .. n : /\ IsHeader(s[j]) /\ s[j].header = columns
                            /\ \A l \in j + 1 .. n : ~IsHeader(s[l])
    BY <1>3 DEF StandsUnder
  <2>2. j \in 1 .. n + 1 /\ r[j] = s[j]
    BY <1>1
  <2>3. ASSUME NEW l \in j + 1 .. n + 1 PROVE ~IsHeader(r[l])
    <3>1. CASE l = n + 1
      BY <1>1, <1>3, <3>1
    <3>2. CASE l # n + 1
      <4>1. l \in j + 1 .. n /\ l \in 1 .. n
        BY <1>1, <3>2
      <4>2. QED
        BY <1>1, <2>1, <4>1
    <3>3. QED
      BY <3>1, <3>2
  <2>4. QED
    BY <2>1, <2>2, <2>3 DEF StandsUnder
<1>4. QED
  BY <1>2, <1>3 DEF r, n

LEMMA HeadedAppend ==
    ASSUME NEW D, NEW s \in Seq(D), NEW x \in D, Headed(s),
           IsRun(x) => StandsUnder(Append(s, x), Len(s) + 1, x.columns)
    PROVE  Headed(Append(s, x))
<1> DEFINE r == Append(s, x)
           n == Len(s)
<1>1. n \in Nat /\ DOMAIN s = 1 .. n /\ DOMAIN r = 1 .. n + 1 /\ r[n + 1] = x
  BY AppendProperties, LenProperties
<1>2. \A l \in 1 .. n : r[l] = s[l]
  BY AppendProperties
<1>3. \A k \in 1 .. n : \A columns : StandsUnder(s, k, columns) => StandsUnder(r, k, columns)
  BY StandsKept
<1>4. IsRun(x) => StandsUnder(r, n + 1, x.columns)
  OBVIOUS
<1> HIDE DEF r, n
<1>5. ASSUME NEW k \in 1 .. n + 1, IsRun(r[k]) PROVE StandsUnder(r, k, r[k].columns)
  <2>1. CASE k = n + 1
    BY <1>1, <1>4, <1>5, <2>1
  <2>2. CASE k # n + 1
    <3>1. k \in 1 .. n /\ r[k] = s[k]
      BY <1>1, <1>2, <2>2
    <3>2. StandsUnder(s, k, s[k].columns)
      BY <1>1, <1>5, <3>1 DEF Headed
    <3>3. QED
      BY <1>3, <3>1, <3>2
  <2>3. QED
    BY <2>1, <2>2
<1>6. Headed(r)
  BY <1>1, <1>5 DEF Headed
<1>7. QED
  BY <1>6 DEF r

LEMMA TwoAppended ==
    ASSUME NEW D, NEW s \in Seq(D), NEW x \in D, NEW y \in D
    PROVE  s \o <<x>> = Append(s, x) /\ s \o <<x, y>> = Append(Append(s, x), y)
<1>1. s \o <<x>> = Append(s, x)
  OBVIOUS
<1>2. <<x, y>> = <<x>> \o <<y>>
  BY TwoJoined
<1>3. <<x>> \in Seq(D) /\ <<y>> \in Seq(D)
  OBVIOUS
<1>4. s \o (<<x>> \o <<y>>) = (s \o <<x>>) \o <<y>>
  BY <1>3, ThreeJoined DEF Associates
<1>5. Append(s, x) \o <<y>> = Append(Append(s, x), y)
  OBVIOUS
<1>6. QED
  BY <1>1, <1>2, <1>4, <1>5

LEMMA ConsoleLaysOne ==
    ASSUME NEW r \in ReporterType, r.kind = "console", NEW run \in Run
    PROVE  Lays(ConsoleRun(r, run), r, TRUE)
<1> DEFINE x == [header |-> Ordered(run.counters)]
           y == ConsoleLine(run)
           columns == Ordered(run.counters)
           q == ConsoleRun(r, run)
           s == r.out
<1>1. run.counters \in SUBSET ToSet(Counters)
  BY CountersType
<1>2. /\ x \in Item /\ ~IsRun(x) /\ IsHeader(x) /\ x.header = columns
  <2>1. columns \in Columns
    BY <1>1 DEF Columns
  <2>2. QED
    BY <2>1, PlainItems DEF IsHeader
<1>3. /\ y \in Item /\ IsRun(y) /\ ~IsHeader(y) /\ y.columns = columns /\ TimesFit("console", y)
  <2>1. y \in Item /\ IsRun(y)
    BY ConsoleItems DEF RunItem
  <2>2. ~IsHeader(y) /\ TimesFit("console", y)
    BY DEF ConsoleLine, ConsoleTimes, AsReported, IsHeader, TimesFit
  <2>3. y.columns = IF run.skipped = "no" THEN columns ELSE <<>>
    BY DEF ConsoleLine
  <2>4. run.skipped # "no" => run.counters = {}
    BY DEF Run
  <2>5. QED
    BY <2>1, <2>2, <2>3, <2>4, OrderedIs
<1>4. q = IF PrintsHeader(r, run)
          THEN [Write(r, <<x, y>>) EXCEPT !.printed_header_ = TRUE, !.prev_counters_ = run.counters]
          ELSE Write(r, <<y>>)
  BY DEF ConsoleRun
<1> HIDE DEF x, y, q
<1>5. s \in Seq(Item) /\ r.printed_header_ \in BOOLEAN /\ r.tabular \in BOOLEAN
  BY DEF ReporterType
<1>6. <<y>> \in Seq(Item) /\ <<x, y>> \in Seq(Item)
  BY <1>2, <1>3
<1> HIDE DEF columns, s
<1>7. TimesFit("console", x)
  BY <1>2 DEF TimesFit
<1>8. Append(s, x) \in Seq(Item) /\ Len(Append(s, x)) = Len(s) + 1 /\ Len(s) \in Nat
  BY <1>2, <1>5, AppendProperties, LenProperties
<1>9. CASE PrintsHeader(r, run)
  <2> DEFINE w == Write(r, <<x, y>>)
             out == Append(Append(s, x), y)
  <2>1. /\ w \in ReporterType /\ w.out = out /\ w.kind = r.kind /\ w.tabular = r.tabular
        /\ w.error_stream_ = r.error_stream_ /\ w.ndebug = r.ndebug
    <3>1. /\ w.tabular = r.tabular
          /\ w.error_stream_ = r.error_stream_ /\ w.ndebug = r.ndebug
      BY WriteKeeps
    <3>2. s \o <<x, y>> = out
      BY <1>2, <1>3, <1>5, TwoAppended
    <3>3. QED
      BY <1>6, <3>1, <3>2, WriteType DEF s
  <2>2. q = [w EXCEPT !.printed_header_ = TRUE, !.prev_counters_ = run.counters]
    BY <1>4, <1>9
  <2> HIDE DEF w, out
  <2>3. /\ q.kind = "console" /\ q.kind = r.kind /\ q.tabular = r.tabular /\ q.out = out
        /\ q.error_stream_ = r.error_stream_ /\ q.ndebug = r.ndebug
        /\ q.prev_counters_ = run.counters
    BY <2>1, <2>2 DEF ReporterType
  <2>4. ASSUME Good(r) PROVE Good(q)
    <3>1. AllFit("console", s)
      BY <2>4 DEF Good, TimesOf, s
    <3>2. AllFit("console", Append(s, x))
      BY <1>2, <1>5, <1>7, <3>1, FitsAppended
    <3>3. AllFit("console", out)
      BY <1>3, <1>8, <3>2, FitsAppended DEF out
    <3>4. SUFFICES ASSUME r.tabular PROVE Headed(out) /\ StandsUnder(out, Len(out), columns)
      BY <2>3, <3>3 DEF Good, TimesOf, Under, columns
    <3>5. Headed(s)
      BY <2>4, <3>4 DEF Good, Under, s
    <3>6. StandsUnder(Append(s, x), Len(s) + 1, columns) /\ Headed(Append(s, x))
      <4>1. StandsUnder(Append(s, x), Len(s) + 1, columns)
        BY <1>2, <1>5, StandsAppended
      <4>2. QED
        BY <1>2, <1>5, <3>5, <4>1, HeadedAppend
    <3> DEFINE t == Append(s, x)
    <3>7. t \in Seq(Item) /\ Headed(t) /\ StandsUnder(t, Len(t), columns) /\ out = Append(t, y)
      BY <1>8, <3>6 DEF out
    <3> HIDE DEF t, out
    <3>8. StandsUnder(Append(t, y), Len(t) + 1, columns)
      BY <1>3, <3>7, StandsAppended
    <3>9. Headed(Append(t, y))
      BY <1>3, <3>7, <3>8, HeadedAppend
    <3>10. Len(Append(t, y)) = Len(t) + 1
      BY <1>3, <3>7, AppendProperties
    <3>11. QED
      BY <3>7, <3>8, <3>9, <3>10
  <2>5. First(q) /\ Shown(q)
    BY <2>3 DEF First, Lines, Began, Shown
  <2>6. QED
    BY <2>3, <2>4, <2>5 DEF Lays, q
<1>10. CASE ~PrintsHeader(r, run)
  <2> DEFINE out == Append(s, y)
  <2>1. q = Write(r, <<y>>)
    BY <1>4, <1>10
  <2>2. /\ q.kind = "console" /\ q.kind = r.kind /\ q.tabular = r.tabular /\ q.out = out
        /\ q.error_stream_ = r.error_stream_ /\ q.ndebug = r.ndebug
        /\ q.printed_header_ = r.printed_header_ /\ q.prev_counters_ = r.prev_counters_
    <3>1. /\ q.tabular = r.tabular /\ q.printed_header_ = r.printed_header_
          /\ q.error_stream_ = r.error_stream_ /\ q.ndebug = r.ndebug
          /\ q.prev_counters_ = r.prev_counters_
      BY <2>1 DEF Write, ReporterType
    <3>2. s \o <<y>> = out
      BY <1>3, <1>5
    <3>3. QED
      BY <1>6, <2>1, <3>1, <3>2, WriteType DEF s
  <2>3. ASSUME Good(r) PROVE Good(q)
    <3>1. AllFit("console", out)
      <4>1. AllFit("console", s)
        BY <2>3 DEF Good, TimesOf, s
      <4>2. QED
        BY <1>3, <1>5, <4>1, FitsAppended
    <3>2. SUFFICES ASSUME r.tabular PROVE Headed(out) /\ StandsUnder(out, Len(out), columns)
      <4>1. r.tabular => r.prev_counters_ = run.counters
        BY <1>10 DEF PrintsHeader
      <4>2. QED
        BY <2>2, <3>1, <4>1 DEF Good, TimesOf, Under, columns
    <3>3. r.printed_header_ /\ r.prev_counters_ = run.counters
      BY <1>5, <1>10, <3>2 DEF PrintsHeader
    <3>4. Headed(s) /\ StandsUnder(s, Len(s), columns)
      BY <2>3, <3>2, <3>3 DEF Good, Under, s, columns
    <3>5. StandsUnder(out, Len(s) + 1, columns)
      BY <1>3, <1>5, <3>4, StandsAppended
    <3>6. Headed(out)
      BY <1>3, <1>5, <3>4, <3>5, HeadedAppend
    <3>7. Len(out) = Len(s) + 1
      BY <1>3, <1>5, AppendProperties
    <3>8. QED
      BY <3>5, <3>6, <3>7
  <2>4. First(q) /\ Shown(q)
    BY <2>2 DEF First, Lines, Began, Shown
  <2>5. QED
    BY <2>2, <2>3, <2>4 DEF Lays, q
<1>11. QED
  BY <1>9, <1>10

LEMMA LaysAgain ==
    ASSUME NEW p, NEW q, NEW r, NEW a, NEW b, Lays(p, r, a), Lays(q, p, b)
    PROVE  Lays(q, r, a \/ b)
  BY DEF Lays

LEMMA ConsoleLays ==
    ASSUME NEW r \in ReporterType, r.kind = "console", NEW runs \in Seq(Run)
    PROVE  Lays(FoldLeft(ConsoleRun, r, runs), r, TRUE)
<1> DEFINE n == Len(runs)
<1>1. n \in Nat /\ DOMAIN runs = 1 .. n /\ \A k \in 1 .. n : runs[k] \in Run
  BY LenProperties
<1>2. PICK f : ConsoleFold(f, r, runs)
  BY ConsoleFoldExists
<1>3. /\ f \in [0 .. n -> ReporterType] /\ f[0] = r /\ FoldLeft(ConsoleRun, r, runs) = f[n]
      /\ \A k \in 1 .. n : f[k] = ConsoleRun(f[k - 1], runs[k])
  BY <1>2 DEF ConsoleFold
<1> DEFINE Goal(k) == Lays(f[k], r, TRUE)
           U == {k \in Nat : k <= n => Goal(k)}
<1>a. Goal(0)
  BY <1>3 DEF Lays, Shown
<1> HIDE DEF Goal
<1>4. 0 \in U
  BY <1>a
<1>5. ASSUME NEW k \in Nat, k \in U PROVE k + 1 \in U
  <2> SUFFICES ASSUME k + 1 <= n PROVE Goal(k + 1)
    OBVIOUS
  <2>1. k + 1 \in 1 .. n /\ (k + 1) - 1 = k /\ k \in 0 .. n /\ runs[k + 1] \in Run
    BY <1>1
  <2>2. f[k + 1] = ConsoleRun(f[k], runs[k + 1]) /\ f[k] \in ReporterType
    BY <1>3, <2>1
  <2>3. Lays(f[k], r, TRUE)
    <3>1. Goal(k)
      BY <1>5, <2>1
    <3>2. QED
      BY <3>1 DEF Goal
  <2>4. f[k].kind = "console"
    BY <2>3 DEF Lays
  <2>5. Lays(f[k + 1], f[k], TRUE)
    BY <2>1, <2>2, <2>4, ConsoleLaysOne
  <2>6. Lays(f[k + 1], r, TRUE)
    BY <2>3, <2>5 DEF Lays
  <2>7. QED
    BY <2>6 DEF Goal
<1> HIDE DEF U
<1>6. Nat \subseteq U
  BY <1>4, <1>5, NatInductionSet
<1>7. Goal(n)
  BY <1>1, <1>6 DEF U
<1>8. QED
  BY <1>3, <1>7 DEF Goal

LEMMA ReportRunsLays ==
    ASSUME NEW r \in ReporterType, NEW runs \in Seq(Run)
    PROVE  Lays(ReportRuns(r, runs), r, runs # <<>>)
<1>1. r.kind \in {"console", "json", "csv"}
  BY DEF ReporterType, Kinds
<1>2. CASE r.kind = "json"
  BY <1>2, JsonLays DEF ReportRuns
<1>3. CASE r.kind = "csv"
  BY <1>3, CsvLays DEF ReportRuns
<1>4. CASE r.kind = "console"
  <2>1. Lays(FoldLeft(ConsoleRun, r, runs), r, TRUE)
    BY <1>4, ConsoleLays
  <2>2. ReportRuns(r, runs) = FoldLeft(ConsoleRun, r, runs)
    BY <1>4 DEF ReportRuns
  <2>3. QED
    BY <2>1, <2>2 DEF Lays
<1>5. QED
  BY <1>1, <1>2, <1>3, <1>4

\* A report of a batch is of one run at least.
LEMMA ReportOneLays ==
    ASSUME NEW r \in ReporterType, NEW batch \in Batches, NEW only
    PROVE  Lays(ReportOne(r, only, batch), r, TRUE)
<1> DEFINE a == batch.non_aggregates
           b == batch.aggregates_only
           first == IF only /\ b # <<>> THEN r ELSE ReportRuns(r, a)
<1>1. a \in Seq(Run) /\ a # <<>> /\ b \in Seq(Run)
  BY MainAssumption
<1>2. ReportOne(r, only, batch) = IF b = <<>> THEN first ELSE ReportRuns(first, b)
  BY DEF ReportOne
<1> HIDE DEF a, b
<1>3. CASE b # <<>> /\ only
  BY <1>1, <1>2, <1>3, ReportRunsLays DEF Lays
<1>4. CASE ~(b # <<>> /\ only)
  <2> DEFINE p == ReportRuns(r, a)
             q == ReportRuns(p, b)
  <2>1. Lays(p, r, TRUE)
    BY <1>1, ReportRunsLays DEF Lays
  <2>2. p \in ReporterType
    BY <1>1, ReportRunsReports DEF Reports
  <2>3. Lays(q, p, b # <<>>)
    BY <1>1, <2>2, ReportRunsLays
  <2>4. ReportOne(r, only, batch) = IF b = <<>> THEN p ELSE q
    BY <1>2, <1>4
  <2> HIDE DEF p, q
  <2>5. QED
    BY <2>1, <2>3, <2>4 DEF Lays
<1>5. QED
  BY <1>3, <1>4
-----------------------------------------------------------------------------
(* The layout of the outputs, from the first suite to the last. *)

\* A reporter as it is made.
Fresh(r) == r.out = <<>> /\ r.first_report_ = TRUE /\ r.printed_header_ = FALSE

\* One that has been finalized after a report.
Ended(r) == /\ r.kind = "csv" => r.printed_header_ /\ CsvShape(r)
            /\ r.kind = "json" => \E out : Document(out) /\ r.out = out \o <<Close>>

Running == {"find", "listed", "context", "report", "finalize", "returned"}
Both == display \cup file

\* Before the first suite there is no reporter.
Suites ==
    /\ suite \in Nat /\ (at \in Running => suite # 0)
    /\ suite = 0 => display = {} /\ file = {} /\ reported = <<>>

\* What holds of the outputs of any suite: a context makes a console forget its
\* header, so the lines that follow get one of their own.
Laid == \A r \in Both : TimesOf(r) /\ HeadedOf(r)
Ready == at = "report" => \A r \in Both : Under(r)

\* The first suite: it begins with nothing reported, by reporters that were made
\* for it; a report continues what they have written; Finalize ends it.
Started ==
    suite = 1 /\ at \in {"find", "listed", "context"} =>
        reported = <<>> /\ \A r \in Both : Fresh(r)
Continued ==
    /\ suite = 1 /\ at = "report" => \A r \in Both : First(r)
    /\ suite = 1 /\ at \in {"report", "finalize"} /\ reported # <<>> =>
          \A r \in Both : First(r) /\ Shown(r)
Finished == suite = 1 /\ at = "returned" /\ reported # <<>> => \A r \in Both : Ended(r)

\* Every reporter is one of this program's build.
Built == \A r \in Both : r.ndebug = program.ndebug

LayoutInv == Suites /\ Laid /\ Ready /\ Started /\ Continued /\ Finished /\ Built

LEMMA LayoutInit == Init => LayoutInv
<1>1. SUFFICES ASSUME Init PROVE LayoutInv
  OBVIOUS
<1>2. suite = 0 /\ display = {} /\ file = {} /\ reported = <<>> /\ at = "parsing"
  BY <1>1 DEF Init, CommandLineInit
<1>3. QED
  BY <1>2 DEF LayoutInv, Suites, Laid, Ready, Started, Continued, Finished, Built, Running, Both

\* Steps that leave the outputs alone and stay, or leave the suite.
LEMMA LayoutKept ==
    ASSUME LayoutInv, UNCHANGED mainVars, at' = at \/ at' \notin Running
    PROVE  LayoutInv'
<1>1. UNCHANGED <<program, suite, display, file, reported, Both>>
  BY DEF mainVars, Both
<1>2. Laid' /\ Built'
  BY <1>1 DEF LayoutInv, Laid, Built
<1>3. Suites' /\ Ready' /\ Started' /\ Continued' /\ Finished'
  BY <1>1 DEF LayoutInv, Suites, Ready, Started, Continued, Finished, Running
<1>4. QED
  BY <1>2, <1>3 DEF LayoutInv

LEMMA NothingFits == Headed(<<>>) /\ \A kind : AllFit(kind, <<>>)
<1>1. ToSet(<<>>) = {} /\ DOMAIN <<>> = {}
  BY DEF ToSet
<1>2. QED
  BY <1>1 DEF AllFit, Headed

LEMMA ClearedIsBlank ==
    ASSUME NEW r \in ReporterType
    PROVE  TimesOf([r EXCEPT !.out = <<>>]) /\ HeadedOf([r EXCEPT !.out = <<>>])
<1> DEFINE q == [r EXCEPT !.out = <<>>]
<1>1. q.out = <<>>
  BY ReporterCleared
<1> HIDE DEF q
<1>2. TimesOf(q) /\ HeadedOf(q)
  BY <1>1, NothingFits DEF TimesOf, HeadedOf
<1>3. QED
  BY <1>2 DEF q

LEMMA MadeIsFresh ==
    ASSUME NEW kind, NEW t, NEW e, NEW d
    PROVE  Fresh([Reporter(kind, t, e, d) EXCEPT !.out = <<>>])
  BY DEF Reporter, Fresh

LEMMA MadeIsBuilt ==
    ASSUME Built
    PROVE  \A r \in DisplayReporter \cup FileReporter : r.ndebug = program.ndebug
<1>1. \A kind, t, e : Reporter(kind, t, e, program.ndebug).ndebug = program.ndebug
  BY DEF Reporter
<1>2. \A r \in display \cup file : r.ndebug = program.ndebug
  BY DEF Built, Both
<1>3. \A r \in DisplayReporter : r.ndebug = program.ndebug
  BY <1>1, <1>2 DEF DisplayReporter
<1>4. \A r \in FileReporter : r.ndebug = program.ndebug
  BY <1>1, <1>2 DEF FileReporter
<1>5. QED
  BY <1>3, <1>4

LEMMA SetUpReportersLays ==
    ASSUME OutputsInv, SettingsInv, LayoutInv, SetUpReporters
    PROVE  LayoutInv'
<1>1. /\ at = "initialized" /\ program' = program /\ reported' = reported /\ suite' = suite + 1
  BY DEF SetUpReporters
<1>2. suite \in Nat /\ suite' \in Nat /\ suite' # 0
  BY <1>1 DEF LayoutInv, Suites
<1>3. CASE UNCHANGED <<display, file>> /\ at' = "exit"
  BY <1>1, <1>2, <1>3
     DEF LayoutInv, Suites, Laid, Ready, Started, Continued, Finished, Built, Running, Both
<1>4. CASE /\ display' = {[r EXCEPT !.out = <<>>] : r \in DisplayReporter}
           /\ file' = {[r EXCEPT !.out = <<>>] : r \in FileReporter}
           /\ at' \in {"exit", "find"}
  <2>1. DisplayReporter \subseteq ReporterType /\ FileReporter \subseteq ReporterType
    BY <1>1, SetUpTypes DEF Fine
  <2>2. \A q \in Both' : TimesOf(q) /\ HeadedOf(q)
    BY <1>4, <2>1, ClearedIsBlank DEF Both
  <2>3. ASSUME suite' = 1 PROVE reported' = <<>> /\ \A q \in Both' : Fresh(q)
    <3>1. display = {} /\ file = {} /\ reported = <<>>
      BY <1>1, <1>2, <2>3 DEF LayoutInv, Suites
    <3>2. /\ \A r \in DisplayReporter : \E kind, t, e, d : r = Reporter(kind, t, e, d)
          /\ \A r \in FileReporter : \E kind, t, e, d : r = Reporter(kind, t, e, d)
      BY <3>1 DEF DisplayReporter, FileReporter
    <3>3. QED
      BY <1>1, <1>4, <3>1, <3>2, MadeIsFresh DEF Both
  <2>4. Laid'
    BY <2>2 DEF Laid
  <2>5. Suites' /\ Ready' /\ Started' /\ Continued' /\ Finished'
    BY <1>2, <1>4, <2>3 DEF Suites, Ready, Started, Continued, Finished
  <2>6. Built'
    <3>1. ASSUME NEW r \in ReporterType PROVE [r EXCEPT !.out = <<>>].ndebug = r.ndebug
      BY DEF ReporterType
    <3>2. \A r \in DisplayReporter \cup FileReporter : r.ndebug = program.ndebug
      BY MadeIsBuilt DEF LayoutInv
    <3>3. QED
      BY <1>1, <1>4, <2>1, <3>1, <3>2 DEF Built, Both
  <2>7. QED
    BY <2>4, <2>5, <2>6 DEF LayoutInv
<1>5. QED
  BY <1>3, <1>4 DEF SetUpReporters, GoTo, Exit

LEMMA FindBenchmarksLays ==
    ASSUME LayoutInv, FindBenchmarks
    PROVE  LayoutInv'
<1>1. /\ at = "find" /\ at' \in {"returned", "listed", "context"}
      /\ UNCHANGED <<program, suite, display, file, reported, Both>>
  BY DEF FindBenchmarks, GoTo, Both
<1>2. Laid' /\ Built'
  BY <1>1 DEF LayoutInv, Laid, Built
<1>3. Suites' /\ Ready' /\ Started' /\ Continued' /\ Finished'
  BY <1>1 DEF LayoutInv, Suites, Ready, Started, Continued, Finished, Running
<1>4. QED
  BY <1>2, <1>3 DEF LayoutInv

LEMMA ListTestsLays ==
    ASSUME LayoutInv, ListTests
    PROVE  LayoutInv'
<1>1. /\ at = "listed" /\ at' = "returned"
      /\ UNCHANGED <<program, suite, display, file, reported, Both>>
  BY DEF ListTests, GoTo, mainVars, Both
<1>2. Laid' /\ Built'
  BY <1>1 DEF LayoutInv, Laid, Built
<1>3. Suites' /\ Ready' /\ Started' /\ Continued' /\ Finished'
  BY <1>1 DEF LayoutInv, Suites, Ready, Started, Continued, Finished, Running
<1>4. QED
  BY <1>2, <1>3 DEF LayoutInv

LEMMA LastReportedLays ==
    ASSUME LayoutInv, LastReported
    PROVE  LayoutInv'
<1>1. /\ at = "report" /\ at' = "finalize" /\ reported # <<>>
      /\ UNCHANGED <<program, suite, display, file, reported, Both>>
  BY DEF LastReported, GoTo, mainVars, Both
<1>2. Laid' /\ Built'
  BY <1>1 DEF LayoutInv, Laid, Built
<1>3. Suites' /\ Ready' /\ Started' /\ Continued' /\ Finished'
  BY <1>1 DEF LayoutInv, Suites, Ready, Started, Continued, Finished, Running
<1>4. QED
  BY <1>2, <1>3 DEF LayoutInv

\* What a context makes of a reporter that has written nothing.
LEMMA ContextLaysOne ==
    ASSUME NEW r \in ReporterType, r.out = <<>>
    PROVE  /\ Good(ReportContext(r)) /\ HeadedOf(ReportContext(r))
           /\ TimesOf(r) /\ HeadedOf(r)
           /\ ReportContext(r).ndebug = r.ndebug
           /\ Fresh(r) => First(ReportContext(r))
<1> DEFINE q == ReportContext(r)
<1>1. r.kind \in {"console", "json", "csv"}
  BY DEF ReporterType, Kinds
<1>3. TimesOf(r) /\ HeadedOf(r)
  BY NothingFits DEF TimesOf, HeadedOf
<1>a. ASSUME NEW s \in ReporterType, s.out = <<>>
      PROVE  /\ PrintBasicContext(s).out = Lead(s) /\ PrintBasicContext(s).kind = s.kind
             /\ PrintBasicContext(s).tabular = s.tabular
             /\ PrintBasicContext(s).ndebug = s.ndebug
             /\ Lead(PrintBasicContext(s)) = Lead(s)
             /\ PrintBasicContext(s).printed_header_ = s.printed_header_
             /\ AllFit(s.kind, Lead(s)) /\ Headed(Lead(s))
  <2>1. Basic \in Item /\ ~IsRun(Basic)
    BY PlainItems
  <2>2. AllFit(s.kind, <<Basic>>) /\ Headed(<<Basic>>)
    BY <2>1, OneFits DEF TimesFit, Headed
  <2>3. <<Basic>> \in Seq(Item) /\ s.out \o <<Basic>> = <<Basic>>
    BY <1>a, <2>1
  <2>4. CASE s.error_stream_ = "output"
    <3>1. Lead(s) = <<Basic>> /\ PrintBasicContext(s) = Write(s, <<Basic>>)
      BY <2>4 DEF Lead, PrintBasicContext
    <3>2. Write(s, <<Basic>>).printed_header_ = s.printed_header_
      BY DEF Write, ReporterType
    <3>3. /\ Write(s, <<Basic>>).out = <<Basic>> /\ Write(s, <<Basic>>).kind = s.kind
          /\ Write(s, <<Basic>>).tabular = s.tabular /\ Write(s, <<Basic>>).ndebug = s.ndebug
          /\ Write(s, <<Basic>>).error_stream_ = s.error_stream_
      BY <2>3, WriteType, WriteKeeps
    <3>4. Lead(Write(s, <<Basic>>)) = Lead(s)
      BY <3>3 DEF Lead
    <3>5. QED
      BY <2>2, <3>1, <3>2, <3>3, <3>4
  <2>5. CASE s.error_stream_ # "output"
    <3>1. Lead(s) = <<>> /\ PrintBasicContext(s) = s
      BY <2>5 DEF Lead, PrintBasicContext
    <3>2. QED
      BY <1>a, <3>1, NothingFits
  <2>6. QED
    BY <2>4, <2>5
<1>4. CASE r.kind = "json"
  <2>1. Open \in Item /\ ~IsRun(Open)
    BY PlainItems
  <2>2. AllFit("json", <<Open>>)
    BY <2>1, OneFits DEF TimesFit
  <2>3. <<Open>> \in Seq(Item) /\ r.out \o <<Open>> = <<Open>>
    BY <2>1
  <2>4. q = Write(r, <<Open>>)
    BY <1>4 DEF ReportContext
  <2> HIDE DEF q
  <2>5. /\ q.out = <<Open>> /\ q.kind = "json" /\ q.first_report_ = r.first_report_
        /\ q.ndebug = r.ndebug
    <3>1. q.first_report_ = r.first_report_
      BY <2>4 DEF Write, ReporterType
    <3>2. QED
      BY <1>4, <2>3, <2>4, <3>1, WriteType, WriteKeeps
  <2>6. Good(q) /\ HeadedOf(q) /\ (Fresh(r) => First(q))
    BY <2>2, <2>5 DEF Good, TimesOf, Under, HeadedOf, Fresh, First, Lines, Began
  <2>7. QED
    BY <1>3, <2>5, <2>6 DEF q
<1>5. CASE r.kind = "csv"
  <2>1. q = PrintBasicContext(r)
    BY <1>5 DEF ReportContext
  <2> HIDE DEF q
  <2>2. /\ q.out = Lead(q) /\ q.kind = "csv" /\ AllFit("csv", q.out) /\ q.ndebug = r.ndebug
        /\ q.printed_header_ = r.printed_header_
    BY <1>5, <1>a, <2>1
  <2>3. Good(q) /\ HeadedOf(q) /\ (Fresh(r) => First(q))
    BY <2>2 DEF Good, TimesOf, Under, HeadedOf, Fresh, First, Lines, Began, CsvShape
  <2>4. QED
    BY <1>3, <2>2, <2>3 DEF q
<1>6. CASE r.kind = "console"
  <2> DEFINE s == [r EXCEPT !.printed_header_ = FALSE, !.prev_counters_ = {}]
  <2>1. q = PrintBasicContext(s)
    BY <1>6 DEF ReportContext
  <2>2. /\ s \in ReporterType /\ s.out = <<>> /\ s.kind = "console" /\ s.printed_header_ = FALSE
        /\ s.ndebug = r.ndebug
    BY <1>6 DEF ReporterType
  <2> HIDE DEF q, s
  <2>3. /\ q.out = Lead(s) /\ q.kind = "console" /\ q.printed_header_ = FALSE
        /\ q.ndebug = r.ndebug /\ AllFit("console", Lead(s)) /\ Headed(Lead(s))
    BY <1>a, <2>1, <2>2
  <2>4. Good(q) /\ HeadedOf(q) /\ First(q)
    BY <2>3 DEF Good, TimesOf, Under, HeadedOf, First, Lines, Began
  <2>5. QED
    BY <1>3, <2>3, <2>4 DEF q
<1>7. QED
  BY <1>1, <1>4, <1>5, <1>6

LEMMA ContextLays ==
    ASSUME OutputsInv, LayoutInv, Context
    PROVE  LayoutInv'
<1> DEFINE accepted == program.accepts \/ program.display = "default"
<1>1. /\ at = "context" /\ suite' = suite /\ reported' = <<>> /\ program' = program
      /\ display' = IF accepted THEN {ReportContext(r) : r \in display} ELSE display
      /\ file' = IF accepted THEN {ReportContext(r) : r \in file} ELSE file
      /\ at' \in {"exit", "report", "finalize"} /\ (at' = "report" => accepted)
  BY DEF Context, Exit, GoTo
<1> HIDE DEF accepted
<1>2. \A r \in Both : r \in ReporterType /\ r.out = <<>>
  BY <1>1 DEF OutputsInv, OutputsType, Blank, Both
<1>3. \A q \in Both' : q \in Both \/ (accepted /\ \E r \in Both : q = ReportContext(r))
  BY <1>1 DEF Both
<1>4. accepted => \A q \in Both' : \E r \in Both : q = ReportContext(r)
  BY <1>1 DEF Both
<1>5. \A q \in Both' : TimesOf(q) /\ HeadedOf(q)
  BY <1>2, <1>3, ContextLaysOne DEF Good
<1>6. at' = "report" => \A q \in Both' : Under(q)
  BY <1>1, <1>2, <1>4, ContextLaysOne DEF Good
<1>7. ASSUME suite = 1, at' = "report" PROVE \A q \in Both' : First(q)
  <2>1. \A r \in Both : Fresh(r)
    BY <1>1, <1>7 DEF LayoutInv, Started
  <2>2. QED
    BY <1>1, <1>2, <1>4, <1>7, <2>1, ContextLaysOne
<1>8. Laid' /\ Ready'
  BY <1>5, <1>6 DEF Laid, Ready
<1>9. Suites'
  BY <1>1 DEF LayoutInv, Suites, Running
<1>10. Started' /\ Continued' /\ Finished'
  BY <1>1, <1>7 DEF Started, Continued, Finished
<1>11. Built'
  <2>1. \A r \in Both : r.ndebug = program.ndebug
    BY DEF LayoutInv, Built
  <2>2. QED
    BY <1>1, <1>2, <1>3, <2>1, ContextLaysOne DEF Built
<1>12. QED
  BY <1>8, <1>9, <1>10, <1>11 DEF LayoutInv

LEMMA ReportLays ==
    ASSUME OutputsInv, LayoutInv, NEW batch \in Batches, Report(batch)
    PROVE  LayoutInv'
<1>1. /\ at = "report" /\ suite' = suite /\ reported' # <<>> /\ at' \in {"report", "exit"}
      /\ program' = program
      /\ display' = {ReportOne(r, DisplayOnly(batch), batch) : r \in display}
      /\ file' = {ReportOne(r, FileOnly(batch), batch) : r \in file}
  <2>1. reported \in Seq(Batches)
    BY DEF OutputsInv, OutputsType
  <2>2. Append(reported, batch) # <<>>
    BY <2>1, AppendProperties
  <2>3. QED
    BY <2>2 DEF Report, Exit, commandVars
<1>2. \A r \in Both : r \in ReporterType
  BY DEF OutputsInv, OutputsType, Both
<1>3. \A q \in Both' : \E r \in Both : Lays(q, r, TRUE)
  BY <1>1, <1>2, ReportOneLays DEF Both
<1>4. \A r \in Both : Good(r)
  BY <1>1 DEF LayoutInv, Laid, Ready, Good
<1>5. \A q \in Both' : Good(q) /\ Shown(q)
  BY <1>3, <1>4 DEF Lays
<1>6. suite = 1 => \A q \in Both' : First(q)
  BY <1>1, <1>3 DEF LayoutInv, Continued, Lays
<1>7. Laid' /\ Ready'
  BY <1>5 DEF Laid, Ready, Good, Under, HeadedOf
<1>8. Suites'
  BY <1>1 DEF LayoutInv, Suites, Running
<1>9. Started' /\ Continued' /\ Finished'
  BY <1>1, <1>5, <1>6 DEF Started, Continued, Finished
<1>10. Built'
  BY <1>1, <1>3 DEF LayoutInv, Built, Lays
<1>11. QED
  BY <1>7, <1>8, <1>9, <1>10 DEF LayoutInv

LEMMA FinalizeLaysOne ==
    ASSUME NEW r \in ReporterType
    PROVE  /\ Finalize(r).ndebug = r.ndebug
           /\ TimesOf(r) => TimesOf(Finalize(r))
           /\ HeadedOf(r) => HeadedOf(Finalize(r))
           /\ First(r) /\ Shown(r) /\ r.check_failed = FALSE => Ended(Finalize(r))
<1> DEFINE q == Finalize(r)
<1>1. CASE r.kind = "json"
  <2>1. Close \in Item /\ ~IsRun(Close) /\ r.out \in Seq(Item) /\ r.first_report_ \in BOOLEAN
    BY PlainItems DEF ReporterType
  <2>2. <<Close>> \in Seq(Item) /\ AllFit("json", <<Close>>)
    <3>1. TimesFit("json", Close)
      BY <2>1 DEF TimesFit
    <3>2. QED
      BY <2>1, <3>1, OneFits
  <2>3. q = Write(r, <<Close>>)
    BY <1>1 DEF Finalize
  <2> HIDE DEF q
  <2>4. q.kind = "json" /\ q.out = r.out \o <<Close>> /\ q.ndebug = r.ndebug
    BY <1>1, <2>2, <2>3, WriteType, WriteKeeps
  <2>5. TimesOf(r) => TimesOf(q)
    BY <1>1, <2>1, <2>2, <2>4, TimesConcat DEF TimesOf
  <2>6. HeadedOf(q)
    BY <2>4 DEF HeadedOf
  <2>7. First(r) /\ Shown(r) => Ended(q)
    BY <1>1, <2>1, <2>4 DEF First, Began, Shown, Ended
  <2>8. QED
    BY <2>4, <2>5, <2>6, <2>7 DEF q
<1>2. CASE r.kind # "json"
  <2>1. q = r
    BY <1>2 DEF Finalize
  <2>2. First(r) /\ Shown(r) /\ r.check_failed = FALSE => Ended(r)
    BY <1>2 DEF First, Lines, Shown, Ended
  <2>3. QED
    BY <2>1, <2>2
<1>3. QED
  BY <1>1, <1>2

LEMMA FinalizeReportersLays ==
    ASSUME OutputsInv, LayoutInv, FinalizeReporters
    PROVE  LayoutInv'
<1>1. /\ at = "finalize" /\ at' = "returned" /\ suite' = suite /\ reported' = reported
      /\ program' = program
      /\ display' = {Finalize(r) : r \in display} /\ file' = {Finalize(r) : r \in file}
  BY DEF FinalizeReporters, GoTo
<1>2. \A r \in Both : r \in ReporterType /\ r.check_failed = FALSE /\ TimesOf(r) /\ HeadedOf(r)
  BY <1>1 DEF OutputsInv, OutputsType, Unfailed, LayoutInv, Laid, Both
<1>3. \A q \in Both' : \E r \in Both : q = Finalize(r)
  BY <1>1 DEF Both
<1>4. Laid'
  BY <1>2, <1>3, FinalizeLaysOne DEF Laid
<1>5. Finished'
  <2> SUFFICES ASSUME suite = 1, reported # <<>> PROVE \A q \in Both' : Ended(q)
    BY <1>1 DEF Finished
  <2>1. \A r \in Both : First(r) /\ Shown(r)
    BY <1>1 DEF LayoutInv, Continued
  <2>2. QED
    BY <1>2, <1>3, <2>1, FinalizeLaysOne
<1>6. Suites'
  BY <1>1 DEF LayoutInv, Suites, Running
<1>7. Ready' /\ Started' /\ Continued'
  BY <1>1 DEF Ready, Started, Continued
<1>8. Built'
  BY <1>1, <1>2, <1>3, FinalizeLaysOne DEF LayoutInv, Built
<1>9. QED
  BY <1>4, <1>5, <1>6, <1>7, <1>8 DEF LayoutInv

LEMMA LayoutStep ==
    ASSUME OutputsInv, SettingsInv, LayoutInv, [Next]_vars
    PROVE  LayoutInv'
<1>1. CASE CommandLineNext /\ UNCHANGED mainVars
  <2>1. at' \notin Running
    BY <1>1 DEF CommandLineNext, ParseArgument, CheckFlags, ReportUnrecognizedArguments, Running
  <2>2. QED
    BY <1>1, <2>1, LayoutKept
<1>2. CASE NoIterations \/ Returned
  <2>1. UNCHANGED mainVars /\ at' \notin Running
    BY <1>2 DEF NoIterations, Returned, GoTo, Exit, Running
  <2>2. QED
    BY <2>1, LayoutKept
<1>3. CASE UNCHANGED vars
  <2>1. UNCHANGED mainVars /\ at' = at
    BY <1>3 DEF vars, commandVars
  <2>2. QED
    BY <2>1, LayoutKept
<1>4. CASE SetUpReporters
  BY <1>4, SetUpReportersLays
<1>5. CASE FindBenchmarks
  BY <1>5, FindBenchmarksLays
<1>6. CASE ListTests
  BY <1>6, ListTestsLays
<1>7. CASE Context
  BY <1>7, ContextLays
<1>8. CASE \E batch \in Batches : Report(batch)
  BY <1>8, ReportLays
<1>9. CASE LastReported
  BY <1>9, LastReportedLays
<1>10. CASE FinalizeReporters
  BY <1>10, FinalizeReportersLays
<1>11. QED
  BY <1>1, <1>2, <1>3, <1>4, <1>5, <1>6, <1>7, <1>8, <1>9, <1>10 DEF Next
-----------------------------------------------------------------------------
(* What an output looks like in the end. *)

LEMMA LayoutAlways == Spec => [](OutputsInv /\ LayoutInv)
<1>1. Init => OutputsInv /\ LayoutInv
  BY OutputsInit, LayoutInit
<1>2. /\ OutputsInv /\ LayoutInv /\ (ParsingInv /\ ArgumentsInv /\ SettingsInv) /\ [Next]_vars
      => OutputsInv' /\ LayoutInv'
  BY OutputsStep, LayoutStep
<1>3. QED
  BY <1>1, <1>2, ParsingAlways, PTL DEF Spec

LEMMA OutputsAre ==
    ASSUME OutputsInv, LayoutInv, NEW r \in Outputs
    PROVE  /\ r \in ReporterType /\ TimesOf(r) /\ HeadedOf(r)
           /\ r.ndebug = program.ndebug
           /\ suite = 1 => Ended(r)
<1>1. r \in Both /\ at = "returned" /\ reported # <<>>
  BY DEF Outputs, Both
<1>2. QED
  BY <1>1 DEF OutputsInv, OutputsType, LayoutInv, Laid, Finished, Built, Both

\* A line stands under the last of the headers before it.
LEMMA LastHeader ==
    ASSUME NEW D, NEW out \in Seq(D), NEW k \in 1 .. Len(out), NEW columns, StandsUnder(out, k, columns)
    PROVE  LET headers == {h \in 1 .. k : "header" \in DOMAIN out[h]}
           IN  headers # {} /\ out[Max(headers)].header = columns
<1> DEFINE headers == {h \in 1 .. k : "header" \in DOMAIN out[h]}
<1>1. k \in Nat
  BY LenProperties
<1>2. PICK j \in 1 .. k : /\ IsHeader(out[j]) /\ out[j].header = columns
                          /\ \A l \in j + 1 .. k : ~IsHeader(out[l])
  BY DEF StandsUnder
<1>3. j \in headers /\ headers \in SUBSET (1 .. k)
  BY <1>2 DEF IsHeader
<1>4. \A h \in headers : ~(h \in j + 1 .. k)
  BY <1>2 DEF IsHeader
<1> HIDE DEF headers
<1>5. Max(headers) \in headers /\ \A y \in headers : y <= Max(headers)
  BY <1>1, <1>3, MaxIn
<1>6. Max(headers) = j
  <2> DEFINE m == Max(headers)
  <2>1. m \in 1 .. k /\ j <= m /\ ~(m \in j + 1 .. k)
    BY <1>3, <1>4, <1>5
  <2> HIDE DEF m
  <2>2. m = j
    BY <1>1, <2>1
  <2>3. QED
    BY <2>2 DEF m
<1>7. QED
  BY <1>2, <1>3, <1>6 DEF headers

\* The lines of a CSV output under its header, which stands behind the context.
LEMMA CsvEnds ==
    ASSUME NEW r \in ReporterType, r.kind = "csv", Ended(r)
    PROVE  /\ HeaderAt(r) = 2 => r.out[1] = Basic
           /\ \A k \in HeaderAt(r) + 1 .. Len(r.out) :
                 LineFits(r.out[k], r.out[HeaderAt(r)].header, r.ndebug)
<1> DEFINE names == r.user_counter_names_
           h == HeaderOf(names)
           lead == Lead(r)
           n == Len(lead)
           Rows == RowsOf(names, r.ndebug)
<1>1. PICK rows \in Seq(Rows) : r.out = lead \o (<<h>> \o rows)
  BY DEF Ended, CsvShape
<1> DEFINE D == (Rows \cup {h}) \cup Item
           lines == <<h>> \o rows
<1>2. h.header = elements \o Ordered(names)
  BY DEF HeaderOf
<1>3. \A line \in Rows : LineFits(line, elements \o Ordered(names), r.ndebug)
  BY RowFits
<1>a. /\ lead \in Seq(Item) /\ n \in Nat /\ HeaderAt(r) = n + 1
      /\ HeaderAt(r) = 2 => n = 1 /\ lead[1] = Basic
  <2>1. lead \in Seq(Item)
    BY LeadIs
  <2>2. IF r.error_stream_ = "output" THEN lead = <<Basic>> ELSE lead = <<>>
    BY DEF Lead
  <2>3. Len(<<>>) = 0 /\ Len(<<Basic>>) = 1 /\ <<Basic>>[1] = Basic
    OBVIOUS
  <2> HIDE DEF lead
  <2>4. CASE r.error_stream_ = "output"
    <3>1. lead = <<Basic>> /\ HeaderAt(r) = 2
      BY <2>2, <2>4 DEF HeaderAt
    <3>2. n = 1 /\ lead[1] = Basic
      BY <2>3, <3>1
    <3>3. QED
      BY <2>1, <3>1, <3>2
  <2>5. CASE r.error_stream_ # "output"
    <3>1. lead = <<>> /\ HeaderAt(r) = 1
      BY <2>2, <2>5 DEF HeaderAt
    <3>2. n = 0
      BY <2>3, <3>1
    <3>3. QED
      BY <2>1, <3>1, <3>2
  <2>6. QED
    BY <2>4, <2>5
<1> HIDE DEF names, h, lead, Rows
<1>4. <<h>> \in Seq(D) /\ rows \in Seq(D) /\ Len(<<h>>) = 1 /\ <<h>>[1] = h /\ lead \in Seq(D)
  BY <1>a
<1> HIDE DEF D
<1>5. lines \in Seq(D) /\ IsJoin(lines, <<h>>, rows)
  BY <1>4, JoinIs
<1> HIDE DEF lines
<1>b. IsJoin(r.out, lead, lines)
  BY <1>1, <1>4, <1>5, JoinIs DEF lines
<1>6. /\ Len(lines) = 1 + Len(rows) /\ lines[1] = h
      /\ \A k \in 1 .. Len(rows) : lines[1 + k] = rows[k]
  BY <1>4, <1>5 DEF IsJoin
<1> HIDE DEF n
<1>c. /\ Len(r.out) = n + Len(lines) /\ \A k \in 1 .. n : r.out[k] = lead[k]
      /\ \A k \in 1 .. Len(lines) : r.out[n + k] = lines[k]
  BY <1>b DEF IsJoin, n
<1>7. Len(rows) \in Nat /\ \A k \in 1 .. Len(rows) : rows[k] \in Rows
  BY LenProperties
<1>8. ASSUME NEW k \in HeaderAt(r) + 1 .. Len(r.out) PROVE r.out[k] \in Rows
  <2> DEFINE j == k - (n + 1)
  <2>1. j \in 1 .. Len(rows) /\ 1 + j \in 1 .. Len(lines) /\ n + (1 + j) = k
    BY <1>6, <1>7, <1>a, <1>c
  <2> HIDE DEF j
  <2>2. r.out[k] = rows[j]
    BY <1>6, <1>c, <2>1
  <2>3. QED
    BY <1>7, <2>1, <2>2
<1>9. r.out[HeaderAt(r)] = h
  <2>1. 1 \in 1 .. Len(lines)
    BY <1>6, <1>7
  <2>2. QED
    BY <1>6, <1>a, <1>c, <2>1
<1>10. HeaderAt(r) = 2 => r.out[1] = Basic
  BY <1>a, <1>c
<1>11. QED
  BY <1>2, <1>3, <1>8, <1>9, <1>10

\* In a CSV output, behind the context in a file, what is written into a line stands
\* in the column of its name, and that is all counters of the run unless the check is
\* compiled out; so does each user counter on a tabular console; the times of a run
\* are the same in each format, but for the error of a complexity in a CSV file. In
\* all programs and builds, with whatever counters their runs have.
THEOREM MainColumnsHoldTheirValues == Spec => []ColumnsHoldTheirValues
<1>1. ASSUME OutputsInv, LayoutInv PROVE CsvLines
  <2>1. ASSUME NEW r \in Outputs, r.kind = "csv", suite = 1
        PROVE  /\ HeaderAt(r) = 2 => r.out[1] = Basic
               /\ \A k \in HeaderAt(r) + 1 .. Len(r.out) :
                     LineFits(r.out[k], r.out[HeaderAt(r)].header, program.ndebug)
    <3>1. r \in ReporterType /\ Ended(r) /\ r.ndebug = program.ndebug
      BY <1>1, <2>1, OutputsAre
    <3>2. QED
      BY <2>1, <3>1, CsvEnds
  <2>2. ASSUME NEW line, NEW columns, LineFits(line, columns, program.ndebug)
        PROVE  StandsIn(columns, line)
    BY <2>2, Zenon DEF LineFits, StandsIn, Nothing
  <2>3. QED
    BY <2>1, <2>2, Zenon DEF CsvLines
<1>2. ASSUME OutputsInv, LayoutInv PROVE ConsoleColumns
  <2> SUFFICES ASSUME NEW r \in Outputs, r.kind = "console" /\ r.tabular,
                      NEW k \in DOMAIN r.out, IsRun(r.out[k])
               PROVE  LET headers == {h \in 1 .. k : "header" \in DOMAIN r.out[h]}
                      IN  headers # {} /\ r.out[Max(headers)].header = r.out[k].columns
    BY DEF ConsoleColumns
  <2>1. r \in ReporterType /\ HeadedOf(r)
    BY <1>2, OutputsAre
  <2>2. r.out \in Seq(Item) /\ DOMAIN r.out = 1 .. Len(r.out)
    BY <2>1 DEF ReporterType
  <2>3. StandsUnder(r.out, k, r.out[k].columns)
    BY <2>1 DEF HeadedOf, Headed
  <2>4. QED
    BY <2>2, <2>3, LastHeader
<1>3. ASSUME OutputsInv, LayoutInv PROVE TimesAgree
  <2> SUFFICES ASSUME NEW r \in Outputs, NEW k \in DOMAIN r.out, IsRun(r.out[k]),
                      ~(r.kind = "csv" /\ r.out[k].run.type = "rms")
               PROVE  r.out[k].times = AsReported(r.out[k].run)
    BY DEF TimesAgree
  <2>1. AllFit(r.kind, r.out)
    BY <1>3, OutputsAre DEF TimesOf
  <2>2. r.out[k] \in ToSet(r.out)
    BY DEF ToSet
  <2>3. TimesFit(r.kind, r.out[k])
    BY <2>1, <2>2 DEF AllFit
  <2>4. QED
    BY <2>3 DEF TimesFit
<1>4. OutputsInv /\ LayoutInv => ColumnsHoldTheirValues
  BY <1>1, <1>2, <1>3 DEF ColumnsHoldTheirValues
<1>5. QED
  BY <1>4, LayoutAlways, PTL
-----------------------------------------------------------------------------
(* The keys of a JSON object. *)

\* The names that PrintRunData itself writes.
JsonNames ==
    {"name", "family_index", "per_family_instance_index", "run_name", "run_type", "repetitions"}
    \cup {"repetition_index"} \cup {"threads"} \cup {"aggregate_name", "aggregate_unit"}
    \cup {"error_occurred", "error_message"} \cup {"skipped", "skip_message"}
    \cup {"cpu_coefficient", "real_coefficient", "big_o", "time_unit", "rms", "iterations",
          "real_time", "cpu_time"}
    \cup {"label"}
Keys == STRING \cup JsonNames

\* No key twice, and none that is not of S.
Distinct(s, S) == s \in Seq(Keys) /\ IsInjective(s) /\ ToSet(s) \subseteq S

LEMMA DistinctJoined ==
    ASSUME NEW S, NEW T, NEW s, NEW t, Distinct(s, S), Distinct(t, T), S \cap T = {}
    PROVE  Distinct(s \o t, S \cup T)
<1>1. s \in Seq(Keys) /\ t \in Seq(Keys) /\ IsInjective(s) /\ IsInjective(t)
  BY DEF Distinct
<1>2. ToSet(s) \subseteq S /\ ToSet(t) \subseteq T
  BY DEF Distinct
<1>3. IsInjective(s \o t)
  BY <1>1, <1>2, InjectiveConcat
<1>4. ToSet(s \o t) \subseteq S \cup T
  BY <1>1, <1>2, ToSetProperties
<1>5. s \o t \in Seq(Keys)
  BY <1>1
<1>6. QED
  BY <1>3, <1>4, <1>5 DEF Distinct

LEMMA DistinctWhen ==
    ASSUME NEW S, NEW s, Distinct(s, S), NEW c
    PROVE  Distinct(When(c, s), S)
<1>1. <<>> \in Seq(Keys) /\ ToSet(<<>>) = {} /\ IsInjective(<<>>)
  BY DEF ToSet, IsInjective
<1>2. Distinct(<<>>, S)
  BY <1>1 DEF Distinct
<1>3. QED
  BY <1>2 DEF When

LEMMA NamesDistinct ==
    /\ Distinct(<<"name", "family_index", "per_family_instance_index", "run_name", "run_type",
                  "repetitions">>,
                {"name", "family_index", "per_family_instance_index", "run_name", "run_type",
                 "repetitions"})
    /\ Distinct(<<"repetition_index">>, {"repetition_index"})
    /\ Distinct(<<"threads">>, {"threads"})
    /\ Distinct(<<"aggregate_name", "aggregate_unit">>, {"aggregate_name", "aggregate_unit"})
    /\ Distinct(<<"error_occurred", "error_message">>, {"error_occurred", "error_message"})
    /\ Distinct(<<"skipped", "skip_message">>, {"skipped", "skip_message"})
    /\ Distinct(<<"label">>, {"label"})
<1>1. Distinct(<<"name", "family_index", "per_family_instance_index", "run_name", "run_type",
                 "repetitions">>,
               {"name", "family_index", "per_family_instance_index", "run_name", "run_type",
                "repetitions"})
  BY DEF Distinct, Keys, JsonNames, IsInjective, ToSet
<1>2. Distinct(<<"repetition_index">>, {"repetition_index"})
  BY DEF Distinct, Keys, JsonNames, IsInjective, ToSet
<1>3. Distinct(<<"threads">>, {"threads"})
  BY DEF Distinct, Keys, JsonNames, IsInjective, ToSet
<1>4. Distinct(<<"aggregate_name", "aggregate_unit">>, {"aggregate_name", "aggregate_unit"})
  BY DEF Distinct, Keys, JsonNames, IsInjective, ToSet
<1>5. Distinct(<<"error_occurred", "error_message">>, {"error_occurred", "error_message"})
  BY DEF Distinct, Keys, JsonNames, IsInjective, ToSet
<1>6. Distinct(<<"skipped", "skip_message">>, {"skipped", "skip_message"})
  BY DEF Distinct, Keys, JsonNames, IsInjective, ToSet
<1>7. Distinct(<<"label">>, {"label"})
  BY DEF Distinct, Keys, JsonNames, IsInjective, ToSet
<1>8. QED
  BY <1>1, <1>2, <1>3, <1>4, <1>5, <1>6, <1>7

Figures(run) ==
    CASE run.type = "big_o" -> <<"cpu_coefficient", "real_coefficient", "big_o", "time_unit">>
      [] run.type = "rms" -> <<"rms">>
      [] OTHER -> <<"iterations", "real_time", "cpu_time", "time_unit">>

LEMMA FiguresDistinct ==
    ASSUME NEW run
    PROVE  Distinct(Figures(run), {"cpu_coefficient", "real_coefficient", "big_o", "time_unit", "rms",
                                   "iterations", "real_time", "cpu_time"})
<1> DEFINE F == {"cpu_coefficient", "real_coefficient", "big_o", "time_unit", "rms",
                 "iterations", "real_time", "cpu_time"}
<1>1. Distinct(<<"cpu_coefficient", "real_coefficient", "big_o", "time_unit">>, F)
  BY DEF Distinct, Keys, JsonNames, IsInjective, ToSet
<1>2. Distinct(<<"rms">>, F)
  BY DEF Distinct, Keys, JsonNames, IsInjective, ToSet
<1>3. Distinct(<<"iterations", "real_time", "cpu_time", "time_unit">>, F)
  BY DEF Distinct, Keys, JsonNames, IsInjective, ToSet
<1>4. QED
  BY <1>1, <1>2, <1>3 DEF Figures

\* No key twice in an object, if no counter has the name of a key.
LEMMA KeysInjective ==
    ASSUME ToSet(Counters) \cap JsonNames = {}, NEW run
    PROVE  IsInjective(JsonKeys(run))
<1> DEFINE aggregate == run.type # "iteration"
           A == {"name", "family_index", "per_family_instance_index", "run_name", "run_type",
                 "repetitions"}
           E == {"error_occurred", "error_message"}
           S == {"skipped", "skip_message"}
           G == {"aggregate_name", "aggregate_unit"}
           F == {"cpu_coefficient", "real_coefficient", "big_o", "time_unit", "rms",
                 "iterations", "real_time", "cpu_time"}
           a == <<"name", "family_index", "per_family_instance_index", "run_name", "run_type",
                  "repetitions">>
           b == When(~aggregate, <<"repetition_index">>)
           c == <<"threads">>
           d == When(aggregate, <<"aggregate_name", "aggregate_unit">>)
           e == When(run.skipped = "error", <<"error_occurred", "error_message">>)
           f == When(run.skipped = "message", <<"skipped", "skip_message">>)
           g == Figures(run)
           h == Ordered(run.counters)
           l == <<"label">>
<1>1. JsonKeys(run) = a \o b \o c \o d \o e \o f \o g \o h \o l
  BY DEF JsonKeys, Figures
<1>2. /\ Distinct(a, A) /\ Distinct(b, {"repetition_index"}) /\ Distinct(c, {"threads"})
      /\ Distinct(d, G) /\ Distinct(e, E) /\ Distinct(f, S) /\ Distinct(l, {"label"})
  BY NamesDistinct, DistinctWhen
<1>3. Distinct(g, F)
  BY FiguresDistinct
<1>4. Distinct(h, ToSet(Counters))
  <2>1. h \in Seq(STRING) /\ IsInjective(h) /\ ToSet(h) \subseteq ToSet(Counters)
    BY OrderedIs
  <2>2. ToSet(h) \subseteq STRING /\ STRING \subseteq Keys
    BY <2>1, ToSetProperties DEF Keys
  <2> HIDE DEF h
  <2>3. h \in Seq(Keys)
    BY <2>1, <2>2, SeqOfHeld
  <2>4. QED
    BY <2>1, <2>3 DEF Distinct
<1> HIDE DEF a, b, c, d, e, f, g, h, l
<1>5. Distinct(a \o b, A \cup {"repetition_index"})
  BY <1>2, DistinctJoined
<1>6. Distinct(a \o b \o c, A \cup {"repetition_index"} \cup {"threads"})
  BY <1>2, <1>5, DistinctJoined
<1>7. Distinct(a \o b \o c \o d, A \cup {"repetition_index"} \cup {"threads"} \cup G)
  BY <1>2, <1>6, DistinctJoined
<1>8. Distinct(a \o b \o c \o d \o e, A \cup {"repetition_index"} \cup {"threads"} \cup G \cup E)
  BY <1>2, <1>7, DistinctJoined
<1>9. Distinct(a \o b \o c \o d \o e \o f,
               A \cup {"repetition_index"} \cup {"threads"} \cup G \cup E \cup S)
  BY <1>2, <1>8, DistinctJoined
<1>10. Distinct(a \o b \o c \o d \o e \o f \o g,
                A \cup {"repetition_index"} \cup {"threads"} \cup G \cup E \cup S \cup F)
  BY <1>3, <1>9, DistinctJoined
<1> DEFINE N == A \cup {"repetition_index"} \cup {"threads"} \cup G \cup E \cup S \cup F
<1>11. N \cap ToSet(Counters) = {} /\ (N \cup ToSet(Counters)) \cap {"label"} = {}
  BY DEF JsonNames
<1>12. Distinct(a \o b \o c \o d \o e \o f \o g \o h, N \cup ToSet(Counters))
  BY <1>4, <1>10, <1>11, DistinctJoined
<1>13. Distinct(a \o b \o c \o d \o e \o f \o g \o h \o l, (N \cup ToSet(Counters)) \cup {"label"})
  BY <1>2, <1>11, <1>12, DistinctJoined
<1>14. QED
  BY <1>1, <1>13 DEF Distinct
-----------------------------------------------------------------------------
(* A JSON document. *)

\* What JsonDocument says of one output.
IsDocument(out) ==
    LET n == Len(out)
    IN  /\ out[1] = Open /\ out[n] = Close /\ n % 2 = 1
        /\ \A k \in 2 .. n - 1 : IF k % 2 = 0 THEN IsRun(out[k]) /\ IsInjective(out[k].keys)
                                 ELSE out[k] = Comma

LEMMA DocumentEnds ==
    ASSUME ToSet(Counters) \cap JsonNames = {}, NEW begun, Document(begun)
    PROVE  IsDocument(begun \o <<Close>>)
<1>1. PICK s \in Alternating, x \in Objects : begun = (<<Open>> \o s) \o <<x>>
  BY DEF Document
<1> DEFINE n == Len(s)
           u == <<Open>> \o s
           r == begun \o <<Close>>
           Kept(k, y) == IF k % 2 = 0 THEN IsRun(y) /\ IsInjective(y.keys) ELSE y = Comma
<1>2. s \in Seq(Item) /\ n \in Nat /\ n % 2 = 0
  BY LenProperties DEF Alternating
<1>3. \A k \in 1 .. n : IF k % 2 = 1 THEN s[k] \in Objects ELSE s[k] = Comma
  BY DEF Alternating
<1>4. Open \in Item /\ Close \in Item /\ x \in Item
  BY PlainItems, ObjectsAre
<1>5. \A y \in Objects : IsRun(y) /\ IsInjective(y.keys)
  BY ObjectsAre, KeysInjective
<1>6. /\ <<Open>> \in Seq(Item) /\ Len(<<Open>>) = 1 /\ <<Open>>[1] = Open
      /\ <<x>> \in Seq(Item) /\ Len(<<x>>) = 1 /\ <<x>>[1] = x
      /\ <<Close>> \in Seq(Item) /\ Len(<<Close>>) = 1 /\ <<Close>>[1] = Close
  BY <1>4
<1>7. u \in Seq(Item) /\ IsJoin(u, <<Open>>, s)
  BY <1>2, <1>6, JoinIs
<1>8. Len(u) = 1 + n /\ u[1] = Open /\ \A k \in 1 .. n : u[1 + k] = s[k]
  BY <1>6, <1>7 DEF IsJoin
<1> HIDE DEF u, n
<1>9. begun \in Seq(Item) /\ IsJoin(begun, u, <<x>>)
  BY <1>1, <1>6, <1>7, JoinIs DEF u
<1>10. /\ Len(begun) = n + 2 /\ begun[n + 2] = x
       /\ \A k \in 1 .. n + 1 : begun[k] = u[k]
  BY <1>2, <1>6, <1>8, <1>9 DEF IsJoin
<1>11. IsJoin(r, begun, <<Close>>)
  BY <1>6, <1>9, JoinIs
<1> HIDE DEF r
<1>12. /\ Len(r) = n + 3 /\ r[n + 3] = Close
       /\ \A k \in 1 .. n + 2 : r[k] = begun[k]
  BY <1>2, <1>6, <1>10, <1>11 DEF IsJoin
<1>13. r[1] = Open
  BY <1>2, <1>8, <1>10, <1>12
<1>14. ASSUME NEW k \in 2 .. n + 2 PROVE Kept(k, r[k])
  <2>1. CASE k = n + 2
    <3>1. r[k] = x /\ k % 2 = 0
      BY <1>2, <1>10, <1>12, <2>1
    <3>2. QED
      BY <1>5, <3>1
  <2>2. CASE k # n + 2
    <3>1. k - 1 \in 1 .. n /\ 1 + (k - 1) = k /\ k \in 1 .. n + 1 /\ k \in 1 .. n + 2
      BY <1>2, <2>2
    <3>2. r[k] = s[k - 1]
      BY <1>8, <1>10, <1>12, <3>1
    <3>3. (k % 2 = 0) <=> ((k - 1) % 2 = 1)
      BY <1>2
    <3>4. QED
      BY <1>3, <1>5, <3>1, <3>2, <3>3
  <2>3. QED
    BY <2>1, <2>2
<1>15. Len(r) % 2 = 1 /\ Len(r) - 1 = n + 2
  BY <1>2, <1>12
<1>16. IsDocument(r)
  BY <1>12, <1>13, <1>14, <1>15 DEF IsDocument
<1>17. QED
  BY <1>16 DEF r

\* The JSON output of a first suite that has reported a run is one document with an
\* object for each run, in all programs, unless a user counter has the name of one
\* of the keys that PrintRunData writes itself: nothing keeps a user from that.
THEOREM MainJsonDocument ==
    ASSUME ToSet(Counters) \cap JsonNames = {}
    PROVE  Spec => []JsonDocument
<1>1. ASSUME OutputsInv, LayoutInv PROVE JsonDocument
  <2>1. ASSUME NEW r \in Outputs, r.kind = "json", suite = 1 PROVE IsDocument(r.out)
    <3>1. PICK out : Document(out) /\ r.out = out \o <<Close>>
      BY <1>1, <2>1, OutputsAre DEF Ended
    <3>2. QED
      BY <3>1, DocumentEnds
  <2>2. QED
    BY <2>1 DEF JsonDocument, IsDocument
<1>2. QED
  BY <1>1, LayoutAlways, PTL
=============================================================================
