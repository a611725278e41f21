-------------------------- MODULE PerfCountersProofs --------------------------
(***************************************************************************)
(* Proofs about the module PerfCounters: the descriptors of the objects    *)
(* are the ones that are open, whatever the kernel refuses.                *)
(***************************************************************************)
EXTENDS PerfCounters, FoldLemmas

Descriptor == [id : Nat, name : Known, pinned : BOOLEAN, leader : Nat]
Object == [counter_ids : Seq(Nat), leader_ids : Seq(Nat), names : Seq(Known)]

LedBy(l) == {d \in Descriptor : d.leader = l}
Groups(open) == [l \in Nat |-> Among(open, LedBy(l))]

\* The descriptors of an object with these leaders, in the order of a reading.
Members(open, leaders) == FlattenSeq(Each(Groups(open), leaders))

Id == [d \in Descriptor |-> d.id]
CounterName == [d \in Descriptor |-> d.name]

-----------------------------------------------------------------------------
(* The groups of an object, one after the other. *)

LEMMA NumbersAppend ==
    ASSUME NEW s \in Seq(Nat), NEW n \in Nat
    PROVE  ToSet(Append(s, n)) = ToSet(s) \cup {n}
<1> DEFINE N == Nat
<1>1. s \in Seq(N) /\ n \in N
  OBVIOUS
<1> HIDE DEF N
<1>2. QED
  BY <1>1, ToSetProperties

LEMMA DescriptorsAppend ==
    ASSUME NEW s \in Seq(Descriptor), NEW d \in Descriptor
    PROVE  /\ Each(Id, Append(s, d)) = Append(Each(Id, s), d.id)
           /\ Each(CounterName, Append(s, d)) = Append(Each(CounterName, s), d.name)
<1> DEFINE N == Nat
<1>1. Id \in [Descriptor -> N] /\ CounterName \in [Descriptor -> Known]
  BY DEF Id, CounterName, Descriptor
<1>2. Id[d] = d.id /\ CounterName[d] = d.name
  BY DEF Id, CounterName
<1> HIDE DEF N
<1>3. Each(Id, Append(s, d)) = Append(Each(Id, s), Id[d])
  BY <1>1, EachAppend
<1>4. Each(CounterName, Append(s, d)) = Append(Each(CounterName, s), CounterName[d])
  BY <1>1, EachAppend
<1>5. QED
  BY <1>2, <1>3, <1>4

LEMMA GroupsType ==
    ASSUME NEW open \in Seq(Descriptor)
    PROVE  /\ Groups(open) \in [Nat -> Seq(Descriptor)]
           /\ \A l \in Nat : Groups(open)[l] = Among(open, LedBy(l))
<1>1. \A l \in Nat : Among(open, LedBy(l)) \in Seq(Descriptor)
  BY AmongProperties
<1>2. QED
  BY <1>1 DEF Groups

LEMMA EachGroupType ==
    ASSUME NEW open \in Seq(Descriptor), NEW s \in Seq(Nat)
    PROVE  Each(Groups(open), s) \in Seq(Seq(Descriptor)) /\ Len(Each(Groups(open), s)) = Len(s)
<1> DEFINE G == Groups(open)
           N == Nat
           S == Seq(Descriptor)
<1>1. G \in [N -> S]
  BY GroupsType
<1>2. s \in Seq(N)
  OBVIOUS
<1> HIDE DEF N, S, G
<1>3. Each(G, s) \in Seq(S)
  BY <1>1, <1>2, EachType
<1>4. Len(Each(G, s)) = Len(s)
  BY <1>2, EachLen
<1>5. QED
  BY <1>3, <1>4 DEF N, S, G

LEMMA MembersProperties ==
    ASSUME NEW open \in Seq(Descriptor)
    PROVE  /\ Members(open, <<>>) = <<>>
           /\ \A s \in Seq(Nat) : Members(open, s) \in Seq(Descriptor)
           /\ \A s \in Seq(Nat), l \in Nat :
                 Members(open, Append(s, l)) = Members(open, s) \o Among(open, LedBy(l))
<1> DEFINE G == Groups(open)
           N == Nat
           S == Seq(Descriptor)
<1>1. G \in [N -> S] /\ \A l \in N : G[l] = Among(open, LedBy(l))
  BY GroupsType
<1>2. /\ FlattenSeq(<<>>) = <<>>
      /\ \A ss \in Seq(S) : FlattenSeq(ss) \in S
      /\ \A ss \in Seq(S), t \in S : FlattenSeq(Append(ss, t)) = FlattenSeq(ss) \o t
  BY FlattenProperties
<1> HIDE DEF N, S, G
<1>3. /\ Each(G, <<>>) = <<>>
      /\ \A s \in Seq(N) : Each(G, s) \in Seq(S)
      /\ \A s \in Seq(N), l \in N : Each(G, Append(s, l)) = Append(Each(G, s), G[l])
  <2>1. G \in [N -> S]
    BY <1>1
  <2>2. QED
    BY <2>1, EachEmpty, EachType, EachAppend
<1>4. Members(open, <<>>) = <<>>
  BY <1>2, <1>3 DEF Members, G
<1>5. \A s \in Seq(N) : Members(open, s) \in S
  BY <1>2, <1>3 DEF Members, G
<1>6. ASSUME NEW s \in Seq(N), NEW l \in N
      PROVE  Members(open, Append(s, l)) = Members(open, s) \o Among(open, LedBy(l))
  <2>1. G[l] \in S /\ Each(G, s) \in Seq(S)
    BY <1>1, <1>3
  <2>2. FlattenSeq(Append(Each(G, s), G[l])) = FlattenSeq(Each(G, s)) \o G[l]
    BY <1>2, <2>1
  <2>3. FlattenSeq(Each(G, Append(s, l))) = FlattenSeq(Each(G, s)) \o G[l]
    BY <1>3, <2>2
  <2>4. QED
    BY <1>1, <2>3 DEF Members, G
<1>7. QED
  BY <1>4, <1>5, <1>6 DEF N, S

\* As long as the groups of its leaders are the same, so are its descriptors.
LEMMA MembersAgree ==
    ASSUME NEW open \in Seq(Descriptor), NEW now \in Seq(Descriptor), NEW s \in Seq(Nat),
           \A l \in ToSet(s) : Among(open, LedBy(l)) = Among(now, LedBy(l))
    PROVE  Members(open, s) = Members(now, s)
<1>1. ASSUME NEW k \in DOMAIN s PROVE Groups(open)[s[k]] = Groups(now)[s[k]]
  <2>1. s[k] \in Nat /\ s[k] \in ToSet(s)
    BY DEF ToSet
  <2>2. QED
    BY <2>1, GroupsType
<1>2. Each(Groups(open), s) = Each(Groups(now), s)
  BY <1>1 DEF Each
<1>3. QED
  BY <1>2 DEF Members

\* The group of another leader is as before a descriptor is opened.
LEMMA GroupAfterOpen ==
    ASSUME NEW open \in Seq(Descriptor), NEW d \in Descriptor, NEW l \in Nat
    PROVE  Among(Append(open, d), LedBy(l))
              = IF d.leader = l THEN Append(Among(open, LedBy(l)), d) ELSE Among(open, LedBy(l))
<1>1. d \in LedBy(l) <=> d.leader = l
  BY DEF LedBy
<1>2. \A s \in Seq(Descriptor), x \in Descriptor :
          Among(Append(s, x), LedBy(l))
              = IF x \in LedBy(l) THEN Append(Among(s, LedBy(l)), x) ELSE Among(s, LedBy(l))
  BY AmongProperties
<1>3. QED
  BY <1>1, <1>2

-----------------------------------------------------------------------------
(* What an object holds. *)

\* The descriptors of an object are those of its groups, in the order of its
\* names, and each is in one of its groups.
Kept(open, c) ==
    /\ ToSet(c.leader_ids) \subseteq ToSet(c.counter_ids) /\ IsInjective(c.leader_ids)
    /\ \A d \in ToSet(open) : d.leader \in ToSet(c.leader_ids) <=> d.id \in ToSet(c.counter_ids)
    /\ Each(Id, Members(open, c.leader_ids)) = c.counter_ids
    /\ Each(CounterName, Members(open, c.leader_ids)) = c.names

Parts == {"measurement", "other", "made"}
HeldBy(c) == ToSet(c.counter_ids)

\* Every open descriptor is held by one object, and by that once.
Owned(open, parts) ==
    /\ \A p \in Parts : IsInjective(parts[p].counter_ids)
    /\ \A p \in Parts, q \in Parts : p # q => HeldBy(parts[p]) \cap HeldBy(parts[q]) = {}
    /\ \A n \in Nat : (\E p \in Parts : n \in HeldBy(parts[p])) <=> \E d \in ToSet(open) : d.id = n
    /\ \A p \in Parts : Kept(open, parts[p])

LEMMA EmptyObject ==
    /\ NoCounters \in Object /\ HeldBy(NoCounters) = {} /\ IsInjective(NoCounters.counter_ids)
    /\ \A open \in Seq(Descriptor) : Kept(open, NoCounters)
<1>1. NoCounters \in Object
  BY DEF NoCounters, Object
<1>2. NoCounters.counter_ids = <<>> /\ NoCounters.leader_ids = <<>> /\ NoCounters.names = <<>>
  BY DEF NoCounters
<1>3. ToSet(<<>>) = {} /\ IsInjective(<<>>)
  BY DEF ToSet, IsInjective
<1>4. Each(Id, <<>>) = <<>> /\ Each(CounterName, <<>>) = <<>>
  BY DEF Each
<1>5. ASSUME NEW open \in Seq(Descriptor) PROVE Kept(open, NoCounters)
  BY <1>2, <1>3, <1>4, MembersProperties DEF Kept
<1>6. QED
  BY <1>1, <1>2, <1>3, <1>5 DEF HeldBy

LEMMA NothingOwned == Owned(<<>>, [p \in Parts |-> NoCounters])
<1>1. <<>> \in Seq(Descriptor) /\ ToSet(<<>>) = {}
  BY DEF ToSet
<1>2. QED
  BY <1>1, EmptyObject DEF Owned

\* An object is moved to one that is empty.
LEMMA OwnedWhenMoved ==
    ASSUME NEW open \in Seq(Descriptor), NEW parts \in [Parts -> Object], Owned(open, parts),
           NEW p \in Parts, NEW q \in Parts, p # q, parts[q] = NoCounters
    PROVE  Owned(open, [parts EXCEPT ![q] = parts[p], ![p] = NoCounters])
<1> DEFINE now == [parts EXCEPT ![q] = parts[p], ![p] = NoCounters]
<1>1. now[q] = parts[p] /\ now[p] = parts[q] /\ \A r \in Parts \ {p, q} : now[r] = parts[r]
  OBVIOUS
<1> HIDE DEF now
<1>2. \A r \in Parts : IsInjective(now[r].counter_ids) /\ Kept(open, now[r])
  BY <1>1 DEF Owned
<1>3. \A n \in Nat : (\E r \in Parts : n \in HeldBy(now[r])) <=> \E r \in Parts : n \in HeldBy(parts[r])
  BY <1>1
<1>4. ASSUME NEW r \in Parts, NEW s \in Parts, r # s
      PROVE  HeldBy(now[r]) \cap HeldBy(now[s]) = {}
  BY <1>1, <1>4 DEF Owned
<1>5. Owned(open, now)
  BY <1>2, <1>3, <1>4 DEF Owned
<1>6. QED
  BY <1>5 DEF now

\* Closing the descriptors of one object leaves the groups of the others alone.
LEMMA OwnedWhenClosed ==
    ASSUME NEW open \in Seq(Descriptor), NEW parts \in [Parts -> Object], Owned(open, parts),
           NEW p \in Parts
    PROVE  LET now == Among(open, {d \in Descriptor : d.id \notin HeldBy(parts[p])})
           IN  now \in Seq(Descriptor) /\ Owned(now, [parts EXCEPT ![p] = NoCounters])
<1> DEFINE S == {d \in Descriptor : d.id \notin HeldBy(parts[p])}
           now == Among(open, S)
           left == [parts EXCEPT ![p] = NoCounters]
<1>1. now \in Seq(Descriptor) /\ ToSet(now) = ToSet(open) \cap S
  BY AmongProperties, AmongElements
<1>2. ToSet(open) \subseteq Descriptor
  BY ToSetProperties
<1>3. left[p] = NoCounters /\ \A q \in Parts \ {p} : left[q] = parts[q]
  OBVIOUS
<1> HIDE DEF now, left
<1>4. \A q \in Parts : IsInjective(left[q].counter_ids)
  BY <1>3, EmptyObject DEF Owned
<1>5. ASSUME NEW q \in Parts, NEW r \in Parts, q # r
      PROVE  HeldBy(left[q]) \cap HeldBy(left[r]) = {}
  BY <1>3, <1>5, EmptyObject DEF Owned
<1>6. ASSUME NEW n \in Nat
      PROVE  (\E q \in Parts : n \in HeldBy(left[q])) <=> \E d \in ToSet(now) : d.id = n
  <2>1. (\E d \in ToSet(now) : d.id = n) <=> n \notin HeldBy(parts[p]) /\ \E d \in ToSet(open) : d.id = n
    BY <1>1, <1>2
  <2>2. (\E q \in Parts : n \in HeldBy(left[q]))
           <=> n \notin HeldBy(parts[p]) /\ \E q \in Parts : n \in HeldBy(parts[q])
    BY <1>3, EmptyObject DEF Owned
  <2>3. QED
    BY <2>1, <2>2 DEF Owned
<1>7. ASSUME NEW q \in Parts, q # p PROVE Kept(now, parts[q])
  <2> DEFINE c == parts[q]
  <2>1. c \in Object /\ c.leader_ids \in Seq(Nat) /\ Kept(open, c)
    BY DEF Owned, Object
  <2>2. HeldBy(c) \cap HeldBy(parts[p]) = {}
    BY <1>7 DEF Owned
  <2> HIDE DEF c
  <2>3. ASSUME NEW l \in ToSet(c.leader_ids) PROVE Among(open, LedBy(l)) = Among(now, LedBy(l))
    <3>1. ASSUME NEW d \in ToSet(open) PROVE d \in LedBy(l) <=> d \in S \cap LedBy(l)
      BY <1>2, <2>1, <2>2 DEF LedBy, Kept, HeldBy
    <3>2. Among(open, LedBy(l)) = Among(open, S \cap LedBy(l))
      BY <3>1, AmongAgree
    <3>3. Among(Among(open, S), LedBy(l)) = Among(open, S \cap LedBy(l))
      BY AmongTwice
    <3>4. QED
      BY <3>2, <3>3 DEF now
  <2>4. Members(open, c.leader_ids) = Members(now, c.leader_ids)
    BY <1>1, <2>1, <2>3, MembersAgree
  <2>5. \A d \in ToSet(now) : d.leader \in ToSet(c.leader_ids) <=> d.id \in ToSet(c.counter_ids)
    BY <1>1, <2>1 DEF Kept
  <2>6. QED
    BY <2>1, <2>4, <2>5 DEF Kept, c
<1>8. \A q \in Parts : Kept(now, left[q])
  BY <1>1, <1>3, <1>7, EmptyObject
<1>9. Owned(now, left)
  BY <1>4, <1>5, <1>6, <1>8 DEF Owned
<1>10. QED
  BY <1>1, <1>9 DEF now, left

\* Leaders are open.
LEMMA LeadersOpen ==
    ASSUME NEW open \in Seq(Descriptor), NEW parts \in [Parts -> Object], Owned(open, parts)
    PROVE  \A d \in ToSet(open) : \E e \in ToSet(open) : e.id = d.leader
<1> SUFFICES ASSUME NEW d \in ToSet(open) PROVE \E e \in ToSet(open) : e.id = d.leader
  OBVIOUS
<1>1. d.id \in Nat /\ d.leader \in Nat
  <2>1. d \in Descriptor
    BY ToSetProperties
  <2>2. QED
    BY <2>1 DEF Descriptor
<1>2. PICK p \in Parts : d.id \in HeldBy(parts[p])
  BY <1>1 DEF Owned
<1>3. d.leader \in HeldBy(parts[p])
  BY <1>2 DEF Owned, Kept, HeldBy
<1>4. QED
  BY <1>1, <1>3 DEF Owned

\* An object that has opened one more descriptor.
Extended(c, d, leaders) ==
    [c EXCEPT !.leader_ids = leaders, !.counter_ids = Append(@, d.id), !.names = Append(@, d.name)]

\* What is to be shown of the groups, for the next two lemmas.
LEMMA OwnedWhenOpened ==
    ASSUME NEW open \in Seq(Descriptor), NEW parts \in [Parts -> Object], Owned(open, parts),
           NEW p \in Parts, NEW d \in Descriptor, \A e \in ToSet(open) : e.id # d.id,
           NEW leaders \in Seq(Nat), d.leader \in ToSet(leaders), IsInjective(leaders),
           ToSet(leaders) \subseteq HeldBy(parts[p]) \cup {d.id},
           ToSet(parts[p].leader_ids) \subseteq ToSet(leaders),
           ToSet(leaders) \subseteq ToSet(parts[p].leader_ids) \cup {d.id},
           Members(Append(open, d), leaders) = Append(Members(open, parts[p].leader_ids), d)
    PROVE  /\ Append(open, d) \in Seq(Descriptor)
           /\ Extended(parts[p], d, leaders) \in Object
           /\ Owned(Append(open, d), [parts EXCEPT ![p] = Extended(parts[p], d, leaders)])
<1> DEFINE now == Append(open, d)
           c == parts[p]
           more == Extended(c, d, leaders)
           left == [parts EXCEPT ![p] = more]
<1>1. now \in Seq(Descriptor) /\ ToSet(now) = ToSet(open) \cup {d}
  BY ToSetProperties
<1>2. c \in Object /\ c.counter_ids \in Seq(Nat) /\ c.leader_ids \in Seq(Nat) /\ c.names \in Seq(Known)
  BY DEF Object
<1>3. d.id \in Nat /\ d.leader \in Nat /\ d.name \in Known
  BY DEF Descriptor
<1>4. /\ more \in Object /\ more.leader_ids = leaders
      /\ more.counter_ids = Append(c.counter_ids, d.id) /\ more.names = Append(c.names, d.name)
  <2> HIDE DEF c, now, left
  <2>1. Append(c.counter_ids, d.id) \in Seq(Nat) /\ Append(c.names, d.name) \in Seq(Known)
    BY <1>2, <1>3
  <2>2. more.leader_ids = leaders
    BY <1>2 DEF Extended, Object
  <2>3. more.counter_ids = Append(c.counter_ids, d.id)
    BY <1>2 DEF Extended, Object
  <2>4. more.names = Append(c.names, d.name)
    BY <1>2 DEF Extended, Object
  <2>5. more \in Object
    BY <1>2, <2>1 DEF Extended, Object
  <2>6. QED
    BY <2>2, <2>3, <2>4, <2>5
<1>5. left[p] = more /\ \A q \in Parts \ {p} : left[q] = parts[q]
  OBVIOUS
<1>6. ToSet(open) \subseteq Descriptor
  BY ToSetProperties
<1> HIDE DEF now, c, more, left
<1>7. HeldBy(more) = HeldBy(c) \cup {d.id}
  BY <1>2, <1>3, <1>4, NumbersAppend DEF HeldBy
<1>8. ASSUME NEW q \in Parts PROVE d.id \notin HeldBy(parts[q])
  BY <1>3 DEF Owned
<1>9. \A q \in Parts : IsInjective(left[q].counter_ids)
  <2>1. IsInjective(c.counter_ids) /\ d.id \notin ToSet(c.counter_ids)
    BY <1>8 DEF Owned, HeldBy, c
  <2>2. IsInjective(more.counter_ids)
    BY <1>2, <1>3, <1>4, <2>1, InjectiveAppend
  <2>3. QED
    BY <1>5, <2>2 DEF Owned
<1>10. ASSUME NEW q \in Parts, NEW r \in Parts, q # r
       PROVE  HeldBy(left[q]) \cap HeldBy(left[r]) = {}
  <2>1. HeldBy(parts[q]) \cap HeldBy(parts[r]) = {}
    BY <1>10 DEF Owned
  <2>2. QED
    BY <1>5, <1>7, <1>8, <1>10, <2>1 DEF c
<1>11. ASSUME NEW n \in Nat
       PROVE  (\E q \in Parts : n \in HeldBy(left[q])) <=> \E e \in ToSet(now) : e.id = n
  <2>1. (\E e \in ToSet(now) : e.id = n) <=> n = d.id \/ \E e \in ToSet(open) : e.id = n
    BY <1>1
  <2>2. (\E q \in Parts : n \in HeldBy(left[q])) <=> n = d.id \/ \E q \in Parts : n \in HeldBy(parts[q])
    BY <1>5, <1>7 DEF c
  <2>3. QED
    BY <2>1, <2>2 DEF Owned
<1>12. ASSUME NEW q \in Parts, q # p PROVE Kept(now, parts[q])
  <2> DEFINE b == parts[q]
  <2>1. b \in Object /\ b.leader_ids \in Seq(Nat) /\ Kept(open, b)
    BY DEF Owned, Object
  <2>2. HeldBy(b) \cap HeldBy(c) = {} /\ d.id \notin HeldBy(b)
    BY <1>8, <1>12 DEF Owned, c
  <2>3. d.leader \notin HeldBy(b)
    BY <2>2 DEF c
  <2> HIDE DEF b
  <2>4. ToSet(b.leader_ids) \subseteq HeldBy(b) /\ ToSet(b.leader_ids) \subseteq Nat
    BY <2>1, ToSetProperties DEF Kept, HeldBy
  <2>5. ASSUME NEW l \in ToSet(b.leader_ids) PROVE Among(open, LedBy(l)) = Among(now, LedBy(l))
    BY <2>3, <2>4, GroupAfterOpen DEF now
  <2>6. Members(open, b.leader_ids) = Members(now, b.leader_ids)
    BY <1>1, <2>1, <2>5, MembersAgree
  <2>7. \A e \in ToSet(now) : e.leader \in ToSet(b.leader_ids) <=> e.id \in ToSet(b.counter_ids)
    BY <1>1, <2>1, <2>2, <2>3, <2>4 DEF Kept, HeldBy
  <2>8. QED
    BY <2>1, <2>6, <2>7 DEF Kept, b
<1>13. Kept(now, more)
  <2>1. Kept(open, c)
    BY DEF Owned, c
  <2>2. ToSet(more.leader_ids) \subseteq ToSet(more.counter_ids) /\ IsInjective(more.leader_ids)
    BY <1>4, <1>7 DEF HeldBy, c
  <2>3. ASSUME NEW e \in ToSet(now)
        PROVE  e.leader \in ToSet(more.leader_ids) <=> e.id \in ToSet(more.counter_ids)
    <3>1. CASE e = d
      BY <1>4, <1>7, <3>1 DEF HeldBy
    <3>2. CASE e \in ToSet(open)
      <4>1. e.id # d.id /\ (e.leader \in ToSet(c.leader_ids) <=> e.id \in ToSet(c.counter_ids))
        BY <2>1, <3>2 DEF Kept
      <4>2. e.leader # d.id
        BY <3>2, LeadersOpen
      <4>3. e.leader \in ToSet(leaders) <=> e.leader \in ToSet(c.leader_ids)
        BY <4>2 DEF c
      <4>4. QED
        BY <1>4, <1>7, <4>1, <4>3 DEF HeldBy
    <3>3. QED
      BY <1>1, <3>1, <3>2
  <2> DEFINE m == Members(open, c.leader_ids)
  <2>4. m \in Seq(Descriptor) /\ Members(now, leaders) = Append(m, d)
    BY <1>2, MembersProperties DEF now, c
  <2>5. Each(Id, m) = c.counter_ids /\ Each(CounterName, m) = c.names
    BY <2>1 DEF Kept
  <2> HIDE DEF m
  <2>6. /\ Each(Id, Append(m, d)) = Append(Each(Id, m), d.id)
        /\ Each(CounterName, Append(m, d)) = Append(Each(CounterName, m), d.name)
    BY <2>4, DescriptorsAppend
  <2>7. QED
    BY <1>4, <2>2, <2>3, <2>4, <2>5, <2>6 DEF Kept
<1>14. \A q \in Parts : Kept(now, left[q])
  BY <1>5, <1>12, <1>13
<1>15. Owned(now, left)
  BY <1>9, <1>10, <1>11, <1>14 DEF Owned
<1>16. QED
  BY <1>1, <1>4, <1>15 DEF now, left, more, c

LEMMA OwnedWhenLeaderOpened ==
    ASSUME NEW open \in Seq(Descriptor), NEW parts \in [Parts -> Object], Owned(open, parts),
           NEW p \in Parts, NEW d \in Descriptor, \A e \in ToSet(open) : e.id # d.id,
           d.leader = d.id
    PROVE  LET more == Extended(parts[p], d, Append(parts[p].leader_ids, d.id))
           IN  /\ Append(open, d) \in Seq(Descriptor) /\ more \in Object
               /\ Owned(Append(open, d), [parts EXCEPT ![p] = more])
<1> DEFINE s == parts[p].leader_ids
           leaders == Append(s, d.id)
           now == Append(open, d)
<1>1. s \in Seq(Nat) /\ parts[p].counter_ids \in Seq(Nat) /\ d.id \in Nat /\ now \in Seq(Descriptor)
  BY DEF Object, Descriptor
<1>2. leaders \in Seq(Nat) /\ ToSet(leaders) = ToSet(s) \cup {d.id}
  BY <1>1, NumbersAppend
<1>3. ToSet(s) \subseteq HeldBy(parts[p]) /\ IsInjective(s)
  BY DEF Owned, Kept, HeldBy
<1>4. \A e \in ToSet(open) : e.leader # d.id
  BY LeadersOpen
<1>5. d.id \notin HeldBy(parts[p])
  BY <1>1 DEF Owned
<1>6. IsInjective(leaders)
  <2>1. d.id \notin ToSet(s)
    BY <1>3, <1>5
  <2>2. QED
    BY <1>1, <1>3, <2>1, InjectiveAppend
<1>7. Members(now, leaders) = Append(Members(open, s), d)
  <2>1. Members(now, leaders) = Members(now, s) \o Among(now, LedBy(d.id))
    BY <1>1, MembersProperties
  <2>2. ASSUME NEW l \in ToSet(s) PROVE Among(open, LedBy(l)) = Among(now, LedBy(l))
    <3>1. l \in Nat /\ l # d.id
      BY <1>1, <1>3, <1>5 DEF ToSet
    <3>2. QED
      BY <3>1, GroupAfterOpen
  <2>3. Members(now, s) = Members(open, s)
    BY <1>1, <2>2, MembersAgree
  <2>4. ToSet(open) \cap LedBy(d.id) = {}
    BY <1>4 DEF LedBy
  <2>5. Among(open, LedBy(d.id)) = <<>>
    BY <2>4, AmongNone
  <2>6. Among(now, LedBy(d.id)) = Append(<<>>, d)
    BY <1>1, <2>5, GroupAfterOpen
  <2>7. Members(open, s) \in Seq(Descriptor)
    BY <1>1, MembersProperties
  <2>8. Members(open, s) \o Append(<<>>, d) = Append(Members(open, s), d)
    BY <2>7
  <2>9. QED
    BY <2>1, <2>3, <2>6, <2>8
<1> HIDE DEF s, leaders, now
<1>8. /\ d.leader \in ToSet(leaders) /\ ToSet(leaders) \subseteq HeldBy(parts[p]) \cup {d.id}
      /\ ToSet(s) \subseteq ToSet(leaders) /\ ToSet(leaders) \subseteq ToSet(s) \cup {d.id}
  BY <1>2, <1>3
<1>9. QED
  BY <1>2, <1>6, <1>7, <1>8, OwnedWhenOpened DEF now, s, leaders

LEMMA OwnedWhenMemberOpened ==
    ASSUME NEW open \in Seq(Descriptor), NEW parts \in [Parts -> Object], Owned(open, parts),
           NEW p \in Parts, NEW d \in Descriptor, \A e \in ToSet(open) : e.id # d.id,
           NEW front \in Seq(Nat), parts[p].leader_ids = Append(front, d.leader)
    PROVE  LET more == Extended(parts[p], d, parts[p].leader_ids)
           IN  /\ Append(open, d) \in Seq(Descriptor) /\ more \in Object
               /\ Owned(Append(open, d), [parts EXCEPT ![p] = more])
<1> DEFINE s == parts[p].leader_ids
           now == Append(open, d)
           g == d.leader
<1>1. s \in Seq(Nat) /\ g \in Nat /\ now \in Seq(Descriptor)
  BY DEF Object, Descriptor
<1>2. ToSet(s) = ToSet(front) \cup {g}
  BY <1>1, NumbersAppend
<1>3. ToSet(s) \subseteq HeldBy(parts[p]) /\ IsInjective(s)
  BY DEF Owned, Kept, HeldBy
<1>4. g \notin ToSet(front)
  BY <1>1, <1>3, InjectiveAppend
<1>5. Members(now, s) = Append(Members(open, s), d)
  <2>1. Members(now, s) = Members(now, front) \o Among(now, LedBy(g))
    BY <1>1, MembersProperties
  <2>2. Members(open, s) = Members(open, front) \o Among(open, LedBy(g))
    BY <1>1, MembersProperties
  <2>3. ASSUME NEW l \in ToSet(front) PROVE Among(open, LedBy(l)) = Among(now, LedBy(l))
    <3>1. l \in Nat /\ l # g
      BY <1>4 DEF ToSet
    <3>2. QED
      BY <3>1, GroupAfterOpen
  <2>4. Members(now, front) = Members(open, front)
    BY <1>1, <2>3, MembersAgree
  <2>5. Among(now, LedBy(g)) = Append(Among(open, LedBy(g)), d)
    BY <1>1, GroupAfterOpen
  <2>6. Members(open, front) \in Seq(Descriptor) /\ Among(open, LedBy(g)) \in Seq(Descriptor)
    BY MembersProperties, AmongProperties
  <2>7. Members(open, front) \o Append(Among(open, LedBy(g)), d)
           = Append(Members(open, front) \o Among(open, LedBy(g)), d)
    BY <2>6
  <2>8. QED
    BY <2>1, <2>2, <2>4, <2>5, <2>7
<1> HIDE DEF s, now, g
<1>6. g \in ToSet(s) /\ ToSet(s) \subseteq HeldBy(parts[p]) \cup {d.id}
  BY <1>2, <1>3
<1>7. QED
  BY <1>1, <1>3, <1>5, <1>6, OwnedWhenOpened DEF now, s, g

-----------------------------------------------------------------------------
(* The inductive invariant. *)

AllRequests == {<<>>} \cup UNION {Requests[o] : o \in Owners}

CreateType ==
    [owner : Owners, request : AllRequests, i : Int, group_id : Int, is_first : BOOLEAN,
     retries : Int, enabled : Int, made : Object]

PartsOf == [p \in Parts |-> IF p = "made" THEN create.made ELSE counters[p]]

TypeOK ==
    /\ opened \in Seq(Descriptor) /\ time \in Nat /\ pc \in {"idle", "name", "open", "enable"}
    /\ create \in CreateType /\ counters \in [Owners -> Object]

\* What Create has made so far, and the group it opens into.
Making ==
    /\ pc = "idle" => create.made = NoCounters
    /\ pc = "open" => Name \in Known /\ Len(create.made.names) < kMaxCounters
    /\ pc \in {"name", "open"} /\ create.group_id >= 0 =>
           \E front \in Seq(Nat) : create.made.leader_ids = Append(front, create.group_id)

DescriptorsInv ==
    /\ TypeOK /\ Making /\ misused = FALSE
    /\ Owned(opened, PartsOf)
    /\ \A p \in Parts : Len(PartsOf[p].names) <= kMaxCounters

LEMMA PartsType ==
    ASSUME TypeOK
    PROVE  /\ PartsOf \in [Parts -> Object]
           /\ PartsOf["made"] = create.made
           /\ \A o \in Owners : o \in Parts /\ PartsOf[o] = counters[o]
BY DEF TypeOK, PartsOf, Parts, Owners, CreateType

LEMMA GroupIs ==
    ASSUME opened \in Seq(Descriptor), NEW l
    PROVE  Group(l) = Among(opened, LedBy(l))
<1> DEFINE S == {d \in ToSet(opened) : d.leader = l}
<1>1. ToSet(opened) \subseteq Descriptor
  BY ToSetProperties
<1>2. \A d \in ToSet(opened) : d \in S <=> d \in LedBy(l)
  BY <1>1 DEF LedBy
<1>3. Group(l) = Among(opened, S)
  BY DEF Group
<1> HIDE DEF S
<1>4. QED
  BY <1>2, <1>3, AmongAgree

LEMMA IsOpenIs ==
    ASSUME opened \in Seq(Descriptor), NEW n
    PROVE  IsOpen(n) <=> \E d \in ToSet(opened) : d.id = n
BY DEF IsOpen, ToSet

\* perf_event_open always finds a free descriptor.
LEMMA LowestFreeIsFree ==
    ASSUME opened \in Seq(Descriptor)
    PROVE  LowestFree \in Nat /\ ~IsOpen(LowestFree)
<1> DEFINE n == Len(opened)
           taken == {opened[k].id : k \in 1 .. n}
           free == {id \in 0 .. n : ~IsOpen(id)}
<1>1. n \in Nat /\ DOMAIN opened = 1 .. n
  BY LenProperties
<1>2. \A id : IsOpen(id) <=> id \in taken
  BY <1>1 DEF IsOpen
<1>3. IsFiniteSet(taken) /\ Cardinality(taken) <= n
  <2>1. IsFiniteSet(1 .. n) /\ Cardinality(1 .. n) = n
    BY <1>1, FS_Interval
  <2> DEFINE f == [k \in 1 .. n |-> opened[k].id]
  <2>2. f \in Surjection(1 .. n, taken)
    BY DEF Surjection
  <2>3. QED
    BY <2>1, <2>2, FS_Surjection
<1> HIDE DEF taken
<1>4. free # {}
  <2> SUFFICES ASSUME free = {} PROVE FALSE
    OBVIOUS
  <2>1. 0 .. n \subseteq taken
    BY <1>2
  <2>2. Cardinality(0 .. n) = n + 1
    BY <1>1, FS_Interval
  <2>3. Cardinality(0 .. n) <= Cardinality(taken)
    BY <1>3, <2>1, FS_Subset
  <2>4. Cardinality(taken) \in Nat
    BY <1>3, FS_CardinalityType
  <2>5. QED
    BY <1>1, <1>3, <2>2, <2>3, <2>4
<1>5. PICK id \in free : \A j \in free : id <= j
  <2>1. free \in SUBSET Nat
    BY <1>1
  <2> HIDE DEF free
  <2>2. QED
    BY <1>4, <2>1, NatLeast
<1>6. id \in 0 .. n /\ ~IsOpen(id) /\ \A j \in 0 .. id - 1 : IsOpen(j)
  BY <1>1, <1>5
<1>7. LowestFree \in 0 .. n /\ ~IsOpen(LowestFree)
  BY <1>6 DEF LowestFree
<1>8. QED
  BY <1>1, <1>7

\* Closing what one object holds is what a program may do.
LEMMA Closing ==
    ASSUME DescriptorsInv, NEW p \in Parts, Close(PartsOf[p].counter_ids)
    PROVE  /\ misused' = FALSE
           /\ opened' \in Seq(Descriptor) /\ Owned(opened', [PartsOf EXCEPT ![p] = NoCounters])
<1> DEFINE ids == PartsOf[p].counter_ids
           S == {d \in ToSet(opened) : d.id \notin ToSet(ids)}
           T == {d \in Descriptor : d.id \notin HeldBy(PartsOf[p])}
<1>1. opened \in Seq(Descriptor) /\ PartsOf \in [Parts -> Object] /\ Owned(opened, PartsOf)
  BY PartsType DEF DescriptorsInv, TypeOK
<1>2. ids \in Seq(Nat)
  BY <1>1 DEF Object
<1>3. opened' = Among(opened, S)
  BY DEF Close
<1>4. \A d \in ToSet(opened) : d \in S <=> d \in T
  BY <1>1, ToSetProperties DEF HeldBy
<1>5. Among(opened, S) = Among(opened, T)
  <2> HIDE DEF S, T
  <2>1. QED
    BY <1>1, <1>4, AmongAgree
<1>6. opened' \in Seq(Descriptor) /\ Owned(opened', [PartsOf EXCEPT ![p] = NoCounters])
  BY <1>1, <1>3, <1>5, OwnedWhenClosed
<1>7. misused' = FALSE
  <2>1. ASSUME NEW k \in DOMAIN ids PROVE IsOpen(ids[k])
    <3>1. ids[k] \in Nat /\ ids[k] \in HeldBy(PartsOf[p])
      BY <1>2 DEF HeldBy, ToSet
    <3>2. QED
      BY <1>1, <3>1, IsOpenIs DEF Owned
  <2>2. IsInjective(ids)
    BY <1>1 DEF Owned
  <2>3. QED
    BY <2>1, <2>2 DEF Close, DescriptorsInv
<1>8. QED
  BY <1>6, <1>7

LEMMA DescriptorsInit == Init => DescriptorsInv
<1> SUFFICES ASSUME Init PROVE DescriptorsInv
  OBVIOUS
<1>1. create = NotCreating /\ create.made = NoCounters
  BY DEF Init, NotCreating
<1>2. TypeOK
  <2>1. create \in CreateType
    BY <1>1, EmptyObject DEF NotCreating, CreateType, AllRequests, Owners
  <2>2. QED
    BY <2>1, EmptyObject DEF Init, TypeOK
<1>3. PartsOf = [p \in Parts |-> NoCounters]
  BY <1>1 DEF Init, PartsOf, Parts, Owners
<1>4. Making
  BY <1>1 DEF Making, Init
<1>5. Owned(opened, PartsOf)
  BY <1>3, NothingOwned DEF Init
<1>6. Len(NoCounters.names) = 0 /\ kMaxCounters \in Nat
  BY CountersAssumption DEF NoCounters
<1>7. QED
  BY <1>2, <1>3, <1>4, <1>5, <1>6 DEF DescriptorsInv, Init

-----------------------------------------------------------------------------
(* Each step keeps it. *)

\* Steps that neither open nor close nor move anything.
LEMMA NothingHandled ==
    ASSUME DescriptorsInv, opened' = opened, counters' = counters, misused' = FALSE, time' \in Nat,
           pc' \in {"idle", "name", "open", "enable"}, create' \in CreateType,
           create'.made = create.made, Making'
    PROVE  DescriptorsInv'
<1>1. PartsOf' = PartsOf
  BY DEF PartsOf
<1>2. TypeOK'
  BY DEF DescriptorsInv, TypeOK
<1>3. Owned(opened', PartsOf') /\ \A p \in Parts : Len(PartsOf'[p].names) <= kMaxCounters
  BY <1>1 DEF DescriptorsInv
<1>4. QED
  BY <1>2, <1>3 DEF DescriptorsInv

LEMMA CreateKeeps ==
    ASSUME DescriptorsInv, NEW owner \in Owners, NEW request \in Requests[owner],
           Create(owner, request)
    PROVE  DescriptorsInv'
<1>1. create' = [NotCreating EXCEPT !.owner = owner, !.request = request]
  BY DEF Create
<1>2. create.made = NoCounters
  BY DEF Create, Idle, DescriptorsInv, Making
<1>3. create' \in CreateType /\ create'.made = NoCounters /\ create'.group_id = -1
  <2>1. request \in AllRequests
    BY DEF AllRequests
  <2>2. create' = [owner |-> owner, request |-> request, i |-> 1, group_id |-> -1,
                   is_first |-> FALSE, retries |-> 0, enabled |-> 0, made |-> NoCounters]
    BY <1>1 DEF NotCreating
  <2>3. QED
    BY <2>1, <2>2, EmptyObject DEF CreateType
<1>4. Making' /\ pc' = "name"
  BY <1>3 DEF Making, Create
<1>5. opened' = opened /\ counters' = counters /\ misused' = FALSE /\ time' \in Nat
  BY DEF Create, DescriptorsInv, TypeOK
<1>6. QED
  BY <1>2, <1>3, <1>4, <1>5, NothingHandled

LEMMA AbortKeeps ==
    ASSUME DescriptorsInv, Idle, NEW check, Abort(check)
    PROVE  DescriptorsInv'
<1>1. create.made = NoCounters /\ create' = create /\ pc' = pc /\ pc = "idle"
  BY DEF Abort, Idle, DescriptorsInv, Making
<1>2. PartsOf' = [p \in Parts |-> NoCounters]
  BY <1>1 DEF Abort, PartsOf, Parts, Owners
<1>3. TypeOK'
  BY <1>1, EmptyObject DEF Abort, TypeOK, DescriptorsInv
<1>4. Owned(opened', PartsOf')
  BY <1>2, NothingOwned DEF Abort
<1>5. Len(NoCounters.names) = 0 /\ kMaxCounters \in Nat
  BY CountersAssumption DEF NoCounters
<1>6. Making'
  BY <1>1 DEF Making
<1>7. misused' = FALSE
  BY DEF Abort, DescriptorsInv
<1>8. QED
  BY <1>2, <1>3, <1>4, <1>5, <1>6, <1>7 DEF DescriptorsInv

\* The steps of Create that only change its variables.
LEMMA NoDescriptorKeeps ==
    ASSUME DescriptorsInv, pc = "open", NoDescriptor
    PROVE  /\ create' \in CreateType /\ create'.made = create.made /\ Making'
           /\ pc' \in {"idle", "name", "open", "enable"}
<1>1. create \in CreateType /\ Name \in Known /\ Len(create.made.names) < kMaxCounters
  BY DEF DescriptorsInv, TypeOK, Making
<1>2. CASE create.group_id >= 0
  <2>1. create' = [create EXCEPT !.group_id = -1, !.retries = 0] /\ pc' = pc
    BY <1>2 DEF NoDescriptor
  <2>2. /\ create' \in CreateType /\ create'.made = create.made /\ create'.group_id = -1
        /\ create'.request = create.request /\ create'.i = create.i
    <3> DEFINE none == -1
    <3>1. none \in Int /\ create' = [create EXCEPT !.group_id = none, !.retries = 0]
      BY <2>1
    <3> HIDE DEF none
    <3>2. create' \in CreateType
      <4>1. create' = [owner |-> create.owner, request |-> create.request, i |-> create.i,
                          group_id |-> none, is_first |-> create.is_first,
                          retries |-> 0, enabled |-> create.enabled, made |-> create.made]
        BY <1>1, <3>1 DEF CreateType
      <4>2. QED
        BY <1>1, <3>1, <4>1 DEF CreateType
    <3>3. /\ create'.made = create.made /\ create'.group_id = none
          /\ create'.request = create.request /\ create'.i = create.i
      BY <1>1, <3>1 DEF CreateType
    <3>4. QED
      BY <3>2, <3>3 DEF none
  <2>3. Making'
    BY <1>1, <2>1, <2>2 DEF Making, Name
  <2>4. QED
    BY <2>1, <2>2, <2>3
<1>3. CASE ~(create.group_id >= 0)
  <2>1. create' = [create EXCEPT !.i = @ + 1] /\ pc' = "name"
    BY <1>3 DEF NoDescriptor
  <2>2. create' \in CreateType /\ create'.made = create.made /\ create'.group_id = create.group_id
    BY <1>1, <2>1 DEF CreateType
  <2>3. Making'
    BY <1>3, <2>1, <2>2 DEF Making
  <2>4. QED
    BY <2>1, <2>2, <2>3
<1>4. QED
  BY <1>2, <1>3

LEMMA QuietStepKeeps ==
    ASSUME DescriptorsInv,
           SkipName \/ TakeName \/ NamesDone \/ OpenFails \/ OpenInterrupted \/ EnableSucceeds
    PROVE  DescriptorsInv'
<1>1. create \in CreateType /\ create.made \in Object /\ kMaxCounters \in Nat
  BY CountersAssumption DEF DescriptorsInv, TypeOK, CreateType
<1>2. opened' = opened /\ counters' = counters /\ misused' = FALSE /\ time' \in Nat
  BY DEF SkipName, TakeName, NamesDone, OpenFails, OpenInterrupted, EnableSucceeds, Creating,
         DescriptorsInv, TypeOK
<1> SUFFICES /\ create' \in CreateType /\ create'.made = create.made /\ Making'
             /\ pc' \in {"idle", "name", "open", "enable"}
  BY <1>2, NothingHandled
<1>3. CASE SkipName
  <2>1. create' = [create EXCEPT !.i = @ + 1] /\ pc = "name" /\ pc' = "name"
    BY <1>3 DEF SkipName
  <2>2. create' \in CreateType /\ create'.made = create.made /\ create'.group_id = create.group_id
    BY <1>1, <2>1 DEF CreateType
  <2>3. QED
    BY <2>1, <2>2 DEF Making, DescriptorsInv
<1>4. CASE TakeName
  <2>1. /\ create' = [create EXCEPT !.is_first = create.group_id < 0, !.retries = 0]
        /\ pc = "name" /\ pc' = "open" /\ Name \in Known /\ ~Maxed
    BY <1>4 DEF TakeName
  <2>2. /\ create' \in CreateType /\ create'.made = create.made /\ create'.group_id = create.group_id
        /\ create'.request = create.request /\ create'.i = create.i
    <3> DEFINE first == create.group_id < 0
    <3>1. first \in BOOLEAN /\ create' = [create EXCEPT !.is_first = first, !.retries = 0]
      BY <2>1
    <3> HIDE DEF first
    <3>2. create' \in CreateType
      <4>1. create' = [owner |-> create.owner, request |-> create.request, i |-> create.i,
                          group_id |-> create.group_id, is_first |-> first,
                          retries |-> 0, enabled |-> create.enabled, made |-> create.made]
        BY <1>1, <3>1 DEF CreateType
      <4>2. QED
        BY <1>1, <3>1, <4>1 DEF CreateType
    <3>3. QED
      BY <1>1, <3>1, <3>2 DEF CreateType
  <2>3. Len(create.made.names) < kMaxCounters
    <3>1. Len(create.made.names) \in Nat /\ Len(create.made.names) # kMaxCounters
      BY <1>1, <2>1 DEF Maxed, Object
    <3>2. Len(create.made.names) <= kMaxCounters
      BY PartsType DEF DescriptorsInv, Parts
    <3>3. QED
      BY <1>1, <3>1, <3>2
  <2>4. Name' = Name
    BY <2>2 DEF Name
  <2>5. QED
    BY <2>1, <2>2, <2>3, <2>4 DEF Making, DescriptorsInv
<1>5. CASE NamesDone
  BY <1>1, <1>5 DEF NamesDone, Making
<1>6. CASE OpenFails
  BY <1>6, NoDescriptorKeeps DEF OpenFails
<1>7. CASE OpenInterrupted
  <2>1. CASE NoDescriptor
    BY <1>7, <2>1, NoDescriptorKeeps DEF OpenInterrupted
  <2>2. CASE create' = [create EXCEPT !.retries = @ + 1] /\ pc' = pc
    <3>1. /\ create' \in CreateType /\ create'.made = create.made /\ create'.group_id = create.group_id
          /\ create'.request = create.request /\ create'.i = create.i
      BY <1>1, <2>2 DEF CreateType
    <3>2. Name' = Name
      BY <3>1 DEF Name
    <3>3. Making'
      BY <2>2, <3>1, <3>2 DEF Making, DescriptorsInv
    <3>4. QED
      BY <2>2, <3>1, <3>3 DEF DescriptorsInv, TypeOK
  <2>3. QED
    BY <1>7, <2>1, <2>2 DEF OpenInterrupted
<1>8. CASE EnableSucceeds
  <2>1. create' = [create EXCEPT !.enabled = @ + 1] /\ pc = "enable" /\ pc' = "enable"
    BY <1>8 DEF EnableSucceeds
  <2>2. create' \in CreateType /\ create'.made = create.made
    BY <1>1, <2>1 DEF CreateType
  <2>3. QED
    BY <2>1, <2>2 DEF Making
<1>9. QED
  BY <1>3, <1>4, <1>5, <1>6, <1>7, <1>8

LEMMA OpenSucceedsKeeps ==
    ASSUME DescriptorsInv, OpenSucceeds
    PROVE  DescriptorsInv'
<1> DEFINE id == LowestFree
           leads == create.group_id < 0
           d == [id |-> id, name |-> Name, pinned |-> create.is_first,
                 leader |-> IF leads THEN id ELSE create.group_id]
           c == create.made
           leaders == IF leads THEN Append(c.leader_ids, id) ELSE c.leader_ids
           more == Extended(c, d, leaders)
<1>1. /\ opened \in Seq(Descriptor) /\ create \in CreateType /\ Owned(opened, PartsOf)
      /\ pc = "open" /\ Name \in Known /\ Len(c.names) < kMaxCounters
  BY DEF DescriptorsInv, TypeOK, Making, OpenSucceeds
<1>2. PartsOf \in [Parts -> Object] /\ PartsOf["made"] = c /\ "made" \in Parts /\ c \in Object
  BY <1>1, PartsType DEF DescriptorsInv, Parts, CreateType
<1>3. id \in Nat /\ \A e \in ToSet(opened) : e.id # id
  BY <1>1, LowestFreeIsFree, IsOpenIs
<1>4. create.group_id \in Int /\ create.is_first \in BOOLEAN /\ create.i \in Int
  BY <1>1 DEF CreateType
<1>5. d \in Descriptor
  BY <1>1, <1>3, <1>4 DEF Descriptor
<1>6. /\ opened' = Append(opened, d)
      /\ create' = [create EXCEPT
             !.group_id = IF leads THEN id ELSE @, !.i = @ + 1,
             !.made.leader_ids = IF leads THEN Append(@, id) ELSE @,
             !.made.counter_ids = Append(@, id), !.made.names = Append(@, Name)]
  BY DEF OpenSucceeds
<1>7. d.id = id /\ d.name = Name /\ d.leader = IF leads THEN id ELSE create.group_id
  OBVIOUS
<1> HIDE DEF d
<1>8. more \in Object /\ Append(opened, d) \in Seq(Descriptor)
      /\ Owned(Append(opened, d), [PartsOf EXCEPT !["made"] = more])
  <2>1. CASE leads
    <3>1. leaders = Append(PartsOf["made"].leader_ids, d.id) /\ d.leader = d.id
      BY <1>2, <1>7, <2>1
    <3> HIDE DEF leaders, leads, c, id
    <3>2. QED
      BY <1>1, <1>2, <1>3, <1>5, <1>7, <3>1, OwnedWhenLeaderOpened
  <2>2. CASE ~leads
    <3>1. PICK front \in Seq(Nat) : c.leader_ids = Append(front, create.group_id)
      BY <1>1, <1>4, <2>2 DEF DescriptorsInv, Making
    <3>2. PartsOf["made"].leader_ids = Append(front, d.leader) /\ leaders = PartsOf["made"].leader_ids
      BY <1>2, <1>7, <2>2, <3>1
    <3> HIDE DEF leaders, leads, c, id
    <3>3. QED
      BY <1>1, <1>2, <1>3, <1>5, <1>7, <3>2, OwnedWhenMemberOpened
  <2>3. QED
    BY <2>1, <2>2
<1>9. create'.made = more
  BY <1>1, <1>2, <1>6, <1>7 DEF Extended, CreateType, Object
<1>10. create' \in CreateType /\ create'.group_id = IF leads THEN id ELSE create.group_id
  <2>1. /\ create'.owner = create.owner /\ create'.request = create.request
        /\ create'.i = create.i + 1 /\ create'.is_first = create.is_first
        /\ create'.retries = create.retries /\ create'.enabled = create.enabled
        /\ create'.group_id = IF leads THEN id ELSE create.group_id
        /\ create' = [owner |-> create'.owner, request |-> create'.request, i |-> create'.i,
                      group_id |-> create'.group_id, is_first |-> create'.is_first,
                      retries |-> create'.retries, enabled |-> create'.enabled,
                      made |-> create'.made]
    BY <1>1, <1>6 DEF CreateType
  <2>2. QED
    BY <1>1, <1>3, <1>4, <1>8, <1>9, <2>1 DEF CreateType
<1>11. PartsOf' = [PartsOf EXCEPT !["made"] = more]
  <2>1. counters' = counters
    BY DEF OpenSucceeds, Creating
  <2> HIDE DEF more
  <2>2. QED
    BY <1>9, <2>1 DEF PartsOf
<1>12. Making'
  <2>1. pc' = "name"
    BY DEF OpenSucceeds
  <2>2. create'.made.leader_ids = leaders
    BY <1>2, <1>9 DEF Extended, Object
  <2>3. create'.group_id >= 0 => \E front \in Seq(Nat) : leaders = Append(front, create'.group_id)
    <3>1. CASE leads
      BY <1>2, <1>10, <3>1 DEF Object
    <3>2. CASE ~leads
      BY <1>1, <1>10, <3>2 DEF DescriptorsInv, Making
    <3>3. QED
      BY <3>1, <3>2
  <2>4. QED
    BY <2>1, <2>2, <2>3 DEF Making
<1>13. TypeOK'
  BY <1>6, <1>8, <1>10 DEF OpenSucceeds, Creating, DescriptorsInv, TypeOK
<1>14. ASSUME NEW p \in Parts PROVE Len(PartsOf'[p].names) <= kMaxCounters
  <2>1. CASE p = "made"
    <3>1. more.names = Append(c.names, d.name) /\ c.names \in Seq(Known)
      BY <1>2 DEF Extended, Object
    <3>2. Len(more.names) = Len(c.names) + 1 /\ Len(c.names) \in Nat
      BY <1>1, <1>7, <3>1
    <3>3. PartsOf'[p] = more
      BY <1>2, <1>11, <2>1
    <3>4. kMaxCounters \in Nat /\ Len(c.names) < kMaxCounters
      BY <1>1, CountersAssumption
    <3> HIDE DEF more, c
    <3>5. QED
      BY <3>2, <3>3, <3>4
  <2>2. CASE p # "made"
    BY <1>11, <2>2 DEF DescriptorsInv
  <2>3. QED
    BY <2>1, <2>2
<1>15. misused' = FALSE
  BY DEF OpenSucceeds, DescriptorsInv
<1>16. QED
  BY <1>6, <1>8, <1>11, <1>12, <1>13, <1>14, <1>15 DEF DescriptorsInv

LEMMA EnableFailsKeeps ==
    ASSUME DescriptorsInv, EnableFails
    PROVE  DescriptorsInv'
<1>1. /\ create \in CreateType /\ Close(create.made.counter_ids) /\ pc = "enable" /\ pc' = pc
      /\ counters' = counters /\ time' = time
      /\ create' = [create EXCEPT !.made = NoCounters, !.enabled = 0]
  BY DEF EnableFails, Creating, DescriptorsInv, TypeOK
<1>2. "made" \in Parts /\ PartsOf["made"] = create.made
  BY PartsType DEF DescriptorsInv, Parts
<1>3. /\ misused' = FALSE /\ opened' \in Seq(Descriptor)
      /\ Owned(opened', [PartsOf EXCEPT !["made"] = NoCounters])
  BY <1>1, <1>2, Closing
<1>4. create'.made = NoCounters
  BY <1>1 DEF CreateType
<1>5. create' \in CreateType
  <2>1. create' = [owner |-> create.owner, request |-> create.request, i |-> create.i,
                   group_id |-> create.group_id, is_first |-> create.is_first,
                   retries |-> create.retries, enabled |-> 0, made |-> NoCounters]
    BY <1>1 DEF CreateType
  <2>2. QED
    BY <1>1, <2>1, EmptyObject DEF CreateType
<1>6. PartsOf' = [PartsOf EXCEPT !["made"] = NoCounters]
  BY <1>1, <1>4 DEF PartsOf
<1>7. TypeOK'
  BY <1>1, <1>3, <1>5 DEF DescriptorsInv, TypeOK
<1>8. Making'
  BY <1>1 DEF Making
<1>9. Len(NoCounters.names) = 0 /\ kMaxCounters \in Nat
  BY CountersAssumption DEF NoCounters
<1>10. ASSUME NEW p \in Parts PROVE Len(PartsOf'[p].names) <= kMaxCounters
  <2>1. PartsOf'[p] = IF p = "made" THEN NoCounters ELSE PartsOf[p]
    BY <1>6 DEF PartsOf
  <2>2. QED
    BY <1>9, <2>1 DEF DescriptorsInv
<1>11. QED
  BY <1>3, <1>6, <1>7, <1>8, <1>10 DEF DescriptorsInv

\* What operator= closes is what the owner had.
LEMMA AssignKeeps ==
    ASSUME DescriptorsInv, Assign
    PROVE  DescriptorsInv'
<1> DEFINE o == create.owner
           made == create.made
<1>1. /\ create \in CreateType /\ pc' = "idle" /\ create' = NotCreating
      /\ counters \in [Owners -> Object] /\ counters' = [counters EXCEPT ![o] = made] /\ time' = time
  BY DEF Assign, DescriptorsInv, TypeOK
<1>2. o \in Owners /\ made \in Object
  BY <1>1 DEF CreateType
<1>3. /\ PartsOf \in [Parts -> Object] /\ o \in Parts /\ o # "made" /\ PartsOf[o] = counters[o]
      /\ "made" \in Parts /\ PartsOf["made"] = made
  BY <1>2, PartsType DEF DescriptorsInv, Parts, Owners
<1> HIDE DEF o, made
<1>4. Close(PartsOf[o].counter_ids)
  <2>1. MovedFrom(made).counter_ids = <<>>
    BY DEF MovedFrom, NoCounters
  <2>2. PartsOf[o].counter_ids \in Seq(Nat)
    BY <1>3 DEF Object
  <2>3. PartsOf[o].counter_ids \o <<>> = PartsOf[o].counter_ids
    BY <2>2
  <2>4. QED
    BY <1>3, <2>1, <2>3 DEF Assign, o, made
<1> DEFINE closed == [PartsOf EXCEPT ![o] = NoCounters]
<1>5. misused' = FALSE /\ opened' \in Seq(Descriptor) /\ Owned(opened', closed)
  BY <1>3, <1>4, Closing
<1>6. /\ closed \in [Parts -> Object] /\ closed[o] = NoCounters /\ closed["made"] = made
      /\ \A p \in Parts \ {o, "made"} : closed[p] = PartsOf[p]
  BY <1>3, EmptyObject
<1> HIDE DEF closed
<1>7. Owned(opened', [closed EXCEPT ![o] = closed["made"], !["made"] = NoCounters])
  BY <1>3, <1>5, <1>6, OwnedWhenMoved
<1>8. create'.made = NoCounters
  BY <1>1 DEF NotCreating
<1>9. PartsOf' = [closed EXCEPT ![o] = closed["made"], !["made"] = NoCounters]
  <2>1. \A p \in Parts : PartsOf'[p] = IF p = "made" THEN NoCounters ELSE counters'[p]
    BY <1>8 DEF PartsOf
  <2>2. \A p \in Parts : p # "made" => counters'[p] = IF p = o THEN made ELSE PartsOf[p]
    BY <1>1 DEF PartsOf, Parts, Owners
  <2>3. PartsOf' = [p \in Parts |-> PartsOf'[p]]
    BY DEF PartsOf
  <2>4. QED
    BY <1>3, <1>6, <2>1, <2>2, <2>3
<1>10. TypeOK'
  <2>1. NotCreating \in CreateType
    BY EmptyObject DEF NotCreating, CreateType, AllRequests, Owners
  <2>2. counters' \in [Owners -> Object]
    BY <1>1, <1>2 DEF made
  <2>3. QED
    BY <1>1, <1>5, <2>1, <2>2 DEF DescriptorsInv, TypeOK
<1>11. Making'
  BY <1>1, <1>8 DEF Making
<1>12. Len(NoCounters.names) = 0 /\ kMaxCounters \in Nat
  BY CountersAssumption DEF NoCounters
<1>13. ASSUME NEW p \in Parts PROVE Len(PartsOf'[p].names) <= kMaxCounters
  <2>1. PartsOf'[p] = NoCounters \/ PartsOf'[p] = made \/ PartsOf'[p] = PartsOf[p]
    BY <1>3, <1>6, <1>9
  <2>2. QED
    BY <1>3, <1>12, <2>1 DEF DescriptorsInv
<1>14. QED
  BY <1>5, <1>7, <1>9, <1>10, <1>11, <1>13 DEF DescriptorsInv

LEMMA DestroyKeeps ==
    ASSUME DescriptorsInv, NEW o \in Owners, Destroy(o)
    PROVE  DescriptorsInv'
<1>1. /\ counters \in [Owners -> Object] /\ counters' = [counters EXCEPT ![o] = NoCounters]
      /\ Close(counters[o].counter_ids) /\ time' = time /\ pc' = pc /\ create' = create
  BY DEF Destroy, DescriptorsInv, TypeOK
<1>2. o \in Parts /\ o # "made" /\ PartsOf[o] = counters[o]
  BY PartsType DEF DescriptorsInv, Parts, Owners
<1>3. misused' = FALSE /\ opened' \in Seq(Descriptor) /\ Owned(opened', [PartsOf EXCEPT ![o] = NoCounters])
  BY <1>1, <1>2, Closing
<1>4. PartsOf' = [PartsOf EXCEPT ![o] = NoCounters]
  <2>1. \A p \in Parts : PartsOf'[p] = IF p = o THEN NoCounters ELSE PartsOf[p]
    BY <1>1, <1>2 DEF PartsOf, Parts, Owners
  <2>2. PartsOf' = [p \in Parts |-> PartsOf'[p]] /\ PartsOf = [p \in Parts |-> PartsOf[p]]
    BY DEF PartsOf
  <2>3. QED
    BY <1>2, <2>1, <2>2
<1>5. TypeOK'
  BY <1>1, <1>3, EmptyObject DEF DescriptorsInv, TypeOK
<1>6. Making'
  BY <1>1 DEF Making, DescriptorsInv, Name
<1>7. Len(NoCounters.names) = 0 /\ kMaxCounters \in Nat
  BY CountersAssumption DEF NoCounters
<1>8. ASSUME NEW p \in Parts PROVE Len(PartsOf'[p].names) <= kMaxCounters
  <2>1. PartsOf'[p] = NoCounters \/ PartsOf'[p] = PartsOf[p]
    BY <1>4 DEF PartsOf
  <2>2. QED
    BY <1>7, <2>1 DEF DescriptorsInv
<1>9. QED
  BY <1>3, <1>4, <1>5, <1>6, <1>8 DEF DescriptorsInv

\* A reading only reads leaders, and they are open.
LEMMA ReadingKeeps ==
    ASSUME DescriptorsInv, UNCHANGED <<opened, pc, create, counters>>, time' \in Nat,
           misused' = (misused \/ \E k \in DOMAIN MyLeaders : ~IsOpen(MyLeaders[k]))
    PROVE  DescriptorsInv'
<1>1. /\ opened \in Seq(Descriptor) /\ "measurement" \in Parts
      /\ PartsOf["measurement"] = Mine /\ Mine \in Object /\ Owned(opened, PartsOf)
  BY PartsType DEF DescriptorsInv, TypeOK, Mine, Owners
<1>2. ASSUME NEW k \in DOMAIN MyLeaders PROVE IsOpen(MyLeaders[k])
  <2>1. MyLeaders \in Seq(Nat)
    BY <1>1 DEF MyLeaders, Object
  <2>2. MyLeaders[k] \in Nat
    BY <2>1
  <2>3. MyLeaders[k] \in HeldBy(Mine)
    <3>1. MyLeaders[k] \in ToSet(MyLeaders)
      BY DEF ToSet
    <3>2. ToSet(MyLeaders) \subseteq HeldBy(Mine)
      BY <1>1 DEF Owned, Kept, HeldBy, MyLeaders
    <3>3. QED
      BY <3>1, <3>2
  <2>4. QED
    BY <1>1, <2>2, <2>3, IsOpenIs DEF Owned
<1>3. misused' = FALSE
  BY <1>2 DEF DescriptorsInv
<1>4. Making' /\ create' \in CreateType /\ pc' \in {"idle", "name", "open", "enable"}
  BY DEF Making, Name, DescriptorsInv, TypeOK
<1>5. QED
  BY <1>3, <1>4, NothingHandled

LEMMA DescriptorsStep == DescriptorsInv /\ [Next]_vars => DescriptorsInv'
<1> SUFFICES ASSUME DescriptorsInv, [Next]_vars PROVE DescriptorsInv'
  OBVIOUS
<1>1. ASSUME NEW owner \in Owners, NEW request \in Requests[owner], Create(owner, request)
      PROVE  DescriptorsInv'
  BY <1>1, CreateKeeps
<1>2. ASSUME NEW request \in Requests.measurement, TooManyRequested(request) PROVE DescriptorsInv'
  BY <1>2, AbortKeeps DEF TooManyRequested
<1>3. CASE CreateStep
  BY <1>3, QuietStepKeeps, OpenSucceedsKeeps, EnableFailsKeeps, AssignKeeps DEF CreateStep
<1>4. ASSUME NEW owner \in Owners, Destroy(owner) PROVE DescriptorsInv'
  BY <1>4, DestroyKeeps
<1>5. time \in Nat
  BY DEF DescriptorsInv, TypeOK
<1>6. ASSUME NEW failing \in 0 .. Len(MyLeaders), Start(failing) PROVE DescriptorsInv'
  BY <1>5, <1>6, ReadingKeeps DEF Start
<1>7. ASSUME NEW failing \in 0 .. Len(MyLeaders), Stop(failing) PROVE DescriptorsInv'
  BY <1>5, <1>7, ReadingKeeps DEF Stop
<1>8. CASE Tick
  <2>1. UNCHANGED <<opened, pc, create, counters, misused>> /\ time' \in Nat
    BY <1>5, <1>8 DEF Tick
  <2>2. Making' /\ create' \in CreateType /\ pc' \in {"idle", "name", "open", "enable"}
    BY <2>1 DEF Making, Name, DescriptorsInv, TypeOK
  <2>3. QED
    BY <2>1, <2>2, NothingHandled DEF DescriptorsInv
<1>9. CASE CheckCounters
  BY <1>9, AbortKeeps DEF CheckCounters
<1>10. CASE UNCHANGED vars
  <2>1. UNCHANGED <<opened, pc, create, counters, misused, time>>
    BY <1>10 DEF vars
  <2>2. Making' /\ create' \in CreateType /\ pc' \in {"idle", "name", "open", "enable"}
    BY <2>1 DEF Making, Name, DescriptorsInv, TypeOK
  <2>3. QED
    BY <1>5, <2>1, <2>2, NothingHandled DEF DescriptorsInv
<1>11. QED
  BY <1>1, <1>2, <1>3, <1>4, <1>6, <1>7, <1>8, <1>9, <1>10 DEF Next

LEMMA NumbersConcat ==
    ASSUME NEW s \in Seq(Nat), NEW t \in Seq(Nat)
    PROVE  /\ s \o t \in Seq(Nat) /\ ToSet(s \o t) = ToSet(s) \cup ToSet(t)
           /\ IsInjective(s \o t) <=> IsInjective(s) /\ IsInjective(t) /\ ToSet(s) \cap ToSet(t) = {}
<1> DEFINE N == Nat
<1>1. s \in Seq(N) /\ t \in Seq(N) /\ s \o t \in Seq(N)
  OBVIOUS
<1> HIDE DEF N
<1>2. ToSet(s \o t) = ToSet(s) \cup ToSet(t)
  BY <1>1, ToSetProperties
<1>3. IsInjective(s \o t) <=> IsInjective(s) /\ IsInjective(t) /\ ToSet(s) \cap ToSet(t) = {}
  BY <1>1, InjectiveConcat
<1>4. QED
  BY <1>2, <1>3

LEMMA DescriptorsAreOwned == DescriptorsInv => DescriptorsOwned
<1> SUFFICES ASSUME DescriptorsInv PROVE DescriptorsOwned
  OBVIOUS
<1> DEFINE a == Mine.counter_ids
           b == counters["other"].counter_ids
           c == create.made.counter_ids
<1>1. /\ opened \in Seq(Descriptor) /\ Owned(opened, PartsOf) /\ PartsOf \in [Parts -> Object]
      /\ PartsOf["measurement"] = Mine /\ PartsOf["other"] = counters["other"]
      /\ PartsOf["made"] = create.made /\ Parts = {"measurement", "other", "made"}
  BY PartsType DEF DescriptorsInv, TypeOK, Mine, Owners, Parts
<1>2. a \in Seq(Nat) /\ b \in Seq(Nat) /\ c \in Seq(Nat)
  BY <1>1 DEF Object
<1>3. /\ IsInjective(a) /\ IsInjective(b) /\ IsInjective(c)
      /\ ToSet(a) \cap ToSet(b) = {} /\ ToSet(a) \cap ToSet(c) = {} /\ ToSet(b) \cap ToSet(c) = {}
  BY <1>1 DEF Owned, HeldBy
<1>4. \A n \in Nat : n \in ToSet(a) \/ n \in ToSet(b) \/ n \in ToSet(c) <=> \E d \in ToSet(opened) : d.id = n
  BY <1>1 DEF Owned, HeldBy
<1>5. Held = (a \o b) \o c
  BY <1>2 DEF Held
<1> HIDE DEF a, b, c
<1>6. a \o b \in Seq(Nat) /\ ToSet(a \o b) = ToSet(a) \cup ToSet(b) /\ IsInjective(a \o b)
  BY <1>2, <1>3, NumbersConcat
<1>7. Held \in Seq(Nat) /\ ToSet(Held) = ToSet(a) \cup ToSet(b) \cup ToSet(c) /\ IsInjective(Held)
  <2> DEFINE s == a \o b
  <2>1. ToSet(s) \cap ToSet(c) = {}
    BY <1>3, <1>6
  <2>2. s \in Seq(Nat) /\ IsInjective(s) /\ Held = s \o c
    BY <1>5, <1>6
  <2> HIDE DEF s
  <2>3. /\ s \o c \in Seq(Nat) /\ ToSet(s \o c) = ToSet(s) \cup ToSet(c)
        /\ IsInjective(s \o c) <=> IsInjective(s) /\ IsInjective(c) /\ ToSet(s) \cap ToSet(c) = {}
    BY <1>2, <2>2, NumbersConcat
  <2>4. IsInjective(s \o c)
    BY <1>3, <2>1, <2>2, <2>3
  <2>5. ToSet(s) = ToSet(a) \cup ToSet(b)
    BY <1>6 DEF s
  <2>6. QED
    BY <2>2, <2>3, <2>4, <2>5
<1>8. ToSet(Held) = {opened[k].id : k \in DOMAIN opened}
  <2>1. ToSet(Held) \subseteq Nat
    BY <1>7 DEF ToSet
  <2>2. \A k \in DOMAIN opened : opened[k].id \in Nat /\ opened[k] \in ToSet(opened)
    <3>1. \A k \in DOMAIN opened : opened[k] \in Descriptor /\ opened[k] \in ToSet(opened)
      BY <1>1 DEF ToSet
    <3>2. \A d \in Descriptor : d.id \in Nat
      BY DEF Descriptor
    <3>3. QED
      BY <3>1, <3>2
  <2>3. \A d \in ToSet(opened) : \E k \in DOMAIN opened : d = opened[k]
    BY DEF ToSet
  <2>4. \A n \in Nat : n \in ToSet(Held) <=> \E k \in DOMAIN opened : opened[k].id = n
    BY <1>4, <1>7, <2>2, <2>3
  <2>5. QED
    BY <2>1, <2>2, <2>4
<1>9. ASSUME NEW o \in Owners
      PROVE  LET k == counters[o]
                 members == FlattenSeq([j \in DOMAIN k.leader_ids |-> Group(k.leader_ids[j])])
             IN  /\ [i \in DOMAIN members |-> members[i].id] = k.counter_ids
                 /\ [i \in DOMAIN members |-> members[i].name] = k.names
                 /\ Len(k.names) <= kMaxCounters
  <2> DEFINE k == counters[o]
             m == Members(opened, k.leader_ids)
  <2>1. k \in Object /\ Kept(opened, k) /\ Len(k.names) <= kMaxCounters
    BY PartsType DEF DescriptorsInv, TypeOK, Owned
  <2>2. k.leader_ids \in Seq(Nat)
    BY <2>1 DEF Object
  <2> HIDE DEF k
  <2>3. ASSUME NEW j \in DOMAIN k.leader_ids
        PROVE  Groups(opened)[k.leader_ids[j]] = Group(k.leader_ids[j])
    <3>1. k.leader_ids[j] \in Nat
      BY <2>2
    <3>2. QED
      BY <1>1, <3>1, GroupIs DEF Groups
  <2>4. FlattenSeq([j \in DOMAIN k.leader_ids |-> Group(k.leader_ids[j])]) = m
    BY <2>3 DEF Members, Each
  <2>5. m \in Seq(Descriptor)
    BY <1>1, <2>2, MembersProperties
  <2>6. Each(Id, m) = k.counter_ids /\ Each(CounterName, m) = k.names
    BY <2>1 DEF Kept
  <2> HIDE DEF m
  <2>7. Each(Id, m) = [i \in DOMAIN m |-> m[i].id] /\ Each(CounterName, m) = [i \in DOMAIN m |-> m[i].name]
    BY <2>5 DEF Each, Id, CounterName
  <2>8. QED
    BY <2>1, <2>4, <2>6, <2>7 DEF k
<1>10. ~misused
  BY DEF DescriptorsInv
<1>11. QED
  BY <1>7, <1>8, <1>9, <1>10 DEF DescriptorsOwned

\* The descriptors that are open are those the objects hold, each once, and the
\* groups of an object are in the order of its names, whatever is interrupted
\* or refused while PerfCounters::Create is at work.
THEOREM CountersDescriptorsOwned == Spec => []DescriptorsOwned
<1>1. Init => DescriptorsInv
  BY DescriptorsInit
<1>2. DescriptorsInv /\ [Next]_vars => DescriptorsInv'
  BY DescriptorsStep
<1>3. DescriptorsInv => DescriptorsOwned
  BY DescriptorsAreOwned
<1>4. QED
  BY <1>1, <1>2, <1>3, PTL DEF Spec

-----------------------------------------------------------------------------
(* What a reading returns. *)

Values == [Buffer -> Seq(Int)]
ReadType == [ok : BOOLEAN, ptr : Nat \ {0}, values : Values]

LEMMA BufferIs == kPadding + kMaxCounters \in Nat /\ Cardinality(Buffer) = kPadding + kMaxCounters
<1>1. kPadding + kMaxCounters \in Nat
  <2>1. kPadding \in Nat /\ kMaxCounters \in Nat
    BY CountersAssumption
  <2>2. QED
    BY <2>1
<1>2. QED
  BY <1>1, FS_Interval DEF Buffer

LEMMA PairType == ASSUME NEW a \in Int, NEW b \in Int PROVE <<a, b>> \in Seq(Int)
OBVIOUS

\* What has been read when all of the descriptors in m have been.
HasRead(read, m) ==
    /\ read.ptr = Len(m) + 1 /\ Len(m) < Cardinality(Buffer) + 1
    /\ \A w \in 1 .. Len(m) : read.values[w] = <<m[w].id, time>>

LEMMA ReadGroupType ==
    ASSUME NEW read \in ReadType, NEW group \in Seq(Descriptor), NEW fails \in BOOLEAN, time \in Nat
    PROVE  ReadGroup(read, group, fails) \in ReadType
<1> DEFINE n == Len(group)
           filled == Filled(read.values, read.ptr, group)
           left == Unpadded(filled, read.ptr, n)
<1>1. n \in Nat /\ read.ptr \in Nat \ {0} /\ read.values \in Values /\ \A k \in 1 .. n : group[k] \in Descriptor
  BY LenProperties DEF ReadType
<1>2. ASSUME NEW w \in Buffer PROVE filled[w] \in Seq(Int)
  <2>1. CASE w = read.ptr
    <3>1. <<n, -1>> \in Seq(Int)
      BY <1>1, PairType
    <3>2. QED
      BY <2>1, <3>1 DEF Filled
  <2>2. CASE w # read.ptr /\ w \in read.ptr + 1 .. read.ptr + n
    <3>1. w - read.ptr \in 1 .. n
      BY <1>1, <2>2 DEF Buffer
    <3>2. group[w - read.ptr].id \in Nat
      BY <1>1, <3>1 DEF Descriptor
    <3>3. <<group[w - read.ptr].id, time>> \in Seq(Int)
      BY <3>2, PairType
    <3>4. QED
      BY <2>2, <3>3 DEF Filled
  <2>3. CASE w # read.ptr /\ w \notin read.ptr + 1 .. read.ptr + n
    BY <1>1, <2>3 DEF Filled, Values
  <2>4. QED
    BY <2>1, <2>2, <2>3
<1>3. DOMAIN filled = Buffer
  BY DEF Filled
<1> HIDE DEF filled
<1>4. ASSUME read.ptr + n <= Cardinality(Buffer) PROVE left \in Values
  <2>1. ASSUME NEW w \in Buffer PROVE left[w] \in Seq(Int)
    <3>1. CASE w \in read.ptr .. read.ptr + n - 1
      <4>1. w + 1 \in Buffer
        BY <1>1, <1>4, <3>1, BufferIs DEF Buffer
      <4>2. QED
        BY <1>2, <3>1, <4>1 DEF Unpadded
    <3>2. CASE w \notin read.ptr .. read.ptr + n - 1
      BY <1>2, <3>2 DEF Unpadded
    <3>3. QED
      BY <3>1, <3>2
  <2>2. left = [w \in Buffer |-> left[w]]
    BY DEF Unpadded
  <2> HIDE DEF left
  <2>3. QED
    BY <2>1, <2>2 DEF Values
<1>5. CASE ~read.ok \/ fails \/ read.ptr + n > Cardinality(Buffer)
  BY <1>5 DEF ReadGroup, ReadType
<1>6. CASE read.ok /\ ~fails /\ ~(read.ptr + n > Cardinality(Buffer))
  <2>1. read.ptr + n <= Cardinality(Buffer) /\ read.ptr + n \in Nat \ {0}
    BY <1>1, <1>6, BufferIs
  <2>2. left \in Values
    BY <1>4, <2>1
  <2>3. ReadGroup(read, group, fails) = [ok |-> TRUE, ptr |-> read.ptr + n, values |-> left]
    BY <1>6 DEF ReadGroup, filled
  <2> HIDE DEF left
  <2>4. QED
    BY <2>1, <2>2, <2>3 DEF ReadType
<1>7. QED
  <2>1. read.ok \in BOOLEAN /\ fails \in BOOLEAN
    BY DEF ReadType
  <2>2. QED
    BY <1>5, <1>6, <2>1

LEMMA ReadGroupReads ==
    ASSUME NEW read \in ReadType, NEW group \in Seq(Descriptor), NEW fails \in BOOLEAN, time \in Nat,
           NEW m \in Seq(Descriptor), ReadGroup(read, group, fails).ok,
           read.ok => HasRead(read, m)
    PROVE  read.ok /\ HasRead(ReadGroup(read, group, fails), m \o group)
<1> DEFINE n == Len(group)
           l == Len(m)
           r == m \o group
           filled == Filled(read.values, read.ptr, group)
           left == Unpadded(filled, read.ptr, n)
<1>1. n \in Nat /\ l \in Nat /\ read.ptr \in Nat \ {0}
  BY LenProperties DEF ReadType
<1>2. read.ok /\ ~(read.ptr + n > Cardinality(Buffer))
  <2>1. CASE ~read.ok \/ fails \/ read.ptr + n > Cardinality(Buffer)
    <3>1. ReadGroup(read, group, fails).ok = FALSE
      BY <2>1 DEF ReadGroup, ReadType
    <3>2. QED
      BY <3>1
  <2>2. QED
    BY <2>1
<1>3. ReadGroup(read, group, fails) = [ok |-> TRUE, ptr |-> read.ptr + n, values |-> left]
  <2>1. ~fails
    <3>1. CASE fails
      <4>1. ReadGroup(read, group, fails).ok = FALSE
        BY <3>1 DEF ReadGroup, ReadType
      <4>2. QED
        BY <4>1
    <3>2. QED
      BY <3>1
  <2>2. QED
    BY <1>2, <2>1 DEF ReadGroup
<1>4. read.ptr = l + 1 /\ l + 1 + n <= Cardinality(Buffer)
  BY <1>1, <1>2, BufferIs DEF HasRead
<1>5. /\ r \in Seq(Descriptor) /\ Len(r) = l + n
      /\ \A w \in 1 .. l + n : r[w] = IF w <= l THEN m[w] ELSE group[w - l]
  BY ConcatProperties
<1> HIDE DEF r
<1>6. ASSUME NEW w \in 1 .. l + n PROVE left[w] = <<r[w].id, time>>
  <2>1. w \in Buffer /\ w + 1 \in Buffer
    BY <1>1, <1>4, BufferIs DEF Buffer
  <2>2. CASE w <= l
    <3>1. w \notin read.ptr .. read.ptr + n - 1 /\ w # read.ptr /\ w \notin read.ptr + 1 .. read.ptr + n
      BY <1>1, <1>4, <2>2
    <3>2. left[w] = read.values[w]
      BY <2>1, <3>1 DEF Unpadded, Filled
    <3>3. w \in 1 .. l
      BY <2>2
    <3>4. QED
      BY <1>2, <1>5, <2>2, <3>2, <3>3 DEF HasRead
  <2>3. CASE w > l
    <3>1. /\ w \in read.ptr .. read.ptr + n - 1 /\ w + 1 # read.ptr
          /\ w + 1 \in read.ptr + 1 .. read.ptr + n /\ (w + 1) - read.ptr = w - l /\ ~(w <= l)
      BY <1>1, <1>4, <2>3
    <3>2. left[w] = filled[w + 1]
      BY <2>1, <3>1 DEF Unpadded
    <3>3. filled[w + 1] = <<group[(w + 1) - read.ptr].id, time>>
      BY <2>1, <3>1 DEF Filled
    <3>4. r[w] = group[w - l]
      BY <1>5, <3>1
    <3>5. QED
      BY <3>1, <3>2, <3>3, <3>4
  <2>4. QED
    BY <1>1, <2>2, <2>3
<1> HIDE DEF left
<1>7. read.ptr + n = Len(r) + 1 /\ Len(r) < Cardinality(Buffer) + 1
  BY <1>1, <1>4, <1>5, BufferIs
<1>8. HasRead(ReadGroup(read, group, fails), r)
  BY <1>3, <1>5, <1>6, <1>7 DEF HasRead
<1>9. QED
  BY <1>2, <1>8 DEF r

\* A reading that succeeds has read all the descriptors of the leaders, in their
\* order, one value each.
LEMMA ReadReads ==
    ASSUME opened \in Seq(Descriptor), time \in Nat, NEW leaders \in Seq(Nat), NEW values \in Values,
           NEW failing
    PROVE  LET read == Read(leaders, values, failing)
           IN  read \in ReadType /\ (read.ok => HasRead(read, Members(opened, leaders)))
<1> DEFINE n == Len(leaders)
           first == [ok |-> TRUE, ptr |-> 1, values |-> values]
           ss == Each(Groups(opened), leaders)
           S == Seq(Descriptor)
           G == [p \in (1 .. n) \X ReadType |-> ReadGroup(p[2], Group(leaders[p[1]]), p[1] = failing)]
<1>1. n \in Nat /\ DOMAIN leaders = 1 .. n /\ \A k \in 1 .. n : leaders[k] \in Nat
  BY LenProperties
<1>2. first \in ReadType
  BY DEF ReadType
<1>3. ASSUME NEW k \in 1 .. n PROVE Group(leaders[k]) = ss[k] /\ ss[k] \in S
  BY <1>1, GroupIs, GroupsType DEF Each
<1>4. DOMAIN ss = 1 .. n /\ ss \in Seq(S) /\ Len(ss) = n
  <2>1. ss \in Seq(S) /\ Len(ss) = n
    BY EachGroupType
  <2>2. QED
    BY <2>1, LenProperties
<1> HIDE DEF S, first, ss
<1>5. PICK g : FlatteningOf(g, ss, S)
  BY <1>4, FlattenIs DEF S
<1>6. ASSUME NEW k \in 1 .. n, NEW v \in ReadType
      PROVE  G[<<k, v>>] = ReadGroup(v, Group(leaders[k]), k = failing) /\ G[<<k, v>>] \in ReadType
  <2>1. G[<<k, v>>] = ReadGroup(v, Group(leaders[k]), k = failing)
    OBVIOUS
  <2> DEFINE fails == k = failing
             group == Group(leaders[k])
  <2>2. fails \in BOOLEAN /\ group \in Seq(Descriptor)
    BY <1>3 DEF S
  <2>3. G[<<k, v>>] = ReadGroup(v, group, fails)
    BY <2>1
  <2> HIDE DEF G, fails, group
  <2>4. ReadGroup(v, group, fails) \in ReadType
    BY <2>2, ReadGroupType
  <2>5. QED
    BY <2>3, <2>4 DEF fails, group
<1> HIDE DEF G
<1>7. PICK f \in [0 .. n -> ReadType] : Iterates(f, n, G, first)
  BY <1>1, <1>2, <1>6, FoldLeftPrefixes
<1> DEFINE Reads(r) == r = [k \in 0 .. n |->
               IF k = 0 THEN first ELSE ReadGroup(r[k - 1], Group(leaders[k]), k = failing)]
           reading == CHOOSE r : Reads(r)
<1>8. ASSUME NEW k \in 1 .. n PROVE f[k] = ReadGroup(f[k - 1], Group(leaders[k]), k = failing)
  <2>1. k - 1 \in 0 .. n
    BY <1>1
  <2>2. f[k] = G[<<k, f[k - 1]>>] /\ f[k - 1] \in ReadType
    BY <1>7, <2>1 DEF Iterates
  <2>3. QED
    BY <1>6, <2>2
<1>9. Reads(f)
  <2>1. ASSUME NEW k \in 0 .. n
        PROVE  f[k] = IF k = 0 THEN first ELSE ReadGroup(f[k - 1], Group(leaders[k]), k = failing)
    <3>1. CASE k = 0
      BY <1>7, <3>1 DEF Iterates
    <3>2. CASE k # 0
      <4>1. k \in 1 .. n
        BY <1>1, <3>2
      <4>2. QED
        BY <1>8, <3>2, <4>1
    <3>3. QED
      BY <3>1, <3>2
  <2>2. QED
    BY <2>1
<1>10. Reads(reading)
  BY <1>9
<1>11. Read(leaders, values, failing) = reading[n]
  BY DEF Read, first
<1> HIDE DEF reading
<1> DEFINE Done(k) == reading[k] \in ReadType /\ (reading[k].ok => HasRead(reading[k], g[k]))
           U == {k \in Nat : k <= n => Done(k)}
<1>12. /\ g \in [0 .. n -> S] /\ g[0] = <<>> /\ FlattenSeq(ss) = g[n]
       /\ \A k \in 1 .. n : g[k] = g[k - 1] \o ss[k]
  <2>1. g \in [0 .. n -> S] /\ Iterates(g, n, ConcatStep(ss, S), <<>>) /\ FlattenSeq(ss) = g[n]
    BY <1>4, <1>5 DEF FlatteningOf
  <2>2. ASSUME NEW k \in 1 .. n PROVE g[k] = g[k - 1] \o ss[k]
    <3>1. k - 1 \in 0 .. n
      BY <1>1
    <3>2. g[k - 1] \in S /\ g[k] = ConcatStep(ss, S)[<<k, g[k - 1]>>]
      BY <2>1, <3>1 DEF Iterates
    <3>3. QED
      BY <1>4, <3>2 DEF ConcatStep
  <2>3. QED
    BY <2>1, <2>2 DEF Iterates
<1>13. 0 \in U
  <2>1. 0 \in 0 .. n
    BY <1>1
  <2>2. reading[0] = first
    BY <1>10, <2>1
  <2>3. HasRead(first, <<>>)
    BY BufferIs DEF HasRead, first
  <2>4. QED
    BY <1>2, <1>12, <2>2, <2>3
<1>14. ASSUME NEW k \in Nat, k \in U PROVE k + 1 \in U
  <2> SUFFICES ASSUME k + 1 <= n PROVE Done(k + 1)
    OBVIOUS
  <2> DEFINE group == ss[k + 1]
             fails == k + 1 = failing
             before == reading[k]
  <2>1. k + 1 \in 1 .. n /\ k + 1 \in 0 .. n /\ k \in 0 .. n /\ (k + 1) - 1 = k /\ k + 1 # 0
    BY <1>1
  <2>2. before \in ReadType /\ (before.ok => HasRead(before, g[k]))
    BY <1>1, <1>14
  <2>3. reading[k + 1] = ReadGroup(reading[k], Group(leaders[k + 1]), k + 1 = failing)
    BY <1>10, <2>1
  <2>4. group \in Seq(Descriptor) /\ fails \in BOOLEAN /\ reading[k + 1] = ReadGroup(before, group, fails)
    BY <1>3, <2>1, <2>3 DEF S
  <2>5. g[k] \in Seq(Descriptor) /\ g[k + 1] = g[k] \o group
    <3>1. g[k] \in S
      BY <1>12, <2>1
    <3>2. g[k + 1] = g[(k + 1) - 1] \o ss[k + 1]
      BY <1>12, <2>1
    <3>3. QED
      BY <2>1, <3>1, <3>2 DEF S
  <2> HIDE DEF group, fails, before
  <2>6. ReadGroup(before, group, fails) \in ReadType
    BY <2>2, <2>4, ReadGroupType
  <2>7. ASSUME ReadGroup(before, group, fails).ok
        PROVE  HasRead(ReadGroup(before, group, fails), g[k] \o group)
    BY <2>2, <2>4, <2>5, <2>7, ReadGroupReads
  <2>8. QED
    BY <2>4, <2>5, <2>6, <2>7
<1> HIDE DEF U
<1>15. Nat \subseteq U
  BY <1>13, <1>14, NatInductionSet
<1>16. Done(n)
  BY <1>1, <1>15 DEF U
<1>17. g[n] = Members(opened, leaders)
  BY <1>12 DEF Members, ss
<1>18. QED
  BY <1>11, <1>16, <1>17

-----------------------------------------------------------------------------
(* What a measurement returns. *)

MeasurementType ==
    [requested : AllRequests, valid_read : BOOLEAN, start_values : Values, end_values : Values,
     running : BOOLEAN, started_at : Nat]

\* What has been read at Start is still what it was when Stop returns.
Started ==
    measurement.running /\ measurement.valid_read =>
        \A i \in 1 .. Len(Mine.counter_ids) :
            measurement.start_values[i] = <<Mine.counter_ids[i], measurement.started_at>>

MeasurementInv ==
    DescriptorsInv /\ measurement \in MeasurementType /\ Started /\ StopMeasuresInterval

LEMMA SnapshotIs ==
    ASSUME DescriptorsInv, NEW values \in Values, NEW failing
    PROVE  LET read == Read(MyLeaders, values, failing)
           IN  /\ read \in ReadType
               /\ Complete(Mine, read) =>
                      \A i \in 1 .. Len(Mine.counter_ids) : read.values[i] = <<Mine.counter_ids[i], time>>
<1> DEFINE read == Read(MyLeaders, values, failing)
           m == Members(opened, MyLeaders)
<1>1. opened \in Seq(Descriptor) /\ time \in Nat /\ Mine \in Object /\ Kept(opened, Mine)
  BY PartsType DEF DescriptorsInv, TypeOK, Owned, Mine, Owners
<1>2. MyLeaders \in Seq(Nat)
  BY <1>1 DEF MyLeaders, Object
<1>3. read \in ReadType /\ (read.ok => HasRead(read, m))
  BY <1>1, <1>2, ReadReads
<1>4. m \in Seq(Descriptor)
  BY <1>1, <1>2, MembersProperties
<1>5. Each(Id, m) = Mine.counter_ids
  BY <1>1 DEF Kept, MyLeaders
<1> HIDE DEF read, m
<1>6. Len(Mine.counter_ids) = Len(m) /\ DOMAIN Mine.counter_ids = 1 .. Len(m)
  BY <1>4, <1>5, EachLen
<1>7. ASSUME NEW i \in 1 .. Len(m) PROVE Mine.counter_ids[i] = m[i].id
  <2>1. i \in DOMAIN m /\ m[i] \in Descriptor
    BY <1>4, LenProperties
  <2>2. Each(Id, m)[i] = m[i].id
    BY <2>1 DEF Each, Id
  <2>3. QED
    BY <1>5, <2>2
<1>8. ASSUME Complete(Mine, read), NEW i \in 1 .. Len(m)
      PROVE  read.values[i] = <<Mine.counter_ids[i], time>>
  <2>1. HasRead(read, m)
    BY <1>3, <1>8 DEF Complete
  <2>2. read.values[i] = <<m[i].id, time>>
    BY <2>1 DEF HasRead
  <2>3. QED
    BY <1>7, <2>2
<1>9. QED
  BY <1>3, <1>6, <1>8 DEF read

\* As many names as descriptors.
LEMMA NamesAndDescriptors ==
    ASSUME DescriptorsInv
    PROVE  DOMAIN Mine.names = 1 .. Len(Mine.counter_ids)
<1> DEFINE m == Members(opened, MyLeaders)
<1>1. opened \in Seq(Descriptor) /\ Mine \in Object /\ Kept(opened, Mine)
  BY PartsType DEF DescriptorsInv, TypeOK, Owned, Mine, Owners
<1>2. m \in Seq(Descriptor)
  BY <1>1, MembersProperties DEF MyLeaders, Object
<1>3. Each(Id, m) = Mine.counter_ids /\ Each(CounterName, m) = Mine.names
  BY <1>1 DEF Kept, MyLeaders
<1> HIDE DEF m
<1>4. Len(Each(Id, m)) = Len(m) /\ DOMAIN Each(CounterName, m) = 1 .. Len(m)
  BY <1>2, EachLen
<1>5. QED
  BY <1>3, <1>4

LEMMA NewMeasurementType ==
    ASSUME NEW request \in AllRequests
    PROVE  NewMeasurement(request) \in MeasurementType /\ NewMeasurement(request).running = FALSE
<1>1. NoValues \in Values
  <2>1. <<>> \in Seq(Int)
    OBVIOUS
  <2>2. QED
    BY <2>1 DEF NoValues, Values
<1>2. QED
  BY <1>1 DEF NewMeasurement, MeasurementType

LEMMA MeasurementInit == Init => MeasurementInv
<1> SUFFICES ASSUME Init PROVE MeasurementInv
  OBVIOUS
<1>1. <<>> \in AllRequests
  BY DEF AllRequests
<1>2. measurement \in MeasurementType /\ measurement.running = FALSE
  BY <1>1, NewMeasurementType DEF Init
<1>3. StopMeasuresInterval
  BY DEF Init, NotStopped, StopMeasuresInterval
<1>4. QED
  BY <1>2, <1>3, DescriptorsInit DEF MeasurementInv, Started

\* Steps after which no measurement runs.
LEMMA NotRunning ==
    ASSUME MeasurementInv, [Next]_vars, NEW request \in AllRequests,
           measurement' = NewMeasurement(request), stopped' = NotStopped \/ stopped' = stopped
    PROVE  MeasurementInv'
<1>1. measurement' \in MeasurementType /\ measurement'.running = FALSE
  BY NewMeasurementType
<1>2. StopMeasuresInterval'
  BY DEF MeasurementInv, StopMeasuresInterval, NotStopped
<1>3. QED
  BY <1>1, <1>2, DescriptorsStep DEF MeasurementInv, Started

\* Steps that leave the measurement and its counters alone.
LEMMA MeasurementUnchanged ==
    ASSUME MeasurementInv, [Next]_vars, measurement' = measurement, Mine' = Mine,
           stopped' = NotStopped \/ stopped' = stopped
    PROVE  MeasurementInv'
<1>1. StopMeasuresInterval'
  BY DEF MeasurementInv, StopMeasuresInterval, NotStopped
<1>2. QED
  BY <1>1, DescriptorsStep DEF MeasurementInv, Started

LEMMA StartKeeps ==
    ASSUME MeasurementInv, [Next]_vars, NEW failing, Start(failing)
    PROVE  MeasurementInv'
<1> DEFINE read == Read(MyLeaders, measurement.start_values, failing)
           complete == Complete(Mine, read)
<1>1. /\ measurement \in MeasurementType /\ measurement.start_values \in Values
      /\ measurement.valid_read \in BOOLEAN /\ time \in Nat /\ DescriptorsInv
  BY DEF MeasurementInv, MeasurementType, DescriptorsInv, TypeOK
<1>2. /\ read \in ReadType
      /\ complete => \A i \in 1 .. Len(Mine.counter_ids) : read.values[i] = <<Mine.counter_ids[i], time>>
  BY <1>1, SnapshotIs
<1>3. /\ measurement' = [measurement EXCEPT
             !.valid_read = Valid(@, complete), !.start_values = read.values,
             !.running = TRUE, !.started_at = time]
      /\ stopped' = NotStopped /\ counters' = counters
  BY DEF Start
<1>4. complete \in BOOLEAN /\ read.values \in Values
  BY <1>2 DEF Complete, ReadType
<1> HIDE DEF read, complete
<1>5. measurement' = [requested |-> measurement.requested,
                      valid_read |-> Valid(measurement.valid_read, complete),
                      start_values |-> read.values, end_values |-> measurement.end_values,
                      running |-> TRUE, started_at |-> time]
  BY <1>1, <1>3 DEF MeasurementType
<1>6. Valid(measurement.valid_read, complete) \in BOOLEAN
  BY <1>1, <1>4 DEF Valid
<1>7. measurement' \in MeasurementType
  BY <1>1, <1>4, <1>5, <1>6 DEF MeasurementType
<1>8. Mine' = Mine
  BY <1>3 DEF Mine
<1>9. Started'
  <2>1. measurement'.valid_read => complete
    BY <1>5 DEF Valid
  <2>2. measurement'.start_values = read.values /\ measurement'.started_at = time
    BY <1>5
  <2>3. QED
    BY <1>2, <1>8, <2>1, <2>2 DEF Started
<1>10. StopMeasuresInterval'
  BY <1>3 DEF StopMeasuresInterval, NotStopped
<1>11. QED
  BY <1>7, <1>9, <1>10, DescriptorsStep DEF MeasurementInv

LEMMA StopKeeps ==
    ASSUME MeasurementInv, [Next]_vars, NEW failing, Stop(failing)
    PROVE  MeasurementInv'
<1> DEFINE read == Read(MyLeaders, measurement.end_values, failing)
           complete == Complete(Mine, read)
           ok == Valid(measurement.valid_read, complete)
<1>1. /\ measurement \in MeasurementType /\ measurement.end_values \in Values
      /\ measurement.valid_read \in BOOLEAN /\ DescriptorsInv /\ Started
      /\ measurement.started_at \in Nat
  BY DEF MeasurementInv, MeasurementType
<1>2. /\ read \in ReadType
      /\ complete => \A i \in 1 .. Len(Mine.counter_ids) : read.values[i] = <<Mine.counter_ids[i], time>>
  BY <1>1, SnapshotIs
<1>3. /\ measurement' = [measurement EXCEPT
             !.valid_read = ok, !.end_values = read.values, !.running = FALSE, !.started_at = 0]
      /\ stopped' = [ok |-> ok, from |-> measurement.started_at, to |-> time,
                     ids |-> Mine.counter_ids,
                     list |-> [i \in DOMAIN Mine.names |->
                         <<Mine.names[i], measurement.start_values[i], read.values[i]>>]]
      /\ measurement.running
  BY DEF Stop
<1>4. complete \in BOOLEAN /\ read.values \in Values
  BY <1>2 DEF Complete, ReadType
<1> HIDE DEF read, complete
<1>5. ok \in BOOLEAN /\ (ok => measurement.valid_read /\ complete)
  BY <1>1, <1>4 DEF Valid
<1> HIDE DEF ok
<1>6. measurement' = [requested |-> measurement.requested, valid_read |-> ok,
                      start_values |-> measurement.start_values, end_values |-> read.values,
                      running |-> FALSE, started_at |-> 0]
  BY <1>1, <1>3 DEF MeasurementType
<1>7. measurement' \in MeasurementType /\ measurement'.running = FALSE
  BY <1>1, <1>4, <1>5, <1>6 DEF MeasurementType
<1>8. DOMAIN Mine.names = 1 .. Len(Mine.counter_ids)
  BY <1>1, NamesAndDescriptors
<1>9. ASSUME ok, NEW i \in 1 .. Len(Mine.counter_ids)
      PROVE  /\ measurement.start_values[i] = <<Mine.counter_ids[i], measurement.started_at>>
             /\ read.values[i] = <<Mine.counter_ids[i], time>>
  BY <1>1, <1>2, <1>3, <1>5, <1>9 DEF Started
<1>10. StopMeasuresInterval'
  <2>1. /\ stopped'.ok = ok /\ stopped'.from = measurement.started_at /\ stopped'.to = time
        /\ stopped'.ids = Mine.counter_ids /\ DOMAIN stopped'.list = 1 .. Len(Mine.counter_ids)
    BY <1>3, <1>8
  <2>2. ASSUME NEW i \in 1 .. Len(Mine.counter_ids)
        PROVE  /\ stopped'.list[i][2] = measurement.start_values[i]
               /\ stopped'.list[i][3] = read.values[i]
    BY <1>3, <1>8
  <2>3. QED
    BY <1>9, <2>1, <2>2 DEF StopMeasuresInterval
<1>11. QED
  BY <1>7, <1>10, DescriptorsStep DEF MeasurementInv, Started

LEMMA MeasurementStep == MeasurementInv /\ [Next]_vars => MeasurementInv'
<1> SUFFICES ASSUME MeasurementInv, [Next]_vars PROVE MeasurementInv'
  OBVIOUS
<1>1. <<>> \in AllRequests /\ create.request \in AllRequests
  BY DEF AllRequests, MeasurementInv, DescriptorsInv, TypeOK, CreateType
<1>2. ASSUME NEW owner \in Owners, NEW request \in Requests[owner], Create(owner, request)
      PROVE  MeasurementInv'
  BY <1>2, MeasurementUnchanged DEF Create, Mine
<1>3. ASSUME NEW request \in Requests.measurement, TooManyRequested(request) PROVE MeasurementInv'
  BY <1>1, <1>3, NotRunning DEF TooManyRequested, Abort
<1>4. CASE CreateStep
  <2>1. CASE SkipName \/ TakeName \/ NamesDone \/ OpenSucceeds \/ OpenFails \/ OpenInterrupted
    <3>1. UNCHANGED <<counters, measurement, stopped>>
      BY <2>1 DEF SkipName, TakeName, NamesDone, OpenSucceeds, OpenFails, OpenInterrupted, Creating
    <3>2. QED
      BY <3>1, MeasurementUnchanged DEF Mine
  <2>2. CASE EnableSucceeds \/ EnableFails
    <3>1. UNCHANGED <<counters, measurement, stopped>>
      BY <2>2 DEF EnableSucceeds, EnableFails, Creating
    <3>2. QED
      BY <3>1, MeasurementUnchanged DEF Mine
  <2>3. CASE Assign
    <3>1. stopped' = stopped
      BY <2>3 DEF Assign
    <3>2. CASE create.owner = "measurement"
      BY <1>1, <2>3, <3>1, <3>2, NotRunning DEF Assign
    <3>3. CASE create.owner # "measurement"
      <4>1. counters \in [Owners -> Object]
        BY DEF MeasurementInv, DescriptorsInv, TypeOK
      <4>2. Mine' = Mine /\ measurement' = measurement
        BY <2>3, <3>3, <4>1 DEF Assign, Mine, Owners
      <4>3. QED
        BY <3>1, <4>2, MeasurementUnchanged
    <3>4. QED
      BY <3>2, <3>3
  <2>4. QED
    BY <1>4, <2>1, <2>2, <2>3 DEF CreateStep
<1>5. ASSUME NEW owner \in Owners, Destroy(owner) PROVE MeasurementInv'
  <2>1. stopped' = NotStopped
    BY <1>5 DEF Destroy
  <2>2. CASE owner = "measurement"
    BY <1>1, <1>5, <2>1, <2>2, NotRunning DEF Destroy
  <2>3. CASE owner # "measurement"
    <3>1. counters \in [Owners -> Object]
      BY DEF MeasurementInv, DescriptorsInv, TypeOK
    <3>2. Mine' = Mine /\ measurement' = measurement
      BY <1>5, <2>3, <3>1 DEF Destroy, Mine, Owners
    <3>3. QED
      BY <2>1, <3>2, MeasurementUnchanged
  <2>4. QED
    BY <2>2, <2>3
<1>6. ASSUME NEW failing \in 0 .. Len(MyLeaders), Start(failing) PROVE MeasurementInv'
  BY <1>6, StartKeeps
<1>7. ASSUME NEW failing \in 0 .. Len(MyLeaders), Stop(failing) PROVE MeasurementInv'
  BY <1>7, StopKeeps
<1>8. CASE Tick
  BY <1>8, MeasurementUnchanged DEF Tick, Mine
<1>9. CASE CheckCounters
  BY <1>1, <1>9, NotRunning DEF CheckCounters, Abort
<1>10. CASE UNCHANGED vars
  BY <1>10, MeasurementUnchanged DEF vars, Mine
<1>11. QED
  BY <1>2, <1>3, <1>4, <1>5, <1>6, <1>7, <1>8, <1>9, <1>10 DEF Next

\* A Stop that succeeds returns the value of every counter under its own name,
\* from the Start before it to now, whichever groups the kernel has made of them
\* and whichever reads have failed before.
THEOREM CountersStopMeasuresInterval == Spec => []StopMeasuresInterval
<1>1. Init => MeasurementInv
  BY MeasurementInit
<1>2. MeasurementInv /\ [Next]_vars => MeasurementInv'
  BY MeasurementStep
<1>3. MeasurementInv => StopMeasuresInterval
  BY DEF MeasurementInv
<1>4. QED
  BY <1>1, <1>2, <1>3, PTL DEF Spec
=============================================================================
