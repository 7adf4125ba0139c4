------------------------- MODULE DroppedItemsProofs -------------------------
(***************************************************************************)
(* Proofs about DroppedItems for every party, every set of items and any   *)
(* number of drops: type correctness, that an item is in one place, that   *)
(* the rule and the games implement PartyItems, and that each game shows   *)
(* what the host's game has.                                               *)
(***************************************************************************)
EXTENDS DroppedItems, ChannelFacts, FiniteSetTheorems

-----------------------------------------------------------------------------
\* Those of a sequence that satisfy a test (std::erase_if).

\* Some of the positions of a sequence can be counted in their order.
LEMMA Counted ==
    ASSUME NEW n \in Nat, NEW K \in SUBSET (1 .. n)
    PROVE  /\ IsFiniteSet(K) /\ Cardinality(K) \in Nat
           /\ \E f \in [1 .. Cardinality(K) -> K] : \A a, b \in 1 .. Cardinality(K) : a < b => f[a] < f[b]
<1>. DEFINE Order(J, f) == \A a, b \in 1 .. Cardinality(J) : a < b => f[a] < f[b]
            Ordered(J) == \E f \in [1 .. Cardinality(J) -> J] : Order(J, f)
            Bad == {c \in Nat : \E J \in SUBSET (1 .. n) : Cardinality(J) = c /\ ~Ordered(J)}
<1>1. ASSUME NEW J \in SUBSET (1 .. n) PROVE IsFiniteSet(J) /\ Cardinality(J) \in Nat
  <2>1. IsFiniteSet(1 .. n)
    BY FS_Interval
  <2>2. IsFiniteSet(J)
    BY <2>1, FS_Subset
  <2>. QED BY <2>2, FS_CardinalityType
<1>2. SUFFICES ASSUME Bad # {} PROVE FALSE
  BY <1>1, Zenon
<1>3. PICK c \in Bad : \A k \in Bad : ~(<<k, c>> \in OpToRel(<, Nat))
  <2>1. Bad \in SUBSET Nat
    OBVIOUS
  <2>. HIDE DEF Bad
  <2>. QED BY <1>2, <2>1, WFMin, NatLessThanWellFounded
<1>4. PICK J \in SUBSET (1 .. n) : Cardinality(J) = c /\ ~Ordered(J)
  BY <1>3, Zenon
<1>5. c \in Nat /\ \A k \in Bad : k \in Nat /\ ~(k < c)
  BY <1>3 DEF OpToRel
<1>6. CASE J = {}
  <2>1. c = 0
    BY <1>1, <1>4, <1>6, FS_EmptySet
  <2>2. DEFINE f == [a \in 1 .. 0 |-> a]
  <2>3. f \in [1 .. Cardinality(J) -> J] /\ Order(J, f)
    BY <1>4, <2>1
  <2>. QED BY <1>4, <2>3, Zenon
<1>7. CASE J # {}
  <2>1. PICK l \in J : \A j \in J : j <= l
    BY <1>7, LastOne
  <2>2. PICK L \in SUBSET (1 .. n) : L = J \ {l}
    OBVIOUS
  <2>3. Cardinality(L) = c - 1 /\ c - 1 \in Nat
    BY <1>1, <1>4, <2>1, <2>2, FS_RemoveElement
  <2>4. c - 1 \notin Bad
    BY <1>5, <2>3
  <2>5. Ordered(L)
    BY <2>3, <2>4, Zenon
  <2>6. PICK f \in [1 .. c - 1 -> L] : \A a, b \in 1 .. c - 1 : a < b => f[a] < f[b]
    BY <2>3, <2>5, Zenon
  <2>. DEFINE g == [a \in 1 .. c |-> IF a = c THEN l ELSE f[a]]
  <2>7. g \in [1 .. c -> J] /\ g[c] = l /\ \A a \in 1 .. c - 1 : g[a] = f[a]
    <3>1. c \in 1 .. c
      BY <1>5, <2>3
    <3>2. \A a \in 1 .. c - 1 : a # c /\ a \in 1 .. c
      BY <1>5
    <3>. QED BY <1>5, <2>1, <2>2, <2>6, <3>1, <3>2
  <2>. HIDE DEF g
  <2>8. ASSUME NEW a \in 1 .. c, NEW b \in 1 .. c, a < b PROVE g[a] < g[b]
    <3>1. a \in 1 .. c - 1 /\ g[a] = f[a] /\ f[a] \in L
      BY <1>5, <2>3, <2>6, <2>7, <2>8
    <3>2. CASE b = c
      <4>1. f[a] \in 1 .. n /\ l \in 1 .. n /\ f[a] # l /\ f[a] <= l
        BY <2>1, <2>2, <3>1
      <4>2. g[b] = l
        BY <2>7, <3>2
      <4>3. f[a] < l
        BY <4>1
      <4>. QED BY <3>1, <4>2, <4>3
    <3>3. CASE b # c
      <4>1. b \in 1 .. c - 1 /\ g[b] = f[b]
        BY <1>5, <2>7, <3>3
      <4>2. f[a] < f[b]
        BY <2>6, <2>8, <3>1, <4>1
      <4>3. g[a] = f[a] /\ g[b] = f[b]
        BY <3>1, <4>1
      <4>. QED BY <4>2, <4>3
    <3>. QED BY <3>2, <3>3
  <2>9. g \in [1 .. Cardinality(J) -> J] /\ Order(J, g)
    BY <1>4, <2>7, <2>8
  <2>. QED BY <1>4, <2>9, Zenon
<1>. QED BY <1>6, <1>7

\* They are there, no other is, none twice, and there are no more than there were.
LEMMA OnlyFacts ==
    ASSUME NEW T, NEW s \in Seq(T), NEW S
    PROVE  /\ Only(s, S) \in Seq(T) /\ Sent(Only(s, S)) = Sent(s) \cap S /\ Len(Only(s, S)) <= Len(s)
           /\ \A a, b \in DOMAIN Only(s, S) : \E k, l \in DOMAIN s :
                 Only(s, S)[a] = s[k] /\ Only(s, S)[b] = s[l] /\ (k = l => a = b)
<1>. DEFINE kept == {n \in DOMAIN s : s[n] \in S}
            c == Cardinality(kept)
            InOrder(f) == \A a, b \in DOMAIN f : a < b => f[a] < f[b]
            order == CHOOSE f \in [1 .. c -> kept] : InOrder(f)
            r == [n \in 1 .. c |-> s[order[n]]]
<1>1. Only(s, S) = r
  BY Zenon DEF Only
<1>2. DOMAIN s = 1 .. Len(s) /\ Len(s) \in Nat /\ \A k \in DOMAIN s : s[k] \in T
  BY LenProperties, ElementOfSeq
<1>3. IsFiniteSet(kept) /\ c \in Nat
      /\ \E f \in [1 .. c -> kept] : \A a, b \in 1 .. c : a < b => f[a] < f[b]
  BY <1>2, Counted
<1>4. \E f \in [1 .. c -> kept] : InOrder(f)
  BY <1>3
<1>5. order \in [1 .. c -> kept] /\ InOrder(order)
  <2>. HIDE DEF c, kept, InOrder
  <2>. QED BY <1>4, Zenon
<1>. HIDE DEF order
<1>6. \A a, b \in 1 .. c : order[a] = order[b] => a = b
  <2>1. \A k \in kept : k \in Int
    BY <1>2
  <2>. HIDE DEF c, kept
  <2>2. ASSUME NEW a \in 1 .. c, NEW b \in 1 .. c, a # b PROVE order[a] # order[b]
    <3>1. order[a] \in Int /\ order[b] \in Int /\ DOMAIN order = 1 .. c /\ (a < b \/ b < a)
      BY <1>3, <1>5, <2>1, <2>2
    <3>2. order[a] < order[b] \/ order[b] < order[a]
      BY <1>5, <3>1, Zenon
    <3>. QED BY <3>1, <3>2
  <2>. QED BY <2>2
<1>7. order \in Injection(1 .. c, kept)
  <2>. HIDE DEF c, kept
  <2>. QED BY <1>5, <1>6 DEF Injection, IsInjective
<1>8. Cardinality(1 .. c) = c
  <2>. HIDE DEF c
  <2>. QED BY <1>3, FS_Interval
<1>9. order \in Surjection(1 .. c, kept)
  <2>1. Cardinality(1 .. c) = Cardinality(kept)
    BY <1>8
  <2>. HIDE DEF kept, c
  <2>. QED BY <1>3, <1>7, <2>1, FS_Injection
<1>10. \A k \in kept : \E a \in 1 .. c : order[a] = k
  <2>. HIDE DEF kept, c
  <2>. QED BY <1>9 DEF Surjection
<1>11. c <= Len(s)
  <2>1. kept \in SUBSET (1 .. Len(s))
    BY <1>2
  <2>2. IsFiniteSet(1 .. Len(s)) /\ Cardinality(1 .. Len(s)) = Len(s)
    BY <1>2, FS_Interval
  <2>. HIDE DEF kept
  <2>. QED BY <2>1, <2>2, FS_Subset
<1>12. \A a \in 1 .. c : order[a] \in DOMAIN s /\ s[order[a]] \in S
  <2>1. \A k \in kept : k \in DOMAIN s /\ s[k] \in S
    OBVIOUS
  <2>. HIDE DEF kept, c
  <2>. QED BY <1>5, <2>1
<1>13. r \in Seq(T) /\ Len(r) = c /\ DOMAIN r = 1 .. c /\ \A a \in 1 .. c : r[a] = s[order[a]]
  <2>. HIDE DEF kept, c
  <2>. QED BY <1>2, <1>3, <1>12
<1>. HIDE DEF r
<1>14. Sent(r) = Sent(s) \cap S
  <2>1. ASSUME NEW m \in Sent(r) PROVE m \in Sent(s) \cap S
    <3>1. PICK a \in 1 .. c : m = s[order[a]]
      BY <1>13 DEF Sent
    <3>. QED BY <1>12, <3>1 DEF Sent
  <2>2. ASSUME NEW m \in Sent(s) \cap S PROVE m \in Sent(r)
    <3>1. PICK k \in DOMAIN s : m = s[k]
      BY DEF Sent
    <3>2. k \in kept
      BY <3>1
    <3>3. PICK a \in 1 .. c : order[a] = k
      BY <1>10, <3>2, Zenon
    <3>. QED BY <1>13, <3>1, <3>3 DEF Sent
  <2>. QED BY <2>1, <2>2
<1>15. \A a, b \in DOMAIN r : \E k, l \in DOMAIN s : r[a] = s[k] /\ r[b] = s[l] /\ (k = l => a = b)
  <2>. HIDE DEF kept, c
  <2>1. ASSUME NEW a \in DOMAIN r, NEW b \in DOMAIN r
        PROVE  \E k, l \in DOMAIN s : r[a] = s[k] /\ r[b] = s[l] /\ (k = l => a = b)
    <3>1. /\ order[a] \in DOMAIN s /\ order[b] \in DOMAIN s /\ r[a] = s[order[a]] /\ r[b] = s[order[b]]
          /\ (order[a] = order[b] => a = b)
      BY <1>6, <1>12, <1>13
    <3>. QED BY <3>1, Zenon
  <2>. QED BY <2>1
<1>. QED BY <1>1, <1>11, <1>13, <1>14, <1>15

-----------------------------------------------------------------------------
\* What is under way, as references.

Common == {r \in References : Of(r) \notin Foreign}
Posted == {m \in Requests : m.type # "cell" => m.ref \in References}
Told == {m \in Notice :
            /\ m.type # "changes" => m.ref \in References
            /\ m.type = "dropped" => (m.object <=> m.ref \in Common)
            /\ m.type = "pickup" /\ m.ref \notin Common => m.tagged
            /\ m.rows.new \subseteq Common}
Applied == {t \in RowsOf : t.new \subseteq Common}
Waitings == [player : Guests, ref : References]

\* The references of a channel's messages of a type, no two of which are about the same.
Refs(s, type) == {m.ref : m \in {k \in ToSet(s) : k.type = type}}
Once(s, type) ==
    \A m, n \in DOMAIN s : s[m].type = type /\ s[n].type = type /\ s[m].ref = s[n].ref => m = n

\* The references a channel's rows create, and those of them that no answer to a drop precedes.
Creates(s, n, r) == s[n].type = "changes" /\ r \in s[n].rows.new
Answers(s, n, r) == s[n].type = "dropped" /\ s[n].ref = r
News(s) == {r \in References : \E n \in DOMAIN s : Creates(s, n, r)}
Early(s) == {r \in References : \E n \in DOMAIN s :
                Creates(s, n, r) /\ \A l \in DOMAIN s : l < n => ~Answers(s, l, r)}

\* A game was told more: answers to drops, grants, and rows that create references.
Grew(s, t, answers, grants, new) ==
    /\ Refs(t, "dropped") = Refs(s, "dropped") \cup answers
    /\ Refs(t, "pickup") = Refs(s, "pickup") \cup grants
    /\ News(t) \subseteq News(s) \cup new
    /\ Early(t) \subseteq Early(s) \cup (new \ Refs(s, "dropped"))
    /\ Once(s, "pickup") /\ grants \cap Refs(s, "pickup") = {} => Once(t, "pickup")

\* A sequence's elements, by the community module's name and by the channels'.
LEMMA ToSetIsSent == \A s : ToSet(s) = Sent(s)
BY DEF ToSet, Sent

\* The references of a channel's messages: each is some message's.
LEMMA RefsAre ==
    \A s, type, r : r \in Refs(s, type) <=> \E n \in DOMAIN s : s[n].type = type /\ s[n].ref = r
BY DEF Refs, ToSet

\* What a message put last changes (a request, or a notice).
LEMMA AppendRefs ==
    ASSUME NEW S, NEW s \in Seq(S), NEW m \in S, NEW type
    PROVE  /\ Append(s, m) \in Seq(S)
           /\ Refs(Append(s, m), type) = Refs(s, type) \cup (IF m.type = type THEN {m.ref} ELSE {})
           /\ Once(s, type) /\ (m.type = type => m.ref \notin Refs(s, type)) => Once(Append(s, m), type)
<1>1. PICK t, r : t = <<m>> /\ r = Append(s, m)
  OBVIOUS
<1>2. Joined(s, t, r) /\ r \in Seq(S)
  BY <1>1, AppendFacts
<1>3. Sent(r) = Sent(s) \cup {m}
  BY <1>1, SentAppend
<1>4. Refs(r, type) = Refs(s, type) \cup (IF m.type = type THEN {m.ref} ELSE {})
  BY <1>3, ToSetIsSent DEF Refs
<1>5. ASSUME Once(s, type), m.type = type => m.ref \notin Refs(s, type) PROVE Once(r, type)
  <2>1. ASSUME NEW i \in DOMAIN r PROVE (i \in DOMAIN s /\ r[i] = s[i]) \/ (i = Len(s) + 1 /\ r[i] = m)
    <3>1. CASE i \in DOMAIN s
      BY <1>2, <3>1 DEF Joined
    <3>2. CASE i \notin DOMAIN s
      BY <1>1, <1>2, <3>2 DEF Joined
    <3>. QED BY <3>1, <3>2
  <2>2. ASSUME NEW i \in DOMAIN r, NEW j \in DOMAIN r, r[i].type = type, r[j].type = type, r[i].ref = r[j].ref
        PROVE  i = j
    <3>1. CASE i \in DOMAIN s /\ r[i] = s[i] /\ j \in DOMAIN s /\ r[j] = s[j]
      BY <1>5, <2>2, <3>1, Zenon DEF Once
    <3>2. CASE i \in DOMAIN s /\ r[i] = s[i] /\ r[j] = m
      BY <1>5, <2>2, <3>2, RefsAre
    <3>3. CASE r[i] = m /\ j \in DOMAIN s /\ r[j] = s[j]
      BY <1>5, <2>2, <3>3, RefsAre
    <3>. QED BY <2>1, <3>1, <3>2, <3>3
  <2>. QED BY <2>2, Zenon DEF Once
<1>. QED BY <1>1, <1>2, <1>4, <1>5, Zenon

\* What reading the oldest changes.
LEMMA TailRefs ==
    ASSUME NEW S, NEW s \in Seq(S), s # <<>>, NEW type
    PROVE  /\ Tail(s) \in Seq(S) /\ Head(s) \in S
           /\ Refs(Tail(s), type) \subseteq Refs(s, type)
           /\ Refs(s, type) \subseteq Refs(Tail(s), type) \cup (IF Head(s).type = type THEN {Head(s).ref} ELSE {})
           /\ Head(s).type = type => Head(s).ref \in Refs(s, type)
           /\ Once(s, type) => Once(Tail(s), type) /\ (Head(s).type = type => Head(s).ref \notin Refs(Tail(s), type))
<1>1. PICK t, h : t = Tail(s) /\ h = Head(s)
  OBVIOUS
<1>2. FirstTaken(s, t) /\ t \in Seq(S) /\ h \in S /\ h = s[1]
  BY <1>1, ReadFacts DEF FirstTaken
<1>3. h \in Sent(s) /\ Sent(t) \subseteq Sent(s) /\ Sent(s) \subseteq Sent(t) \cup {h}
  BY <1>1, SentRead
<1>4. /\ Refs(t, type) \subseteq Refs(s, type)
      /\ Refs(s, type) \subseteq Refs(t, type) \cup (IF h.type = type THEN {h.ref} ELSE {})
      /\ h.type = type => h.ref \in Refs(s, type)
  BY <1>3, ToSetIsSent DEF Refs
<1>5. ASSUME Once(s, type) PROVE Once(t, type) /\ (h.type = type => h.ref \notin Refs(t, type))
  <2>1. \A i \in DOMAIN t : i \in Nat /\ 1 <= i /\ i + 1 \in DOMAIN s /\ t[i] = s[i + 1]
    BY <1>2 DEF FirstTaken
  <2>2. 1 \in DOMAIN s
    BY <1>2 DEF FirstTaken
  <2>3. ASSUME NEW i \in DOMAIN t, NEW j \in DOMAIN t, t[i].type = type, t[j].type = type, t[i].ref = t[j].ref
        PROVE  i = j
    <3>1. i + 1 = j + 1
      BY <1>5, <2>1, <2>3, Zenon DEF Once
    <3>. QED BY <2>1, <3>1
  <2>4. ASSUME h.type = type, h.ref \in Refs(t, type) PROVE FALSE
    <3>1. PICK i \in DOMAIN t : t[i].type = type /\ t[i].ref = h.ref
      BY <2>4, RefsAre
    <3>2. 1 = i + 1
      BY <1>2, <1>5, <2>1, <2>2, <2>4, <3>1, Zenon DEF Once
    <3>. QED BY <2>1, <3>2
  <2>. QED BY <2>3, <2>4, Zenon DEF Once
<1>. QED BY <1>1, <1>2, <1>4, <1>5, Zenon

\* A notice put last (HostNetwork::Send): how a game's channel grew.
LEMMA GrewAppend ==
    ASSUME NEW s \in Seq(Told), NEW m \in Told
    PROVE  Grew(s, Append(s, m), IF m.type = "dropped" THEN {m.ref} ELSE {},
                IF m.type = "pickup" THEN {m.ref} ELSE {}, IF m.type = "changes" THEN m.rows.new ELSE {})
<1>1. PICK t, r : t = <<m>> /\ r = Append(s, m)
  OBVIOUS
<1>2. Joined(s, t, r) /\ r \in Seq(Told)
  BY <1>1, AppendFacts
<1>3. \A type : /\ Refs(r, type) = Refs(s, type) \cup (IF m.type = type THEN {m.ref} ELSE {})
                /\ Once(s, type) /\ (m.type = type => m.ref \notin Refs(s, type)) => Once(r, type)
  BY <1>1, AppendRefs
<1>4. ASSUME NEW i \in DOMAIN r PROVE (i \in DOMAIN s /\ r[i] = s[i]) \/ (r[i] = m /\ \A j \in DOMAIN s : j < i)
  <2>1. CASE i \in DOMAIN s
    BY <1>2, <2>1 DEF Joined
  <2>2. CASE i \notin DOMAIN s
    BY <1>1, <1>2, <2>2 DEF Joined
  <2>. QED BY <2>1, <2>2
<1>5. \A i \in DOMAIN s : i \in DOMAIN r /\ r[i] = s[i]
  BY <1>2 DEF Joined
<1>. DEFINE new == IF m.type = "changes" THEN m.rows.new ELSE {}
<1>6. News(r) \subseteq News(s) \cup new
  BY <1>4 DEF News, Creates
<1>7. ASSUME NEW q \in Early(r), q \notin Early(s) PROVE q \in new /\ q \notin Refs(s, "dropped")
  <2>1. PICK n \in DOMAIN r : Creates(r, n, q) /\ \A l \in DOMAIN r : l < n => ~Answers(r, l, q)
    BY DEF Early
  <2>2. q \in References
    BY DEF Early
  <2>3. ASSUME n \in DOMAIN s, r[n] = s[n] PROVE FALSE
    <3>1. Creates(s, n, q)
      BY <2>1, <2>3 DEF Creates
    <3>2. \A l \in DOMAIN s : l < n => ~Answers(s, l, q)
      BY <1>5, <2>1 DEF Answers
    <3>. QED BY <1>7, <2>2, <2>3, <3>1, <3>2 DEF Early
  <2>4. r[n] = m /\ \A j \in DOMAIN s : j < n
    BY <1>4, <2>3
  <2>5. q \in new
    BY <2>1, <2>4 DEF Creates
  <2>6. q \notin Refs(s, "dropped")
    <3>1. \A l \in DOMAIN s : ~Answers(s, l, q)
      BY <1>5, <2>1, <2>4 DEF Answers
    <3>. QED BY <3>1, RefsAre DEF Answers
  <2>. QED BY <2>5, <2>6
<1>8. Early(r) \subseteq Early(s) \cup (new \ Refs(s, "dropped"))
  BY <1>7
<1>9. Grew(s, r, IF m.type = "dropped" THEN {m.ref} ELSE {}, IF m.type = "pickup" THEN {m.ref} ELSE {}, new)
  <2>1. Refs(r, "dropped") = Refs(s, "dropped") \cup (IF m.type = "dropped" THEN {m.ref} ELSE {})
    BY <1>3
  <2>2. Refs(r, "pickup") = Refs(s, "pickup") \cup (IF m.type = "pickup" THEN {m.ref} ELSE {})
    BY <1>3
  <2>3. Once(s, "pickup") /\ (IF m.type = "pickup" THEN {m.ref} ELSE {}) \cap Refs(s, "pickup") = {} => Once(r, "pickup")
    BY <1>3
  <2>. HIDE DEF new
  <2>. QED BY <1>6, <1>8, <2>1, <2>2, <2>3, Zenon DEF Grew
<1>. QED BY <1>1, <1>9, Zenon

\* Nothing was put.
LEMMA GrewSame == \A s : Grew(s, s, {}, {}, {})
BY DEF Grew

\* A bound on what was told may be loosened.
LEMMA GrewMore ==
    ASSUME NEW s, NEW t, NEW answers, NEW grants, NEW new, NEW more, Grew(s, t, answers, grants, new), new \subseteq more
    PROVE  Grew(s, t, answers, grants, more)
BY DEF Grew

\* One growth after another, neither of which grants anything.
LEMMA GrewTrans ==
    ASSUME NEW s, NEW t, NEW u, NEW a, NEW b, NEW new, NEW more,
           Grew(s, t, a, {}, new), Grew(t, u, b, {}, more)
    PROVE  Grew(s, u, a \cup b, {}, new \cup more)
BY DEF Grew

\* The answers to several drops, put one after the other (HostItems::Update).
LEMMA GrewAnswers ==
    ASSUME NEW s \in Seq(Told), NEW t \in Seq(Told), \A n \in DOMAIN t : t[n].type = "dropped"
    PROVE  Grew(s, s \o t, {t[n].ref : n \in DOMAIN t}, {}, {}) /\ s \o t \in Seq(Told)
<1>1. PICK r : r = s \o t
  OBVIOUS
<1>2. Joined(s, t, r) /\ r \in Seq(Told) /\ Sent(r) = Sent(s) \cup Sent(t)
  BY <1>1, JoinFacts, SentJoin
<1>3. ASSUME NEW i \in DOMAIN r
      PROVE  (i \in DOMAIN s /\ r[i] = s[i]) \/ (r[i].type = "dropped" /\ i \notin DOMAIN s)
  <2>1. CASE i \in DOMAIN s
    BY <1>2, <2>1 DEF Joined
  <2>2. CASE i \notin DOMAIN s
    BY <1>2, <2>2 DEF Joined
  <2>. QED BY <2>1, <2>2
<1>4. \A i \in DOMAIN s : i \in DOMAIN r /\ r[i] = s[i]
  BY <1>2 DEF Joined
<1>5. Refs(t, "dropped") = {t[n].ref : n \in DOMAIN t} /\ Refs(t, "pickup") = {}
  BY DEF Refs, ToSet
<1>6. \A type : Refs(r, type) = Refs(s, type) \cup Refs(t, type)
  BY <1>2, ToSetIsSent DEF Refs
<1>7. News(r) \subseteq News(s)
  BY <1>3 DEF News, Creates
<1>8. ASSUME NEW q \in Early(r) PROVE q \in Early(s)
  <2>1. PICK n \in DOMAIN r : Creates(r, n, q) /\ \A l \in DOMAIN r : l < n => ~Answers(r, l, q)
    BY DEF Early
  <2>2. q \in References
    BY DEF Early
  <2>3. n \in DOMAIN s /\ Creates(s, n, q)
    BY <1>3, <2>1 DEF Creates
  <2>4. \A l \in DOMAIN s : l < n => ~Answers(s, l, q)
    BY <1>4, <2>1 DEF Answers
  <2>. QED BY <2>2, <2>3, <2>4 DEF Early
<1>9. Once(s, "pickup") => Once(r, "pickup")
  <2>1. ASSUME NEW i \in DOMAIN r, r[i].type = "pickup" PROVE i \in DOMAIN s /\ r[i] = s[i]
    BY <1>3, <2>1
  <2>. QED BY <2>1, Zenon DEF Once
<1>10. Grew(s, r, {t[n].ref : n \in DOMAIN t}, {}, {})
  BY <1>5, <1>6, <1>7, <1>8, <1>9 DEF Grew
<1>. QED BY <1>1, <1>2, <1>10, Zenon

\* What a game has left to read: no more, and of rows that are read only those no answer precedes
\* are of a drop of its own.
LEMMA ReadRows ==
    ASSUME NEW s \in Seq(Told), s # <<>>
    PROVE  /\ News(Tail(s)) \subseteq News(s)
           /\ Early(Tail(s)) \subseteq Early(s) \cup (IF Head(s).type = "dropped" THEN {Head(s).ref} ELSE {})
           /\ Head(s).type = "changes" => Head(s).rows.new \cap References \subseteq Early(s) \cap News(s)
<1>1. PICK t, h : t = Tail(s) /\ h = Head(s)
  OBVIOUS
<1>2. FirstTaken(s, t) /\ h = s[1]
  BY <1>1, ReadFacts DEF FirstTaken
<1>3. \A i \in DOMAIN t : i \in Nat /\ 1 <= i /\ i + 1 \in DOMAIN s /\ t[i] = s[i + 1]
  BY <1>2 DEF FirstTaken
<1>4. 1 \in DOMAIN s /\ \A i \in DOMAIN s : i \in Nat /\ 1 <= i /\ (i # 1 => i - 1 \in DOMAIN t /\ t[i - 1] = s[i])
  BY <1>2 DEF FirstTaken
<1>5. News(t) \subseteq News(s)
  BY <1>3 DEF News, Creates
<1>6. ASSUME NEW q \in Early(t), ~(h.type = "dropped" /\ h.ref = q) PROVE q \in Early(s)
  <2>1. PICK n \in DOMAIN t : Creates(t, n, q) /\ \A l \in DOMAIN t : l < n => ~Answers(t, l, q)
    BY DEF Early
  <2>2. q \in References
    BY DEF Early
  <2>3. n + 1 \in DOMAIN s /\ Creates(s, n + 1, q) /\ n \in Nat
    BY <1>3, <2>1 DEF Creates
  <2>4. ASSUME NEW l \in DOMAIN s, l < n + 1 PROVE ~Answers(s, l, q)
    <3>1. CASE l = 1
      BY <1>2, <1>6, <3>1 DEF Answers
    <3>2. CASE l # 1
      <4>1. l - 1 \in DOMAIN t /\ t[l - 1] = s[l] /\ l - 1 < n
        BY <1>4, <2>3, <2>4, <3>2
      <4>. QED BY <2>1, <4>1 DEF Answers
    <3>. QED BY <3>1, <3>2
  <2>. QED BY <2>2, <2>3, <2>4 DEF Early
<1>7. ASSUME h.type = "changes", NEW q \in References, q \in h.rows.new PROVE q \in Early(s) /\ q \in News(s)
  <2>1. Creates(s, 1, q)
    BY <1>2, <1>7 DEF Creates
  <2>2. \A l \in DOMAIN s : ~(l < 1)
    BY <1>4
  <2>. QED BY <1>4, <2>1, <2>2 DEF Early, News
<1>8. Early(t) \subseteq Early(s) \cup (IF h.type = "dropped" THEN {h.ref} ELSE {})
  BY <1>6
<1>. QED BY <1>1, <1>5, <1>7, <1>8

\* The messages of a pickup, a drop and a cell's state, each way.
LEMMA MessageTypes ==
    /\ NoRows \in Applied /\ \A gone \in SUBSET References, new \in SUBSET Common : Rows(gone, new) \in Applied
    /\ \A r \in References, object \in BOOLEAN :
          (object <=> r \in Common) => Dropped(r, object) \in Told /\ Dropped(r, object).type = "dropped" /\ Dropped(r, object).ref = r
    /\ \A r \in References, object, tagged \in BOOLEAN :
          (r \in Common \/ tagged) => PickUp(r, object, tagged) \in Told /\ PickUp(r, object, tagged).type = "pickup"
                                      /\ PickUp(r, object, tagged).ref = r
    /\ \A t \in Applied : Changes(t) \in Told /\ Changes(t).type = "changes" /\ Changes(t).rows.new = t.new
    /\ \A r \in References, tagged \in BOOLEAN :
          /\ Request("drop", r, tagged) \in Posted /\ Request("take", r, tagged) \in Posted
          /\ Request("drop", r, tagged).type = "drop" /\ Request("drop", r, tagged).ref = r
          /\ Request("take", r, tagged).type = "take"
    /\ Request("cell", NoReference, FALSE) \in Posted /\ Request("cell", NoReference, FALSE).type = "cell"
<1>1. NoRows \in Applied /\ NoRows \in RowsOf /\ NoRows.new = {}
  BY DEF NoRows, Rows, Applied, RowsOf
<1>2. \A gone \in SUBSET References, new \in SUBSET Common : Rows(gone, new) \in Applied
  BY DEF Rows, Applied, RowsOf, Common
<1>3. \A r \in References, object \in BOOLEAN : /\ Dropped(r, object) \in Notice /\ Dropped(r, object).type = "dropped"
                                                /\ Dropped(r, object).ref = r /\ Dropped(r, object).rows = NoRows
                                                /\ Dropped(r, object).object = object
  BY <1>1 DEF Dropped, Notice
<1>4. \A r \in References, object \in BOOLEAN : (object <=> r \in Common) => Dropped(r, object) \in Told
  BY <1>1, <1>3 DEF Told
<1>5. \A r \in References, object, tagged \in BOOLEAN :
         /\ PickUp(r, object, tagged) \in Notice /\ PickUp(r, object, tagged).type = "pickup"
         /\ PickUp(r, object, tagged).ref = r /\ PickUp(r, object, tagged).rows = NoRows
         /\ PickUp(r, object, tagged).tagged = tagged
  BY <1>1 DEF PickUp, Notice
<1>6. \A r \in References, object, tagged \in BOOLEAN : (r \in Common \/ tagged) => PickUp(r, object, tagged) \in Told
  BY <1>1, <1>5 DEF Told
<1>7. \A t \in Applied : Changes(t) \in Notice /\ Changes(t).type = "changes" /\ Changes(t).rows = t /\ t.new \subseteq Common
  BY DEF Changes, Notice, Applied
<1>8. \A t \in Applied : Changes(t) \in Told
  BY <1>7 DEF Told
<1>9. \A r \in References, tagged \in BOOLEAN :
         /\ Request("drop", r, tagged) \in Posted /\ Request("take", r, tagged) \in Posted
         /\ Request("drop", r, tagged).type = "drop" /\ Request("drop", r, tagged).ref = r
         /\ Request("take", r, tagged).type = "take"
  BY DEF Request, Requests, Posted
<1>10. Request("cell", NoReference, FALSE) \in Posted /\ Request("cell", NoReference, FALSE).type = "cell"
  BY DEF Request, Requests, Posted
<1>11. \A r \in References, object \in BOOLEAN :
          (object <=> r \in Common) => Dropped(r, object) \in Told /\ Dropped(r, object).type = "dropped" /\ Dropped(r, object).ref = r
  BY <1>3, <1>4, Zenon
<1>12. \A r \in References, object, tagged \in BOOLEAN :
          (r \in Common \/ tagged) => PickUp(r, object, tagged) \in Told /\ PickUp(r, object, tagged).type = "pickup"
                                      /\ PickUp(r, object, tagged).ref = r
  BY <1>5, <1>6, SMT
<1>13. \A t \in Applied : Changes(t) \in Told /\ Changes(t).type = "changes" /\ Changes(t).rows.new = t.new
  BY <1>7, <1>8
<1>. QED BY <1>1, <1>2, <1>9, <1>10, <1>11, <1>12, <1>13, Zenon

-----------------------------------------------------------------------------
\* Types.

Twins == Common \X {"drop", "create"}

PlayerTypes ==
    /\ here \in SUBSET Guests /\ drops \in 0 .. MaxDrops /\ start \in Starts
    /\ inv \in [Players -> SUBSET Items] /\ inv[Host] \cap Foreign = {}
HostTypes ==
    /\ loaded \in BOOLEAN /\ world \in SUBSET Common /\ deleted \in SUBSET Common
    /\ log \in SUBSET Common /\ out \in SUBSET Common
WaitTypes == pending \in Seq(Waitings) /\ Len(pending) <= kMaxPending
Waiters == Sent(pending)
RuleTypes ==
    /\ WaitTypes /\ \A d \in Waiters : d.player \in here
    /\ made \in SUBSET (here \X References) /\ cells \in SUBSET here /\ forgotten \in SUBSET References
GameTypes ==
    /\ shown \in [Guests -> SUBSET Handles] /\ own \in [Guests -> SUBSET References]
    /\ created \in [Guests -> SUBSET Twins] /\ taken \in [Guests -> SUBSET References]
    /\ \A g \in Guests : \A h, k \in created[g] : h[1] = k[1] => h = k
TaskTypes == tasks \in [Guests -> Seq(Applied)]
UpTypes == up \in [Guests -> Seq(Posted)]
DownTypes == down \in [Guests -> Seq(Told)]

\* A guest that is not connected has sent nothing and is told nothing.
Away == \A g \in Guests \ here : up[g] = <<>> /\ down[g] = <<>> /\ tasks[g] = <<>>
AllTypes ==
    PlayerTypes /\ HostTypes /\ RuleTypes /\ GameTypes /\ TaskTypes /\ UpTypes /\ DownTypes /\ Away

\* What a guest was answered, and the rows its main loop has yet to apply.
Ans(g) == Refs(down[g], "dropped")
Heard(g) == News(down[g])
HeardEarly(g) == Early(down[g])
Queued(g) == UNION {t.new : t \in ToSet(tasks[g])}
DropsOnce(g) == Once(up[g], "drop")
GrantsOnce(g) == Once(down[g], "pickup")
Grown(g, answers, grants, new) == Grew(down[g], down'[g], answers, grants, new)

\* References and handles.
LEMMA Pairs ==
    /\ \A r \in References : Of(r) = r[1] /\ r[1] \in Items /\ r[2] \in 1 .. MaxDrops /\ r = <<r[1], r[2]>>
    /\ \A i \in Items, n \in 1 .. MaxDrops : <<i, n>> \in References /\ Of(<<i, n>>) = i /\ <<i, n>>[2] = n
    /\ \A r : Own(r)[1] = r /\ Twin(r)[1] = r /\ Own(r)[2] = "drop" /\ Twin(r)[2] = "create"
    /\ \A r \in References : Own(r) \in Handles /\ Twin(r) \in Handles
    /\ \A r \in Common : r \in References /\ Of(r) \notin Foreign /\ Own(r) \in Twins /\ Twin(r) \in Twins
    /\ \A r \in References \ Common : Of(r) \in Foreign
    /\ \A h \in Twins : h \in Handles /\ h[1] \in Common
    /\ \A h \in Handles : h[1] \in References /\ (h[2] = "drop" => h = Own(h[1])) /\ (h[2] = "create" => h = Twin(h[1]))
                          /\ h[2] \in {"drop", "create"}
BY DEF References, Of, Own, Twin, Handles, Twins, Common

\* How the requests of a game change.
LEMMA UpSame ==
    ASSUME UpTypes, up' = up
    PROVE  UpTypes' /\ \A g \in Guests : Unanswered(g)' = Unanswered(g) /\ (DropsOnce(g)' <=> DropsOnce(g)) /\ up'[g] = up[g]
BY Zenon DEF UpTypes, Unanswered, DropsOnce

\* A game asks the host: its request is the last.
LEMMA UpAsks ==
    ASSUME UpTypes, NEW g \in Guests, NEW m \in Posted, Asks(g, m)
    PROVE  /\ UpTypes' /\ \A k \in Guests \ {g} : Unanswered(k)' = Unanswered(k) /\ (DropsOnce(k) => DropsOnce(k)') /\ up'[k] = up[k]
           /\ Unanswered(g)' = Unanswered(g) \cup (IF m.type = "drop" THEN {m.ref} ELSE {})
           /\ DropsOnce(g) /\ (m.type = "drop" => m.ref \notin Unanswered(g)) => DropsOnce(g)'
<1>1. up' = [up EXCEPT ![g] = Append(up[g], m)] /\ up \in [Guests -> Seq(Posted)]
  BY Zenon DEF Asks, UpTypes
<1>2. PICK s, t : s = up[g] /\ t = Append(s, m)
  OBVIOUS
<1>3. s \in Seq(Posted)
  BY <1>1, <1>2
<1>4. /\ t \in Seq(Posted)
      /\ Refs(t, "drop") = Refs(s, "drop") \cup (IF m.type = "drop" THEN {m.ref} ELSE {})
      /\ Once(s, "drop") /\ (m.type = "drop" => m.ref \notin Refs(s, "drop")) => Once(t, "drop")
  BY <1>2, <1>3, AppendRefs
<1>5. up' = [up EXCEPT ![g] = t]
  BY <1>1, <1>2, Zenon
<1>6. up'[g] = t /\ (\A k \in Guests \ {g} : up'[k] = up[k]) /\ up' \in [Guests -> Seq(Posted)]
  BY <1>1, <1>4, <1>5
<1>7. Unanswered(g) = Refs(s, "drop") /\ (DropsOnce(g) <=> Once(s, "drop"))
  BY <1>2, Zenon DEF Unanswered, Refs, DropsOnce
<1>8. Unanswered(g)' = Refs(t, "drop") /\ (DropsOnce(g)' <=> Once(t, "drop"))
  BY <1>6, Zenon DEF Unanswered, Refs, DropsOnce
<1>9. \A k \in Guests \ {g} : Unanswered(k)' = Unanswered(k) /\ (DropsOnce(k) => DropsOnce(k)') /\ up'[k] = up[k]
  BY <1>6, Zenon DEF Unanswered, DropsOnce
<1>. QED BY <1>4, <1>6, <1>7, <1>8, <1>9 DEF UpTypes

\* The host read the first request of a game.
LEMMA UpRead ==
    ASSUME UpTypes, NEW g \in Guests, up[g] # <<>>, up' = [up EXCEPT ![g] = Tail(@)]
    PROVE  /\ UpTypes' /\ \A k \in Guests \ {g} : Unanswered(k)' = Unanswered(k) /\ (DropsOnce(k) => DropsOnce(k)') /\ up'[k] = up[k]
           /\ Head(up[g]) \in Posted
           /\ DropsOnce(g) => DropsOnce(g)' /\ Unanswered(g)' = Unanswered(g) \ (IF Head(up[g]).type = "drop" THEN {Head(up[g]).ref} ELSE {})
           /\ Head(up[g]).type = "drop" => Head(up[g]).ref \in Unanswered(g)
<1>1. up' = [up EXCEPT ![g] = Tail(up[g])] /\ up \in [Guests -> Seq(Posted)]
  BY Zenon DEF UpTypes
<1>2. PICK s, t, h : s = up[g] /\ t = Tail(s) /\ h = Head(s)
  OBVIOUS
<1>3. s \in Seq(Posted) /\ s # <<>>
  BY <1>1, <1>2
<1>4. /\ t \in Seq(Posted) /\ h \in Posted /\ Refs(t, "drop") \subseteq Refs(s, "drop")
      /\ Refs(s, "drop") \subseteq Refs(t, "drop") \cup (IF h.type = "drop" THEN {h.ref} ELSE {})
      /\ h.type = "drop" => h.ref \in Refs(s, "drop")
      /\ Once(s, "drop") => Once(t, "drop") /\ (h.type = "drop" => h.ref \notin Refs(t, "drop"))
  BY <1>2, <1>3, TailRefs
<1>5. up' = [up EXCEPT ![g] = t]
  BY <1>1, <1>2, Zenon
<1>6. up'[g] = t /\ (\A k \in Guests \ {g} : up'[k] = up[k]) /\ up' \in [Guests -> Seq(Posted)]
  BY <1>1, <1>4, <1>5
<1>7. Unanswered(g) = Refs(s, "drop") /\ (DropsOnce(g) <=> Once(s, "drop"))
  BY <1>2, Zenon DEF Unanswered, Refs, DropsOnce
<1>8. Unanswered(g)' = Refs(t, "drop") /\ (DropsOnce(g)' <=> Once(t, "drop"))
  BY <1>6, Zenon DEF Unanswered, Refs, DropsOnce
<1>9. \A k \in Guests \ {g} : Unanswered(k)' = Unanswered(k) /\ (DropsOnce(k) => DropsOnce(k)') /\ up'[k] = up[k]
  BY <1>6, Zenon DEF Unanswered, DropsOnce
<1>10. h = Head(up[g])
  BY <1>2, Zenon
<1>11. Once(s, "drop") => Refs(t, "drop") = Refs(s, "drop") \ (IF h.type = "drop" THEN {h.ref} ELSE {})
  BY <1>4
<1>12. UpTypes'
  BY <1>6, Zenon DEF UpTypes
<1>13. /\ DropsOnce(g) => DropsOnce(g)' /\ Unanswered(g)' = Unanswered(g) \ (IF h.type = "drop" THEN {h.ref} ELSE {})
       /\ h.type = "drop" => h.ref \in Unanswered(g)
  BY <1>4, <1>7, <1>8, <1>11
<1>. QED BY <1>4, <1>9, <1>10, <1>12, <1>13, Zenon

\* How the notices to a game change.
LEMMA GrownFacts ==
    ASSUME NEW g, NEW answers, NEW grants, NEW new, Grown(g, answers, grants, new)
    PROVE  /\ Ans(g)' = Ans(g) \cup answers /\ Grants(g)' = Grants(g) \cup grants
           /\ Heard(g)' \subseteq Heard(g) \cup new /\ HeardEarly(g)' \subseteq HeardEarly(g) \cup (new \ Ans(g))
           /\ GrantsOnce(g) /\ grants \cap Grants(g) = {} => GrantsOnce(g)'
<1>1. Grants(g) = Refs(down[g], "pickup") /\ Grants(g)' = Refs(down'[g], "pickup")
  BY Zenon DEF Grants, Refs
<1>. QED BY <1>1 DEF Grown, Grew, Ans, Heard, HeardEarly, GrantsOnce

\* No notice was sent, none read.
LEMMA DownSame ==
    ASSUME DownTypes, down' = down
    PROVE  DownTypes' /\ \A g \in Guests : down'[g] = down[g] /\ Grown(g, {}, {}, {})
BY GrewSame, Zenon DEF DownTypes, Grown

\* A game is sent a notice.
LEMMA DownTells ==
    ASSUME DownTypes, NEW g \in Guests, NEW m \in Told, down' = [down EXCEPT ![g] = Append(@, m)]
    PROVE  /\ DownTypes' /\ \A k \in Guests \ {g} : down'[k] = down[k] /\ Grown(k, {}, {}, {})
           /\ Grown(g, IF m.type = "dropped" THEN {m.ref} ELSE {}, IF m.type = "pickup" THEN {m.ref} ELSE {},
                    IF m.type = "changes" THEN m.rows.new ELSE {})
<1>1. down' = [down EXCEPT ![g] = Append(down[g], m)] /\ down \in [Guests -> Seq(Told)]
  BY Zenon DEF DownTypes
<1>2. PICK s, t : s = down[g] /\ t = Append(s, m)
  OBVIOUS
<1>3. s \in Seq(Told)
  BY <1>1, <1>2
<1>4. /\ t \in Seq(Told)
      /\ Grew(s, t, IF m.type = "dropped" THEN {m.ref} ELSE {}, IF m.type = "pickup" THEN {m.ref} ELSE {},
              IF m.type = "changes" THEN m.rows.new ELSE {})
  BY <1>2, <1>3, GrewAppend, AppendFacts, Zenon
<1>5. down' = [down EXCEPT ![g] = t]
  BY <1>1, <1>2, Zenon
<1>6. down'[g] = t /\ (\A k \in Guests \ {g} : down'[k] = down[k]) /\ down' \in [Guests -> Seq(Told)]
  BY <1>1, <1>4, <1>5
<1>. QED BY <1>2, <1>4, <1>6, GrewSame, Zenon DEF Grown, DownTypes

\* A game read its first notice; the others' are what they were.
LEMMA DownRead ==
    ASSUME DownTypes, NEW g \in Guests, down[g] # <<>>, down' = [down EXCEPT ![g] = Tail(@)]
    PROVE  /\ DownTypes' /\ \A k \in Guests \ {g} : down'[k] = down[k] /\ Grown(k, {}, {}, {})
           /\ Head(down[g]) \in Told
           /\ Ans(g)' \subseteq Ans(g) /\ Heard(g)' \subseteq Heard(g)
           /\ Ans(g) \subseteq Ans(g)' \cup (IF Head(down[g]).type = "dropped" THEN {Head(down[g]).ref} ELSE {})
           /\ HeardEarly(g)' \subseteq HeardEarly(g) \cup (IF Head(down[g]).type = "dropped" THEN {Head(down[g]).ref} ELSE {})
           /\ GrantsOnce(g) => /\ GrantsOnce(g)'
                               /\ Grants(g)' = Grants(g) \ (IF Head(down[g]).type = "pickup" THEN {Head(down[g]).ref} ELSE {})
           /\ Head(down[g]).type = "pickup" => Head(down[g]).ref \in Grants(g)
           /\ Head(down[g]).type = "dropped" => Head(down[g]).ref \in Ans(g)
           /\ Head(down[g]).type = "changes" => Head(down[g]).rows.new \cap References \subseteq HeardEarly(g) \cap Heard(g)
<1>1. down' = [down EXCEPT ![g] = Tail(down[g])] /\ down \in [Guests -> Seq(Told)]
  BY Zenon DEF DownTypes
<1>2. PICK s, t, h : s = down[g] /\ t = Tail(s) /\ h = Head(s)
  OBVIOUS
<1>3. s \in Seq(Told) /\ s # <<>>
  BY <1>1, <1>2
<1>4. \A type : /\ t \in Seq(Told) /\ h \in Told /\ Refs(t, type) \subseteq Refs(s, type)
                /\ Refs(s, type) \subseteq Refs(t, type) \cup (IF h.type = type THEN {h.ref} ELSE {})
                /\ h.type = type => h.ref \in Refs(s, type)
                /\ Once(s, type) => Once(t, type) /\ (h.type = type => h.ref \notin Refs(t, type))
  BY <1>2, <1>3, TailRefs
<1>5. /\ News(t) \subseteq News(s)
      /\ Early(t) \subseteq Early(s) \cup (IF h.type = "dropped" THEN {h.ref} ELSE {})
      /\ h.type = "changes" => h.rows.new \cap References \subseteq Early(s) \cap News(s)
  BY <1>2, <1>3, ReadRows
<1>6. down' = [down EXCEPT ![g] = t]
  BY <1>1, <1>2, Zenon
<1>7. down'[g] = t /\ (\A k \in Guests \ {g} : down'[k] = down[k]) /\ down' \in [Guests -> Seq(Told)]
  BY <1>1, <1>4, <1>6
<1>8. /\ Grants(g) = Refs(s, "pickup") /\ (GrantsOnce(g) <=> Once(s, "pickup")) /\ Ans(g) = Refs(s, "dropped")
      /\ Heard(g) = News(s) /\ HeardEarly(g) = Early(s)
  BY <1>2, Zenon DEF Grants, Refs, GrantsOnce, Ans, Heard, HeardEarly
<1>9. /\ Grants(g)' = Refs(t, "pickup") /\ (GrantsOnce(g)' <=> Once(t, "pickup")) /\ Ans(g)' = Refs(t, "dropped")
      /\ Heard(g)' = News(t) /\ HeardEarly(g)' = Early(t)
  BY <1>7, Zenon DEF Grants, Refs, GrantsOnce, Ans, Heard, HeardEarly
<1>10. h = Head(down[g])
  BY <1>2, Zenon
<1>11. Once(s, "pickup") => /\ Once(t, "pickup")
                            /\ Refs(t, "pickup") = Refs(s, "pickup") \ (IF h.type = "pickup" THEN {h.ref} ELSE {})
  BY <1>4
<1>12. /\ Ans(g)' \subseteq Ans(g) /\ Ans(g) \subseteq Ans(g)' \cup (IF h.type = "dropped" THEN {h.ref} ELSE {})
       /\ h.type = "dropped" => h.ref \in Ans(g)
       /\ h.type = "pickup" => h.ref \in Grants(g)
  BY <1>4, <1>8, <1>9
<1>13. /\ Heard(g)' \subseteq Heard(g)
       /\ HeardEarly(g)' \subseteq HeardEarly(g) \cup (IF h.type = "dropped" THEN {h.ref} ELSE {})
       /\ h.type = "changes" => h.rows.new \cap References \subseteq HeardEarly(g) \cap Heard(g)
  BY <1>5, <1>8, <1>9, Zenon
<1>14. GrantsOnce(g) => GrantsOnce(g)' /\ Grants(g)' = Grants(g) \ (IF h.type = "pickup" THEN {h.ref} ELSE {})
  BY <1>8, <1>9, <1>11, Zenon
<1>15. DownTypes' /\ \A k \in Guests \ {g} : down'[k] = down[k] /\ Grown(k, {}, {}, {})
  BY <1>7, GrewSame, Zenon DEF DownTypes, Grown
<1>16. h \in Told
  BY <1>4, Zenon
<1>. QED BY <1>10, <1>12, <1>13, <1>14, <1>15, <1>16, Zenon

\* How a game's tasks change: none, or one more from the notice it reads, or one less.
LEMMA TasksSame ==
    ASSUME TaskTypes, tasks' = tasks
    PROVE  TaskTypes' /\ \A g \in Guests : tasks'[g] = tasks[g] /\ Queued(g)' = Queued(g)
BY Zenon DEF TaskTypes, Queued

\* Rows a game was told of are a task of its main loop.
LEMMA TasksAdd ==
    ASSUME TaskTypes, NEW g \in Guests, NEW m \in Applied, tasks' = [tasks EXCEPT ![g] = Append(@, m)]
    PROVE  /\ TaskTypes' /\ \A k \in Guests \ {g} : tasks'[k] = tasks[k] /\ Queued(k)' = Queued(k)
           /\ Queued(g)' = Queued(g) \cup m.new
<1>1. tasks' = [tasks EXCEPT ![g] = Append(tasks[g], m)] /\ tasks \in [Guests -> Seq(Applied)]
  BY Zenon DEF TaskTypes
<1>2. PICK s, t : s = tasks[g] /\ t = Append(s, m)
  OBVIOUS
<1>3. s \in Seq(Applied)
  BY <1>1, <1>2
<1>4. t \in Seq(Applied) /\ Sent(t) = Sent(s) \cup {m}
  BY <1>2, <1>3, SentAppend
<1>5. tasks' = [tasks EXCEPT ![g] = t]
  BY <1>1, <1>2, Zenon
<1>6. tasks'[g] = t /\ (\A k \in Guests \ {g} : tasks'[k] = tasks[k]) /\ tasks' \in [Guests -> Seq(Applied)]
  BY <1>1, <1>4, <1>5
<1>7. Queued(g) = UNION {e.new : e \in Sent(s)}
  BY <1>2, ToSetIsSent, Zenon DEF Queued
<1>8. Queued(g)' = UNION {e.new : e \in Sent(t)}
  BY <1>6, ToSetIsSent, Zenon DEF Queued
<1>9. Queued(g)' = Queued(g) \cup m.new
  BY <1>4, <1>7, <1>8
<1>. QED BY <1>6, <1>9, Zenon DEF TaskTypes, Queued

\* A game's main loop took its first task.
LEMMA TasksRead ==
    ASSUME TaskTypes, NEW g \in Guests, tasks[g] # <<>>, tasks' = [tasks EXCEPT ![g] = Tail(@)]
    PROVE  /\ TaskTypes' /\ \A k \in Guests \ {g} : tasks'[k] = tasks[k] /\ Queued(k)' = Queued(k)
           /\ Head(tasks[g]) \in Applied /\ Queued(g)' \subseteq Queued(g) /\ Head(tasks[g]).new \subseteq Queued(g)
<1>1. tasks' = [tasks EXCEPT ![g] = Tail(tasks[g])] /\ tasks \in [Guests -> Seq(Applied)]
  BY Zenon DEF TaskTypes
<1>2. PICK s, t, h : s = tasks[g] /\ t = Tail(s) /\ h = Head(s)
  OBVIOUS
<1>3. s \in Seq(Applied) /\ s # <<>>
  BY <1>1, <1>2
<1>4. t \in Seq(Applied) /\ h \in Applied /\ h \in Sent(s) /\ Sent(t) \subseteq Sent(s)
  BY <1>2, <1>3, SentRead
<1>5. tasks' = [tasks EXCEPT ![g] = t]
  BY <1>1, <1>2, Zenon
<1>6. tasks'[g] = t /\ (\A k \in Guests \ {g} : tasks'[k] = tasks[k]) /\ tasks' \in [Guests -> Seq(Applied)]
  BY <1>1, <1>4, <1>5
<1>7. Queued(g) = UNION {e.new : e \in Sent(s)}
  BY <1>2, ToSetIsSent, Zenon DEF Queued
<1>8. Queued(g)' = UNION {e.new : e \in Sent(t)}
  BY <1>6, ToSetIsSent, Zenon DEF Queued
<1>9. Queued(g)' \subseteq Queued(g) /\ h.new \subseteq Queued(g)
  BY <1>4, <1>7, <1>8
<1>10. h = Head(tasks[g])
  BY <1>2, Zenon
<1>11. TaskTypes' /\ \A k \in Guests \ {g} : tasks'[k] = tasks[k] /\ Queued(k)' = Queued(k)
  BY <1>6, Zenon DEF TaskTypes, Queued
<1>. QED BY <1>4, <1>9, <1>10, <1>11, Zenon

\* How the drops that wait change.
WaitsOnce == \A m, n \in DOMAIN pending : pending[m].ref = pending[n].ref => m = n

\* The references that wait are those of the drops that wait.
LEMMA WaitsAre == Waits = {d.ref : d \in Waiters} /\ Waits' = {d.ref : d \in Waiters'}
BY DEF Waits, Waiters, Sent, ToSet

\* A drop that waits is a guest's, of a reference.
LEMMA WaitersAre == WaitTypes => Waiters \subseteq Waitings /\ \A d \in Waiters : d.player \in Guests /\ d.ref \in References
<1>1. ASSUME WaitTypes PROVE Waiters \subseteq Waitings
  BY <1>1, SentFew DEF WaitTypes, Waiters
<1>. QED BY <1>1 DEF Waitings

\* The rule's queue of drops is left alone.
LEMMA WaitsSame ==
    ASSUME WaitTypes, pending' = pending
    PROVE  WaitTypes' /\ Waiters' = Waiters /\ Waits' = Waits /\ (WaitsOnce' <=> WaitsOnce)
BY Zenon DEF WaitTypes, Waiters, Waits, WaitsOnce

\* Drops are taken out of the queue (std::erase_if).
LEMMA WaitsOnly ==
    ASSUME WaitTypes, NEW S, pending' = Only(pending, S)
    PROVE  WaitTypes' /\ Waiters' = Waiters \cap S /\ (WaitsOnce => WaitsOnce')
<1>1. PICK s, r : s = pending /\ r = Only(s, S)
  OBVIOUS
<1>2. s \in Seq(Waitings) /\ Len(s) <= kMaxPending /\ r = pending'
  BY <1>1 DEF WaitTypes
<1>3. /\ r \in Seq(Waitings) /\ Sent(r) = Sent(s) \cap S /\ Len(r) <= Len(s)
      /\ \A a, b \in DOMAIN r : \E k, l \in DOMAIN s : r[a] = s[k] /\ r[b] = s[l] /\ (k = l => a = b)
  <2>1. /\ Only(s, S) \in Seq(Waitings) /\ Sent(Only(s, S)) = Sent(s) \cap S /\ Len(Only(s, S)) <= Len(s)
        /\ \A a, b \in DOMAIN Only(s, S) : \E k, l \in DOMAIN s :
              Only(s, S)[a] = s[k] /\ Only(s, S)[b] = s[l] /\ (k = l => a = b)
    BY <1>2, OnlyFacts
  <2>2. r = Only(s, S)
    BY <1>1
  <2>. QED BY <2>1, <2>2
<1>4. Len(r) <= kMaxPending
  <2>1. Len(r) \in Nat /\ Len(s) \in Nat
    BY <1>2, <1>3, LenProperties
  <2>. QED BY <1>2, <1>3, <2>1, BoundsAssumption
<1>5. WaitsOnce => WaitsOnce'
  <2>1. ASSUME \A m, n \in DOMAIN s : s[m].ref = s[n].ref => m = n
        PROVE  \A m, n \in DOMAIN r : r[m].ref = r[n].ref => m = n
    <3>1. ASSUME NEW m \in DOMAIN r, NEW n \in DOMAIN r, r[m].ref = r[n].ref PROVE m = n
      <4>1. PICK k \in DOMAIN s, l \in DOMAIN s : r[m] = s[k] /\ r[n] = s[l] /\ (k = l => m = n)
        BY <1>3, Zenon
      <4>2. k = l
        BY <2>1, <3>1, <4>1
      <4>. QED BY <4>1, <4>2
    <3>. QED BY <3>1
  <2>. QED BY <1>1, <1>2, <2>1, Zenon DEF WaitsOnce
<1>. QED BY <1>1, <1>2, <1>3, <1>4, <1>5, Zenon DEF WaitTypes, Waiters

\* The queue is emptied: what waited is made.
LEMMA WaitsNone ==
    ASSUME pending' = <<>>
    PROVE  WaitTypes' /\ Waiters' = {} /\ WaitsOnce'
<1>1. <<>> \in Seq(Waitings) /\ Len(<<>>) <= kMaxPending
  BY BoundsAssumption
<1>2. Sent(<<>>) = {}
  BY SentFew
<1>3. DOMAIN pending' = {}
  OBVIOUS
<1>. QED BY <1>1, <1>2, <1>3, Zenon DEF WaitTypes, Waiters, WaitsOnce

\* A drop that waits, and those kept of the ones that did (HostItems::OnDrop).
LEMMA WaitsMore ==
    ASSUME WaitTypes, NEW d \in Waitings, pending' = Append(Kept, d)
    PROVE  /\ WaitTypes' /\ ToSet(Kept) \subseteq Waiters /\ Waiters' = ToSet(Kept) \cup {d}
           /\ WaitsOnce /\ d.ref \notin Waits => WaitsOnce'
<1>1. PICK s, t : s = pending /\ t = Kept
  OBVIOUS
<1>2. s \in Seq(Waitings) /\ Len(s) \in Nat /\ Len(s) <= kMaxPending
  BY <1>1, LenProperties DEF WaitTypes
<1>3. kMaxPending \in Nat \ {0}
  BY BoundsAssumption
<1>4. /\ t \in Seq(Waitings) /\ Len(t) < kMaxPending /\ Sent(t) \subseteq Sent(s)
      /\ \A m, n \in DOMAIN t : \E k, l \in DOMAIN s : t[m] = s[k] /\ t[n] = s[l] /\ (k = l => m = n)
  <2>1. CASE Len(s) < kMaxPending
    <3>1. t = s
      BY <1>1, <2>1, Zenon DEF Kept
    <3>. QED BY <1>2, <2>1, <3>1
  <2>2. CASE ~(Len(s) < kMaxPending)
    <3>1. t = Tail(s)
      BY <1>1, <2>2, Zenon DEF Kept
    <3>2. s # <<>>
      BY <1>2, <1>3, <2>2
    <3>3. FirstTaken(s, t) /\ t \in Seq(Waitings)
      BY <1>2, <3>1, <3>2, ReadFacts
    <3>4. Len(t) = Len(s) - 1
      BY <1>2, <3>1, <3>2, HeadTailProperties
    <3>5. \A m \in DOMAIN t : m \in Nat /\ m + 1 \in DOMAIN s /\ t[m] = s[m + 1]
      BY <3>3 DEF FirstTaken
    <3>6. \A m, n \in DOMAIN t : m + 1 = n + 1 => m = n
      BY <3>5
    <3>7. \A m, n \in DOMAIN t : \E k, l \in DOMAIN s : t[m] = s[k] /\ t[n] = s[l] /\ (k = l => m = n)
      BY <3>5, <3>6, Zenon
    <3>8. Sent(t) \subseteq Sent(s)
      BY <3>3, ReadSent
    <3>. QED BY <1>2, <1>3, <3>3, <3>4, <3>7, <3>8
  <2>. QED BY <2>1, <2>2
<1>5. PICK r : r = Append(t, d)
  OBVIOUS
<1>6. pending' = r
  BY <1>1, <1>5, Zenon
<1>7. r \in Seq(Waitings) /\ Sent(r) = Sent(t) \cup {d}
  BY <1>4, <1>5, SentAppend
<1>8. Len(r) = Len(t) + 1 /\ Len(t) \in Nat
  BY <1>4, <1>5, LenProperties
<1>9. Len(r) <= kMaxPending
  BY <1>3, <1>4, <1>8
<1>10. ASSUME WaitsOnce, d.ref \notin Waits PROVE WaitsOnce'
  <2>1. Joined(t, <<d>>, r)
    BY <1>4, <1>5, AppendFacts
  <2>2. ASSUME NEW m \in DOMAIN r PROVE (m \in DOMAIN t /\ r[m] = t[m]) \/ (m = Len(t) + 1 /\ r[m] = d)
    <3>1. CASE m \in DOMAIN t
      BY <2>1, <3>1 DEF Joined
    <3>2. CASE m \notin DOMAIN t
      BY <2>1, <3>2 DEF Joined
    <3>. QED BY <3>1, <3>2
  <2>3. \A m \in DOMAIN t : t[m] \in Sent(s)
    BY <1>4 DEF Sent
  <2>4. \A m \in DOMAIN t : t[m].ref # d.ref
    BY <1>1, <1>10, <2>3, WaitsAre DEF Waiters
  <2>5. \A m, n \in DOMAIN t : t[m].ref = t[n].ref => m = n
    <3>1. ASSUME NEW m \in DOMAIN t, NEW n \in DOMAIN t, t[m].ref = t[n].ref PROVE m = n
      <4>1. PICK k \in DOMAIN s, l \in DOMAIN s : t[m] = s[k] /\ t[n] = s[l] /\ (k = l => m = n)
        BY <1>4, Zenon
      <4>2. k = l
        BY <1>1, <1>10, <3>1, <4>1 DEF WaitsOnce
      <4>. QED BY <4>1, <4>2
    <3>. QED BY <3>1
  <2>6. \A m, n \in DOMAIN r : r[m].ref = r[n].ref => m = n
    BY <2>2, <2>4, <2>5
  <2>. QED BY <1>6, <2>6, Zenon DEF WaitsOnce
<1>11. ToSet(Kept) = Sent(t)
  BY <1>1, ToSetIsSent
<1>. QED BY <1>1, <1>4, <1>6, <1>7, <1>9, <1>10, <1>11, Zenon DEF WaitTypes, Waiters

\* At most one drop, the oldest, is forgotten at once (HostItems::OnDrop).
LEMMA KeptButOne == WaitTypes => \E e : Waiters \subseteq ToSet(Kept) \cup {e}
<1>1. HAVE WaitTypes
<1>2. PICK s, t : s = pending /\ t = Kept
  OBVIOUS
<1>3. s \in Seq(Waitings) /\ Waiters = Sent(s) /\ ToSet(Kept) = Sent(t)
  BY <1>1, <1>2, ToSetIsSent, Zenon DEF WaitTypes, Waiters
<1>4. CASE Len(s) < kMaxPending
  <2>1. t = s
    BY <1>2, <1>4, Zenon DEF Kept
  <2>. QED BY <1>3, <2>1
<1>5. CASE ~(Len(s) < kMaxPending)
  <2>1. t = Tail(s)
    BY <1>2, <1>5, Zenon DEF Kept
  <2>2. s # <<>>
    BY <1>3, <1>5, BoundsAssumption
  <2>3. Sent(s) \subseteq Sent(t) \cup {Head(s)}
    BY <1>3, <2>1, <2>2, SentRead
  <2>. QED BY <1>3, <2>3
<1>. QED BY <1>4, <1>5

-----------------------------------------------------------------------------
\* What each action does, and that it keeps the types.

UpStays == \A g \in Guests : Unanswered(g)' = Unanswered(g) /\ (DropsOnce(g) => DropsOnce(g)')
DownStays == \A g \in Guests : Grown(g, {}, {}, {})
TasksStay == \A g \in Guests : Queued(g)' = Queued(g)
WaitsStay == Waiters' = Waiters /\ Waits' = Waits /\ (WaitsOnce => WaitsOnce')

\* The wire, the tasks and the waiting drops, where an action leaves them alone.
LEMMA Stays ==
    /\ UpTypes /\ up' = up => UpTypes' /\ UpStays
    /\ DownTypes /\ down' = down => DownTypes' /\ DownStays
    /\ TaskTypes /\ tasks' = tasks => TaskTypes' /\ TasksStay
    /\ WaitTypes /\ pending' = pending => WaitTypes' /\ WaitsStay
    /\ Away /\ up' = up /\ down' = down /\ tasks' = tasks /\ here' = here => Away'
    /\ RuleTypes /\ pending' = pending /\ made' = made /\ cells' = cells /\ forgotten' = forgotten /\ here' = here => RuleTypes'
    /\ GameTypes /\ shown' = shown /\ own' = own /\ created' = created /\ taken' = taken => GameTypes'
<1>1. ASSUME UpTypes, up' = up PROVE UpTypes' /\ UpStays
  BY <1>1, UpSame, Zenon DEF UpStays
<1>2. ASSUME DownTypes, down' = down PROVE DownTypes' /\ DownStays
  BY <1>2, DownSame, Zenon DEF DownStays
<1>3. ASSUME TaskTypes, tasks' = tasks PROVE TaskTypes' /\ TasksStay
  BY <1>3, TasksSame, Zenon DEF TasksStay
<1>4. ASSUME WaitTypes, pending' = pending PROVE WaitTypes' /\ WaitsStay
  BY <1>4, WaitsSame, Zenon DEF WaitsStay
<1>5. ASSUME Away, up' = up, down' = down, tasks' = tasks, here' = here PROVE Away'
  BY <1>5, Zenon DEF Away
<1>6. ASSUME RuleTypes, pending' = pending, made' = made, cells' = cells, forgotten' = forgotten, here' = here PROVE RuleTypes'
  BY <1>6, Zenon DEF RuleTypes, WaitTypes, Waiters
<1>7. ASSUME GameTypes, shown' = shown, own' = own, created' = created, taken' = taken PROVE GameTypes'
  BY <1>7, Zenon DEF GameTypes
<1>. QED BY <1>1, <1>2, <1>3, <1>4, <1>5, <1>6, <1>7, Zenon

\* HostDrops: the item of the host's player is a new reference of its game.
LEMMA HostDropsDoes ==
    ASSUME AllTypes, NEW i \in Items, HostDrops(i)
    PROVE  /\ AllTypes' /\ UpStays /\ DownStays /\ TasksStay /\ WaitsStay
           /\ i \in inv[Host] /\ inv' = [inv EXCEPT ![Host] = @ \ {i}]
           /\ \E r \in Common : /\ Of(r) = i /\ r[2] = drops + 1 /\ drops' = drops + 1
                                /\ world' = world \cup {r} /\ log' = log \cup {r}
           /\ UNCHANGED <<here, deleted, out, forgotten, shown, own, created, start>>
<1>1. PICK r : r = <<i, drops + 1>>
  OBVIOUS
<1>2. /\ i \in inv[Host] /\ drops < MaxDrops /\ drops' = drops + 1 /\ inv' = [inv EXCEPT ![Host] = @ \ {i}]
      /\ world' = world \cup {r} /\ log' = log \cup {r}
      /\ here' = here /\ loaded' = loaded /\ deleted' = deleted /\ out' = out
      /\ pending' = pending /\ made' = made /\ cells' = cells /\ forgotten' = forgotten /\ start' = start
      /\ shown' = shown /\ own' = own /\ created' = created /\ taken' = taken /\ tasks' = tasks
      /\ up' = up /\ down' = down
  BY <1>1, Zenon DEF HostDrops, rule, game, history
<1>3. drops + 1 \in 1 .. MaxDrops
  BY <1>2, BoundsAssumption DEF AllTypes, PlayerTypes
<1>4. r \in References /\ Of(r) = i /\ r[2] = drops + 1
  BY <1>1, <1>3, Pairs
<1>5. i \notin Foreign
  BY <1>2 DEF AllTypes, PlayerTypes
<1>6. r \in Common
  BY <1>4, <1>5 DEF Common
<1>7. PlayerTypes'
  BY <1>2, <1>3, BoundsAssumption DEF AllTypes, PlayerTypes, Players
<1>8. HostTypes'
  BY <1>2, <1>6 DEF AllTypes, HostTypes
<1>9. UpTypes' /\ UpStays /\ DownTypes' /\ DownStays /\ TaskTypes' /\ TasksStay /\ WaitsStay /\ Away' /\ RuleTypes' /\ GameTypes'
  BY <1>2, Stays, Zenon DEF AllTypes, RuleTypes
<1>10. AllTypes'
  BY <1>7, <1>8, <1>9, Zenon DEF AllTypes
<1>. QED BY <1>2, <1>4, <1>6, <1>9, <1>10

\* HostPicksUp: one of them is the host's player's.
LEMMA HostPicksUpDoes ==
    ASSUME AllTypes, NEW r \in References, HostPicksUp(r)
    PROVE  /\ AllTypes' /\ UpStays /\ DownStays /\ TasksStay /\ WaitsStay
           /\ r \in world /\ r \notin deleted /\ world' = world \ {r} /\ r \in Common
           /\ inv' = [inv EXCEPT ![Host] = @ \cup {Of(r)}]
           /\ UNCHANGED <<here, drops, deleted, log, out, forgotten, shown, own, created, start>>
<1>1. /\ r \in world /\ r \notin deleted /\ world' = world \ {r} /\ inv' = [inv EXCEPT ![Host] = @ \cup {Of(r)}]
      /\ here' = here /\ drops' = drops /\ loaded' = loaded /\ deleted' = deleted /\ log' = log /\ out' = out
      /\ pending' = pending /\ made' = made /\ cells' = cells /\ forgotten' = forgotten /\ start' = start
      /\ shown' = shown /\ own' = own /\ created' = created /\ taken' = taken /\ tasks' = tasks
      /\ up' = up /\ down' = down
  <2>1. r \in world /\ r \notin deleted
    BY DEF HostPicksUp, MayPickUp
  <2>. QED BY <2>1, Zenon DEF HostPicksUp, rule, game, history
<1>2. r \in Common
  BY <1>1, Zenon DEF AllTypes, HostTypes
<1>3. Of(r) \in Items \ Foreign
  BY <1>2, Pairs
<1>4. PlayerTypes'
  BY <1>1, <1>3 DEF AllTypes, PlayerTypes, Players
<1>5. HostTypes'
  BY <1>1 DEF AllTypes, HostTypes
<1>6. UpTypes' /\ UpStays /\ DownTypes' /\ DownStays /\ TaskTypes' /\ TasksStay /\ WaitsStay /\ Away' /\ RuleTypes' /\ GameTypes'
  BY <1>1, Stays, Zenon DEF AllTypes, RuleTypes
<1>7. AllTypes'
  BY <1>4, <1>5, <1>6, Zenon DEF AllTypes
<1>. QED BY <1>1, <1>2, <1>6, <1>7

\* CellLoads changes nothing else.
LEMMA CellLoadsDoes ==
    ASSUME AllTypes, CellLoads
    PROVE  /\ AllTypes' /\ UpStays /\ DownStays /\ TasksStay /\ WaitsStay
           /\ UNCHANGED <<here, inv, drops, world, deleted, log, out, forgotten, shown, own, created, start>>
<1>1. /\ here' = here /\ inv' = inv /\ drops' = drops /\ world' = world /\ deleted' = deleted /\ log' = log /\ out' = out
      /\ loaded' = ~loaded
      /\ pending' = pending /\ made' = made /\ cells' = cells /\ forgotten' = forgotten /\ start' = start
      /\ shown' = shown /\ own' = own /\ created' = created /\ taken' = taken /\ tasks' = tasks
      /\ up' = up /\ down' = down
  BY Zenon DEF CellLoads, rule, game, history
<1>2. PlayerTypes'
  BY <1>1, Zenon DEF AllTypes, PlayerTypes
<1>3. HostTypes'
  BY <1>1 DEF AllTypes, HostTypes
<1>4. UpTypes' /\ UpStays /\ DownTypes' /\ DownStays /\ TaskTypes' /\ TasksStay /\ WaitsStay /\ Away' /\ RuleTypes' /\ GameTypes'
  BY <1>1, Stays, Zenon DEF AllTypes, RuleTypes
<1>5. AllTypes'
  BY <1>2, <1>3, <1>4, Zenon DEF AllTypes
<1>. QED BY <1>1, <1>4, <1>5, Zenon

\* GuestDrops: the item of a guest's player is a new reference of its own, and the host is asked to make it.
LEMMA GuestDropsDoes ==
    ASSUME AllTypes, NEW g \in Guests, NEW i \in Items, GuestDrops(g, i)
    PROVE  /\ AllTypes' /\ DownStays /\ TasksStay /\ WaitsStay
           /\ i \in inv[g] /\ inv' = [inv EXCEPT ![g] = @ \ {i}]
           /\ \E r \in References :
                 /\ Of(r) = i /\ r[2] = drops + 1 /\ drops' = drops + 1
                 /\ shown' = [shown EXCEPT ![g] = @ \cup {Own(r)}] /\ own' = [own EXCEPT ![g] = @ \cup {r}]
                 /\ \A k \in Guests \ {g} : Unanswered(k)' = Unanswered(k) /\ (DropsOnce(k) => DropsOnce(k)')
                 /\ Unanswered(g)' = Unanswered(g) \cup {r}
                 /\ DropsOnce(g) /\ r \notin Unanswered(g) => DropsOnce(g)'
           /\ UNCHANGED <<here, world, deleted, log, out, forgotten, created, start>>
<1>1. PICK r : r = <<i, drops + 1>>
  OBVIOUS
<1>2. /\ i \in inv[g] /\ drops < MaxDrops /\ drops' = drops + 1 /\ inv' = [inv EXCEPT ![g] = @ \ {i}] /\ g \in here
      /\ shown' = [shown EXCEPT ![g] = @ \cup {Own(r)}] /\ own' = [own EXCEPT ![g] = @ \cup {r}]
      /\ Asks(g, Request("drop", r, TRUE))
      /\ here' = here /\ loaded' = loaded /\ world' = world /\ log' = log /\ deleted' = deleted /\ out' = out
      /\ pending' = pending /\ made' = made /\ cells' = cells /\ forgotten' = forgotten /\ start' = start
      /\ created' = created /\ taken' = taken /\ tasks' = tasks /\ down' = down
  BY <1>1, Zenon DEF GuestDrops, MaySend, host, rule, history
<1>3. drops + 1 \in 1 .. MaxDrops
  BY <1>2, BoundsAssumption DEF AllTypes, PlayerTypes
<1>4. r \in References /\ Of(r) = i /\ r[2] = drops + 1
  BY <1>1, <1>3, Pairs
<1>5. PlayerTypes'
  <2>1. g # Host /\ g \in Players
    BY PlayersAssumption DEF Players
  <2>2. inv' \in [Players -> SUBSET Items] /\ inv'[Host] = inv[Host]
    BY <1>2, <2>1 DEF AllTypes, PlayerTypes, Players
  <2>. QED BY <1>2, <1>3, <2>2, BoundsAssumption DEF AllTypes, PlayerTypes
<1>6. GameTypes'
  <2>1. Own(r) \in Handles
    BY <1>4, Pairs
  <2>2. shown' \in [Guests -> SUBSET Handles] /\ own' \in [Guests -> SUBSET References]
    BY <1>2, <1>4, <2>1 DEF AllTypes, GameTypes
  <2>. QED BY <1>2, <2>2 DEF AllTypes, GameTypes
<1>7. PICK m : m = Request("drop", r, TRUE)
  OBVIOUS
<1>8. m \in Posted /\ m.type = "drop" /\ m.ref = r /\ Asks(g, m)
  BY <1>2, <1>4, <1>7, MessageTypes
<1>9. /\ UpTypes' /\ \A k \in Guests \ {g} : Unanswered(k)' = Unanswered(k) /\ (DropsOnce(k) => DropsOnce(k)') /\ up'[k] = up[k]
      /\ Unanswered(g)' = Unanswered(g) \cup {r}
      /\ DropsOnce(g) /\ r \notin Unanswered(g) => DropsOnce(g)'
  BY <1>8, UpAsks DEF AllTypes
<1>10. Away'
  BY <1>2, <1>9 DEF AllTypes, Away
<1>11. HostTypes'
  BY <1>2, Zenon DEF AllTypes, HostTypes
<1>12. DownTypes' /\ DownStays /\ TaskTypes' /\ TasksStay /\ WaitsStay /\ RuleTypes'
  BY <1>2, Stays, Zenon DEF AllTypes, RuleTypes
<1>13. AllTypes'
  BY <1>5, <1>6, <1>9, <1>10, <1>11, <1>12, Zenon DEF AllTypes
<1>. QED BY <1>2, <1>4, <1>9, <1>12, <1>13

\* GuestAsks: only the host is asked.
LEMMA GuestAsksDoes ==
    ASSUME AllTypes, NEW g \in Guests, NEW h \in shown[g], GuestAsks(g, h)
    PROVE  /\ AllTypes' /\ UpStays /\ DownStays /\ TasksStay /\ WaitsStay
           /\ UNCHANGED <<here, inv, drops, world, deleted, log, out, forgotten, shown, own, created, start>>
<1>1. PICK m : m = Request("take", h[1], IsOwn(g, h))
  OBVIOUS
<1>2. /\ Asks(g, m) /\ g \in here
      /\ here' = here /\ inv' = inv /\ drops' = drops
      /\ loaded' = loaded /\ world' = world /\ log' = log /\ deleted' = deleted /\ out' = out
      /\ pending' = pending /\ made' = made /\ cells' = cells /\ forgotten' = forgotten /\ start' = start
      /\ shown' = shown /\ own' = own /\ created' = created /\ taken' = taken /\ tasks' = tasks /\ down' = down
  BY <1>1, Zenon DEF GuestAsks, MaySend, host, rule, game, history
<1>3. h \in Handles
  BY DEF AllTypes, GameTypes
<1>4. m \in Posted /\ m.type = "take"
  <2>1. h[1] \in References /\ IsOwn(g, h) \in BOOLEAN
    BY <1>3, Pairs DEF IsOwn
  <2>. QED BY <1>1, <2>1, MessageTypes, Zenon
<1>5. /\ UpTypes' /\ \A k \in Guests \ {g} : Unanswered(k)' = Unanswered(k) /\ (DropsOnce(k) => DropsOnce(k)') /\ up'[k] = up[k]
      /\ Unanswered(g)' = Unanswered(g) /\ (DropsOnce(g) => DropsOnce(g)')
  BY <1>2, <1>4, UpAsks DEF AllTypes
<1>7. UpStays
  BY <1>5 DEF UpStays
<1>8. Away'
  BY <1>2, <1>5 DEF AllTypes, Away
<1>9. HostTypes' /\ PlayerTypes'
  BY <1>2, Zenon DEF AllTypes, HostTypes, PlayerTypes
<1>10. DownTypes' /\ DownStays /\ TaskTypes' /\ TasksStay /\ WaitsStay /\ RuleTypes' /\ GameTypes'
  BY <1>2, Stays, Zenon DEF AllTypes, RuleTypes
<1>11. AllTypes'
  BY <1>5, <1>8, <1>9, <1>10, Zenon DEF AllTypes
<1>. QED BY <1>2, <1>7, <1>10, <1>11, Zenon

\* GuestPicksUp: what a game alone has is its player's.
LEMMA GuestPicksUpDoes ==
    ASSUME AllTypes, NEW g \in Guests, NEW h \in shown[g], GuestPicksUp(g, h)
    PROVE  /\ AllTypes' /\ UpStays /\ DownStays /\ TasksStay /\ WaitsStay
           /\ h \in Handles /\ ~(h[1] \in own[g] /\ h[2] = "drop") /\ h \notin created[g]
           /\ shown' = [shown EXCEPT ![g] = @ \ {h}] /\ inv' = [inv EXCEPT ![g] = @ \cup {Of(h[1])}]
           /\ UNCHANGED <<here, drops, world, deleted, log, out, forgotten, own, created, start>>
<1>1. /\ shown' = [shown EXCEPT ![g] = @ \ {h}] /\ inv' = [inv EXCEPT ![g] = @ \cup {Of(h[1])}]
      /\ here' = here /\ drops' = drops
      /\ loaded' = loaded /\ world' = world /\ log' = log /\ deleted' = deleted /\ out' = out
      /\ pending' = pending /\ made' = made /\ cells' = cells /\ forgotten' = forgotten /\ start' = start
      /\ own' = own /\ created' = created /\ taken' = taken /\ tasks' = tasks /\ up' = up /\ down' = down
  BY Zenon DEF GuestPicksUp, host, rule, history
<1>2. ~(h[1] \in own[g] /\ h[2] = "drop") /\ h \notin created[g]
  BY Zenon DEF GuestPicksUp, IsPartyItem, IsOwn
<1>3. h \in Handles
  BY DEF AllTypes, GameTypes
<1>4. Of(h[1]) \in Items
  BY <1>3, Pairs
<1>5. PlayerTypes'
  <2>1. g # Host /\ g \in Players
    BY PlayersAssumption DEF Players
  <2>2. inv' \in [Players -> SUBSET Items] /\ inv'[Host] = inv[Host]
    BY <1>1, <1>4, <2>1 DEF AllTypes, PlayerTypes, Players
  <2>. QED BY <1>1, <2>2 DEF AllTypes, PlayerTypes
<1>6. GameTypes'
  <2>1. shown' \in [Guests -> SUBSET Handles]
    BY <1>1 DEF AllTypes, GameTypes
  <2>. QED BY <1>1, <2>1 DEF AllTypes, GameTypes
<1>7. HostTypes'
  BY <1>1, Zenon DEF AllTypes, HostTypes
<1>8. UpTypes' /\ UpStays /\ DownTypes' /\ DownStays /\ TaskTypes' /\ TasksStay /\ WaitsStay /\ Away' /\ RuleTypes'
  BY <1>1, Stays, Zenon DEF AllTypes, RuleTypes
<1>9. AllTypes'
  BY <1>5, <1>6, <1>7, <1>8, Zenon DEF AllTypes
<1>. QED BY <1>1, <1>2, <1>3, <1>8, <1>9

\* Join: the guest asks for the cell's state.
LEMMA JoinDoes ==
    ASSUME AllTypes, NEW g \in Guests, Join(g)
    PROVE  /\ AllTypes' /\ UpStays /\ DownStays /\ TasksStay /\ WaitsStay
           /\ g \in Late /\ here' = here \cup {g}
           /\ UNCHANGED <<inv, drops, world, deleted, log, out, forgotten, shown, own, created, start>>
<1>1. PICK m : m = Request("cell", NoReference, FALSE)
  OBVIOUS
<1>2. /\ Asks(g, m) /\ g \in Late \ here /\ here' = here \cup {g}
      /\ inv' = inv /\ drops' = drops
      /\ loaded' = loaded /\ world' = world /\ log' = log /\ deleted' = deleted /\ out' = out
      /\ pending' = pending /\ made' = made /\ cells' = cells /\ forgotten' = forgotten /\ start' = start
      /\ shown' = shown /\ own' = own /\ created' = created /\ taken' = taken /\ tasks' = tasks /\ down' = down
  BY <1>1, Zenon DEF Join, host, rule, game, history
<1>3. m \in Posted /\ m.type = "cell"
  BY <1>1, MessageTypes, Zenon
<1>4. /\ UpTypes' /\ \A k \in Guests \ {g} : Unanswered(k)' = Unanswered(k) /\ (DropsOnce(k) => DropsOnce(k)') /\ up'[k] = up[k]
      /\ Unanswered(g)' = Unanswered(g) /\ (DropsOnce(g) => DropsOnce(g)')
  BY <1>2, <1>3, UpAsks DEF AllTypes
<1>6. UpStays
  BY <1>4 DEF UpStays
<1>7. Away'
  BY <1>2, <1>4 DEF AllTypes, Away
<1>8. HostTypes' /\ PlayerTypes'
  BY <1>2 DEF AllTypes, HostTypes, PlayerTypes
<1>9. RuleTypes'
  <2>1. WaitTypes' /\ Waiters' = Waiters
    BY <1>2, Zenon DEF AllTypes, RuleTypes, WaitTypes, Waiters
  <2>. QED BY <1>2, <2>1 DEF AllTypes, RuleTypes
<1>10. DownTypes' /\ DownStays /\ TaskTypes' /\ TasksStay /\ WaitsStay /\ GameTypes'
  BY <1>2, Stays, Zenon DEF AllTypes, RuleTypes
<1>11. AllTypes'
  BY <1>4, <1>7, <1>8, <1>9, <1>10, Zenon DEF AllTypes
<1>. QED BY <1>2, <1>6, <1>10, <1>11

\* Leave: what the guest had, and what was under way to it and from it, is gone.
LEMMA LeaveDoes ==
    ASSUME AllTypes, NEW g \in Guests, Leave(g)
    PROVE  /\ AllTypes'
           /\ \A k \in Guests \ {g} : /\ Unanswered(k)' = Unanswered(k) /\ (DropsOnce(k) => DropsOnce(k)')
                                      /\ Grown(k, {}, {}, {}) /\ Queued(k)' = Queued(k)
           /\ Unanswered(g)' = {} /\ DropsOnce(g)' /\ Queued(g)' = {}
           /\ Ans(g)' = {} /\ Grants(g)' = {} /\ GrantsOnce(g)' /\ Heard(g)' = {} /\ HeardEarly(g)' = {}
           /\ Waiters' = {d \in Waiters : d.player # g} /\ (WaitsOnce => WaitsOnce')
           /\ g \in Leavers \cap here /\ here' = here \ {g} /\ inv' = [inv EXCEPT ![g] = {}]
           /\ shown' = [shown EXCEPT ![g] = {}] /\ own' = [own EXCEPT ![g] = {}] /\ created' = [created EXCEPT ![g] = {}]
           /\ UNCHANGED <<drops, world, deleted, log, out, forgotten, start>>
<1>1. /\ g \in Leavers \cap here /\ here' = here \ {g} /\ inv' = [inv EXCEPT ![g] = {}]
      /\ shown' = [shown EXCEPT ![g] = {}] /\ own' = [own EXCEPT ![g] = {}]
      /\ created' = [created EXCEPT ![g] = {}] /\ taken' = [taken EXCEPT ![g] = {}]
      /\ drops' = drops
      /\ loaded' = loaded /\ world' = world /\ log' = log /\ deleted' = deleted /\ out' = out
      /\ forgotten' = forgotten /\ start' = start
  BY Zenon DEF Leave, host, history
<1>2. /\ pending' = Only(pending, {d \in ToSet(pending) : d.player # g})
      /\ made' = {d \in made : d[1] # g} /\ cells' = cells \ {g}
  BY Zenon DEF Leave
<1>3. tasks' = [tasks EXCEPT ![g] = <<>>] /\ up' = [up EXCEPT ![g] = <<>>] /\ down' = [down EXCEPT ![g] = <<>>]
  BY Zenon DEF Leave
<1>4. <<>> \in Seq(Posted) /\ <<>> \in Seq(Told) /\ <<>> \in Seq(Applied)
  OBVIOUS
<1>5. UpTypes' /\ up'[g] = <<>> /\ \A k \in Guests \ {g} : up'[k] = up[k]
  BY <1>3, <1>4 DEF AllTypes, UpTypes
<1>6. DownTypes' /\ down'[g] = <<>> /\ \A k \in Guests \ {g} : down'[k] = down[k]
  BY <1>3, <1>4 DEF AllTypes, DownTypes
<1>7. TaskTypes' /\ tasks'[g] = <<>> /\ \A k \in Guests \ {g} : tasks'[k] = tasks[k]
  BY <1>3, <1>4 DEF AllTypes, TaskTypes
<1>8. \A k \in Guests \ {g} : /\ Unanswered(k)' = Unanswered(k) /\ (DropsOnce(k) => DropsOnce(k)')
                              /\ Grown(k, {}, {}, {}) /\ Queued(k)' = Queued(k)
  BY <1>5, <1>6, <1>7, GrewSame, Zenon DEF Unanswered, DropsOnce, Grown, Queued
<1>9. Unanswered(g)' = {} /\ DropsOnce(g)'
  BY <1>5 DEF Unanswered, DropsOnce, ToSet, Once
<1>10. Ans(g)' = {} /\ Grants(g)' = {} /\ GrantsOnce(g)'
  BY <1>6 DEF Ans, Refs, Grants, GrantsOnce, ToSet, Once
<1>11. Heard(g)' = {} /\ HeardEarly(g)' = {}
  BY <1>6 DEF Heard, HeardEarly, News, Early
<1>12. Queued(g)' = {}
  BY <1>7 DEF Queued, ToSet
<1>13. WaitTypes' /\ Waiters' = {d \in Waiters : d.player # g} /\ (WaitsOnce => WaitsOnce')
  <2>1. /\ WaitTypes' /\ Waiters' = Waiters \cap {d \in ToSet(pending) : d.player # g} /\ (WaitsOnce => WaitsOnce')
    BY <1>2, WaitsOnly DEF AllTypes, RuleTypes
  <2>. QED BY <2>1, ToSetIsSent DEF Waiters
<1>14. RuleTypes'
  BY <1>1, <1>2, <1>13 DEF AllTypes, RuleTypes
<1>15. Away'
  BY <1>1, <1>5, <1>6, <1>7 DEF AllTypes, Away
<1>16. PlayerTypes'
  <2>1. g # Host /\ g \in Players
    BY PlayersAssumption DEF Players
  <2>2. inv' \in [Players -> SUBSET Items] /\ inv'[Host] = inv[Host]
    BY <1>1, <2>1 DEF AllTypes, PlayerTypes, Players
  <2>. QED BY <1>1, <2>2 DEF AllTypes, PlayerTypes
<1>17. GameTypes'
  <2>1. /\ shown' \in [Guests -> SUBSET Handles] /\ own' \in [Guests -> SUBSET References]
        /\ created' \in [Guests -> SUBSET Twins] /\ taken' \in [Guests -> SUBSET References]
    BY <1>1 DEF AllTypes, GameTypes
  <2>2. \A k \in Guests : created'[k] \subseteq created[k]
    BY <1>1 DEF AllTypes, GameTypes
  <2>. QED BY <2>1, <2>2 DEF AllTypes, GameTypes
<1>18. HostTypes'
  BY <1>1, Zenon DEF AllTypes, HostTypes
<1>19. AllTypes'
  BY <1>5, <1>6, <1>7, <1>14, <1>15, <1>16, <1>17, <1>18, Zenon DEF AllTypes
<1>. QED BY <1>1, <1>8, <1>9, <1>10, <1>11, <1>12, <1>13, <1>19

\* GuestReads: the notices to other games, and what a game had left to read besides, stay.
LEMMA GuestReadsRest ==
    ASSUME AllTypes, NEW g \in Guests, GuestReads(g)
    PROVE  /\ DownTypes' /\ \A k \in Guests \ {g} : Grown(k, {}, {}, {})
           /\ UpTypes' /\ UpStays /\ WaitsStay /\ RuleTypes' /\ HostTypes' /\ down[g] # <<>> /\ g \in here
           /\ \A k \in Guests \ {g} : down'[k] = down[k]
           /\ Head(down[g]) \in Told /\ Ans(g)' \subseteq Ans(g) /\ Heard(g)' \subseteq Heard(g)
           /\ UNCHANGED <<here, drops, world, deleted, log, out, forgotten, start, up>>
<1>1. /\ down[g] # <<>> /\ down' = [down EXCEPT ![g] = Tail(@)]
      /\ here' = here /\ drops' = drops /\ up' = up
      /\ loaded' = loaded /\ world' = world /\ log' = log /\ deleted' = deleted /\ out' = out
      /\ pending' = pending /\ made' = made /\ cells' = cells /\ forgotten' = forgotten /\ start' = start
  BY Zenon DEF GuestReads, host, rule, history
<1>2. /\ DownTypes' /\ \A k \in Guests \ {g} : down'[k] = down[k] /\ Grown(k, {}, {}, {})
      /\ Head(down[g]) \in Told /\ Ans(g)' \subseteq Ans(g) /\ Heard(g)' \subseteq Heard(g)
  BY <1>1, DownRead, Zenon DEF AllTypes
<1>3. UpTypes' /\ UpStays /\ WaitsStay /\ RuleTypes'
  BY <1>1, Stays, Zenon DEF AllTypes, RuleTypes
<1>4. HostTypes'
  BY <1>1, Zenon DEF AllTypes, HostTypes
<1>5. g \in here
  BY <1>1, Zenon DEF AllTypes, Away
<1>. QED BY <1>1, <1>2, <1>3, <1>4, <1>5, Zenon

\* The handles a game names after some are named: one of each reference.
LEMMA NamingTypes ==
    ASSUME NEW names \in SUBSET Twins, NEW handles \in SUBSET Twins,
           \A h, k \in names : h[1] = k[1] => h = k, \A h, k \in handles : h[1] = k[1] => h = k
    PROVE  Naming(names, handles) \in SUBSET Twins /\ \A h, k \in Naming(names, handles) : h[1] = k[1] => h = k
BY DEF Naming

\* The answer to a drop (AdoptDrop): it is the game's own no longer, and names the object that was made.
LEMMA AdoptDropDoes ==
    ASSUME AllTypes, NEW g \in Guests, GuestReads(g), Head(down[g]).type = "dropped"
    PROVE  /\ AllTypes' /\ TasksStay
           /\ \E r \in References :
                 /\ r \in Ans(g) /\ Ans(g) \subseteq Ans(g)' \cup {r} /\ HeardEarly(g)' \subseteq HeardEarly(g) \cup {r}
                 /\ GrantsOnce(g) => GrantsOnce(g)' /\ Grants(g)' = Grants(g)
                 /\ own' = [own EXCEPT ![g] = @ \ {r}]
                 /\ created' = IF r \in Common /\ r \in own[g] /\ Own(r) \in shown[g]
                               THEN [created EXCEPT ![g] = Naming(@, {Own(r)})] ELSE created
           /\ UNCHANGED <<inv, shown>>
<1>1. PICK m : m = Head(down[g])
  OBVIOUS
<1>2. /\ DownTypes' /\ (\A k \in Guests \ {g} : down'[k] = down[k])
      /\ m \in Told /\ down[g] # <<>> /\ g \in here /\ here' = here /\ drops' = drops /\ up' = up /\ start' = start
      /\ UpTypes' /\ RuleTypes' /\ HostTypes'
  BY <1>1, GuestReadsRest, Zenon
<1>3. m.type = "dropped" /\ m.type # "pickup" /\ m.type # "changes"
  BY <1>1
<1>4. AdoptDrop(g, m)
  BY <1>1, <1>3, Zenon DEF GuestReads
<1>5. PICK r : r = m.ref
  OBVIOUS
<1>6. r \in References /\ (m.object <=> r \in Common)
  BY <1>2, <1>3, <1>5 DEF Told
<1>7. /\ own' = [own EXCEPT ![g] = @ \ {r}]
      /\ created' = IF r \in Common /\ r \in own[g] /\ Own(r) \in shown[g]
                    THEN [created EXCEPT ![g] = Naming(@, {Own(r)})] ELSE created
      /\ inv' = inv /\ shown' = shown /\ taken' = taken /\ tasks' = tasks
  BY <1>4, <1>5, <1>6, Zenon DEF AdoptDrop
<1>8. /\ Ans(g) \subseteq Ans(g)' \cup {r} /\ HeardEarly(g)' \subseteq HeardEarly(g) \cup {r} /\ r \in Ans(g)
      /\ GrantsOnce(g) => GrantsOnce(g)' /\ Grants(g)' = Grants(g)
  <2>1. down' = [down EXCEPT ![g] = Tail(@)]
    BY Zenon DEF GuestReads
  <2>. QED BY <1>1, <1>2, <1>3, <1>5, <2>1, DownRead DEF AllTypes
<1>9. GameTypes'
  <2>1. own' \in [Guests -> SUBSET References]
    BY <1>7 DEF AllTypes, GameTypes
  <2>2. CASE r \in Common /\ r \in own[g] /\ Own(r) \in shown[g]
    <3>1. created' = [created EXCEPT ![g] = Naming(created[g], {Own(r)})] /\ created \in [Guests -> SUBSET Twins]
      BY <1>7, <2>2, Zenon DEF AllTypes, GameTypes
    <3>2. Own(r) \in Twins
      BY <2>2, Pairs
    <3>3. PICK N : N = Naming(created[g], {Own(r)})
      OBVIOUS
    <3>4. N \in SUBSET Twins /\ \A h, k \in N : h[1] = k[1] => h = k
      BY <3>1, <3>2, <3>3, NamingTypes DEF AllTypes, GameTypes
    <3>5. created' = [created EXCEPT ![g] = N]
      BY <3>1, <3>3, Zenon
    <3>6. created' \in [Guests -> SUBSET Twins] /\ \A k \in Guests : created'[k] = IF k = g THEN N ELSE created[k]
      BY <3>1, <3>4, <3>5
    <3>7. \A j \in Guests : \A h, k \in created'[j] : h[1] = k[1] => h = k
      BY <3>4, <3>6 DEF AllTypes, GameTypes
    <3>. QED BY <1>7, <2>1, <3>6, <3>7, Zenon DEF AllTypes, GameTypes
  <2>3. CASE ~(r \in Common /\ r \in own[g] /\ Own(r) \in shown[g])
    <3>1. created' = created
      BY <1>7, <2>3, Zenon
    <3>. QED BY <1>7, <2>1, <3>1, Zenon DEF AllTypes, GameTypes
  <2>. QED BY <2>2, <2>3
<1>10. TaskTypes' /\ TasksStay
  BY <1>7, Stays, Zenon DEF AllTypes
<1>11. PlayerTypes'
  BY <1>2, <1>7, Zenon DEF AllTypes, PlayerTypes
<1>12. Away'
  BY <1>2, <1>7 DEF AllTypes, Away
<1>13. AllTypes'
  BY <1>2, <1>9, <1>10, <1>11, <1>12, Zenon DEF AllTypes
<1>. QED BY <1>6, <1>7, <1>8, <1>10, <1>13, Zenon

\* A grant (Granted): the item is the player's, and its own drop or its twin is gone.
LEMMA GrantedDoes ==
    ASSUME AllTypes, NEW g \in Guests, GuestReads(g), Head(down[g]).type = "pickup"
    PROVE  /\ AllTypes' /\ TasksStay
           /\ \E r \in References, tagged, object \in BOOLEAN :
                 /\ r \in Common \/ tagged
                 /\ r = Head(down[g]).ref /\ tagged = Head(down[g]).tagged /\ object = Head(down[g]).object
                 /\ r \in Grants(g) /\ Ans(g)' = Ans(g) /\ HeardEarly(g)' \subseteq HeardEarly(g)
                 /\ GrantsOnce(g) => GrantsOnce(g)' /\ Grants(g)' = Grants(g) \ {r}
                 /\ inv' = [inv EXCEPT ![g] = @ \cup {Of(r)}]
                 /\ own' = [own EXCEPT ![g] = IF tagged THEN @ \ {r} ELSE @]
                 /\ created' = [created EXCEPT ![g] = IF object THEN {h \in @ : h[1] # r} ELSE @]
                 /\ shown' = [shown EXCEPT ![g] = IF tagged /\ r \in own[g] THEN @ \ {Own(r)}
                                                  ELSE {h \in @ : ~(object /\ h \in created[g] /\ h[1] = r)}]
<1>1. PICK m : m = Head(down[g])
  OBVIOUS
<1>2. /\ DownTypes' /\ (\A k \in Guests \ {g} : down'[k] = down[k])
      /\ m \in Told /\ down[g] # <<>> /\ g \in here /\ here' = here /\ drops' = drops /\ up' = up /\ start' = start
      /\ UpTypes' /\ RuleTypes' /\ HostTypes'
  BY <1>1, GuestReadsRest, Zenon
<1>3. m.type = "pickup" /\ m.type # "dropped" /\ m.type # "changes"
  BY <1>1
<1>4. Granted(g, m)
  BY <1>1, <1>3, Zenon DEF GuestReads
<1>5. PICK r, tagged, object : r = m.ref /\ tagged = m.tagged /\ object = m.object
  OBVIOUS
<1>6. r \in References /\ (r \in Common \/ tagged) /\ tagged \in BOOLEAN /\ object \in BOOLEAN
  BY <1>2, <1>3, <1>5 DEF Told, Notice
<1>. DEFINE twin == {h \in created[g] : m.object /\ h[1] = m.ref}
            drop == {Own(q) : q \in {s \in own[g] : m.tagged /\ s = m.ref}}
            handle == IF drop # {} THEN drop ELSE twin
<1>7. /\ created' = [created EXCEPT ![g] = @ \ twin]
      /\ taken' = [taken EXCEPT ![g] = @ \cup {h[1] : h \in twin}]
      /\ own' = [own EXCEPT ![g] = @ \ {h[1] : h \in drop}]
      /\ shown' = [shown EXCEPT ![g] = @ \ handle]
      /\ inv' = [inv EXCEPT ![g] = @ \cup {Of(m.ref)}] /\ tasks' = tasks
  BY <1>4, Zenon DEF Granted
<1>8. drop = IF tagged /\ r \in own[g] THEN {Own(r)} ELSE {}
  BY <1>5
<1>9. twin = {h \in created[g] : object /\ h[1] = r}
  BY <1>5
<1>10. created[g] \ twin = IF object THEN {h \in created[g] : h[1] # r} ELSE created[g]
  BY <1>6, <1>9
<1>11. own[g] \ {h[1] : h \in drop} = IF tagged THEN own[g] \ {r} ELSE own[g]
  <2>1. CASE tagged /\ r \in own[g]
    <3>1. {h[1] : h \in drop} = {r}
      BY <1>8, <2>1, Pairs
    <3>. QED BY <2>1, <3>1
  <2>2. CASE ~(tagged /\ r \in own[g])
    <3>1. {h[1] : h \in drop} = {}
      BY <1>8, <2>2
    <3>. QED BY <2>2, <3>1
  <2>. QED BY <2>1, <2>2
<1>12. shown[g] \ handle = IF tagged /\ r \in own[g] THEN shown[g] \ {Own(r)}
                           ELSE {h \in shown[g] : ~(object /\ h \in created[g] /\ h[1] = r)}
  BY <1>8, <1>9
<1>13. {h[1] : h \in twin} \subseteq References
  <2>1. \A h \in created[g] : h[1] \in References
    BY Pairs DEF AllTypes, GameTypes
  <2>. QED BY <2>1
<1>. HIDE DEF twin, drop, handle
<1>14. /\ created' = [created EXCEPT ![g] = IF object THEN {h \in created[g] : h[1] # r} ELSE created[g]]
       /\ own' = [own EXCEPT ![g] = IF tagged THEN own[g] \ {r} ELSE own[g]]
       /\ shown' = [shown EXCEPT ![g] = IF tagged /\ r \in own[g] THEN shown[g] \ {Own(r)}
                                        ELSE {h \in shown[g] : ~(object /\ h \in created[g] /\ h[1] = r)}]
       /\ inv' = [inv EXCEPT ![g] = @ \cup {Of(r)}] /\ tasks' = tasks
  BY <1>5, <1>7, <1>10, <1>11, <1>12
<1>15. /\ Ans(g)' = Ans(g) /\ HeardEarly(g)' \subseteq HeardEarly(g) /\ r \in Grants(g)
       /\ GrantsOnce(g) => GrantsOnce(g)' /\ Grants(g)' = Grants(g) \ {r}
  <2>1. down' = [down EXCEPT ![g] = Tail(@)]
    BY Zenon DEF GuestReads
  <2>. QED BY <1>1, <1>2, <1>3, <1>5, <2>1, DownRead DEF AllTypes
<1>16. GameTypes'
  <2>1. /\ shown' \in [Guests -> SUBSET Handles] /\ own' \in [Guests -> SUBSET References]
        /\ created' \in [Guests -> SUBSET Twins] /\ \A k \in Guests : created'[k] \subseteq created[k]
    BY <1>14 DEF AllTypes, GameTypes
  <2>2. taken' \in [Guests -> SUBSET References]
    BY <1>7, <1>13 DEF AllTypes, GameTypes
  <2>. QED BY <2>1, <2>2 DEF AllTypes, GameTypes
<1>17. TaskTypes' /\ TasksStay
  BY <1>14, Stays, Zenon DEF AllTypes
<1>18. PlayerTypes'
  <2>1. g # Host /\ g \in Players /\ Of(r) \in Items
    BY <1>6, Pairs, PlayersAssumption DEF Players
  <2>2. inv' \in [Players -> SUBSET Items] /\ inv'[Host] = inv[Host]
    BY <1>14, <2>1 DEF AllTypes, PlayerTypes, Players
  <2>. QED BY <1>2, <2>2 DEF AllTypes, PlayerTypes
<1>19. Away'
  BY <1>2, <1>14 DEF AllTypes, Away
<1>20. AllTypes'
  BY <1>2, <1>16, <1>17, <1>18, <1>19, Zenon DEF AllTypes
<1>. QED BY <1>1, <1>5, <1>6, <1>14, <1>15, <1>17, <1>20, Zenon

\* Object changes: a task for the main loop.
LEMMA ChangesDoes ==
    ASSUME AllTypes, NEW g \in Guests, GuestReads(g), Head(down[g]).type = "changes"
    PROVE  /\ AllTypes'
           /\ Ans(g)' = Ans(g) /\ HeardEarly(g)' \subseteq HeardEarly(g)
           /\ GrantsOnce(g) => GrantsOnce(g)' /\ Grants(g)' = Grants(g)
           /\ \A k \in Guests \ {g} : Queued(k)' = Queued(k)
           /\ Queued(g)' \subseteq Queued(g) \cup (HeardEarly(g) \cap Heard(g))
           /\ UNCHANGED <<inv, shown, own, created>>
<1>1. PICK m : m = Head(down[g])
  OBVIOUS
<1>2. /\ DownTypes' /\ (\A k \in Guests \ {g} : down'[k] = down[k])
      /\ m \in Told /\ down[g] # <<>> /\ g \in here /\ here' = here /\ drops' = drops /\ up' = up /\ start' = start
      /\ UpTypes' /\ RuleTypes' /\ HostTypes'
  BY <1>1, GuestReadsRest, Zenon
<1>3. m.type = "changes" /\ m.type # "dropped" /\ m.type # "pickup"
  BY <1>1
<1>4. tasks' = [tasks EXCEPT ![g] = Append(@, m.rows)] /\ UNCHANGED <<inv, shown, own, created, taken>>
  BY <1>1, <1>3, Zenon DEF GuestReads
<1>5. m.rows \in Applied /\ m.rows.new \subseteq References
  BY <1>2 DEF Told, Notice, Applied, Common
<1>6. /\ TaskTypes' /\ \A k \in Guests \ {g} : tasks'[k] = tasks[k] /\ Queued(k)' = Queued(k)
      /\ Queued(g)' = Queued(g) \cup m.rows.new
  BY <1>4, <1>5, TasksAdd, Zenon DEF AllTypes
<1>7. /\ Ans(g)' = Ans(g) /\ HeardEarly(g)' \subseteq HeardEarly(g)
      /\ GrantsOnce(g) => GrantsOnce(g)' /\ Grants(g)' = Grants(g)
      /\ m.rows.new \cap References \subseteq HeardEarly(g) \cap Heard(g)
  <2>1. down' = [down EXCEPT ![g] = Tail(@)]
    BY Zenon DEF GuestReads
  <2>. QED BY <1>1, <1>2, <1>3, <2>1, DownRead DEF AllTypes
<1>8. GameTypes' /\ PlayerTypes'
  BY <1>2, <1>4, Zenon DEF AllTypes, GameTypes, PlayerTypes
<1>9. Away'
  BY <1>2, <1>6 DEF AllTypes, Away
<1>10. AllTypes'
  BY <1>2, <1>6, <1>8, <1>9, Zenon DEF AllTypes
<1>. QED BY <1>4, <1>5, <1>6, <1>7, <1>10

\* GuestTask: the deleted references it names are gone, those created and not named yet are.
LEMMA GuestTaskDoes ==
    ASSUME AllTypes, NEW g \in Guests, GuestTask(g)
    PROVE  /\ AllTypes' /\ UpStays /\ DownStays /\ WaitsStay
           /\ \A k \in Guests \ {g} : Queued(k)' = Queued(k)
           /\ Queued(g)' \subseteq Queued(g)
           /\ \E gone \in SUBSET (created[g] \cap shown[g]), N \in SUBSET Common :
                 /\ gone = {h \in created[g] \cap shown[g] : h[1] \in Head(tasks[g]).gone} /\ N \subseteq Head(tasks[g]).new
                 /\ \A r \in Head(tasks[g]).new : r \in N \/ \E h \in (created[g] \cap shown[g]) \ gone : h[1] = r
                 /\ N \subseteq Queued(g) /\ \A r \in N, h \in (created[g] \cap shown[g]) \ gone : h[1] # r
                 /\ shown' = [shown EXCEPT ![g] = (@ \ gone) \cup {Twin(r) : r \in N}]
                 /\ created' = [created EXCEPT ![g] = Naming(@, {Twin(r) : r \in N})]
           /\ UNCHANGED <<here, inv, drops, world, deleted, log, out, forgotten, own, start>>
<1>. DEFINE rows == Head(tasks[g])
            has == created[g] \cap shown[g]
            gone == {h \in has : h[1] \in rows.gone}
            N == {q \in rows.new : \A h \in has \ gone : h[1] # q}
            new == {Twin(r) : r \in N}
<1>1. /\ tasks[g] # <<>> /\ tasks' = [tasks EXCEPT ![g] = Tail(@)]
      /\ shown' = [shown EXCEPT ![g] = (@ \ gone) \cup new] /\ created' = [created EXCEPT ![g] = Naming(@, new)]
      /\ taken' = [taken EXCEPT ![g] = @ \ {r \in rows.gone : \A h \in has : h[1] # r}]
      /\ here' = here /\ inv' = inv /\ drops' = drops
      /\ loaded' = loaded /\ world' = world /\ log' = log /\ deleted' = deleted /\ out' = out
      /\ pending' = pending /\ made' = made /\ cells' = cells /\ forgotten' = forgotten /\ start' = start
      /\ own' = own /\ up' = up /\ down' = down
  BY Zenon DEF GuestTask, host, rule, history
<1>2. /\ TaskTypes' /\ \A k \in Guests \ {g} : tasks'[k] = tasks[k] /\ Queued(k)' = Queued(k)
      /\ rows \in Applied /\ Queued(g)' \subseteq Queued(g) /\ rows.new \subseteq Queued(g)
  BY <1>1, TasksRead DEF AllTypes
<1>3. N \in SUBSET Common /\ N \subseteq Queued(g)
  BY <1>2 DEF Applied
<1>4. /\ \A r \in N, h \in has \ gone : h[1] # r
      /\ N \subseteq rows.new /\ \A r \in rows.new : r \in N \/ \E h \in has \ gone : h[1] = r
  OBVIOUS
<1>5. gone \in SUBSET has /\ gone = {h \in has : h[1] \in rows.gone}
  OBVIOUS
<1>6. new \in SUBSET Twins /\ new \in SUBSET Handles /\ \A h, k \in new : h[1] = k[1] => h = k
  <2>1. \A r \in N : Twin(r) \in Twins /\ Twin(r) \in Handles /\ Twin(r)[1] = r
    BY <1>3, Pairs
  <2>. HIDE DEF N
  <2>. QED BY <2>1
<1>. HIDE DEF N, new, gone
<1>7. GameTypes'
  <2>1. shown' \in [Guests -> SUBSET Handles]
    BY <1>1, <1>6 DEF AllTypes, GameTypes
  <2>2. taken' \in [Guests -> SUBSET References]
    BY <1>1 DEF AllTypes, GameTypes
  <2>3. PICK M : M = Naming(created[g], new)
    OBVIOUS
  <2>4. created' = [created EXCEPT ![g] = M] /\ created \in [Guests -> SUBSET Twins]
    BY <1>1, <2>3, Zenon DEF AllTypes, GameTypes
  <2>5. M \in SUBSET Twins /\ \A h, k \in M : h[1] = k[1] => h = k
    BY <1>6, <2>3, <2>4, NamingTypes DEF AllTypes, GameTypes
  <2>6. created' \in [Guests -> SUBSET Twins] /\ \A k \in Guests : created'[k] = IF k = g THEN M ELSE created[k]
    BY <2>4, <2>5
  <2>7. \A j \in Guests : \A h, k \in created'[j] : h[1] = k[1] => h = k
    BY <2>5, <2>6 DEF AllTypes, GameTypes
  <2>. QED BY <1>1, <2>1, <2>2, <2>6, <2>7, Zenon DEF AllTypes, GameTypes
<1>8. UpTypes' /\ UpStays /\ DownTypes' /\ DownStays /\ WaitsStay /\ RuleTypes'
  BY <1>1, Stays, Zenon DEF AllTypes, RuleTypes
<1>9. HostTypes' /\ PlayerTypes'
  BY <1>1, Zenon DEF AllTypes, HostTypes, PlayerTypes
<1>10. Away'
  <2>1. g \in here
    BY <1>1, Zenon DEF AllTypes, Away
  <2>. QED BY <1>1, <1>2, <2>1 DEF AllTypes, Away
<1>11. AllTypes'
  BY <1>2, <1>7, <1>8, <1>9, <1>10, Zenon DEF AllTypes
<1>12. \E G \in SUBSET (created[g] \cap shown[g]), M \in SUBSET Common :
          /\ G = {h \in created[g] \cap shown[g] : h[1] \in Head(tasks[g]).gone} /\ M \subseteq Head(tasks[g]).new
          /\ \A r \in Head(tasks[g]).new : r \in M \/ \E h \in (created[g] \cap shown[g]) \ G : h[1] = r
          /\ M \subseteq Queued(g) /\ \A r \in M, h \in (created[g] \cap shown[g]) \ G : h[1] # r
          /\ shown' = [shown EXCEPT ![g] = (@ \ G) \cup {Twin(r) : r \in M}]
          /\ created' = [created EXCEPT ![g] = Naming(@, {Twin(r) : r \in M})]
  BY <1>1, <1>3, <1>4, <1>5, Zenon DEF new
<1>. QED BY <1>1, <1>2, <1>8, <1>11, <1>12, Zenon

\* HostReads: the guests' games stay as they are, and what a guest sent besides is still to be read.
LEMMA HostReadsRest ==
    ASSUME AllTypes, NEW g \in Guests, HostReads(g)
    PROVE  /\ UpTypes' /\ \A k \in Guests \ {g} : Unanswered(k)' = Unanswered(k) /\ (DropsOnce(k) => DropsOnce(k)')
           /\ Head(up[g]) \in Posted /\ g \in here
           /\ DropsOnce(g) => /\ DropsOnce(g)'
                              /\ Unanswered(g)' = Unanswered(g) \ (IF Head(up[g]).type = "drop" THEN {Head(up[g]).ref} ELSE {})
           /\ Head(up[g]).type = "drop" => Head(up[g]).ref \in Unanswered(g)
           /\ TaskTypes' /\ TasksStay /\ GameTypes' /\ (\A k \in Guests \ {g} : up'[k] = up[k])
           /\ UNCHANGED <<here, drops, loaded, out, shown, own, created, taken, tasks, start>>
<1>1. /\ up[g] # <<>> /\ up' = [up EXCEPT ![g] = Tail(@)]
      /\ here' = here /\ drops' = drops /\ loaded' = loaded /\ out' = out /\ start' = start
      /\ shown' = shown /\ own' = own /\ created' = created /\ taken' = taken /\ tasks' = tasks
  BY Zenon DEF HostReads, game
<1>2. /\ UpTypes' /\ \A k \in Guests \ {g} : Unanswered(k)' = Unanswered(k) /\ (DropsOnce(k) => DropsOnce(k)') /\ up'[k] = up[k]
      /\ Head(up[g]) \in Posted
      /\ DropsOnce(g) => /\ DropsOnce(g)'
                         /\ Unanswered(g)' = Unanswered(g) \ (IF Head(up[g]).type = "drop" THEN {Head(up[g]).ref} ELSE {})
      /\ Head(up[g]).type = "drop" => Head(up[g]).ref \in Unanswered(g)
  BY <1>1, UpRead DEF AllTypes
<1>3. TaskTypes' /\ TasksStay /\ GameTypes'
  BY <1>1, Stays, Zenon DEF AllTypes
<1>4. g \in here
  BY <1>1, Zenon DEF AllTypes, Away
<1>. QED BY <1>1, <1>2, <1>3, <1>4, Zenon

\* A drop in a cell the host's game has (OnDrop, Make): made, or answered that it cannot be.
LEMMA DropMadeDoes ==
    ASSUME AllTypes, NEW g \in Guests, HostReads(g), Head(up[g]).type = "drop", loaded
    PROVE  /\ AllTypes' /\ WaitsStay /\ \A k \in Guests \ {g} : Grown(k, {}, {}, {})
           /\ \E r \in References :
                 /\ r \in Unanswered(g) /\ (DropsOnce(g) => DropsOnce(g)' /\ Unanswered(g)' = Unanswered(g) \ {r})
                 /\ Grown(g, {r}, {}, {})
                 /\ world' = (IF r \in Common THEN world \cup {r} ELSE world)
                 /\ log' = (IF r \in Common THEN log \cup {r} ELSE log)
           /\ UNCHANGED <<inv, deleted, forgotten>>
<1>1. PICK m, r : m = Head(up[g]) /\ r = m.ref
  OBVIOUS
<1>2. /\ m \in Posted /\ g \in here /\ UpTypes' /\ TaskTypes' /\ GameTypes' /\ \A k \in Guests \ {g} : up'[k] = up[k]
      /\ UNCHANGED <<here, drops, loaded, out, tasks, start>>
  BY <1>1, HostReadsRest, Zenon
<1>3. m.type = "drop" /\ m.type # "take" /\ m.type # "cell"
  BY <1>1
<1>4. r \in Unanswered(g) /\ (DropsOnce(g) => DropsOnce(g)' /\ Unanswered(g)' = Unanswered(g) \ {r})
  BY <1>1, <1>3, HostReadsRest
<1>5. r \in References
  BY <1>1, <1>2, <1>3 DEF Posted
<1>6. OnDrop(g, r) /\ UNCHANGED <<inv, deleted, cells>>
  BY <1>1, <1>3, Zenon DEF HostReads
<1>7. Of(r) \notin Foreign <=> r \in Common
  BY <1>5 DEF Common
<1>8. PICK made1 \in BOOLEAN : made1 = (Of(r) \notin Foreign)
  OBVIOUS
<1>9. /\ world' = (IF made1 THEN world \cup {r} ELSE world) /\ log' = (IF made1 THEN log \cup {r} ELSE log)
      /\ made' = (IF made1 THEN made \cup {<<g, r>>} ELSE made)
      /\ down' = [down EXCEPT ![g] = Append(@, Dropped(r, made1))]
      /\ pending' = pending /\ forgotten' = forgotten
  BY <1>6, <1>8, Zenon DEF OnDrop
<1>10. PICK n : n = Dropped(r, made1)
  OBVIOUS
<1>11. n \in Told /\ n.type = "dropped" /\ n.ref = r
  BY <1>5, <1>7, <1>8, <1>10, MessageTypes
<1>12. DownTypes' /\ Grown(g, {r}, {}, {}) /\ \A k \in Guests \ {g} : down'[k] = down[k] /\ Grown(k, {}, {}, {})
  <2>1. down' = [down EXCEPT ![g] = Append(@, n)]
    BY <1>9, <1>10, Zenon
  <2>2. /\ DownTypes' /\ \A k \in Guests \ {g} : down'[k] = down[k] /\ Grown(k, {}, {}, {})
        /\ Grown(g, IF n.type = "dropped" THEN {n.ref} ELSE {}, IF n.type = "pickup" THEN {n.ref} ELSE {},
                 IF n.type = "changes" THEN n.rows.new ELSE {})
    BY <1>11, <2>1, DownTells, Zenon DEF AllTypes
  <2>. QED BY <1>11, <2>2
<1>13. WaitTypes' /\ WaitsStay
  BY <1>9, Stays, Zenon DEF AllTypes, RuleTypes
<1>14. RuleTypes'
  <2>1. made' \in SUBSET (here \X References)
    BY <1>2, <1>5, <1>9 DEF AllTypes, RuleTypes
  <2>. QED BY <1>2, <1>6, <1>9, <1>13, <2>1, Zenon DEF AllTypes, RuleTypes, WaitsStay
<1>15. HostTypes'
  BY <1>2, <1>6, <1>7, <1>8, <1>9 DEF AllTypes, HostTypes
<1>16. PlayerTypes'
  BY <1>2, <1>6, Zenon DEF AllTypes, PlayerTypes
<1>17. Away'
  BY <1>2, <1>12 DEF AllTypes, Away
<1>18. AllTypes'
  BY <1>2, <1>12, <1>14, <1>15, <1>16, <1>17, Zenon DEF AllTypes
<1>19. world' = (IF r \in Common THEN world \cup {r} ELSE world) /\ log' = (IF r \in Common THEN log \cup {r} ELSE log)
  BY <1>7, <1>8, <1>9
<1>. QED BY <1>4, <1>5, <1>6, <1>9, <1>12, <1>13, <1>18, <1>19, Zenon

\* A drop in a cell it has not: it waits, and the oldest one may be forgotten for it.
LEMMA DropWaitsDoes ==
    ASSUME AllTypes, NEW g \in Guests, HostReads(g), Head(up[g]).type = "drop", ~loaded
    PROVE  /\ AllTypes' /\ DownStays
           /\ \E r \in References, kept \in SUBSET Waiters :
                 /\ r \in Unanswered(g) /\ (DropsOnce(g) => DropsOnce(g)' /\ Unanswered(g)' = Unanswered(g) \ {r})
                 /\ Waiters' = kept \cup {[player |-> g, ref |-> r]}
                 /\ WaitsOnce /\ r \notin Waits => WaitsOnce'
                 /\ forgotten' = forgotten \cup (Waits \ {d.ref : d \in kept})
                 /\ \E e : Waiters \subseteq kept \cup {e}
           /\ UNCHANGED <<inv, world, log, deleted>>
<1>1. PICK m, r : m = Head(up[g]) /\ r = m.ref
  OBVIOUS
<1>2. /\ m \in Posted /\ g \in here /\ UpTypes' /\ TaskTypes' /\ GameTypes' /\ \A k \in Guests \ {g} : up'[k] = up[k]
      /\ UNCHANGED <<here, drops, loaded, out, tasks, start>>
  BY <1>1, HostReadsRest, Zenon
<1>3. m.type = "drop" /\ m.type # "take" /\ m.type # "cell"
  BY <1>1
<1>4. r \in Unanswered(g) /\ (DropsOnce(g) => DropsOnce(g)' /\ Unanswered(g)' = Unanswered(g) \ {r})
  BY <1>1, <1>3, HostReadsRest
<1>5. r \in References
  BY <1>1, <1>2, <1>3 DEF Posted
<1>6. OnDrop(g, r) /\ UNCHANGED <<inv, deleted, cells>>
  BY <1>1, <1>3, Zenon DEF HostReads
<1>7. PICK d : d = [player |-> g, ref |-> r]
  OBVIOUS
<1>8. d \in Waitings /\ d.ref = r /\ d.player = g
  BY <1>5, <1>7 DEF Waitings
<1>9. /\ pending' = Append(Kept, d)
      /\ forgotten' = forgotten \cup ({e.ref : e \in ToSet(pending)} \ {e.ref : e \in ToSet(Kept)})
      /\ world' = world /\ log' = log /\ made' = made /\ down' = down
  BY <1>6, <1>7, Zenon DEF OnDrop
<1>10. PICK kept : kept = ToSet(Kept)
  OBVIOUS
<1>11. /\ WaitTypes' /\ kept \subseteq Waiters /\ Waiters' = kept \cup {d}
       /\ WaitsOnce /\ r \notin Waits => WaitsOnce'
  BY <1>8, <1>9, <1>10, WaitsMore DEF AllTypes, RuleTypes
<1>12. forgotten' = forgotten \cup (Waits \ {e.ref : e \in kept})
  BY <1>9, <1>10, Zenon DEF Waits
<1>13. forgotten' \in SUBSET References
  <2>1. Waits \subseteq References
    BY WaitsAre, WaitersAre DEF AllTypes, RuleTypes
  <2>. QED BY <1>12, <2>1 DEF AllTypes, RuleTypes
<1>14. RuleTypes'
  <2>1. \A e \in Waiters' : e.player \in here
    BY <1>2, <1>8, <1>11 DEF AllTypes, RuleTypes
  <2>. QED BY <1>2, <1>6, <1>9, <1>11, <1>13, <2>1 DEF AllTypes, RuleTypes
<1>15. HostTypes' /\ PlayerTypes'
  BY <1>2, <1>6, <1>9, Zenon DEF AllTypes, HostTypes, PlayerTypes
<1>16. DownTypes' /\ DownStays
  BY <1>9, Stays, Zenon DEF AllTypes
<1>17. Away'
  BY <1>2, <1>9 DEF AllTypes, Away
<1>18. AllTypes'
  BY <1>2, <1>14, <1>15, <1>16, <1>17, Zenon DEF AllTypes
<1>19. \E e : Waiters \subseteq kept \cup {e}
  BY <1>10, KeptButOne, Zenon DEF AllTypes, RuleTypes
<1>. QED BY <1>4, <1>5, <1>6, <1>7, <1>9, <1>11, <1>12, <1>16, <1>18, <1>19, Zenon

\* A pickup of a drop that waits (GivesBack): it is granted to its dropper and waits no longer.
LEMMA GivesBackDoes ==
    ASSUME AllTypes, NEW g \in Guests, HostReads(g), Head(up[g]).type = "take", GivesBack(g, Head(up[g]))
    PROVE  /\ AllTypes' /\ \A k \in Guests \ {g} : Grown(k, {}, {}, {})
           /\ DropsOnce(g) => DropsOnce(g)' /\ Unanswered(g)' = Unanswered(g)
           /\ \E r \in References :
                 /\ [player |-> g, ref |-> r] \in Waiters
                 /\ Waiters' = {d \in Waiters : ~(d.player = g /\ d.ref = r)} /\ (WaitsOnce => WaitsOnce')
                 /\ Grown(g, {}, {r}, {})
           /\ UNCHANGED <<inv, world, deleted, log, forgotten>>
<1>1. PICK m, r : m = Head(up[g]) /\ r = m.ref
  OBVIOUS
<1>2. /\ m \in Posted /\ g \in here /\ UpTypes' /\ TaskTypes' /\ GameTypes' /\ \A k \in Guests \ {g} : up'[k] = up[k]
      /\ UNCHANGED <<here, drops, loaded, out, tasks, start>>
  BY <1>1, HostReadsRest, Zenon
<1>3. m.type = "take" /\ m.type # "drop" /\ m.type # "cell"
  BY <1>1
<1>4. DropsOnce(g) => DropsOnce(g)' /\ Unanswered(g)' = Unanswered(g)
  BY <1>1, <1>3, HostReadsRest
<1>5. r \in References
  BY <1>1, <1>2, <1>3 DEF Posted
<1>6. UNCHANGED <<log, cells, forgotten>>
  BY <1>1, <1>3, Zenon DEF HostReads
<1>7. /\ [player |-> g, ref |-> r] \in ToSet(pending)
      /\ pending' = Only(pending, {d \in ToSet(pending) : ~(d.player = g /\ d.ref = r)})
      /\ down' = [down EXCEPT ![g] = Append(@, PickUp(r, FALSE, TRUE))]
      /\ inv' = inv /\ world' = world /\ deleted' = deleted /\ made' = made
  BY <1>1, Zenon DEF GivesBack
<1>8. WaitTypes' /\ Waiters' = {d \in Waiters : ~(d.player = g /\ d.ref = r)} /\ (WaitsOnce => WaitsOnce')
  <2>1. WaitTypes' /\ Waiters' = Waiters \cap {d \in ToSet(pending) : ~(d.player = g /\ d.ref = r)} /\ (WaitsOnce => WaitsOnce')
    BY <1>7, WaitsOnly DEF AllTypes, RuleTypes
  <2>. QED BY <2>1, ToSetIsSent DEF Waiters
<1>9. PICK n : n = PickUp(r, FALSE, TRUE)
  OBVIOUS
<1>10. n \in Told /\ n.type = "pickup" /\ n.ref = r
  BY <1>5, <1>9, MessageTypes
<1>11. DownTypes' /\ Grown(g, {}, {r}, {}) /\ \A k \in Guests \ {g} : down'[k] = down[k] /\ Grown(k, {}, {}, {})
  <2>1. down' = [down EXCEPT ![g] = Append(@, n)]
    BY <1>7, <1>9, Zenon
  <2>2. /\ DownTypes' /\ \A k \in Guests \ {g} : down'[k] = down[k] /\ Grown(k, {}, {}, {})
        /\ Grown(g, IF n.type = "dropped" THEN {n.ref} ELSE {}, IF n.type = "pickup" THEN {n.ref} ELSE {},
                 IF n.type = "changes" THEN n.rows.new ELSE {})
    BY <1>10, <2>1, DownTells, Zenon DEF AllTypes
  <2>. QED BY <1>10, <2>2
<1>12. [player |-> g, ref |-> r] \in Waiters
  BY <1>7, ToSetIsSent DEF Waiters
<1>13. RuleTypes'
  BY <1>2, <1>6, <1>7, <1>8 DEF AllTypes, RuleTypes
<1>14. HostTypes' /\ PlayerTypes'
  BY <1>2, <1>6, <1>7, Zenon DEF AllTypes, HostTypes, PlayerTypes
<1>15. Away'
  BY <1>2, <1>11 DEF AllTypes, Away
<1>16. AllTypes'
  BY <1>2, <1>11, <1>13, <1>14, <1>15, Zenon DEF AllTypes
<1>. QED BY <1>4, <1>5, <1>6, <1>7, <1>8, <1>11, <1>12, <1>16, Zenon

\* A pickup of an object (TakesItem): a quest's is the host's player's, another the asker's; of one
\* that is gone or not made nothing comes.
LEMMA TakesItemDoes ==
    ASSUME AllTypes, NEW g \in Guests, HostReads(g), Head(up[g]).type = "take", TakesItem(g, Head(up[g]))
    PROVE  /\ AllTypes' /\ WaitsStay /\ \A k \in Guests \ {g} : Grown(k, {}, {}, {})
           /\ DropsOnce(g) => DropsOnce(g)' /\ Unanswered(g)' = Unanswered(g)
           /\ \/ /\ Grown(g, {}, {}, {}) /\ UNCHANGED <<inv, world, deleted>>
              \/ \E r \in Common : /\ r \in world /\ r \notin deleted /\ world' = world \ {r} /\ Grown(g, {}, {}, {})
                                   /\ inv' = [inv EXCEPT ![Host] = @ \cup {Of(r)}] /\ deleted' = deleted
              \/ \E r \in Common : /\ r \in world /\ r \notin deleted /\ deleted' = deleted \cup {r} /\ Grown(g, {}, {r}, {})
                                   /\ inv' = inv /\ world' = world
           /\ UNCHANGED <<log, forgotten>>
<1>1. PICK m, r : m = Head(up[g]) /\ r = m.ref
  OBVIOUS
<1>2. /\ m \in Posted /\ g \in here /\ UpTypes' /\ TaskTypes' /\ GameTypes' /\ \A k \in Guests \ {g} : up'[k] = up[k]
      /\ UNCHANGED <<here, drops, loaded, out, tasks, start>>
  BY <1>1, HostReadsRest, Zenon
<1>3. m.type = "take" /\ m.type # "drop" /\ m.type # "cell"
  BY <1>1
<1>4. DropsOnce(g) => DropsOnce(g)' /\ Unanswered(g)' = Unanswered(g)
  BY <1>1, <1>3, HostReadsRest
<1>5. r \in References
  BY <1>1, <1>2, <1>3 DEF Posted
<1>6. UNCHANGED <<log, cells, forgotten>>
  BY <1>1, <1>3, Zenon DEF HostReads
<1>7. PICK there \in BOOLEAN, quest \in BOOLEAN :
         there = (Asked(g, m) /\ r \in Alive) /\ quest = (there /\ Of(r) \in Quest)
  <2>. DEFINE t == Asked(g, m) /\ r \in Alive
  <2>1. t \in BOOLEAN /\ (t /\ Of(r) \in Quest) \in BOOLEAN
    OBVIOUS
  <2>. QED BY <2>1, Zenon
<1>8. /\ world' = (IF quest THEN world \ {r} ELSE world)
      /\ inv' = (IF quest THEN [inv EXCEPT ![Host] = @ \cup {Of(r)}] ELSE inv)
      /\ deleted' = (IF there /\ ~quest THEN deleted \cup {r} ELSE deleted)
      /\ down' = (IF there /\ ~quest THEN [down EXCEPT ![g] = Append(@, PickUp(r, TRUE, m.tagged))] ELSE down)
      /\ made' = (IF Asked(g, m) THEN {d \in made : d[2] # r} ELSE made)
      /\ pending' = pending
  BY <1>1, <1>7, Zenon DEF TakesItem
<1>9. there => r \in world /\ r \notin deleted /\ r \in Common
  BY <1>7 DEF Alive, AllTypes, HostTypes
<1>10. WaitTypes' /\ WaitsStay
  BY <1>8, Stays, Zenon DEF AllTypes, RuleTypes
<1>11. RuleTypes'
  <2>1. made' \subseteq made
    BY <1>8
  <2>2. Waiters' = Waiters
    BY <1>10 DEF WaitsStay
  <2>. QED BY <1>2, <1>6, <1>10, <2>1, <2>2 DEF AllTypes, RuleTypes
<1>12. ASSUME quest
       PROVE  /\ AllTypes' /\ (\A k \in Guests \ {g} : Grown(k, {}, {}, {}))
              /\ world' = world \ {r} /\ Grown(g, {}, {}, {})
              /\ inv' = [inv EXCEPT ![Host] = @ \cup {Of(r)}] /\ deleted' = deleted
  <2>1. world' = world \ {r} /\ inv' = [inv EXCEPT ![Host] = @ \cup {Of(r)}] /\ deleted' = deleted /\ down' = down
    BY <1>8, <1>12
  <2>2. DownTypes' /\ DownStays
    BY <2>1, Stays, Zenon DEF AllTypes
  <2>3. r \in Common
    BY <1>7, <1>9, <1>12
  <2>4. PlayerTypes'
    <3>1. Of(r) \in Items \ Foreign
      BY <2>3, Pairs
    <3>. QED BY <1>2, <2>1, <3>1 DEF AllTypes, PlayerTypes, Players
  <2>5. HostTypes'
    BY <1>2, <1>6, <2>1 DEF AllTypes, HostTypes
  <2>6. Away'
    BY <1>2, <2>1 DEF AllTypes, Away
  <2>7. AllTypes'
    BY <1>2, <1>11, <2>2, <2>4, <2>5, <2>6, Zenon DEF AllTypes
  <2>. QED BY <2>1, <2>2, <2>7 DEF DownStays
<1>13. ASSUME there, ~quest
       PROVE  /\ AllTypes' /\ (\A k \in Guests \ {g} : Grown(k, {}, {}, {}))
              /\ deleted' = deleted \cup {r} /\ Grown(g, {}, {r}, {}) /\ inv' = inv /\ world' = world
  <2>1. world' = world /\ inv' = inv /\ deleted' = deleted \cup {r}
    BY <1>8, <1>13
  <2>2. PICK n : n = PickUp(r, TRUE, m.tagged)
    OBVIOUS
  <2>3. n \in Told /\ n.type = "pickup" /\ n.ref = r
    <3>1. m.tagged \in BOOLEAN
      BY <1>2 DEF Posted, Requests
    <3>2. \A t \in BOOLEAN : PickUp(r, TRUE, t) \in Told /\ PickUp(r, TRUE, t).type = "pickup" /\ PickUp(r, TRUE, t).ref = r
      <4>1. r \in Common /\ TRUE \in BOOLEAN
        BY <1>9, <1>13
      <4>2. \A q \in References, object, tagged \in BOOLEAN :
               (q \in Common \/ tagged) => PickUp(q, object, tagged) \in Told /\ PickUp(q, object, tagged).type = "pickup"
                                         /\ PickUp(q, object, tagged).ref = q
        BY MessageTypes, Zenon
      <4>. QED BY <1>5, <4>1, <4>2, ZenonT(30)
    <3>. QED BY <2>2, <3>1, <3>2, Zenon
  <2>4. DownTypes' /\ Grown(g, {}, {r}, {}) /\ \A k \in Guests \ {g} : down'[k] = down[k] /\ Grown(k, {}, {}, {})
    <3>1. down' = [down EXCEPT ![g] = Append(@, n)]
      BY <1>8, <1>13, <2>2, Zenon
    <3>2. /\ DownTypes' /\ \A k \in Guests \ {g} : down'[k] = down[k] /\ Grown(k, {}, {}, {})
          /\ Grown(g, IF n.type = "dropped" THEN {n.ref} ELSE {}, IF n.type = "pickup" THEN {n.ref} ELSE {},
                   IF n.type = "changes" THEN n.rows.new ELSE {})
      BY <2>3, <3>1, DownTells, Zenon DEF AllTypes
    <3>. QED BY <2>3, <3>2
  <2>5. PlayerTypes'
    BY <1>2, <2>1, Zenon DEF AllTypes, PlayerTypes
  <2>6. HostTypes'
    BY <1>2, <1>6, <1>9, <1>13, <2>1 DEF AllTypes, HostTypes
  <2>7. Away'
    BY <1>2, <2>4 DEF AllTypes, Away
  <2>8. AllTypes'
    BY <1>2, <1>11, <2>4, <2>5, <2>6, <2>7, Zenon DEF AllTypes
  <2>. QED BY <2>1, <2>4, <2>8
<1>14. ASSUME ~there
       PROVE  AllTypes' /\ (\A k \in Guests : Grown(k, {}, {}, {})) /\ UNCHANGED <<inv, world, deleted>>
  <2>1. world' = world /\ inv' = inv /\ deleted' = deleted /\ down' = down
    BY <1>7, <1>8, <1>14
  <2>2. DownTypes' /\ DownStays
    BY <2>1, Stays, Zenon DEF AllTypes
  <2>3. PlayerTypes' /\ HostTypes'
    BY <1>2, <1>6, <2>1, Zenon DEF AllTypes, PlayerTypes, HostTypes
  <2>4. Away'
    BY <1>2, <2>1 DEF AllTypes, Away
  <2>5. AllTypes'
    BY <1>2, <1>11, <2>2, <2>3, <2>4, Zenon DEF AllTypes
  <2>. QED BY <2>1, <2>2, <2>5 DEF DownStays
<1>15. CASE quest
  BY <1>4, <1>6, <1>7, <1>9, <1>10, <1>12, <1>15, Zenon
<1>16. CASE there /\ ~quest
  BY <1>4, <1>6, <1>9, <1>10, <1>13, <1>16, Zenon
<1>17. CASE ~there
  BY <1>4, <1>6, <1>10, <1>14, <1>17, Zenon
<1>. QED BY <1>15, <1>16, <1>17

\* A request for the cell's state: it is sent, or waits too.
LEMMA CellAskedDoes ==
    ASSUME AllTypes, NEW g \in Guests, HostReads(g), Head(up[g]).type = "cell"
    PROVE  /\ AllTypes' /\ WaitsStay /\ \A k \in Guests : Grown(k, {}, {}, out)
           /\ DropsOnce(g) => DropsOnce(g)' /\ Unanswered(g)' = Unanswered(g)
           /\ UNCHANGED <<inv, world, deleted, log, forgotten>>
<1>1. PICK m : m = Head(up[g])
  OBVIOUS
<1>2. /\ m \in Posted /\ g \in here /\ UpTypes' /\ TaskTypes' /\ GameTypes' /\ \A k \in Guests \ {g} : up'[k] = up[k]
      /\ UNCHANGED <<here, drops, loaded, out, tasks, start>>
  BY <1>1, HostReadsRest, Zenon
<1>3. m.type = "cell" /\ m.type # "drop" /\ m.type # "take"
  BY <1>1
<1>4. DropsOnce(g) => DropsOnce(g)' /\ Unanswered(g)' = Unanswered(g)
  BY <1>1, <1>3, HostReadsRest
<1>5. OnCellState(g) /\ UNCHANGED <<inv, world, deleted, log, pending, made, forgotten>>
  BY <1>1, <1>3, Zenon DEF HostReads
<1>6. WaitTypes' /\ WaitsStay
  BY <1>5, Stays, Zenon DEF AllTypes, RuleTypes
<1>7. cells' = (IF loaded THEN cells \ {g} ELSE cells \cup {g})
  BY <1>5, Zenon DEF OnCellState
<1>8. RuleTypes'
  <2>1. Waiters' = Waiters
    BY <1>6 DEF WaitsStay
  <2>2. cells' \subseteq here
    BY <1>2, <1>7 DEF AllTypes, RuleTypes
  <2>. QED BY <1>2, <1>5, <1>6, <2>1, <2>2 DEF AllTypes, RuleTypes
<1>9. DownTypes' /\ (\A k \in Guests \ {g} : down'[k] = down[k]) /\ \A k \in Guests : Grown(k, {}, {}, out)
  <2>1. CASE loaded
    <3>1. PICK n : n = CellState
      OBVIOUS
    <3>2. down' = [down EXCEPT ![g] = Append(@, n)]
      BY <1>5, <2>1, <3>1, Zenon DEF OnCellState
    <3>3. n \in Told /\ n.type = "changes" /\ n.rows.new \subseteq out
      <4>1. PICK new : new = Alive \cap out
        OBVIOUS
      <4>2. new \in SUBSET Common /\ new \subseteq out
        BY <4>1 DEF AllTypes, HostTypes
      <4>3. PICK t : t = Rows({}, new)
        OBVIOUS
      <4>4. t \in Applied /\ t.new = new
        BY <4>2, <4>3, MessageTypes DEF Rows
      <4>5. n = Changes(t)
        BY <3>1, <4>1, <4>3, Zenon DEF CellState
      <4>. QED BY <4>2, <4>4, <4>5, MessageTypes
    <3>4. /\ DownTypes' /\ \A k \in Guests \ {g} : down'[k] = down[k] /\ Grown(k, {}, {}, {})
          /\ Grown(g, IF n.type = "dropped" THEN {n.ref} ELSE {}, IF n.type = "pickup" THEN {n.ref} ELSE {},
                   IF n.type = "changes" THEN n.rows.new ELSE {})
      BY <3>2, <3>3, DownTells, Zenon DEF AllTypes
    <3>5. Grown(g, {}, {}, n.rows.new)
      BY <3>3, <3>4
    <3>. QED BY <3>3, <3>4, <3>5, GrewMore DEF Grown
  <2>2. CASE ~loaded
    <3>1. down' = down
      BY <1>5, <2>2, Zenon DEF OnCellState
    <3>2. DownTypes' /\ DownStays
      BY <3>1, Stays, Zenon DEF AllTypes
    <3>. QED BY <3>1, <3>2, GrewMore DEF DownStays, Grown
  <2>. QED BY <2>1, <2>2
<1>10. PlayerTypes' /\ HostTypes'
  BY <1>2, <1>5, Zenon DEF AllTypes, PlayerTypes, HostTypes
<1>11. Away'
  BY <1>2, <1>9 DEF AllTypes, Away
<1>12. AllTypes'
  BY <1>2, <1>8, <1>9, <1>10, <1>11, Zenon DEF AllTypes
<1>. QED BY <1>4, <1>5, <1>6, <1>9, <1>12, Zenon

\* HostUpdate: what the waiting drops are answered, of a cell that is loaded, and what the guests are told.
Making == IF loaded THEN Waiters ELSE {}

\* The host's update (HostAuthority::Update): rows, cells' states, and the drops that waited are made and answered.
LEMMA UpdateDoes ==
    ASSUME AllTypes, HostUpdate
    PROVE  /\ AllTypes' /\ UpStays /\ TasksStay
           /\ \A g \in Guests : Grown(g, {d.ref : d \in {e \in Making : e.player = g}}, {}, out \cup log)
           /\ out' \subseteq out \cup log
           /\ \E R : /\ R = {d.ref : d \in Making} \cap Common
                     /\ world' = world \cup R /\ log' = R
           /\ Waiters' = Waiters \ Making /\ (WaitsOnce => WaitsOnce')
           /\ UNCHANGED <<here, inv, drops, deleted, shown, own, created, start, forgotten>>
<1>. DEFINE rows == Rows(Removed, Made)
            told == IF rows = NoRows THEN down ELSE TellsHere(rows)
            state == Changes(Rows({}, Alive \cap ((out \ Removed) \cup Made)))
            celled == [g \in Guests |-> IF loaded /\ g \in cells THEN Append(told[g], state) ELSE told[g]]
            makes == IF loaded THEN pending ELSE <<>>
            answers(g) == Only(makes, {d \in ToSet(makes) : d.player = g})
            refs == {d.ref : d \in {e \in ToSet(makes) : Of(e.ref) \notin Foreign}}
            says(g) == [n \in DOMAIN answers(g) |-> Dropped(answers(g)[n].ref, answers(g)[n].ref \in refs)]
<1>1. /\ out' = (out \ Removed) \cup Made
      /\ cells' = (IF loaded THEN {} ELSE cells)
      /\ pending' = (IF loaded THEN <<>> ELSE pending)
      /\ world' = world \cup refs /\ log' = refs
      /\ made' = made \cup {<<d.player, d.ref>> : d \in {e \in ToSet(makes) : e.ref \in refs}}
      /\ down' = [g \in Guests |-> celled[g] \o says(g)]
  BY Zenon DEF HostUpdate, Update
<1>2. /\ here' = here /\ inv' = inv /\ drops' = drops /\ loaded' = loaded /\ deleted' = deleted
      /\ shown' = shown /\ own' = own /\ created' = created /\ taken' = taken /\ tasks' = tasks
      /\ up' = up /\ forgotten' = forgotten /\ start' = start
  BY Zenon DEF HostUpdate, game, history
<1>3. makes \in Seq(Waitings) /\ ToSet(makes) = Making
  <2>1. CASE loaded
    <3>1. makes = pending
      BY <2>1, Zenon
    <3>2. Making = Waiters
      BY <2>1 DEF Making
    <3>3. pending \in Seq(Waitings) /\ ToSet(pending) = Waiters
      BY ToSetIsSent, Zenon DEF AllTypes, RuleTypes, WaitTypes, Waiters
    <3>. HIDE DEF makes
    <3>. QED BY <3>1, <3>2, <3>3
  <2>2. CASE ~loaded
    <3>1. makes = <<>>
      BY <2>2, Zenon
    <3>2. Making = {}
      BY <2>2 DEF Making
    <3>3. <<>> \in Seq(Waitings) /\ ToSet(<<>>) = {}
      BY DEF ToSet
    <3>. HIDE DEF makes
    <3>. QED BY <3>1, <3>2, <3>3
  <2>. QED BY <2>1, <2>2
<1>4. Making \subseteq Waiters /\ \A d \in Making : d \in Waitings /\ d.player \in here /\ d.ref \in References
  BY WaitersAre DEF Making, AllTypes, RuleTypes
<1>5. refs = {d.ref : d \in Making} \cap Common
  BY <1>3, <1>4 DEF Common
<1>6. Removed \in SUBSET References /\ Made \in SUBSET Common /\ Made \subseteq log
  BY DEF Removed, Made, Alive, AllTypes, HostTypes, Common
<1>7. PICK N : N = Alive \cap ((out \ Removed) \cup Made)
  OBVIOUS
<1>8. N \in SUBSET Common /\ N \subseteq out \cup log
  BY <1>6, <1>7 DEF AllTypes, HostTypes
<1>9. rows \in Applied /\ rows.new = Made
  BY <1>6, MessageTypes DEF Rows
<1>10. state \in Told /\ state.type = "changes" /\ state.rows.new = N
  <2>1. PICK t : t = Rows({}, N)
    OBVIOUS
  <2>2. t \in Applied /\ t.new = N
    BY <1>8, <2>1, MessageTypes DEF Rows
  <2>3. state = Changes(t)
    BY <1>7, <2>1, Zenon
  <2>. HIDE DEF state
  <2>. QED BY <2>2, <2>3, MessageTypes
<1>11. PICK c : c = Changes(rows)
  OBVIOUS
<1>12. c \in Told /\ c.type = "changes" /\ c.rows.new = Made
  <2>. HIDE DEF rows
  <2>. QED BY <1>9, <1>11, MessageTypes
<1>13. ASSUME NEW g \in Guests
       PROVE  /\ down'[g] \in Seq(Told) /\ Grown(g, {d.ref : d \in {e \in Making : e.player = g}}, {}, out \cup log)
              /\ g \notin here => down'[g] = down[g]
  <2>1. PICK s, t, u, a : s = down[g] /\ t = told[g] /\ u = celled[g] /\ a = answers(g)
    OBVIOUS
  <2>2. s \in Seq(Told)
    BY <2>1 DEF AllTypes, DownTypes
  <2>3. t \in Seq(Told) /\ Grew(s, t, {}, {}, out \cup log) /\ (g \notin here => t = s)
    <3>1. t = (IF rows # NoRows /\ g \in here THEN Append(s, c) ELSE s)
      <4>1. TellsHere(rows)[g] = (IF g \in here THEN Append(s, c) ELSE s)
        BY <1>11, <2>1, Zenon DEF TellsHere
      <4>. QED BY <2>1, <4>1, Zenon
    <3>2. CASE rows # NoRows /\ g \in here
      <4>1. t = Append(s, c)
        BY <3>1, <3>2, Zenon
      <4>2. t \in Seq(Told) /\ Grew(s, t, {}, {}, Made)
        <5>1. /\ Append(s, c) \in Seq(Told)
              /\ Grew(s, Append(s, c), IF c.type = "dropped" THEN {c.ref} ELSE {}, IF c.type = "pickup" THEN {c.ref} ELSE {},
                      IF c.type = "changes" THEN c.rows.new ELSE {})
          BY <1>12, <2>2, GrewAppend, AppendFacts, Zenon
        <5>2. PICK w : w = Append(s, c)
          OBVIOUS
        <5>3. w \in Seq(Told) /\ Grew(s, w, {}, {}, Made)
          BY <1>12, <5>1, <5>2
        <5>. QED BY <4>1, <5>2, <5>3, Zenon
      <4>. QED BY <1>6, <3>2, <4>2, GrewMore
    <3>3. CASE ~(rows # NoRows /\ g \in here)
      <4>1. t = s
        BY <3>1, <3>3, Zenon
      <4>. QED BY <2>2, <4>1, GrewSame, GrewMore
    <3>. QED BY <3>2, <3>3
  <2>4. u \in Seq(Told) /\ Grew(t, u, {}, {}, out \cup log) /\ (g \notin here => u = t)
    <3>1. u = (IF loaded /\ g \in cells THEN Append(t, state) ELSE t)
      BY <2>1, Zenon
    <3>2. CASE loaded /\ g \in cells
      <4>1. u = Append(t, state)
        BY <3>1, <3>2, Zenon
      <4>2. u \in Seq(Told) /\ Grew(t, u, {}, {}, N)
        <5>1. PICK e : e = state
          OBVIOUS
        <5>2. e \in Told /\ e.type = "changes" /\ e.rows.new = N
          BY <1>10, <5>1, Zenon
        <5>3. /\ Append(t, e) \in Seq(Told)
              /\ Grew(t, Append(t, e), IF e.type = "dropped" THEN {e.ref} ELSE {}, IF e.type = "pickup" THEN {e.ref} ELSE {},
                      IF e.type = "changes" THEN e.rows.new ELSE {})
          BY <2>3, <5>2, GrewAppend, AppendFacts, Zenon
        <5>4. PICK w : w = Append(t, e)
          OBVIOUS
        <5>5. w \in Seq(Told) /\ Grew(t, w, {}, {}, N)
          BY <5>2, <5>3, <5>4
        <5>. QED BY <4>1, <5>1, <5>4, <5>5, Zenon
      <4>3. g \in here
        BY <3>2 DEF AllTypes, RuleTypes
      <4>. QED BY <1>8, <4>2, <4>3, GrewMore
    <3>3. CASE ~(loaded /\ g \in cells)
      <4>1. u = t
        BY <3>1, <3>3, Zenon
      <4>. QED BY <2>3, <4>1, GrewSame, GrewMore
    <3>. QED BY <3>2, <3>3
  <2>5. /\ a \in Seq(Waitings) /\ Sent(a) = {d \in Making : d.player = g}
    <3>1. /\ Only(makes, {d \in ToSet(makes) : d.player = g}) \in Seq(Waitings)
          /\ Sent(Only(makes, {d \in ToSet(makes) : d.player = g})) = Sent(makes) \cap {d \in ToSet(makes) : d.player = g}
      <4>. HIDE DEF makes
      <4>. QED BY <1>3, OnlyFacts
    <3>2. Sent(makes) = Making
      BY <1>3, ToSetIsSent
    <3>3. a \in Seq(Waitings) /\ Sent(a) = Sent(makes) \cap {d \in ToSet(makes) : d.player = g}
      BY <2>1, <3>1, Zenon
    <3>. HIDE DEF makes
    <3>. QED BY <1>3, <3>2, <3>3
  <2>6. PICK v : v = says(g)
    OBVIOUS
  <2>7. v = [n \in DOMAIN a |-> Dropped(a[n].ref, a[n].ref \in refs)]
    BY <2>1, <2>6, Zenon
  <2>8. DOMAIN a = 1 .. Len(a) /\ Len(a) \in Nat /\ \A n \in DOMAIN a : a[n] \in Making /\ a[n].player = g
    BY <2>5, LenProperties DEF Sent
  <2>9. ASSUME NEW n \in DOMAIN a PROVE v[n] \in Told /\ v[n].type = "dropped" /\ v[n].ref = a[n].ref
    <3>1. PICK r : r = a[n].ref
      OBVIOUS
    <3>5. PICK o \in BOOLEAN : o = (r \in refs)
      <4>1. (r \in refs) \in BOOLEAN
        OBVIOUS
      <4>. QED BY <4>1, Zenon
    <3>2. r \in References /\ (o <=> r \in Common)
      <4>1. a[n] \in Making
        BY <2>8
      <4>2. a[n].ref \in {d.ref : d \in Making} /\ a[n].ref \in References
        BY <1>4, <4>1
      <4>3. o <=> a[n].ref \in {d.ref : d \in Making} \cap Common
        BY <1>5, <3>1, <3>5, Zenon
      <4>. QED BY <3>1, <4>2, <4>3
    <3>3. v[n] = Dropped(r, o)
      BY <2>7, <3>1, <3>5, Zenon
    <3>4. Dropped(r, o) \in Told /\ Dropped(r, o).type = "dropped" /\ Dropped(r, o).ref = r
      <4>1. \A x \in References, b \in BOOLEAN :
                (b <=> x \in Common) => Dropped(x, b) \in Told /\ Dropped(x, b).type = "dropped" /\ Dropped(x, b).ref = x
        BY MessageTypes, Zenon
      <4>. QED BY <3>2, <3>5, <4>1
    <3>. QED BY <3>1, <3>3, <3>4, Zenon
  <2>10. DOMAIN v = DOMAIN a
    BY <2>7
  <2>11. v \in Seq(Told)
    <3>1. v = [n \in 1 .. Len(a) |-> v[n]]
      BY <2>7, <2>8
    <3>. QED BY <2>8, <2>9, <3>1
  <2>12. {v[n].ref : n \in DOMAIN v} = {d.ref : d \in {e \in Making : e.player = g}}
    <3>1. {a[n].ref : n \in DOMAIN a} = {d.ref : d \in Sent(a)}
      BY DEF Sent
    <3>. QED BY <2>5, <2>9, <2>10, <3>1, ZenonT(30)
  <2>13. Grew(u, u \o v, {v[n].ref : n \in DOMAIN v}, {}, {}) /\ u \o v \in Seq(Told)
    <3>1. \A n \in DOMAIN v : v[n].type = "dropped"
      BY <2>9, <2>10
    <3>. QED BY <2>4, <2>11, <3>1, GrewAnswers
  <2>14. down'[g] = u \o v
    BY <1>1, <2>1, <2>6, Zenon
  <2>15. PICK z, A : z = u \o v /\ A = {v[n].ref : n \in DOMAIN v}
    OBVIOUS
  <2>16. Grew(u, z, A, {}, {}) /\ z \in Seq(Told)
    BY <2>13, <2>15, Zenon
  <2>17. Grew(s, u, {}, {}, out \cup log)
    BY <2>3, <2>4, GrewTrans
  <2>18. Grew(s, z, A, {}, out \cup log)
    BY <2>16, <2>17, GrewTrans
  <2>19. g \notin here => z = s
    <3>1. ASSUME g \notin here PROVE v = <<>>
      <4>1. DOMAIN a = {}
        BY <1>4, <2>8, <3>1
      <4>2. Len(a) = 0 /\ DOMAIN v = {}
        BY <2>8, <2>10, <4>1
      <4>3. Len(v) = 0
        BY <2>11, <4>2, LenProperties
      <4>. QED BY <2>11, <4>3, EmptySeq
    <3>2. v = <<>> => z = u
      BY <2>4, <2>15, ConcatEmptySeq
    <3>. QED BY <2>3, <2>4, <3>1, <3>2
  <2>. QED BY <2>1, <2>12, <2>14, <2>15, <2>16, <2>18, <2>19, Zenon DEF Grown
<1>. HIDE DEF rows, told, state, celled, makes, answers, refs, says
<1>14. DownTypes'
  <2>1. down' = [g \in Guests |-> down'[g]]
    BY <1>1, Zenon
  <2>. QED BY <1>13, <2>1 DEF DownTypes
<1>15. WaitTypes' /\ Waiters' = Waiters \ Making /\ (WaitsOnce => WaitsOnce')
  <2>1. CASE loaded
    <3>1. pending' = <<>>
      BY <1>1, <2>1
    <3>. QED BY <2>1, <3>1, WaitsNone DEF Making
  <2>2. CASE ~loaded
    <3>1. pending' = pending
      BY <1>1, <2>2
    <3>. QED BY <2>2, <3>1, WaitsSame DEF Making, AllTypes, RuleTypes
  <2>. QED BY <2>1, <2>2
<1>16. RuleTypes'
  <2>1. made' \in SUBSET (here \X References)
    <3>1. \A d \in ToSet(makes) : <<d.player, d.ref>> \in here \X References
      BY <1>3, <1>4
    <3>. QED BY <1>1, <3>1 DEF AllTypes, RuleTypes
  <2>2. cells' \in SUBSET here
    BY <1>1 DEF AllTypes, RuleTypes
  <2>. QED BY <1>2, <1>15, <2>1, <2>2 DEF AllTypes, RuleTypes
<1>17. HostTypes'
  BY <1>1, <1>2, <1>5, <1>6 DEF AllTypes, HostTypes
<1>18. PlayerTypes'
  BY <1>2, Zenon DEF AllTypes, PlayerTypes
<1>19. UpTypes' /\ UpStays /\ TaskTypes' /\ TasksStay /\ GameTypes'
  BY <1>2, Stays, Zenon DEF AllTypes
<1>20. Away'
  BY <1>2, <1>13 DEF AllTypes, Away
<1>21. AllTypes'
  BY <1>14, <1>16, <1>17, <1>18, <1>19, <1>20, Zenon DEF AllTypes
<1>22. out' \subseteq out \cup log
  BY <1>1, <1>6
<1>23. \E R : R = {d.ref : d \in Making} \cap Common /\ world' = world \cup R /\ log' = R
  BY <1>1, <1>5, Zenon
<1>. QED BY <1>2, <1>13, <1>15, <1>19, <1>21, <1>22, <1>23, Zenon

-----------------------------------------------------------------------------
\* Type correctness.

\* At first nothing was dropped, and the wire is empty.
LEMMA InitTypes == Init => AllTypes
<1>1. HAVE Init
<1>2. PlayerTypes
  <2>1. here \in SUBSET Guests /\ start \in Starts /\ drops = 0 /\ DOMAIN start \subseteq Items
    BY <1>1, ItemsAssumption DEF Init
  <2>2. inv = [p \in Players |-> {i \in DOMAIN start : start[i] = p}]
    BY <1>1, Zenon DEF Init
  <2>3. \A i \in DOMAIN start : i \in Foreign => start[i] \in Guests
    BY <2>1, ItemsAssumption, Zenon
  <2>4. inv[Host] \cap Foreign = {}
    BY <2>2, <2>3, PlayersAssumption DEF Players
  <2>. QED BY <2>1, <2>2, <2>4, BoundsAssumption DEF PlayerTypes
<1>3. HostTypes
  BY <1>1 DEF Init, HostTypes
<1>4. RuleTypes
  <2>1. pending = <<>> /\ made = {} /\ cells = {} /\ forgotten = {}
    BY <1>1, Zenon DEF Init
  <2>2. WaitTypes /\ Waiters = {}
    BY <2>1, BoundsAssumption DEF WaitTypes, Waiters, Sent
  <2>. QED BY <2>1, <2>2 DEF RuleTypes
<1>5. GameTypes
  <2>1. shown = [g \in Guests |-> {}] /\ own = shown /\ created = shown /\ taken = shown
    BY <1>1, Zenon DEF Init
  <2>. QED BY <2>1 DEF GameTypes
<1>6. tasks = [g \in Guests |-> <<>>] /\ up = tasks /\ down = tasks
  BY <1>1, Zenon DEF Init
<1>7. TaskTypes /\ UpTypes /\ DownTypes
  <2>1. <<>> \in Seq(Applied) /\ <<>> \in Seq(Posted) /\ <<>> \in Seq(Told)
    OBVIOUS
  <2>. QED BY <1>6, <2>1 DEF TaskTypes, UpTypes, DownTypes
<1>8. Away
  BY <1>6 DEF Away
<1>. QED BY <1>2, <1>3, <1>4, <1>5, <1>7, <1>8, Zenon DEF AllTypes

\* A notice a guest reads is one of three, and so is a request the host reads.
LEMMA ReadsCases ==
    ASSUME AllTypes, NEW g \in Guests
    PROVE  /\ GuestReads(g) => Head(down[g]).type \in {"dropped", "pickup", "changes"}
           /\ HostReads(g) => \/ Head(up[g]).type = "drop"
                              \/ Head(up[g]).type = "take" /\ GivesBack(g, Head(up[g]))
                              \/ Head(up[g]).type = "take" /\ TakesItem(g, Head(up[g]))
                              \/ Head(up[g]).type = "cell"
<1>1. ASSUME GuestReads(g) PROVE Head(down[g]).type \in {"dropped", "pickup", "changes"}
  BY <1>1, Zenon DEF GuestReads
<1>2. ASSUME HostReads(g)
      PROVE  \/ Head(up[g]).type = "drop"
             \/ Head(up[g]).type = "take" /\ GivesBack(g, Head(up[g]))
             \/ Head(up[g]).type = "take" /\ TakesItem(g, Head(up[g]))
             \/ Head(up[g]).type = "cell"
  BY <1>2, Zenon DEF HostReads, OnPickUp
<1>. QED BY <1>1, <1>2, Zenon

\* Whatever happens, the types stay.
LEMMA StepTypes == AllTypes /\ [Next]_vars => AllTypes'
<1>1. SUFFICES ASSUME AllTypes, Next \/ UNCHANGED vars PROVE AllTypes'
  OBVIOUS
<1>2. ASSUME NEW i \in Items, HostDrops(i) PROVE AllTypes'
  BY <1>1, <1>2, HostDropsDoes, Zenon
<1>3. ASSUME NEW i \in Items, NEW g \in Guests, GuestDrops(g, i) PROVE AllTypes'
  BY <1>1, <1>3, GuestDropsDoes, Zenon
<1>4. ASSUME NEW r \in References, HostPicksUp(r) PROVE AllTypes'
  BY <1>1, <1>4, HostPicksUpDoes, Zenon
<1>5. CASE CellLoads
  BY <1>1, <1>5, CellLoadsDoes, Zenon
<1>6. CASE HostUpdate
  BY <1>1, <1>6, UpdateDoes, Zenon
<1>7. ASSUME NEW g \in Guests, HostReads(g) PROVE AllTypes'
  BY <1>1, <1>7, ReadsCases, DropMadeDoes, DropWaitsDoes, GivesBackDoes, TakesItemDoes, CellAskedDoes, Zenon
<1>8. ASSUME NEW g \in Guests, GuestReads(g) PROVE AllTypes'
  BY <1>1, <1>8, ReadsCases, AdoptDropDoes, GrantedDoes, ChangesDoes, Zenon
<1>9. ASSUME NEW g \in Guests, GuestTask(g) PROVE AllTypes'
  BY <1>1, <1>9, GuestTaskDoes, Zenon
<1>10. ASSUME NEW g \in Guests, NEW h \in shown[g], GuestAsks(g, h) \/ GuestPicksUp(g, h) PROVE AllTypes'
  BY <1>1, <1>10, GuestAsksDoes, GuestPicksUpDoes, Zenon
<1>11. ASSUME NEW g \in Guests, Join(g) \/ Leave(g) PROVE AllTypes'
  BY <1>1, <1>11, JoinDoes, LeaveDoes, Zenon
<1>12. CASE UNCHANGED vars
  BY <1>1, <1>12, Zenon DEF vars, host, rule, game, history, AllTypes, PlayerTypes, HostTypes, RuleTypes, WaitTypes,
     Waiters, GameTypes, TaskTypes, UpTypes, DownTypes, Away
<1>. QED BY <1>1, <1>2, <1>3, <1>4, <1>5, <1>6, <1>7, <1>8, <1>9, <1>10, <1>11, <1>12, Zenon DEF Next

\* The types are those TypeOK names.
LEMMA TypesAreOK == AllTypes => TypeOK
<1>1. HAVE AllTypes
<1>2. /\ here \subseteq Guests /\ inv \in [Players -> SUBSET Items] /\ drops \in 0 .. MaxDrops
      /\ loaded \in BOOLEAN /\ world \subseteq References /\ log \cup out \cup deleted \subseteq References
  BY <1>1 DEF AllTypes, PlayerTypes, HostTypes, Common
<1>3. /\ Len(pending) <= kMaxPending /\ \A d \in ToSet(pending) : d.player \in here /\ d.ref \in References
      /\ made \subseteq here \X References /\ cells \subseteq here /\ forgotten \subseteq References
  <2>1. WaitTypes /\ ToSet(pending) = Waiters
    BY <1>1, ToSetIsSent, Zenon DEF AllTypes, RuleTypes, Waiters
  <2>. QED BY <1>1, <2>1, WaitersAre DEF AllTypes, RuleTypes, WaitTypes
<1>4. ASSUME NEW g \in Guests
      PROVE  /\ shown[g] \cup created[g] \subseteq Handles /\ own[g] \cup taken[g] \subseteq References
             /\ \A h, k \in created[g] : h[1] = k[1] => h = k
             /\ tasks[g] \in Seq(RowsOf) /\ up[g] \in Seq(Requests) /\ down[g] \in Seq(Notice)
  <2>1. shown[g] \cup created[g] \subseteq Handles /\ own[g] \cup taken[g] \subseteq References
    BY <1>1, Pairs DEF AllTypes, GameTypes
  <2>2. \A h, k \in created[g] : h[1] = k[1] => h = k
    BY <1>1, Zenon DEF AllTypes, GameTypes
  <2>3. tasks[g] \in Seq(Applied) /\ up[g] \in Seq(Posted) /\ down[g] \in Seq(Told)
    BY <1>1 DEF AllTypes, TaskTypes, UpTypes, DownTypes
  <2>4. Applied \subseteq RowsOf /\ Posted \subseteq Requests /\ Told \subseteq Notice
    BY DEF Applied, Posted, Told
  <2>. HIDE DEF Applied, Posted, Told, RowsOf, Requests, Notice
  <2>5. tasks[g] \in Seq(RowsOf) /\ up[g] \in Seq(Requests) /\ down[g] \in Seq(Notice)
    BY <2>3, <2>4
  <2>. QED BY <2>1, <2>2, <2>5
<1>. QED BY <1>2, <1>3, <1>4, Zenon DEF TypeOK

\* Every state is of the model's types: HostItems keeps only drops of the guests that are here, at most kMaxPending,
\* and GuestEngine's m_created names each of the host's references once.
THEOREM TypeCorrect == Spec => []TypeOK
<1>1. Init => AllTypes
  BY InitTypes
<1>2. AllTypes /\ [Next]_vars => AllTypes'
  BY StepTypes
<1>3. AllTypes => TypeOK
  BY TypesAreOK
<1>. QED BY <1>1, <1>2, <1>3, PTL DEF Spec

-----------------------------------------------------------------------------
\* The inductive invariant.

\* No drop has a number yet to be given.
KnownHost == \A r \in world \cup deleted \cup log \cup out \cup forgotten : r[2] \in 1 .. drops
KnownGuest(g) ==
    /\ \A r \in own[g] \cup Ans(g) \cup Heard(g) \cup Queued(g) : r[2] \in 1 .. drops
    /\ \A h \in shown[g] \cup created[g] : h[1][2] \in 1 .. drops

\* A drop that waits, or is under way, is its dropper's own; the host neither made it nor forgot it.
WaitsOwned ==
    WaitsOnce /\ \A d \in Waiters : d.ref \in own[d.player] /\ d.ref \notin deleted \cup forgotten
AsksOwn(g) == DropsOnce(g) /\ Unanswered(g) \subseteq own[g] \ (deleted \cup forgotten)

\* What the host's game lacks is granted to its dropper alone, and an answer comes when nothing else is under way.
GrantsReal(g) == GrantsOnce(g) /\ Grants(g) \ Common \subseteq own[g]
AnswersLate(g) ==
    \A r \in Ans(g) : /\ r \notin Waits \cup forgotten /\ (r \notin Common => r \notin Grants(g))
                      /\ \A k \in Guests : r \notin Unanswered(k)

\* A drop that is not answered is shown, named by no row its game has or is told before the answer, and made by the
\* host's game only if the answer is on its way.
OwnShown(g) == \A r \in own[g] : Own(r) \in shown[g]
OwnUnnamed(g) ==
    \A r \in own[g] : (\A k \in created[g] : k[1] # r) /\ r \notin Queued(g) /\ r \notin HeardEarly(g)
OwnMade(g) == \A r \in own[g] : r \in log \cup out => r \in Ans(g)

\* What a game shows is named as the host's, or its own drop; and a forgotten one that the host's game lacks is its own.
ShownNamed(g) ==
    \A h \in shown[g] : /\ h[1] \in Common => h \in created[g] \/ (h = Own(h[1]) /\ h[1] \in own[g])
                        /\ h[1] \notin Common => h = Own(h[1])
ForgotOwn(g) == \A h \in shown[g] : h[1] \in forgotten \ Common => h[1] \in own[g]

\* Nobody has another's drop, until the host's game made it.
Apart ==
    \A g, k \in Guests : g # k => /\ own[g] \cap own[k] = {}
                                  /\ \A h \in shown[g], j \in shown[k] : h[1] = j[1] => h[1] \in Common

GuestInv(g) ==
    /\ KnownGuest(g) /\ AsksOwn(g) /\ GrantsReal(g) /\ AnswersLate(g)
    /\ OwnShown(g) /\ OwnUnnamed(g) /\ OwnMade(g) /\ ShownNamed(g) /\ ForgotOwn(g)

\* An item is in one place, or may be lost.
OneAt(i) == (\A x, y \in Places(i) : x = y) /\ (Places(i) = {} => MayBeLost(i))

Ownership == KnownHost /\ WaitsOwned /\ (\A g \in Guests : GuestInv(g)) /\ Apart
ItemsInv == AllTypes /\ Ownership /\ \A i \in Items : OneAt(i)

\* The places an item may be in.
AtHand(p) == <<"with", p>>
AtGrant(g, r) == <<"granted", g, r>>
AtDrop(r) == <<"dropped", r>>
AtWait(r) == <<"waits", r>>
AtWorld(r) == <<"loose", r>>

Dropping(r) == \E g \in Guests : r \in Unanswered(g) \cup Alone(g)
IsAt(i, z) ==
    \/ \E p \in Players : i \in inv[p] /\ z = AtHand(p)
    \/ \E g \in Guests, r \in References : r \in Grants(g) /\ Of(r) = i /\ z = AtGrant(g, r)
    \/ \E r \in References : /\ Of(r) = i
                             /\ \/ Dropping(r) /\ z = AtDrop(r)
                                \/ r \in Waits /\ z = AtWait(r)
                                \/ r \in Alive /\ z = AtWorld(r)

\* Places that are named differently are different.
LEMMA Spots ==
    /\ \A p, q : AtHand(p) = AtHand(q) => p = q
    /\ \A g, k, r, q : AtGrant(g, r) = AtGrant(k, q) => g = k /\ r = q
    /\ \A r, q : (AtDrop(r) = AtDrop(q) \/ AtWait(r) = AtWait(q) \/ AtWorld(r) = AtWorld(q)) => r = q
    /\ \A p : AtHand(p)[1] = "with"
    /\ \A g, r : AtGrant(g, r)[1] = "granted"
    /\ \A r : AtDrop(r)[1] = "dropped" /\ AtWait(r)[1] = "waits" /\ AtWorld(r)[1] = "loose"
<1>1. \A p, q : AtHand(p) = AtHand(q) => p = q
  BY DEF AtHand
<1>2. \A g, k, r, q : AtGrant(g, r) = AtGrant(k, q) => g = k /\ r = q
  BY DEF AtGrant
<1>3. \A r, q : (AtDrop(r) = AtDrop(q) \/ AtWait(r) = AtWait(q) \/ AtWorld(r) = AtWorld(q)) => r = q
  BY DEF AtDrop, AtWait, AtWorld
<1>4. /\ \A p : AtHand(p)[1] = "with"
      /\ \A g, r : AtGrant(g, r)[1] = "granted"
      /\ \A r : AtDrop(r)[1] = "dropped" /\ AtWait(r)[1] = "waits" /\ AtWorld(r)[1] = "loose"
  BY DEF AtHand, AtGrant, AtDrop, AtWait, AtWorld
<1>. QED BY <1>1, <1>2, <1>3, <1>4

\* What is under way is a reference.
LEMMA RefsTyped ==
    ASSUME AllTypes
    PROVE  /\ \A g \in Guests : /\ Unanswered(g) \subseteq References /\ Grants(g) \subseteq References
                                /\ Ans(g) \subseteq References /\ Alone(g) \subseteq References
           /\ Waits \subseteq References /\ Alive \subseteq Common
<1>1. ASSUME NEW g \in Guests
      PROVE  Unanswered(g) \subseteq References /\ Grants(g) \subseteq References /\ Ans(g) \subseteq References
  <2>1. PICK s, t : s = up[g] /\ t = down[g]
    OBVIOUS
  <2>2. s \in Seq(Posted) /\ t \in Seq(Told)
    BY <2>1 DEF AllTypes, UpTypes, DownTypes
  <2>3. (\A n \in DOMAIN s : s[n] \in Posted) /\ (\A n \in DOMAIN t : t[n] \in Told)
    BY <2>2
  <2>4. Unanswered(g) = Refs(s, "drop") /\ Grants(g) = Refs(t, "pickup") /\ Ans(g) = Refs(t, "dropped")
    BY <2>1, Zenon DEF Unanswered, Grants, Ans, Refs
  <2>5. \A m \in Posted : m.type # "cell" => m.ref \in References
    BY DEF Posted
  <2>6. \A m \in Told : m.type # "changes" => m.ref \in References
    BY DEF Told
  <2>. HIDE DEF Posted, Told
  <2>. QED BY <2>3, <2>4, <2>5, <2>6, RefsAre
<1>2. \A g \in Guests : Alone(g) \subseteq References
  BY Pairs DEF Alone, AllTypes, GameTypes
<1>3. Waits \subseteq References
  BY WaitsAre, WaitersAre DEF AllTypes, RuleTypes
<1>. QED BY <1>1, <1>2, <1>3 DEF Alive, AllTypes, HostTypes

\* An item's places.
LEMMA InPlacesNow == AllTypes => \A i, z : z \in Places(i) <=> IsAt(i, z)
<1>1. SUFFICES ASSUME AllTypes, NEW i, NEW z PROVE z \in Places(i) <=> IsAt(i, z)
  OBVIOUS
<1>2. /\ \A g \in Guests : /\ Unanswered(g) \subseteq References /\ Grants(g) \subseteq References
                           /\ Alone(g) \subseteq References
      /\ Waits \subseteq References /\ Alive \subseteq References
  BY <1>1, RefsTyped DEF Common
<1>. DEFINE Its(refs) == {r \in refs : Of(r) = i}
            A == {<<"with", p>> : p \in {q \in Players : i \in inv[q]}}
            B == UNION {{<<"granted", g, r>> : r \in Its(Grants(g))} : g \in Guests}
            C == {<<"dropped", r>> : r \in Its(UNION {Unanswered(g) \cup Alone(g) : g \in Guests})}
            D == {<<"waits", r>> : r \in Its(Waits)}
            E == {<<"loose", r>> : r \in Its(Alive)}
<1>3. Places(i) = A \cup B \cup C \cup D \cup E
  BY Zenon DEF Places
<1>4. z \in A <=> \E p \in Players : i \in inv[p] /\ z = AtHand(p)
  BY DEF AtHand
<1>5. z \in B <=> \E g \in Guests, r \in References : r \in Grants(g) /\ Of(r) = i /\ z = AtGrant(g, r)
  BY <1>2 DEF AtGrant
<1>6. z \in C <=> \E r \in References : Of(r) = i /\ Dropping(r) /\ z = AtDrop(r)
  BY <1>2 DEF AtDrop, Dropping
<1>7. z \in D <=> \E r \in References : Of(r) = i /\ r \in Waits /\ z = AtWait(r)
  BY <1>2 DEF AtWait
<1>8. z \in E <=> \E r \in References : Of(r) = i /\ r \in Alive /\ z = AtWorld(r)
  BY <1>2 DEF AtWorld
<1>. HIDE DEF A, B, C, D, E
<1>. QED BY <1>3, <1>4, <1>5, <1>6, <1>7, <1>8, Zenon DEF IsAt

\* The same after a step.
LEMMA InPlacesNext == (AllTypes => \A i, z : z \in Places(i) <=> IsAt(i, z))'
BY InPlacesNow, PTL

-----------------------------------------------------------------------------
\* What the invariant says of references.

\* No two drops that wait are of one reference.
LEMMA WaiterOnce == WaitsOnce => \A d, e \in Waiters : d.ref = e.ref => d = e
BY DEF WaitsOnce, Waiters, Sent

\* A reference is on its way to the host, or waits, or is granted to one player, or lies in the host's world.
LEMMA OnlyOnce ==
    ASSUME AllTypes, \A i \in Items : OneAt(i), NEW r \in References
    PROVE  /\ \A k, l \in Guests : /\ r \in Unanswered(k) => r \notin Waits \cup Grants(l) \cup Alive
                                   /\ r \in Grants(k) => r \notin Waits \cup Alive /\ (r \in Grants(l) => k = l)
           /\ r \in Waits => r \notin Alive
<1>1. Of(r) \in Items /\ OneAt(Of(r))
  BY Pairs
<1>2. \A x, y : IsAt(Of(r), x) /\ IsAt(Of(r), y) => x = y
  BY <1>1, InPlacesNow, Zenon DEF OneAt
<1>3. /\ \A k \in Guests : r \in Unanswered(k) => IsAt(Of(r), AtDrop(r))
      /\ \A k \in Guests : r \in Grants(k) => IsAt(Of(r), AtGrant(k, r))
      /\ r \in Waits => IsAt(Of(r), AtWait(r))
      /\ r \in Alive => IsAt(Of(r), AtWorld(r))
  BY Zenon DEF IsAt, Dropping
<1>. QED BY <1>2, <1>3, Spots

\* A guest's part of the invariant, when the step is not its game's: the host read its requests, answered and granted
\* drops, or told it of its world.
LEMMA GuestKept ==
    ASSUME NEW g \in Guests, GuestInv(g), KnownHost, drops \in Nat, drops' \in {drops, drops + 1},
           NEW answers \in SUBSET own[g], NEW grants, NEW new \in SUBSET (log \cup out), Grown(g, answers, grants, new),
           shown'[g] = shown[g], own'[g] = own[g], created'[g] = created[g], Queued(g)' = Queued(g),
           DropsOnce(g)', Unanswered(g)' \subseteq Unanswered(g),
           grants \cap Grants(g) = {}, grants \ Common \subseteq own[g],
           \A r \in Unanswered(g)' : r \notin deleted' \cup forgotten',
           \A r \in Ans(g) \cup answers : /\ r \notin Waits' \cup forgotten' /\ (r \notin Common => r \notin Grants(g) \cup grants)
                                          /\ \A k \in Guests : r \notin Unanswered(k)',
           \A r \in own[g] : r \in log' \cup out' => r \in log \cup out \cup Ans(g) \cup answers,
           \A h \in shown[g] : h[1] \in forgotten' \ Common => h[1] \in forgotten \cup own[g]
    PROVE  GuestInv(g)'
<1>1. /\ Ans(g)' = Ans(g) \cup answers /\ Grants(g)' = Grants(g) \cup grants
      /\ Heard(g)' \subseteq Heard(g) \cup new /\ HeardEarly(g)' \subseteq HeardEarly(g) \cup (new \ Ans(g))
      /\ GrantsOnce(g) => GrantsOnce(g)'
  BY GrownFacts
<1>2. KnownGuest(g)'
  <2>1. \A x : x \in 1 .. drops => x \in 1 .. drops'
    OBVIOUS
  <2>2. \A r \in new : r[2] \in 1 .. drops
    BY DEF KnownHost
  <2>3. \A r \in own[g] \cup Ans(g) \cup Heard(g) \cup Queued(g) : r[2] \in 1 .. drops
    BY DEF GuestInv, KnownGuest
  <2>4. \A h \in shown[g] \cup created[g] : h[1][2] \in 1 .. drops
    BY DEF GuestInv, KnownGuest
  <2>5. \A r \in own'[g] \cup Ans(g)' \cup Heard(g)' \cup Queued(g)' : r[2] \in 1 .. drops'
    BY <1>1, <2>1, <2>2, <2>3
  <2>6. \A h \in shown'[g] \cup created'[g] : h[1][2] \in 1 .. drops'
    BY <2>1, <2>4
  <2>. QED BY <2>5, <2>6, Zenon DEF KnownGuest
<1>3. AsksOwn(g)'
  BY DEF GuestInv, AsksOwn
<1>4. GrantsReal(g)'
  BY <1>1 DEF GuestInv, GrantsReal
<1>5. AnswersLate(g)'
  BY <1>1 DEF GuestInv, AnswersLate
<1>6. OwnShown(g)'
  BY DEF GuestInv, OwnShown
<1>7. OwnUnnamed(g)'
  BY <1>1 DEF GuestInv, OwnUnnamed, OwnMade
<1>8. OwnMade(g)'
  BY <1>1 DEF GuestInv, OwnMade
<1>9. ShownNamed(g)'
  BY DEF GuestInv, ShownNamed
<1>10. ForgotOwn(g)'
  BY DEF GuestInv, ForgotOwn
<1>. QED BY <1>2, <1>3, <1>4, <1>5, <1>6, <1>7, <1>8, <1>9, <1>10, Zenon DEF GuestInv

-----------------------------------------------------------------------------
\* Each action moves one item at most.

Shows(g, r) == \E h \in shown[g] : h[1] = r
Moves(i, x, y) == Places(i) = {x} /\ Places(i)' = {y}
Same(i) == Places(i)' = Places(i)

\* What its dropper's game alone has.
LEMMA AloneNow ==
    AllTypes => \A g \in Guests, r \in References :
        r \in Alone(g) <=> r \notin Common /\ Shows(g, r) /\ r \notin Unanswered(g) \cup Grants(g) \cup Waits \cup forgotten
BY Pairs DEF Alone, Shows, AllTypes, GameTypes, Common

\* The same after a step.
LEMMA AloneNext ==
    (AllTypes => \A g \in Guests, r \in References :
        r \in Alone(g) <=> r \notin Common /\ Shows(g, r) /\ r \notin Unanswered(g) \cup Grants(g) \cup Waits \cup forgotten)'
BY AloneNow, PTL

\* An item stays where it is, when it has the places it had.
LEMMA ItStays ==
    ASSUME AllTypes, AllTypes', NEW i, \A z : IsAt(i, z)' <=> IsAt(i, z)
    PROVE  Same(i)
<1>1. \A z : z \in Places(i)' <=> z \in Places(i)
  BY InPlacesNow, InPlacesNext, Zenon
<1>. QED BY <1>1 DEF Same

\* The same, by the kinds of places.
LEMMA ItKeepsPlaces ==
    ASSUME AllTypes, AllTypes', NEW j,
           \A p \in Players : j \in inv'[p] <=> j \in inv[p],
           \A r \in References : Of(r) = j =>
              /\ \A g \in Guests : r \in Grants(g)' <=> r \in Grants(g)
              /\ Dropping(r)' <=> Dropping(r)
              /\ r \in Waits' <=> r \in Waits
              /\ r \in Alive' <=> r \in Alive
    PROVE  Same(j)
<1>1. ASSUME NEW z, IsAt(j, z) PROVE IsAt(j, z)'
  BY <1>1, Zenon DEF IsAt
<1>2. ASSUME NEW z, IsAt(j, z)' PROVE IsAt(j, z)
  BY <1>2, Zenon DEF IsAt
<1>. QED BY <1>1, <1>2, ItStays, Zenon

\* An item moves, when it leaves one place for another.
LEMMA ItMoves ==
    ASSUME AllTypes, AllTypes', NEW i, OneAt(i), NEW x, NEW y, IsAt(i, x), IsAt(i, y)',
           \A p \in Players : i \in inv'[p] => AtHand(p) = y \/ (i \in inv[p] /\ AtHand(p) # x),
           \A r \in References : Of(r) = i =>
              /\ \A g \in Guests : r \in Grants(g)' => AtGrant(g, r) = y \/ (r \in Grants(g) /\ AtGrant(g, r) # x)
              /\ Dropping(r)' => AtDrop(r) = y \/ (Dropping(r) /\ AtDrop(r) # x)
              /\ r \in Waits' => AtWait(r) = y \/ (r \in Waits /\ AtWait(r) # x)
              /\ r \in Alive' => AtWorld(r) = y \/ (r \in Alive /\ AtWorld(r) # x)
    PROVE  Moves(i, x, y)
<1>0. ASSUME NEW z, IsAt(i, z)' PROVE z = y \/ (IsAt(i, z) /\ z # x)
  <2>1. ASSUME NEW p \in Players, i \in inv'[p], z = AtHand(p) PROVE z = y \/ (IsAt(i, z) /\ z # x)
    BY <2>1, Zenon DEF IsAt
  <2>2. ASSUME NEW g \in Guests, NEW r \in References, r \in Grants(g)', Of(r) = i, z = AtGrant(g, r)
        PROVE  z = y \/ (IsAt(i, z) /\ z # x)
    BY <2>2, Zenon DEF IsAt
  <2>3. ASSUME NEW r \in References, Of(r) = i, Dropping(r)', z = AtDrop(r) PROVE z = y \/ (IsAt(i, z) /\ z # x)
    BY <2>3, Zenon DEF IsAt
  <2>4. ASSUME NEW r \in References, Of(r) = i, r \in Waits', z = AtWait(r) PROVE z = y \/ (IsAt(i, z) /\ z # x)
    BY <2>4, Zenon DEF IsAt
  <2>5. ASSUME NEW r \in References, Of(r) = i, r \in Alive', z = AtWorld(r) PROVE z = y \/ (IsAt(i, z) /\ z # x)
    BY <2>5, Zenon DEF IsAt
  <2>. QED BY <1>0, <2>1, <2>2, <2>3, <2>4, <2>5, Zenon DEF IsAt
<1>1. x \in Places(i) /\ y \in Places(i)'
  BY InPlacesNow, InPlacesNext, Zenon
<1>2. \A z \in Places(i) : z = x
  BY <1>1, Zenon DEF OneAt
<1>3. \A z \in Places(i)' : z = y
  BY <1>0, <1>2, InPlacesNow, InPlacesNext, Zenon
<1>. QED BY <1>1, <1>2, <1>3 DEF Moves

\* What is under way, where the wire and the rule are left alone.
LEMMA StaysAre ==
    /\ UpStays => \A g \in Guests : Unanswered(g)' = Unanswered(g)
    /\ DownStays => \A g \in Guests : Grants(g)' = Grants(g)
    /\ WaitsStay => Waits' = Waits
<1>1. ASSUME DownStays PROVE \A g \in Guests : Grants(g)' = Grants(g)
  BY <1>1, GrownFacts DEF DownStays
<1>2. UpStays => \A g \in Guests : Unanswered(g)' = Unanswered(g)
  BY Zenon DEF UpStays
<1>3. WaitsStay => Waits' = Waits
  BY Zenon DEF WaitsStay
<1>. QED BY <1>1, <1>2, <1>3, Zenon

\* The drops under way and those of a game alone stay, while what the host's game lacks is shown where it was.
LEMMA DroppingSame ==
    ASSUME AllTypes, AllTypes', forgotten' = forgotten, Waits' = Waits,
           \A g \in Guests : Unanswered(g)' = Unanswered(g) /\ Grants(g)' = Grants(g),
           \A g \in Guests, r \in References \ Common : Shows(g, r)' <=> Shows(g, r)
    PROVE  \A r \in References : Dropping(r)' <=> Dropping(r)
<1>1. \A g \in Guests, r \in References : r \in Alone(g)' <=> r \in Alone(g)
  BY AloneNow, AloneNext
<1>. QED BY <1>1 DEF Dropping

\* HostDrops: the host's player's item lies in the world.
LEMMA HostDropsMoves ==
    ASSUME AllTypes, \A j \in Items : OneAt(j), NEW i \in Items, HostDrops(i), KnownHost
    PROVE  /\ \E r \in References : Moves(i, AtHand(Host), AtWorld(r))
           /\ \A j \in Items \ {i} : Same(j)
<1>1. PICK r \in Common : Of(r) = i /\ r[2] = drops + 1 /\ world' = world \cup {r}
  BY HostDropsDoes, Zenon
<1>2. /\ AllTypes' /\ UpStays /\ DownStays /\ TasksStay /\ WaitsStay
      /\ i \in inv[Host] /\ inv' = [inv EXCEPT ![Host] = @ \ {i}]
      /\ deleted' = deleted /\ forgotten' = forgotten /\ shown' = shown
  BY HostDropsDoes, Zenon
<1>3. \A g \in Guests, q \in References : Shows(g, q)' <=> Shows(g, q)
  BY <1>2, Zenon DEF Shows
<1>4. /\ \A q \in References : Dropping(q)' <=> Dropping(q)
      /\ \A g \in Guests : Grants(g)' = Grants(g)
      /\ Waits' = Waits
  <2>1. Waits' = Waits /\ \A g \in Guests : Unanswered(g)' = Unanswered(g) /\ Grants(g)' = Grants(g)
    BY <1>2, StaysAre
  <2>2. \A q \in References : Dropping(q)' <=> Dropping(q)
    BY <1>2, <1>3, <2>1, DroppingSame
  <2>. QED BY <2>1, <2>2
<1>5. r \in References /\ r \notin deleted
  <2>1. drops \in Nat /\ r \in References
    BY <1>1, BoundsAssumption DEF AllTypes, PlayerTypes, Common
  <2>. QED BY <1>1, <2>1 DEF KnownHost
<1>6. Alive' = Alive \cup {r}
  BY <1>1, <1>2, <1>5 DEF Alive
<1>7. \A p \in Players : inv'[p] = IF p = Host THEN inv[p] \ {i} ELSE inv[p]
  BY <1>2 DEF AllTypes, PlayerTypes
<1>8. Host \in Players
  BY DEF Players
<1>9. ASSUME NEW j \in Items \ {i} PROVE Same(j)
  <2>. QED BY <1>1, <1>4, <1>6, <1>7, <1>2, ItKeepsPlaces
<1>10. Moves(i, AtHand(Host), AtWorld(r))
  <2>1. IsAt(i, AtHand(Host))
    BY <1>2, <1>8 DEF IsAt
  <2>2. IsAt(i, AtWorld(r))'
    BY <1>1, <1>5, <1>6 DEF IsAt
  <2>3. \A p \in Players : i \in inv'[p] => i \in inv[p] /\ AtHand(p) # AtHand(Host)
    BY <1>7, Spots
  <2>4. \A q \in References : /\ \A g \in Guests : AtGrant(g, q) # AtHand(Host)
                              /\ AtDrop(q) # AtHand(Host) /\ AtWait(q) # AtHand(Host) /\ AtWorld(q) # AtHand(Host)
    BY Spots
  <2>. QED BY <1>2, <1>4, <1>6, <2>1, <2>2, <2>3, <2>4, ItMoves
<1>. QED BY <1>5, <1>9, <1>10

\* Nothing moves, while the inventories and the host's world stay.
LEMMA NothingMoves ==
    ASSUME AllTypes, AllTypes', inv' = inv, world' = world, deleted' = deleted, Waits' = Waits, forgotten' = forgotten,
           \A g \in Guests : Unanswered(g)' = Unanswered(g) /\ Grants(g)' = Grants(g),
           \A g \in Guests, r \in References \ Common : Shows(g, r)' <=> Shows(g, r)
    PROVE  \A j \in Items : Same(j)
<1>1. \A r \in References : Dropping(r)' <=> Dropping(r)
  BY DroppingSame
<1>2. Alive' = Alive
  BY DEF Alive
<1>3. ASSUME NEW j \in Items PROVE Same(j)
  <2>. QED BY <1>1, <1>2, ItKeepsPlaces
<1>. QED BY <1>3

\* The host's player takes an object of its game: by its engine's pickup, or by the rule, a quest's (HostItems::OnPickUp).
LEMMA HostTakes ==
    ASSUME AllTypes, AllTypes', \A j \in Items : OneAt(j), NEW r \in Common, r \in world, r \notin deleted,
           world' = world \ {r}, deleted' = deleted, inv' = [inv EXCEPT ![Host] = @ \cup {Of(r)}],
           Waits' = Waits, forgotten' = forgotten, shown' = shown,
           \A g \in Guests : Unanswered(g)' = Unanswered(g) /\ Grants(g)' = Grants(g)
    PROVE  /\ Moves(Of(r), AtWorld(r), AtHand(Host))
           /\ \A j \in Items \ {Of(r)} : Same(j)
<1>1. \A g \in Guests, q \in References : Shows(g, q)' <=> Shows(g, q)
  BY Zenon DEF Shows
<1>2. \A q \in References : Dropping(q)' <=> Dropping(q)
  BY <1>1, DroppingSame
<1>3. r \in References /\ Of(r) \in Items
  BY Pairs
<1>4. Alive' = Alive \ {r} /\ r \in Alive
  BY DEF Alive
<1>5. (\A p \in Players : inv'[p] = IF p = Host THEN inv[p] \cup {Of(r)} ELSE inv[p]) /\ Host \in Players
  BY DEF AllTypes, PlayerTypes, Players
<1>6. ASSUME NEW j \in Items \ {Of(r)} PROVE Same(j)
  <2>. QED BY <1>2, <1>4, <1>5, ItKeepsPlaces
<1>7. Moves(Of(r), AtWorld(r), AtHand(Host))
  <2>1. IsAt(Of(r), AtWorld(r))
    BY <1>3, <1>4 DEF IsAt
  <2>2. IsAt(Of(r), AtHand(Host))'
    BY <1>5 DEF IsAt
  <2>3. \A p \in Players : Of(r) \in inv'[p] => AtHand(p) = AtHand(Host) \/ (Of(r) \in inv[p] /\ AtHand(p) # AtWorld(r))
    BY <1>5, Spots
  <2>4. \A q \in References : /\ \A g \in Guests : AtGrant(g, q) # AtWorld(r)
                              /\ AtDrop(q) # AtWorld(r) /\ AtWait(q) # AtWorld(r) /\ (AtWorld(q) = AtWorld(r) => q = r)
    BY Spots
  <2>. QED BY <1>2, <1>3, <1>4, <2>1, <2>2, <2>3, <2>4, ItMoves
<1>. QED BY <1>6, <1>7

\* What the host's game lacks was shown where it is, if a game shows what it showed.
LEMMA ShowsSame == shown' = shown => \A g, r : Shows(g, r)' <=> Shows(g, r)
BY Zenon DEF Shows

\* HostPicksUp: what lay in the world is the host's player's.
LEMMA HostPicksUpMoves ==
    ASSUME AllTypes, \A j \in Items : OneAt(j), NEW r \in References, HostPicksUp(r)
    PROVE  /\ Moves(Of(r), AtWorld(r), AtHand(Host))
           /\ \A j \in Items \ {Of(r)} : Same(j)
<1>1. /\ AllTypes' /\ UpStays /\ DownStays /\ WaitsStay
      /\ r \in world /\ r \notin deleted /\ world' = world \ {r} /\ r \in Common
      /\ inv' = [inv EXCEPT ![Host] = @ \cup {Of(r)}]
      /\ deleted' = deleted /\ forgotten' = forgotten /\ shown' = shown
  BY HostPicksUpDoes, Zenon
<1>2. Waits' = Waits /\ \A g \in Guests : Unanswered(g)' = Unanswered(g) /\ Grants(g)' = Grants(g)
  BY <1>1, StaysAre
<1>. QED BY <1>1, <1>2, HostTakes

\* CellLoads, GuestAsks, Join: nothing moves.
LEMMA QuietMoves ==
    ASSUME AllTypes, \/ CellLoads
                     \/ \E g \in Guests : Join(g) \/ \E h \in shown[g] : GuestAsks(g, h)
    PROVE  \A j \in Items : Same(j)
<1>1. /\ AllTypes' /\ UpStays /\ DownStays /\ WaitsStay
      /\ inv' = inv /\ world' = world /\ deleted' = deleted /\ forgotten' = forgotten /\ shown' = shown
  BY CellLoadsDoes, JoinDoes, GuestAsksDoes, Zenon
<1>2. Waits' = Waits /\ \A g \in Guests : Unanswered(g)' = Unanswered(g) /\ Grants(g)' = Grants(g)
  BY <1>1, StaysAre
<1>3. \A g, r : Shows(g, r)' <=> Shows(g, r)
  BY <1>1, ShowsSame
<1>. QED BY <1>1, <1>2, <1>3, NothingMoves

\* A drop the host read: made by its game, or, of what that lacks, its dropper's alone (HostItems::OnDrop).
LEMMA DropMadeMoves ==
    ASSUME AllTypes, \A j \in Items : OneAt(j), WaitsOwned, \A k \in Guests : GuestInv(k), Apart,
           NEW g \in Guests, HostReads(g), Head(up[g]).type = "drop", loaded
    PROVE  \A j \in Items : Same(j) \/ \E r \in References : Moves(j, AtDrop(r), AtWorld(r))
<1>1. PICK r \in References :
                 /\ r \in Unanswered(g) /\ (DropsOnce(g) => DropsOnce(g)' /\ Unanswered(g)' = Unanswered(g) \ {r})
                 /\ Grown(g, {r}, {}, {})
                 /\ world' = (IF r \in Common THEN world \cup {r} ELSE world)
  BY DropMadeDoes, Zenon
<1>2. /\ AllTypes' /\ WaitsStay /\ (\A k \in Guests \ {g} : Grown(k, {}, {}, {}))
      /\ inv' = inv /\ deleted' = deleted /\ forgotten' = forgotten
  BY DropMadeDoes, Zenon
<1>3. (\A k \in Guests \ {g} : Unanswered(k)' = Unanswered(k)) /\ shown' = shown
  BY HostReadsRest, Zenon
<1>4. Unanswered(g)' = Unanswered(g) \ {r} /\ r \in own[g] /\ r \notin deleted \cup forgotten
  BY <1>1 DEF GuestInv, AsksOwn
<1>5. (\A k \in Guests : Grants(k)' = Grants(k)) /\ Waits' = Waits
  <2>1. \A k \in Guests \ {g} : Grants(k)' = Grants(k)
    BY <1>2, GrownFacts
  <2>2. Grants(g)' = Grants(g)
    BY <1>1, GrownFacts
  <2>3. Waits' = Waits
    BY <1>2, StaysAre
  <2>. QED BY <2>1, <2>2, <2>3
<1>6. \A k \in Guests, q \in References : Shows(k, q)' <=> Shows(k, q)
  BY <1>3, ShowsSame
<1>7. \A k \in Guests : r \notin Waits \cup Grants(k) \cup Alive
  BY <1>1, OnlyOnce
<1>8. \A k \in Guests, q \in References : q \in Alone(k)' <=> q \in Alone(k) \/ (k = g /\ q = r /\ r \notin Common)
  <2>1. Shows(g, r)
    BY <1>4, Pairs DEF GuestInv, OwnShown, Shows
  <2>. QED BY <1>2, <1>3, <1>4, <1>5, <1>6, <1>7, <2>1, AloneNow, AloneNext
<1>9. \A q \in References : Dropping(q)' <=> Dropping(q) /\ (q = r => r \notin Common)
  <2>1. ASSUME NEW k \in Guests, r \in Common PROVE r \notin Unanswered(k)' \cup Alone(k)
    <3>1. r \notin Alone(k)
      BY <2>1, AloneNow
    <3>2. k # g => r \notin own[k]
      BY <1>4 DEF Apart
    <3>. QED BY <1>3, <1>4, <3>1, <3>2 DEF GuestInv, AsksOwn
  <2>. QED BY <1>1, <1>3, <1>4, <1>8, <2>1 DEF Dropping
<1>10. Alive' = (IF r \in Common THEN Alive \cup {r} ELSE Alive)
  BY <1>1, <1>2, <1>4 DEF Alive
<1>11. ASSUME NEW j \in Items, j # Of(r) \/ r \notin Common PROVE Same(j)
  <2>. QED BY <1>2, <1>5, <1>9, <1>10, <1>11, ItKeepsPlaces
<1>12. ASSUME r \in Common PROVE Moves(Of(r), AtDrop(r), AtWorld(r))
  <2>1. IsAt(Of(r), AtDrop(r))
    BY <1>1 DEF IsAt, Dropping
  <2>2. IsAt(Of(r), AtWorld(r))'
    BY <1>10, <1>12 DEF IsAt
  <2>3. \A p \in Players : AtHand(p) # AtDrop(r)
    BY Spots
  <2>4. \A q \in References : /\ \A k \in Guests : AtGrant(k, q) # AtDrop(r)
                              /\ AtWorld(q) # AtDrop(r) /\ AtWait(q) # AtDrop(r) /\ (AtDrop(q) = AtDrop(r) => q = r)
    BY Spots
  <2>5. Of(r) \in Items
    BY Pairs
  <2>. QED BY <1>2, <1>5, <1>9, <1>10, <1>12, <2>1, <2>2, <2>3, <2>4, <2>5, ItMoves
<1>. QED BY <1>11, <1>12

\* What happened to a drop that is forgotten.
Forgets(i, f) == Of(f) = i /\ f \in forgotten' /\ Places(i) = {AtWait(f)} /\ Places(i)' = {}

\* A drop the host read waits for its cell, and the one that waited longest may be forgotten (HostItems::OnDrop).
LEMMA DropWaitsMoves ==
    ASSUME AllTypes, \A j \in Items : OneAt(j), WaitsOwned, \A k \in Guests : GuestInv(k), Apart,
           NEW g \in Guests, HostReads(g), Head(up[g]).type = "drop", ~loaded
    PROVE  \E f : \A j \in Items : Same(j) \/ Forgets(j, f) \/ \E r \in References : Moves(j, AtDrop(r), AtWait(r))
<1>1. PICK r \in References, kept \in SUBSET Waiters :
                 /\ r \in Unanswered(g) /\ (DropsOnce(g) => DropsOnce(g)' /\ Unanswered(g)' = Unanswered(g) \ {r})
                 /\ Waiters' = kept \cup {[player |-> g, ref |-> r]}
                 /\ WaitsOnce /\ r \notin Waits => WaitsOnce'
                 /\ forgotten' = forgotten \cup (Waits \ {d.ref : d \in kept})
                 /\ \E e : Waiters \subseteq kept \cup {e}
  BY DropWaitsDoes, Zenon
<1>2. /\ AllTypes' /\ DownStays /\ inv' = inv /\ world' = world /\ deleted' = deleted
  BY DropWaitsDoes, Zenon
<1>3. (\A k \in Guests \ {g} : Unanswered(k)' = Unanswered(k)) /\ shown' = shown
  BY HostReadsRest, Zenon
<1>4. Unanswered(g)' = Unanswered(g) \ {r} /\ r \in own[g] /\ r \notin deleted \cup forgotten
  BY <1>1 DEF GuestInv, AsksOwn
<1>5. \A k \in Guests : Grants(k)' = Grants(k)
  BY <1>2, StaysAre
<1>6. PICK K : K = {d.ref : d \in kept}
  OBVIOUS
<1>7. Waits' = K \cup {r} /\ K \subseteq Waits /\ forgotten' = forgotten \cup (Waits \ K)
  <2>1. Waits' = {d.ref : d \in Waiters'} /\ Waits = {d.ref : d \in Waiters}
    BY WaitsAre
  <2>2. PICK d : d = [player |-> g, ref |-> r]
    OBVIOUS
  <2>3. Waiters' = kept \cup {d} /\ d.ref = r
    BY <1>1, <2>2
  <2>4. forgotten' = forgotten \cup (Waits \ K)
    BY <1>1, <1>6, Zenon
  <2>5. {x.ref : x \in kept \cup {d}} = K \cup {r}
    BY <1>6, <2>3
  <2>. QED BY <1>6, <2>1, <2>3, <2>4, <2>5
<1>8. PICK f : Waits \subseteq K \cup {f}
  <2>1. Waits = {d.ref : d \in Waiters}
    BY WaitsAre
  <2>2. PICK e : Waiters \subseteq kept \cup {e}
    BY <1>1, Zenon
  <2>3. Waits \subseteq K \cup {e.ref}
    BY <1>6, <2>1, <2>2
  <2>. QED BY <2>3
<1>9. \A k \in Guests : r \notin Waits \cup Grants(k) \cup Alive
  BY <1>1, OnlyOnce
<1>10. \A k \in Guests, q \in References : Shows(k, q)' <=> Shows(k, q)
  BY <1>3, ShowsSame
<1>11. \A k \in Guests : r \notin Alone(k) /\ (k # g => r \notin Unanswered(k))
  <2>1. r \notin Alone(g)
    BY <1>1 DEF Alone
  <2>2. ASSUME NEW k \in Guests \ {g} PROVE r \notin Alone(k) /\ r \notin Unanswered(k)
    <3>1. Shows(g, r) /\ r \notin own[k]
      BY <1>4, Pairs DEF GuestInv, OwnShown, Shows, Apart
    <3>2. Shows(k, r) => r \in Common
      BY <3>1 DEF Shows, Apart
    <3>. QED BY <3>1, <3>2, AloneNow DEF GuestInv, AsksOwn
  <2>. QED BY <2>1, <2>2
<1>12. \A k \in Guests, q \in References : q \in Alone(k)' <=> q \in Alone(k)
  BY <1>2, <1>3, <1>4, <1>5, <1>7, <1>10, <1>11, AloneNow, AloneNext
<1>13. \A q \in References : Dropping(q)' <=> Dropping(q) /\ q # r
  BY <1>1, <1>3, <1>4, <1>11, <1>12 DEF Dropping
<1>14. Alive' = Alive
  BY <1>2 DEF Alive
<1>15. ASSUME NEW j \in Items, j # Of(r), ~\E q \in Waits \ K : Of(q) = j PROVE Same(j)
  <2>. QED BY <1>2, <1>5, <1>7, <1>13, <1>14, <1>15, ItKeepsPlaces
<1>16. Moves(Of(r), AtDrop(r), AtWait(r))
  <2>1. IsAt(Of(r), AtDrop(r))
    BY <1>1 DEF IsAt, Dropping
  <2>2. IsAt(Of(r), AtWait(r))'
    BY <1>7 DEF IsAt
  <2>3. \A p \in Players : AtHand(p) # AtDrop(r)
    BY Spots
  <2>4. \A q \in References : /\ \A k \in Guests : AtGrant(k, q) # AtDrop(r)
                              /\ AtWorld(q) # AtDrop(r) /\ AtWait(q) # AtDrop(r) /\ (AtDrop(q) = AtDrop(r) => q = r)
    BY Spots
  <2>5. Of(r) \in Items
    BY Pairs
  <2>. QED BY <1>2, <1>5, <1>7, <1>13, <1>14, <2>1, <2>2, <2>3, <2>4, <2>5, ItMoves
<1>17. ASSUME NEW j \in Items, j # Of(r), NEW q \in Waits \ K, Of(q) = j PROVE Forgets(j, f)
  <2>1. q = f /\ f \in forgotten' /\ f \in References
    BY <1>7, <1>8, RefsTyped
  <2>2. \A z : IsAt(j, z) => z = AtWait(f)
    <3>1. IsAt(j, AtWait(f))
      BY <1>17, <2>1 DEF IsAt
    <3>. QED BY <3>1, InPlacesNow, Zenon DEF OneAt
  <2>3. \A z : IsAt(j, z)' => IsAt(j, z) /\ z # AtWait(f)
    <3>1. \A p \in Players : AtHand(p) # AtWait(f)
      BY Spots
    <3>2. \A x \in References : /\ \A k \in Guests : AtGrant(k, x) # AtWait(f)
                                /\ AtWorld(x) # AtWait(f) /\ AtDrop(x) # AtWait(f) /\ (AtWait(x) = AtWait(f) => x = f)
      BY Spots
    <3>3. \A x \in References : x \in Waits' /\ Of(x) = j => x \in Waits /\ x # f
      BY <1>7, <1>17, <2>1
    <3>. QED BY <1>2, <1>5, <1>13, <1>14, <3>1, <3>2, <3>3 DEF IsAt
  <2>4. Places(j)' = {}
    BY <1>2, <2>2, <2>3, InPlacesNext, Zenon
  <2>5. Places(j) = {AtWait(f)}
    <3>1. IsAt(j, AtWait(f))
      BY <1>17, <2>1 DEF IsAt
    <3>2. \A z : z \in Places(j) <=> z = AtWait(f)
      BY <2>2, <3>1, InPlacesNow, Zenon
    <3>. QED BY <3>2
  <2>. QED BY <1>17, <2>1, <2>4, <2>5 DEF Forgets
<1>18. ASSUME NEW j \in Items PROVE Same(j) \/ Forgets(j, f) \/ \E q \in References : Moves(j, AtDrop(q), AtWait(q))
  BY <1>15, <1>16, <1>17
<1>. QED BY <1>18

\* GivesBack: a drop that waited is granted to its dropper.
LEMMA GivesBackMoves ==
    ASSUME AllTypes, \A j \in Items : OneAt(j), WaitsOwned, \A k \in Guests : GuestInv(k), Apart,
           NEW g \in Guests, HostReads(g), Head(up[g]).type = "take", GivesBack(g, Head(up[g]))
    PROVE  \E r \in References : /\ Moves(Of(r), AtWait(r), AtGrant(g, r))
                                 /\ \A j \in Items \ {Of(r)} : Same(j)
<1>1. PICK r \in References :
                 /\ [player |-> g, ref |-> r] \in Waiters
                 /\ Waiters' = {d \in Waiters : ~(d.player = g /\ d.ref = r)} /\ (WaitsOnce => WaitsOnce')
                 /\ Grown(g, {}, {r}, {})
  BY GivesBackDoes, Zenon
<1>2. /\ AllTypes' /\ (\A k \in Guests \ {g} : Grown(k, {}, {}, {}))
      /\ (DropsOnce(g) => DropsOnce(g)' /\ Unanswered(g)' = Unanswered(g))
      /\ inv' = inv /\ world' = world /\ deleted' = deleted /\ forgotten' = forgotten
  BY GivesBackDoes, Zenon
<1>3. (\A k \in Guests \ {g} : Unanswered(k)' = Unanswered(k)) /\ shown' = shown
  BY HostReadsRest, Zenon
<1>4. \A k \in Guests : Unanswered(k)' = Unanswered(k)
  BY <1>2, <1>3 DEF GuestInv, AsksOwn
<1>5. (\A k \in Guests \ {g} : Grants(k)' = Grants(k)) /\ Grants(g)' = Grants(g) \cup {r}
  <2>1. \A k \in Guests \ {g} : Grants(k)' = Grants(k)
    BY <1>2, GrownFacts
  <2>2. Grants(g)' = Grants(g) \cup {r}
    BY <1>1, GrownFacts
  <2>. QED BY <2>1, <2>2
<1>6. PICK d \in Waiters : d.player = g /\ d.ref = r
  BY <1>1
<1>7. Waits' = Waits \ {r} /\ r \in Waits /\ r \in own[g]
  <2>1. Waits' = {e.ref : e \in Waiters'} /\ Waits = {e.ref : e \in Waiters}
    BY WaitsAre
  <2>2. \A e \in Waiters : e.ref = r => e = d
    BY <1>6, WaiterOnce DEF WaitsOwned
  <2>3. Waiters' = {e \in Waiters : e.ref # r}
    BY <1>1, <1>6, <2>2
  <2>. QED BY <1>6, <2>1, <2>3 DEF WaitsOwned
<1>8. \A k, q : Shows(k, q)' <=> Shows(k, q)
  BY <1>3, ShowsSame
<1>9. \A k \in Guests : r \notin Unanswered(k) \cup Grants(k) \cup Alive
  BY <1>7, OnlyOnce
<1>10. \A k \in Guests \ {g} : Shows(k, r) => r \in Common
  <2>1. Shows(g, r)
    BY <1>7, Pairs DEF GuestInv, OwnShown, Shows
  <2>. QED BY <2>1 DEF Shows, Apart
<1>11. \A k \in Guests, q \in References : q \in Alone(k)' <=> q \in Alone(k)
  BY <1>2, <1>4, <1>5, <1>7, <1>8, <1>10, AloneNow, AloneNext
<1>12. \A q \in References : Dropping(q)' <=> Dropping(q)
  BY <1>4, <1>11 DEF Dropping
<1>13. Alive' = Alive
  BY <1>2 DEF Alive
<1>14. ASSUME NEW j \in Items \ {Of(r)} PROVE Same(j)
  <2>. QED BY <1>2, <1>5, <1>7, <1>12, <1>13, ItKeepsPlaces
<1>15. Moves(Of(r), AtWait(r), AtGrant(g, r))
  <2>1. IsAt(Of(r), AtWait(r))
    BY <1>7 DEF IsAt
  <2>2. IsAt(Of(r), AtGrant(g, r))'
    BY <1>5 DEF IsAt
  <2>3. \A p \in Players : AtHand(p) # AtWait(r)
    BY Spots
  <2>4. \A q \in References : /\ \A k \in Guests : AtGrant(k, q) # AtWait(r)
                              /\ AtWorld(q) # AtWait(r) /\ AtDrop(q) # AtWait(r) /\ (AtWait(q) = AtWait(r) => q = r)
    BY Spots
  <2>5. \A q \in References, k \in Guests : q \in Grants(k)' => q \in Grants(k) \/ (q = r /\ k = g)
    BY <1>5
  <2>6. Of(r) \in Items
    BY Pairs
  <2>. QED BY <1>2, <1>7, <1>12, <1>13, <2>1, <2>2, <2>3, <2>4, <2>5, <2>6, ItMoves
<1>. QED BY <1>14, <1>15

\* TakesItem: an object of the host's game is its player's, or granted; or nothing is there (HostItems::OnPickUp).
LEMMA TakesItemMoves ==
    ASSUME AllTypes, \A j \in Items : OneAt(j), \A k \in Guests : GuestInv(k),
           NEW g \in Guests, HostReads(g), Head(up[g]).type = "take", TakesItem(g, Head(up[g]))
    PROVE  \/ \A j \in Items : Same(j)
           \/ \E r \in References : /\ Moves(Of(r), AtWorld(r), AtHand(Host)) \/ Moves(Of(r), AtWorld(r), AtGrant(g, r))
                                    /\ \A j \in Items \ {Of(r)} : Same(j)
<1>1. /\ AllTypes' /\ WaitsStay /\ (\A k \in Guests \ {g} : Grown(k, {}, {}, {}))
      /\ (DropsOnce(g) => DropsOnce(g)' /\ Unanswered(g)' = Unanswered(g)) /\ forgotten' = forgotten
      /\ \/ /\ Grown(g, {}, {}, {}) /\ inv' = inv /\ world' = world /\ deleted' = deleted
         \/ \E r \in Common : /\ r \in world /\ r \notin deleted /\ world' = world \ {r} /\ Grown(g, {}, {}, {})
                              /\ inv' = [inv EXCEPT ![Host] = @ \cup {Of(r)}] /\ deleted' = deleted
         \/ \E r \in Common : /\ r \in world /\ r \notin deleted /\ deleted' = deleted \cup {r} /\ Grown(g, {}, {r}, {})
                              /\ inv' = inv /\ world' = world
  BY TakesItemDoes, Zenon
<1>2. (\A k \in Guests \ {g} : Unanswered(k)' = Unanswered(k)) /\ shown' = shown
  BY HostReadsRest, Zenon
<1>3. \A k \in Guests : Unanswered(k)' = Unanswered(k)
  BY <1>1, <1>2 DEF GuestInv, AsksOwn
<1>4. \A k \in Guests \ {g} : Grants(k)' = Grants(k)
  BY <1>1, GrownFacts
<1>5. Waits' = Waits
  BY <1>1, StaysAre
<1>6. \A k, q : Shows(k, q)' <=> Shows(k, q)
  BY <1>2, ShowsSame
<1>7. CASE Grown(g, {}, {}, {}) /\ inv' = inv /\ world' = world /\ deleted' = deleted
  <2>1. Grants(g)' = Grants(g)
    BY <1>7, GrownFacts
  <2>. QED BY <1>1, <1>3, <1>4, <1>5, <1>6, <1>7, <2>1, NothingMoves
<1>8. ASSUME NEW r \in Common, r \in world, r \notin deleted, world' = world \ {r}, Grown(g, {}, {}, {}),
             inv' = [inv EXCEPT ![Host] = @ \cup {Of(r)}], deleted' = deleted
      PROVE  Moves(Of(r), AtWorld(r), AtHand(Host)) /\ \A j \in Items \ {Of(r)} : Same(j)
  <2>1. Grants(g)' = Grants(g)
    BY <1>8, GrownFacts
  <2>. QED BY <1>1, <1>2, <1>3, <1>4, <1>5, <1>8, <2>1, HostTakes
<1>9. ASSUME NEW r \in Common, r \in world, r \notin deleted, deleted' = deleted \cup {r}, Grown(g, {}, {r}, {}),
             inv' = inv, world' = world
      PROVE  Moves(Of(r), AtWorld(r), AtGrant(g, r)) /\ \A j \in Items \ {Of(r)} : Same(j)
  <2>1. Grants(g)' = Grants(g) \cup {r}
    BY <1>9, GrownFacts
  <2>2. r \in References /\ Of(r) \in Items
    BY Pairs
  <2>3. Alive' = Alive \ {r} /\ r \in Alive
    BY <1>9 DEF Alive
  <2>4. \A k \in Guests, q \in References : q \in Alone(k)' <=> q \in Alone(k)
    BY <1>1, <1>3, <1>4, <1>5, <1>6, <2>1, AloneNow, AloneNext
  <2>5. \A q \in References : Dropping(q)' <=> Dropping(q)
    BY <1>3, <2>4 DEF Dropping
  <2>6. ASSUME NEW j \in Items \ {Of(r)} PROVE Same(j)
    <3>. QED BY <1>4, <1>5, <1>9, <2>1, <2>3, <2>5, <1>1, ItKeepsPlaces
  <2>7. IsAt(Of(r), AtWorld(r)) /\ IsAt(Of(r), AtGrant(g, r))'
    BY <2>1, <2>2, <2>3 DEF IsAt
  <2>8. \A p \in Players : AtHand(p) # AtWorld(r)
    BY Spots
  <2>9. \A q \in References : /\ \A k \in Guests : AtGrant(k, q) # AtWorld(r)
                              /\ AtWait(q) # AtWorld(r) /\ AtDrop(q) # AtWorld(r) /\ (AtWorld(q) = AtWorld(r) => q = r)
    BY Spots
  <2>10. \A q \in References, k \in Guests : q \in Grants(k)' => q \in Grants(k) \/ (q = r /\ k = g)
    BY <1>4, <2>1
  <2>. QED BY <1>1, <1>5, <1>9, <2>2, <2>3, <2>5, <2>6, <2>7, <2>8, <2>9, <2>10, ItMoves
<1>10. \A r \in Common : r \in References
  BY Pairs
<1>. QED BY <1>1, <1>7, <1>8, <1>9, <1>10

\* CellAsked: the cell's state moves nothing (HostWorldState::OnCellState).
LEMMA CellAskedMoves ==
    ASSUME AllTypes, \A k \in Guests : GuestInv(k), NEW g \in Guests, HostReads(g), Head(up[g]).type = "cell"
    PROVE  \A j \in Items : Same(j)
<1>1. /\ AllTypes' /\ WaitsStay /\ (\A k \in Guests : Grown(k, {}, {}, out))
      /\ (DropsOnce(g) => DropsOnce(g)' /\ Unanswered(g)' = Unanswered(g))
      /\ inv' = inv /\ world' = world /\ deleted' = deleted /\ forgotten' = forgotten
  BY CellAskedDoes, Zenon
<1>2. (\A k \in Guests \ {g} : Unanswered(k)' = Unanswered(k)) /\ shown' = shown
  BY HostReadsRest, Zenon
<1>3. \A k \in Guests : Unanswered(k)' = Unanswered(k)
  BY <1>1, <1>2 DEF GuestInv, AsksOwn
<1>4. \A k \in Guests : Grants(k)' = Grants(k)
  BY <1>1, GrownFacts
<1>5. Waits' = Waits
  BY <1>1, StaysAre
<1>6. \A k, q : Shows(k, q)' <=> Shows(k, q)
  BY <1>2, ShowsSame
<1>. QED BY <1>1, <1>3, <1>4, <1>5, <1>6, NothingMoves

\* GuestDrops: a guest's item is a drop on its way to the host.
LEMMA GuestDropsMoves ==
    ASSUME AllTypes, \A j \in Items : OneAt(j), NEW g \in Guests, NEW i \in Items, GuestDrops(g, i)
    PROVE  /\ \E r \in References : Moves(i, AtHand(g), AtDrop(r))
           /\ \A j \in Items \ {i} : Same(j)
<1>1. PICK r \in References :
                 /\ Of(r) = i /\ shown' = [shown EXCEPT ![g] = @ \cup {Own(r)}]
                 /\ (\A k \in Guests \ {g} : Unanswered(k)' = Unanswered(k))
                 /\ Unanswered(g)' = Unanswered(g) \cup {r}
  BY GuestDropsDoes, Zenon
<1>2. /\ AllTypes' /\ DownStays /\ WaitsStay
      /\ i \in inv[g] /\ inv' = [inv EXCEPT ![g] = @ \ {i}]
      /\ world' = world /\ deleted' = deleted /\ forgotten' = forgotten
  BY GuestDropsDoes, Zenon
<1>3. Waits' = Waits /\ \A k \in Guests : Grants(k)' = Grants(k)
  BY <1>2, StaysAre
<1>4. \A k \in Guests, q \in References : q # r => (Shows(k, q)' <=> Shows(k, q))
  <2>1. /\ \A k \in Guests \ {g} : shown'[k] = shown[k]
        /\ shown'[g] = shown[g] \cup {Own(r)}
    BY <1>1 DEF AllTypes, GameTypes
  <2>. QED BY <2>1, Pairs DEF Shows
<1>5. \A q \in References : q # r => (Dropping(q)' <=> Dropping(q))
  <2>1. \A k \in Guests, q \in References : q # r => (q \in Alone(k)' <=> q \in Alone(k))
    BY <1>1, <1>2, <1>3, <1>4, AloneNow, AloneNext
  <2>. QED BY <1>1, <2>1 DEF Dropping
<1>6. Alive' = Alive
  BY <1>2 DEF Alive
<1>7. (\A p \in Players : inv'[p] = IF p = g THEN inv[p] \ {i} ELSE inv[p]) /\ g \in Players
  BY <1>2 DEF AllTypes, PlayerTypes, Players
<1>8. ASSUME NEW j \in Items \ {i} PROVE Same(j)
  <2>2. \A p \in Players : j \in inv'[p] <=> j \in inv[p]
    BY <1>7
  <2>3. \A q \in References : Of(q) = j => (Dropping(q)' <=> Dropping(q))
    BY <1>1, <1>5
  <2>. QED BY <1>2, <1>3, <1>6, <2>2, <2>3, ItKeepsPlaces
<1>9. Moves(i, AtHand(g), AtDrop(r))
  <2>1. IsAt(i, AtHand(g))
    BY <1>2, <1>7 DEF IsAt
  <2>2. IsAt(i, AtDrop(r))'
    BY <1>1 DEF IsAt, Dropping
  <2>3. \A p \in Players : i \in inv'[p] => i \in inv[p] /\ AtHand(p) # AtHand(g)
    BY <1>7, Spots
  <2>4. \A q \in References : /\ \A k \in Guests : AtGrant(k, q) # AtHand(g)
                              /\ AtDrop(q) # AtHand(g) /\ AtWait(q) # AtHand(g) /\ AtWorld(q) # AtHand(g)
    BY Spots
  <2>. QED BY <1>2, <1>3, <1>5, <1>6, <2>1, <2>2, <2>3, <2>4, ItMoves
<1>. QED BY <1>8, <1>9

\* A guest picks up what its game alone has: an item the host's game lacks, and no longer under way.
LEMMA AloneIsTaken ==
    ASSUME AllTypes, WaitsOwned, \A k \in Guests : GuestInv(k), Apart,
           NEW g \in Guests, NEW h \in shown[g], ~(h[1] \in own[g] /\ h[2] = "drop"), h \notin created[g]
    PROVE  /\ h[1] \in References /\ h[1] \notin Common /\ h = Own(h[1]) /\ h[1] \in Alone(g) /\ h[1] \notin own[g]
           /\ \A k \in Guests : h[1] \notin Unanswered(k) /\ (k # g => ~Shows(k, h[1]))
<1>1. PICK r : r = h[1]
  OBVIOUS
<1>2. h \in Handles /\ r \in References
  BY <1>1, Pairs DEF AllTypes, GameTypes
<1>3. r \notin Common /\ h = Own(r) /\ r \notin own[g]
  BY <1>1, <1>2, Pairs DEF GuestInv, ShownNamed
<1>4. \A k \in Guests \ {g} : ~Shows(k, r) /\ r \notin own[k]
  <2>1. \A k \in Guests \ {g} : ~Shows(k, r)
    BY <1>1, <1>3 DEF Shows, Apart
  <2>2. \A k \in Guests : r \in own[k] => Shows(k, r)
    BY Pairs DEF GuestInv, OwnShown, Shows
  <2>. QED BY <2>1, <2>2
<1>5. \A k \in Guests : r \notin Unanswered(k)
  BY <1>3, <1>4 DEF GuestInv, AsksOwn
<1>6. r \notin Waits
  BY <1>3, <1>4, WaitsAre, WaitersAre DEF AllTypes, RuleTypes, WaitsOwned
<1>7. r \notin Grants(g) /\ r \notin forgotten
  BY <1>1, <1>3 DEF GuestInv, GrantsReal, ForgotOwn
<1>8. Shows(g, r)
  BY <1>1 DEF Shows
<1>9. r \in Alone(g)
  BY <1>2, <1>3, <1>5, <1>6, <1>7, <1>8, AloneNow
<1>. QED BY <1>1, <1>2, <1>3, <1>4, <1>5, <1>9

\* GuestPicksUp: what its game alone has is the guest's.
LEMMA GuestPicksUpMoves ==
    ASSUME AllTypes, \A j \in Items : OneAt(j), WaitsOwned, \A k \in Guests : GuestInv(k), Apart,
           NEW g \in Guests, NEW h \in shown[g], GuestPicksUp(g, h)
    PROVE  \E r \in References : /\ Moves(Of(r), AtDrop(r), AtHand(g))
                                 /\ \A j \in Items \ {Of(r)} : Same(j)
<1>1. /\ AllTypes' /\ UpStays /\ DownStays /\ WaitsStay
      /\ h \in Handles /\ ~(h[1] \in own[g] /\ h[2] = "drop") /\ h \notin created[g]
      /\ shown' = [shown EXCEPT ![g] = @ \ {h}] /\ inv' = [inv EXCEPT ![g] = @ \cup {Of(h[1])}]
      /\ world' = world /\ deleted' = deleted /\ forgotten' = forgotten
  BY GuestPicksUpDoes, Zenon
<1>2. PICK r : r = h[1]
  OBVIOUS
<1>3. /\ r \in References /\ r \notin Common /\ h = Own(r) /\ r \in Alone(g)
      /\ \A k \in Guests : r \notin Unanswered(k) /\ (k # g => ~Shows(k, r))
  BY <1>1, <1>2, AloneIsTaken
<1>4. Waits' = Waits /\ \A k \in Guests : Grants(k)' = Grants(k) /\ Unanswered(k)' = Unanswered(k)
  BY <1>1, StaysAre
<1>5. /\ \A k \in Guests \ {g} : shown'[k] = shown[k]
      /\ shown'[g] = shown[g] \ {h}
  BY <1>1 DEF AllTypes, GameTypes
<1>6. \A k \in Guests, q \in References : q # r => (Shows(k, q)' <=> Shows(k, q))
  BY <1>2, <1>5 DEF Shows
<1>7. ~Shows(g, r)'
  <2>1. \A x \in shown[g] : x[1] = r => x = h
    BY <1>3 DEF GuestInv, ShownNamed
  <2>. QED BY <1>5, <2>1 DEF Shows
<1>8. \A k \in Guests : ~Shows(k, r)'
  BY <1>3, <1>5, <1>7 DEF Shows
<1>9. \A q \in References : Dropping(q)' <=> Dropping(q) /\ q # r
  <2>1. \A k \in Guests, q \in References : q # r => (q \in Alone(k)' <=> q \in Alone(k))
    BY <1>1, <1>4, <1>6, AloneNow, AloneNext
  <2>2. \A k \in Guests : r \notin Alone(k)'
    BY <1>1, <1>3, <1>8, AloneNext
  <2>. QED BY <1>3, <1>4, <2>1, <2>2 DEF Dropping
<1>10. Alive' = Alive
  BY <1>1 DEF Alive
<1>11. (\A p \in Players : inv'[p] = IF p = g THEN inv[p] \cup {Of(r)} ELSE inv[p]) /\ g \in Players
  BY <1>1, <1>2 DEF AllTypes, PlayerTypes, Players
<1>12. ASSUME NEW j \in Items \ {Of(r)} PROVE Same(j)
  <2>1. \A p \in Players : j \in inv'[p] <=> j \in inv[p]
    BY <1>11
  <2>2. \A q \in References : Of(q) = j => (Dropping(q)' <=> Dropping(q))
    BY <1>9
  <2>. QED BY <1>1, <1>4, <1>10, <2>1, <2>2, ItKeepsPlaces
<1>13. Moves(Of(r), AtDrop(r), AtHand(g))
  <2>1. IsAt(Of(r), AtDrop(r))
    BY <1>3 DEF IsAt, Dropping
  <2>2. IsAt(Of(r), AtHand(g))'
    BY <1>11 DEF IsAt
  <2>3. \A p \in Players : Of(r) \in inv'[p] => AtHand(p) = AtHand(g) \/ (Of(r) \in inv[p] /\ AtHand(p) # AtDrop(r))
    BY <1>11, Spots
  <2>4. \A q \in References : /\ \A k \in Guests : AtGrant(k, q) # AtDrop(r)
                              /\ AtWorld(q) # AtDrop(r) /\ AtWait(q) # AtDrop(r) /\ (AtDrop(q) = AtDrop(r) => q = r)
    BY Spots
  <2>5. Of(r) \in Items
    BY <1>3, Pairs
  <2>. QED BY <1>1, <1>4, <1>9, <1>10, <2>1, <2>2, <2>3, <2>4, <2>5, ItMoves
<1>. QED BY <1>3, <1>12, <1>13

\* AdoptDrop and the rows it is told of: nothing moves.
LEMMA ToldMoves ==
    ASSUME AllTypes, \A k \in Guests : GuestInv(k), NEW g \in Guests, GuestReads(g), Head(down[g]).type # "pickup"
    PROVE  \A j \in Items : Same(j)
<1>1. /\ UpStays /\ WaitsStay /\ (\A k \in Guests \ {g} : Grown(k, {}, {}, {}))
      /\ world' = world /\ deleted' = deleted /\ forgotten' = forgotten
  BY GuestReadsRest, Zenon
<1>2. AllTypes' /\ inv' = inv /\ shown' = shown /\ (GrantsOnce(g) => Grants(g)' = Grants(g))
  <2>1. Head(down[g]).type \in {"dropped", "changes"}
    BY ReadsCases
  <2>2. CASE Head(down[g]).type = "dropped"
    BY <2>2, AdoptDropDoes, Zenon
  <2>3. CASE Head(down[g]).type = "changes"
    BY <2>3, ChangesDoes, Zenon
  <2>. QED BY <2>1, <2>2, <2>3
<1>3. Grants(g)' = Grants(g) /\ \A k \in Guests \ {g} : Grants(k)' = Grants(k)
  <2>1. \A k \in Guests \ {g} : Grants(k)' = Grants(k)
    BY <1>1, GrownFacts
  <2>. QED BY <1>2, <2>1 DEF GuestInv, GrantsReal
<1>4. Waits' = Waits /\ \A k \in Guests : Unanswered(k)' = Unanswered(k)
  BY <1>1, StaysAre
<1>5. \A k, q : Shows(k, q)' <=> Shows(k, q)
  BY <1>2, ShowsSame
<1>. QED BY <1>1, <1>2, <1>3, <1>4, <1>5, NothingMoves

\* GuestTask: the rows it applies are of what the host's game has; nothing moves.
LEMMA GuestTaskMoves ==
    ASSUME AllTypes, NEW g \in Guests, GuestTask(g)
    PROVE  \A j \in Items : Same(j)
<1>1. PICK gone \in SUBSET (created[g] \cap shown[g]), N \in SUBSET Common :
                 /\ gone = {h \in created[g] \cap shown[g] : h[1] \in Head(tasks[g]).gone} /\ N \subseteq Head(tasks[g]).new
                 /\ \A r \in Head(tasks[g]).new : r \in N \/ \E h \in (created[g] \cap shown[g]) \ gone : h[1] = r
                 /\ N \subseteq Queued(g) /\ \A r \in N, h \in (created[g] \cap shown[g]) \ gone : h[1] # r
                 /\ shown' = [shown EXCEPT ![g] = (@ \ gone) \cup {Twin(r) : r \in N}]
                 /\ created' = [created EXCEPT ![g] = Naming(@, {Twin(r) : r \in N})]
  BY GuestTaskDoes, Zenon
<1>2. /\ AllTypes' /\ UpStays /\ DownStays /\ WaitsStay
      /\ inv' = inv /\ world' = world /\ deleted' = deleted /\ forgotten' = forgotten
  BY GuestTaskDoes, Zenon
<1>3. Waits' = Waits /\ \A k \in Guests : Grants(k)' = Grants(k) /\ Unanswered(k)' = Unanswered(k)
  BY <1>2, StaysAre
<1>4. \A k \in Guests, q \in References \ Common : Shows(k, q)' <=> Shows(k, q)
  <2>1. /\ \A k \in Guests \ {g} : shown'[k] = shown[k]
        /\ shown'[g] = (shown[g] \ gone) \cup {Twin(r) : r \in N}
    BY <1>1 DEF AllTypes, GameTypes
  <2>2. \A h \in gone : h[1] \in Common
    BY Pairs DEF AllTypes, GameTypes
  <2>3. \A h \in {Twin(r) : r \in N} : h[1] \in Common
    BY Pairs
  <2>. QED BY <2>1, <2>2, <2>3 DEF Shows
<1>. QED BY <1>2, <1>3, <1>4, NothingMoves

\* Granted: the guest has the item.
LEMMA GrantedMoves ==
    ASSUME AllTypes, \A j \in Items : OneAt(j), \A k \in Guests : GuestInv(k), Apart,
           NEW g \in Guests, GuestReads(g), Head(down[g]).type = "pickup"
    PROVE  \E r \in References : /\ Moves(Of(r), AtGrant(g, r), AtHand(g))
                                 /\ \A j \in Items \ {Of(r)} : Same(j)
<1>1. /\ UpStays /\ WaitsStay /\ (\A k \in Guests \ {g} : Grown(k, {}, {}, {}))
      /\ world' = world /\ deleted' = deleted /\ forgotten' = forgotten
  BY GuestReadsRest, Zenon
<1>2. PICK r \in References, tagged, object \in BOOLEAN :
                 /\ r \in Common \/ tagged
                 /\ r = Head(down[g]).ref /\ tagged = Head(down[g]).tagged /\ object = Head(down[g]).object
                 /\ r \in Grants(g) /\ Ans(g)' = Ans(g) /\ HeardEarly(g)' \subseteq HeardEarly(g)
                 /\ GrantsOnce(g) => GrantsOnce(g)' /\ Grants(g)' = Grants(g) \ {r}
                 /\ inv' = [inv EXCEPT ![g] = @ \cup {Of(r)}]
                 /\ own' = [own EXCEPT ![g] = IF tagged THEN @ \ {r} ELSE @]
                 /\ created' = [created EXCEPT ![g] = IF object THEN {h \in @ : h[1] # r} ELSE @]
                 /\ shown' = [shown EXCEPT ![g] = IF tagged /\ r \in own[g] THEN @ \ {Own(r)}
                                                  ELSE {h \in @ : ~(object /\ h \in created[g] /\ h[1] = r)}]
  BY GrantedDoes, Zenon
<1>3. AllTypes'
  BY GrantedDoes, Zenon
<1>4. Grants(g)' = Grants(g) \ {r} /\ \A k \in Guests \ {g} : Grants(k)' = Grants(k)
  <2>1. \A k \in Guests \ {g} : Grants(k)' = Grants(k)
    BY <1>1, GrownFacts
  <2>. QED BY <1>2, <2>1 DEF GuestInv, GrantsReal
<1>5. Waits' = Waits /\ \A k \in Guests : Unanswered(k)' = Unanswered(k)
  BY <1>1, StaysAre
<1>6. /\ \A k \in Guests \ {g} : shown'[k] = shown[k]
      /\ shown'[g] \subseteq shown[g]
      /\ tagged /\ r \in own[g] => shown'[g] = shown[g] \ {Own(r)}
      /\ \A h \in shown[g] : h[1] # r => h \in shown'[g]
  <2>1. shown[g] \subseteq Handles /\ shown \in [Guests -> SUBSET Handles]
    BY DEF AllTypes, GameTypes
  <2>2. \A k \in Guests \ {g} : shown'[k] = shown[k]
    BY <1>2, <2>1
  <2>3. CASE tagged /\ r \in own[g]
    <3>1. shown'[g] = shown[g] \ {Own(r)}
      BY <1>2, <2>1, <2>3
    <3>. QED BY <2>2, <3>1, Pairs
  <2>4. CASE ~(tagged /\ r \in own[g])
    <3>1. shown'[g] = {h \in shown[g] : ~(object /\ h \in created[g] /\ h[1] = r)}
      BY <1>2, <2>1, <2>4
    <3>. QED BY <2>2, <2>4, <3>1
  <2>. QED BY <2>3, <2>4
<1>7. \A k \in Guests, q \in References : q # r => (Shows(k, q)' <=> Shows(k, q))
  BY <1>6 DEF Shows
<1>8. r \notin Common => \A k \in Guests : ~Shows(k, r)'
  <2>1. HAVE r \notin Common
  <2>2. tagged /\ r \in own[g]
    BY <1>2, <2>1 DEF GuestInv, GrantsReal
  <2>3. \A h \in shown[g] : h[1] = r => h = Own(r)
    BY <2>1 DEF GuestInv, ShownNamed
  <2>4. ~Shows(g, r)'
    BY <1>6, <2>2, <2>3 DEF Shows
  <2>5. Shows(g, r)
    BY <2>2, Pairs DEF GuestInv, OwnShown, Shows
  <2>6. \A k \in Guests \ {g} : ~Shows(k, r)
    BY <2>1, <2>5 DEF Shows, Apart
  <2>. QED BY <1>6, <2>4, <2>6 DEF Shows
<1>9. \A q \in References : Dropping(q)' <=> Dropping(q)
  <2>1. ASSUME NEW k \in Guests, NEW q \in References, q # r PROVE q \in Alone(k)' <=> q \in Alone(k)
    <3>1. q \in Grants(k)' <=> q \in Grants(k)
      BY <1>4, <2>1
    <3>2. (Shows(k, q)' <=> Shows(k, q)) /\ Unanswered(k)' = Unanswered(k) /\ Waits' = Waits /\ forgotten' = forgotten
      BY <1>1, <1>5, <1>7, <2>1
    <3>. QED BY <1>3, <3>1, <3>2, AloneNow, AloneNext
  <2>2. \A k \in Guests : r \notin Alone(k)'
    BY <1>3, <1>8, AloneNext
  <2>3. ~Dropping(r)
    <3>1. IsAt(Of(r), AtGrant(g, r)) /\ OneAt(Of(r)) /\ (Dropping(r) => IsAt(Of(r), AtDrop(r)))
      BY <1>2, Pairs DEF IsAt
    <3>2. AtGrant(g, r) # AtDrop(r)
      BY Spots
    <3>. QED BY <3>1, <3>2, InPlacesNow, Zenon DEF OneAt
  <2>. QED BY <1>5, <2>1, <2>2, <2>3 DEF Dropping
<1>10. Alive' = Alive
  BY <1>1 DEF Alive
<1>11. (\A p \in Players : inv'[p] = IF p = g THEN inv[p] \cup {Of(r)} ELSE inv[p]) /\ g \in Players
  BY <1>2 DEF AllTypes, PlayerTypes, Players
<1>12. ASSUME NEW j \in Items \ {Of(r)} PROVE Same(j)
  <2>1. \A p \in Players : j \in inv'[p] <=> j \in inv[p]
    BY <1>11
  <2>2. \A k \in Guests, q \in References : Of(q) = j => (q \in Grants(k)' <=> q \in Grants(k))
    BY <1>4
  <2>. QED BY <1>3, <1>5, <1>9, <1>10, <2>1, <2>2, ItKeepsPlaces
<1>13. Moves(Of(r), AtGrant(g, r), AtHand(g))
  <2>1. IsAt(Of(r), AtGrant(g, r))
    BY <1>2 DEF IsAt
  <2>2. IsAt(Of(r), AtHand(g))'
    BY <1>11 DEF IsAt
  <2>3. \A p \in Players : Of(r) \in inv'[p] => AtHand(p) = AtHand(g) \/ (Of(r) \in inv[p] /\ AtHand(p) # AtGrant(g, r))
    <3>1. \A p : AtHand(p) # AtGrant(g, r)
      BY Spots
    <3>. QED BY <1>11, <3>1
  <2>4. \A q \in References : /\ \A k \in Guests : AtGrant(k, q) = AtGrant(g, r) => k = g /\ q = r
                              /\ AtWorld(q) # AtGrant(g, r) /\ AtWait(q) # AtGrant(g, r) /\ AtDrop(q) # AtGrant(g, r)
    BY Spots
  <2>5. \A k \in Guests, q \in References : q \in Grants(k)' => q \in Grants(k) /\ ~(k = g /\ q = r)
    BY <1>4
  <2>6. Of(r) \in Items
    BY <1>2, Pairs
  <2>. QED BY <1>3, <1>5, <1>9, <1>10, <2>1, <2>2, <2>3, <2>4, <2>5, <2>6, ItMoves
<1>. QED BY <1>12, <1>13

\* Leave: what was under way for the guest is lost, and no more (HostItems::OnPlayerLeft).
LEMMA LeaveMoves ==
    ASSUME AllTypes, \A j \in Items : OneAt(j), WaitsOwned, \A k \in Guests : GuestInv(k), Apart,
           NEW g \in Guests, Leave(g)
    PROVE  /\ g \in Leavers \ here'
           /\ \A j \in Items : Same(j) \/ (Places(j)' = {} /\ \A z \in Places(j) : z # AtHand(g) => z[1] # "with"
                                                            /\ \A k \in Guests \ {g}, r \in References : z # AtGrant(k, r))
<1>1. /\ AllTypes'
      /\ (\A k \in Guests \ {g} : Unanswered(k)' = Unanswered(k) /\ Grown(k, {}, {}, {}))
      /\ Unanswered(g)' = {} /\ Grants(g)' = {}
      /\ Waiters' = {d \in Waiters : d.player # g}
      /\ g \in Leavers \cap here /\ here' = here \ {g} /\ inv' = [inv EXCEPT ![g] = {}]
      /\ shown' = [shown EXCEPT ![g] = {}]
      /\ world' = world /\ deleted' = deleted /\ forgotten' = forgotten
  BY LeaveDoes, Zenon
<1>2. ASSUME NEW k \in Guests \ {g} PROVE Grants(k)' = Grants(k)
  <2>1. Grown(k, {}, {}, {})
    BY <1>1
  <2>. QED BY <2>1, GrownFacts
<1>3. (\A k \in Guests \ {g} : shown'[k] = shown[k]) /\ shown'[g] = {}
  BY <1>1 DEF AllTypes, GameTypes
<1>4. (\A k \in Guests \ {g} : \A q : Shows(k, q)' <=> Shows(k, q)) /\ \A q : ~Shows(g, q)'
  BY <1>3 DEF Shows
<1>5. \A q \in References : q \in Waits' => q \in Waits
  BY <1>1, WaitsAre
<1>6. \A q \in References : q \in Waits /\ q \notin Waits' => Shows(g, q)
  <2>1. ASSUME NEW q \in References, q \in Waits, q \notin Waits' PROVE q \in own[g]
    <3>1. PICK d \in Waiters : d.ref = q
      BY <2>1, WaitsAre
    <3>2. d.player = g
      BY <1>1, <2>1, <3>1, WaitsAre
    <3>. QED BY <3>1, <3>2 DEF WaitsOwned
  <2>. QED BY <2>1, Pairs DEF GuestInv, OwnShown, Shows
<1>7. \A k \in Guests, q \in References : q \in Alone(k)' => k # g /\ q \in Alone(k)
  <2>1. ASSUME NEW k \in Guests, NEW q \in References, q \in Alone(k)' PROVE k # g /\ q \in Alone(k)
    <3>1. /\ q \notin Common /\ k # g /\ Shows(k, q)
          /\ q \notin Unanswered(k)' \cup Grants(k)' \cup Waits' \cup forgotten'
      BY <1>1, <1>4, <2>1, AloneNext
    <3>2. ~Shows(g, q)
      BY <3>1 DEF Shows, Apart
    <3>. QED BY <1>1, <1>2, <1>6, <3>1, <3>2, AloneNow
  <2>. QED BY <2>1
<1>8. \A k \in Guests \ {g}, q \in References : q \in Alone(k) => q \in Alone(k)'
  BY <1>1, <1>2, <1>4, <1>5, AloneNow, AloneNext
<1>9. \A q \in References : Dropping(q)' => Dropping(q)
  BY <1>1, <1>7 DEF Dropping
<1>10. Alive' = Alive
  BY <1>1 DEF Alive
<1>11. \A p \in Players : inv'[p] = IF p = g THEN {} ELSE inv[p]
  BY <1>1 DEF AllTypes, PlayerTypes
<1>12. ASSUME NEW j, NEW z, IsAt(j, z)' PROVE IsAt(j, z)
  <2>1. /\ \A p \in Players : j \in inv'[p] => j \in inv[p]
        /\ \A k \in Guests, r \in References : r \in Grants(k)' => r \in Grants(k)
    BY <1>1, <1>2, <1>11
  <2>. QED BY <1>5, <1>9, <1>10, <1>12, <2>1, Zenon DEF IsAt
<1>13. ASSUME NEW j, NEW z, IsAt(j, z), ~IsAt(j, z)'
       PROVE  z # AtHand(g) => z[1] # "with" /\ \A k \in Guests \ {g}, r \in References : z # AtGrant(k, r)
  <2>1. \A p \in Players : j \in inv[p] /\ p # g => IsAt(j, AtHand(p))'
    BY <1>11 DEF IsAt
  <2>2. \A k \in Guests \ {g}, r \in References : r \in Grants(k) /\ Of(r) = j => IsAt(j, AtGrant(k, r))'
    BY <1>2 DEF IsAt
  <2>3. ASSUME NEW p \in Players, j \in inv[p], z = AtHand(p) PROVE z = AtHand(g)
    BY <1>13, <2>1, <2>3, Zenon
  <2>4. ASSUME NEW k \in Guests, NEW r \in References, r \in Grants(k), Of(r) = j, z = AtGrant(k, r)
        PROVE  z[1] # "with" /\ \A l \in Guests \ {g}, q \in References : z # AtGrant(l, q)
    <3>1. k = g
      BY <1>13, <2>2, <2>4, Zenon
    <3>. QED BY <2>4, <3>1, Spots
  <2>5. ASSUME NEW r \in References, z = AtDrop(r) \/ z = AtWait(r) \/ z = AtWorld(r)
        PROVE  z[1] # "with" /\ \A l \in Guests \ {g}, q \in References : z # AtGrant(l, q)
    BY <2>5, Spots
  <2>. QED BY <1>13, <2>3, <2>4, <2>5, Zenon DEF IsAt
<1>14. ASSUME NEW j \in Items
       PROVE  Same(j) \/ (Places(j)' = {} /\ \A z \in Places(j) : z # AtHand(g) => z[1] # "with"
                                             /\ \A k \in Guests \ {g}, r \in References : z # AtGrant(k, r))
  <2>1. CASE \E z : IsAt(j, z)'
    <3>1. \A x, y : IsAt(j, x) /\ IsAt(j, y) => x = y
      BY InPlacesNow, Zenon DEF OneAt
    <3>2. \A z : IsAt(j, z)' <=> IsAt(j, z)
      BY <1>12, <2>1, <3>1
    <3>. QED BY <1>1, <3>2, ItStays
  <2>2. CASE ~\E z : IsAt(j, z)'
    <3>1. Places(j)' = {}
      BY <1>1, <2>2, InPlacesNext, Zenon
    <3>. QED BY <1>13, <2>2, <3>1, InPlacesNow
  <2>. QED BY <2>1, <2>2
<1>. QED BY <1>1, <1>14

\* HostUpdate: the drops that waited are made, or, of what the host's game lacks, their droppers' alone (HostItems::Make).
LEMMA UpdateMoves ==
    ASSUME AllTypes, \A j \in Items : OneAt(j), WaitsOwned, \A k \in Guests : GuestInv(k), Apart, HostUpdate
    PROVE  \A j \in Items : Same(j) \/ \E r \in References : Moves(j, AtWait(r), AtWorld(r)) \/ Moves(j, AtWait(r), AtDrop(r))
<1>1. /\ AllTypes' /\ UpStays
      /\ (\A g \in Guests : Grown(g, {d.ref : d \in {e \in Making : e.player = g}}, {}, out \cup log))
      /\ (\E R : /\ R = {d.ref : d \in Making} \cap Common
                 /\ world' = world \cup R /\ log' = R)
      /\ Waiters' = Waiters \ Making
      /\ inv' = inv /\ deleted' = deleted /\ shown' = shown /\ forgotten' = forgotten
  BY UpdateDoes, Zenon
<1>2. PICK M : M = {d.ref : d \in Making}
  OBVIOUS
<1>3. world' = world \cup (M \cap Common)
  BY <1>1, <1>2
<1>4. Making \subseteq Waiters
  BY DEF Making
<1>5. Waits' = Waits \ M /\ M \subseteq Waits /\ M \subseteq References
  <2>1. Waits' = {d.ref : d \in Waiters'} /\ Waits = {d.ref : d \in Waiters}
    BY WaitsAre
  <2>2. \A d \in Waiters, e \in Making : d.ref = e.ref => d = e
    BY <1>4, WaiterOnce DEF WaitsOwned
  <2>3. Waits \subseteq References
    BY RefsTyped
  <2>. QED BY <1>1, <1>2, <1>4, <2>1, <2>2, <2>3
<1>6. \A k \in Guests : Grants(k)' = Grants(k) /\ Unanswered(k)' = Unanswered(k)
  <2>1. ASSUME NEW k \in Guests PROVE Grants(k)' = Grants(k)
    <3>1. Grown(k, {d.ref : d \in {e \in Making : e.player = k}}, {}, out \cup log)
      BY <1>1
    <3>2. Grants(k)' = Grants(k) \cup {}
      BY <3>1, GrownFacts, Zenon
    <3>. QED BY <3>2
  <2>2. \A k \in Guests : Unanswered(k)' = Unanswered(k)
    BY <1>1, StaysAre
  <2>. QED BY <2>1, <2>2
<1>7. \A k, q : Shows(k, q)' <=> Shows(k, q)
  BY <1>1, ShowsSame
<1>8. \A r \in M, k \in Guests : r \notin Unanswered(k) \cup Grants(k) \cup Alive \cup deleted \cup forgotten
  <2>1. \A r \in M : r \notin deleted \cup forgotten
    BY <1>2, <1>4 DEF WaitsOwned
  <2>. QED BY <1>5, <2>1, OnlyOnce
<1>9. \A r \in M : \E k \in Guests : Shows(k, r)
  <2>1. ASSUME NEW d \in Making PROVE \E k \in Guests : d.ref \in own[k] /\ d.ref \in References
    BY <1>4, WaitersAre DEF WaitsOwned, AllTypes, RuleTypes
  <2>2. \A k \in Guests, r \in References : r \in own[k] => Shows(k, r)
    BY Pairs DEF GuestInv, OwnShown, Shows
  <2>. QED BY <1>2, <2>1, <2>2
<1>10. \A k \in Guests, q \in References : q \in Alone(k)' <=> q \in Alone(k) \/ (q \in M \ Common /\ Shows(k, q))
  <2>1. ASSUME NEW k \in Guests, NEW q \in References
        PROVE  q \in Alone(k)' <=> q \in Alone(k) \/ (q \in M \ Common /\ Shows(k, q))
    <3>1. q \in Alone(k)' <=> q \notin Common /\ Shows(k, q) /\ q \notin Unanswered(k) \cup Grants(k) \cup (Waits \ M) \cup forgotten
      BY <1>1, <1>5, <1>6, <1>7, AloneNext
    <3>2. q \in M => q \notin Unanswered(k) \cup Grants(k) \cup forgotten
      BY <1>8
    <3>. QED BY <1>5, <3>1, <3>2, AloneNow
  <2>. QED BY <2>1
<1>11. \A q \in References : Dropping(q)' <=> Dropping(q) \/ q \in M \ Common
  BY <1>6, <1>9, <1>10 DEF Dropping
<1>12. Alive' = Alive \cup (M \cap Common)
  <2>1. (\A r \in M : r \notin deleted) /\ deleted' = deleted
    BY <1>1, <1>2, <1>4 DEF WaitsOwned
  <2>. QED BY <1>3, <2>1 DEF Alive
<1>13. ASSUME NEW j \in Items, \A r \in M : Of(r) # j PROVE Same(j)
  <2>1. \A q \in References : Of(q) = j => /\ Dropping(q)' <=> Dropping(q)
                                           /\ q \in Waits' <=> q \in Waits
                                           /\ q \in Alive' <=> q \in Alive
    BY <1>5, <1>11, <1>12, <1>13
  <2>. QED BY <1>1, <1>6, <2>1, ItKeepsPlaces
<1>14. ASSUME NEW j \in Items, NEW r \in M, Of(r) = j
       PROVE  Moves(j, AtWait(r), AtWorld(r)) \/ Moves(j, AtWait(r), AtDrop(r))
  <2>1. PICK y : y = IF r \in Common THEN AtWorld(r) ELSE AtDrop(r)
    OBVIOUS
  <2>2. IsAt(j, AtWait(r)) /\ r \in References
    BY <1>5, <1>14 DEF IsAt
  <2>3. IsAt(j, y)'
    BY <1>11, <1>12, <1>14, <2>1, <2>2 DEF IsAt
  <2>4. \A q \in M : Of(q) = j => q = r
    <3>1. \A q \in M : Of(q) = j => IsAt(j, AtWait(q))
      BY <1>5 DEF IsAt
    <3>2. \A x, z : IsAt(j, x) /\ IsAt(j, z) => x = z
      BY InPlacesNow, Zenon DEF OneAt
    <3>. QED BY <2>2, <3>1, <3>2, Spots
  <2>5. \A p \in Players : AtHand(p) # AtWait(r)
    BY Spots
  <2>6. \A q \in References : /\ \A k \in Guests : AtGrant(k, q) # AtWait(r)
                              /\ AtWorld(q) # AtWait(r) /\ AtDrop(q) # AtWait(r) /\ (AtWait(q) = AtWait(r) => q = r)
    BY Spots
  <2>7. ASSUME NEW q \in References, Of(q) = j
        PROVE  /\ \A k \in Guests : q \in Grants(k)' => q \in Grants(k)
               /\ Dropping(q)' => AtDrop(q) = y \/ Dropping(q)
               /\ q \in Waits' => q \in Waits /\ AtWait(q) # AtWait(r)
               /\ q \in Alive' => AtWorld(q) = y \/ q \in Alive
    BY <1>5, <1>6, <1>11, <1>12, <2>1, <2>4, <2>6, <2>7
  <2>8. Moves(j, AtWait(r), y)
    BY <1>1, <2>2, <2>3, <2>5, <2>6, <2>7, ItMoves
  <2>. QED BY <2>1, <2>8
<1>15. ASSUME NEW j \in Items
       PROVE  Same(j) \/ \E r \in References : Moves(j, AtWait(r), AtWorld(r)) \/ Moves(j, AtWait(r), AtDrop(r))
  BY <1>5, <1>13, <1>14
<1>. QED BY <1>15

-----------------------------------------------------------------------------
\* Each action keeps who owns what.

\* Nobody's references change hands in the host's steps.
LEMMA ApartStays == Apart /\ shown' = shown /\ own' = own => Apart'
BY Zenon DEF Apart

\* While the host's game makes, forgets, answers and grants nothing.
LEMMA QuietKeeps ==
    ASSUME AllTypes, Ownership, UpStays, DownStays, TasksStay, WaitsStay,
           UNCHANGED <<drops, deleted, out, forgotten, shown, own, created>>, world' \subseteq world, log' = log
    PROVE  Ownership'
<1>1. KnownHost'
  BY DEF Ownership, KnownHost
<1>2. Waiters' = Waiters /\ Waits' = Waits /\ WaitsOnce'
  BY DEF WaitsStay, Ownership, WaitsOwned
<1>3. WaitsOwned'
  BY <1>2 DEF Ownership, WaitsOwned
<1>4. drops \in Nat
  BY BoundsAssumption DEF AllTypes, PlayerTypes
<1>5. ASSUME NEW g \in Guests PROVE GuestInv(g)'
  <2>1. GuestInv(g) /\ KnownHost
    BY DEF Ownership
  <2>2. /\ Unanswered(g)' = Unanswered(g) /\ DropsOnce(g)' /\ Grown(g, {}, {}, {}) /\ Queued(g)' = Queued(g)
        /\ \A k \in Guests : Unanswered(k)' = Unanswered(k)
    BY <2>1, Zenon DEF UpStays, DownStays, TasksStay, GuestInv, AsksOwn
  <2>3. \A r \in Unanswered(g)' : r \notin deleted' \cup forgotten'
    BY <2>1, <2>2 DEF GuestInv, AsksOwn
  <2>4. \A r \in Ans(g) \cup {} : /\ r \notin Waits' \cup forgotten' /\ (r \notin Common => r \notin Grants(g) \cup {})
                                  /\ \A k \in Guests : r \notin Unanswered(k)'
    BY <1>2, <2>1, <2>2 DEF GuestInv, AnswersLate
  <2>. QED BY <1>4, <2>1, <2>2, <2>3, <2>4, GuestKept
<1>6. Apart'
  BY ApartStays DEF Ownership
<1>. QED BY <1>1, <1>3, <1>5, <1>6, Zenon DEF Ownership

\* HostDrops: its new reference is nobody's.
LEMMA HostDropsKeeps ==
    ASSUME ItemsInv, NEW i \in Items, HostDrops(i)
    PROVE  Ownership'
<1>1. PICK r \in Common : /\ Of(r) = i /\ r[2] = drops + 1 /\ drops' = drops + 1
                          /\ world' = world \cup {r} /\ log' = log \cup {r}
  BY HostDropsDoes, Zenon DEF ItemsInv
<1>2. /\ UpStays /\ DownStays /\ TasksStay /\ WaitsStay
      /\ UNCHANGED <<here, deleted, out, forgotten, shown, own, created, start>>
  BY HostDropsDoes, Zenon DEF ItemsInv
<1>3. drops \in Nat /\ Ownership
  BY BoundsAssumption DEF ItemsInv, AllTypes, PlayerTypes
<1>4. KnownHost'
  <2>1. \A x : x \in 1 .. drops => x \in 1 .. drops'
    BY <1>1, <1>3
  <2>2. r[2] \in 1 .. drops'
    BY <1>1, <1>3
  <2>. QED BY <1>1, <1>2, <1>3, <2>1, <2>2 DEF Ownership, KnownHost
<1>5. Waiters' = Waiters /\ Waits' = Waits /\ WaitsOnce'
  BY <1>2, <1>3 DEF WaitsStay, Ownership, WaitsOwned
<1>6. WaitsOwned'
  BY <1>2, <1>3, <1>5 DEF Ownership, WaitsOwned
<1>7. ASSUME NEW g \in Guests PROVE GuestInv(g)'
  <2>1. GuestInv(g) /\ KnownHost
    BY <1>3 DEF Ownership
  <2>2. /\ Unanswered(g)' = Unanswered(g) /\ DropsOnce(g)' /\ Grown(g, {}, {}, {}) /\ Queued(g)' = Queued(g)
        /\ \A k \in Guests : Unanswered(k)' = Unanswered(k)
    BY <1>2, <2>1, Zenon DEF UpStays, DownStays, TasksStay, GuestInv, AsksOwn
  <2>3. \A q \in Unanswered(g)' : q \notin deleted' \cup forgotten'
    BY <1>2, <2>1, <2>2 DEF GuestInv, AsksOwn
  <2>4. \A q \in Ans(g) \cup {} : /\ q \notin Waits' \cup forgotten' /\ (q \notin Common => q \notin Grants(g) \cup {})
                                  /\ \A k \in Guests : q \notin Unanswered(k)'
    BY <1>2, <1>5, <2>1, <2>2 DEF GuestInv, AnswersLate
  <2>5. r \notin own[g]
    BY <1>1, <1>3, <2>1 DEF GuestInv, KnownGuest
  <2>6. /\ \A q \in own[g] : q \in log' \cup out' => q \in log \cup out \cup Ans(g) \cup {}
        /\ \A h \in shown[g] : h[1] \in forgotten' \ Common => h[1] \in forgotten \cup own[g]
        /\ shown'[g] = shown[g] /\ own'[g] = own[g] /\ created'[g] = created[g]
    BY <1>1, <1>2, <2>5
  <2>. QED BY <1>1, <1>3, <2>1, <2>2, <2>3, <2>4, <2>6, GuestKept
<1>8. Apart'
  BY <1>2, <1>3, ApartStays DEF Ownership
<1>. QED BY <1>4, <1>6, <1>7, <1>8, Zenon DEF Ownership

\* HostPicksUp, CellLoads, GuestAsks and Join change nothing of it.
LEMMA OthersKeep ==
    ASSUME ItemsInv, \/ CellLoads \/ \E r \in References : HostPicksUp(r)
                     \/ \E g \in Guests : Join(g) \/ \E h \in shown[g] : GuestAsks(g, h)
    PROVE  Ownership'
<1>1. /\ UpStays /\ DownStays /\ TasksStay /\ WaitsStay
      /\ UNCHANGED <<drops, deleted, out, forgotten, shown, own, created, log>>
      /\ world' = world \/ \E r : world' = world \ {r}
  BY CellLoadsDoes, HostPicksUpDoes, JoinDoes, GuestAsksDoes, Zenon DEF ItemsInv
<1>2. world' \subseteq world
  BY <1>1
<1>. QED BY <1>1, <1>2, QuietKeeps DEF ItemsInv

\* What the host's rule reads and answers leaves the games as they are.
LEMMA ReadsKeep ==
    ASSUME ItemsInv, NEW g \in Guests, HostReads(g)
    PROVE  /\ drops \in Nat /\ drops' = drops /\ out' = out /\ TasksStay /\ KnownHost /\ \A k \in Guests : GuestInv(k)
           /\ shown' = shown /\ own' = own /\ created' = created
           /\ \A k \in Guests \ {g} : Unanswered(k)' = Unanswered(k) /\ DropsOnce(k)'
           /\ \A k \in Guests : Queued(k)' = Queued(k)
           /\ Apart'
<1>1. AllTypes /\ Ownership
  BY DEF ItemsInv
<1>2. drops \in Nat
  BY <1>1, BoundsAssumption DEF AllTypes, PlayerTypes
<1>3. /\ drops' = drops /\ out' = out /\ TasksStay /\ shown' = shown /\ own' = own /\ created' = created
      /\ \A k \in Guests \ {g} : Unanswered(k)' = Unanswered(k) /\ (DropsOnce(k) => DropsOnce(k)')
  BY <1>1, HostReadsRest, Zenon
<1>4. KnownHost /\ \A k \in Guests : GuestInv(k)
  BY <1>1 DEF Ownership
<1>5. \A k \in Guests : DropsOnce(k)
  BY <1>4 DEF GuestInv, AsksOwn
<1>6. \A k \in Guests : Queued(k)' = Queued(k)
  BY <1>3 DEF TasksStay
<1>7. Apart'
  BY <1>1, <1>3, ApartStays DEF Ownership
<1>. QED BY <1>2, <1>3, <1>4, <1>5, <1>6, <1>7

\* A drop the host made, or cannot make, is answered.
LEMMA DropMadeKeeps ==
    ASSUME ItemsInv, NEW g \in Guests, HostReads(g), Head(up[g]).type = "drop", loaded
    PROVE  Ownership'
<1>1. PICK r \in References :
                 /\ r \in Unanswered(g) /\ (DropsOnce(g) => DropsOnce(g)' /\ Unanswered(g)' = Unanswered(g) \ {r})
                 /\ Grown(g, {r}, {}, {})
                 /\ world' = (IF r \in Common THEN world \cup {r} ELSE world)
                 /\ log' = (IF r \in Common THEN log \cup {r} ELSE log)
  BY DropMadeDoes, Zenon DEF ItemsInv
<1>2. /\ WaitsStay /\ (\A k \in Guests \ {g} : Grown(k, {}, {}, {})) /\ deleted' = deleted /\ forgotten' = forgotten
  BY DropMadeDoes, Zenon DEF ItemsInv
<1>3. /\ drops \in Nat /\ drops' = drops /\ out' = out /\ KnownHost /\ (\A k \in Guests : GuestInv(k))
      /\ shown' = shown /\ own' = own /\ created' = created
      /\ (\A k \in Guests \ {g} : Unanswered(k)' = Unanswered(k) /\ DropsOnce(k)')
      /\ (\A k \in Guests : Queued(k)' = Queued(k)) /\ Apart'
  BY ReadsKeep
<1>4. AllTypes /\ WaitsOwned /\ Apart /\ \A i \in Items : OneAt(i)
  BY DEF ItemsInv, Ownership
<1>5. Waiters' = Waiters /\ Waits' = Waits /\ WaitsOnce'
  BY <1>2, <1>4 DEF WaitsStay, WaitsOwned
<1>6. WaitsOwned'
  BY <1>2, <1>3, <1>4, <1>5 DEF WaitsOwned
<1>7. DropsOnce(g)' /\ Unanswered(g)' = Unanswered(g) \ {r} /\ r \in own[g] /\ r \notin deleted \cup forgotten
  BY <1>1, <1>3 DEF GuestInv, AsksOwn
<1>8. (\A k \in Guests : r \notin Grants(k)) /\ r \notin Waits
  BY <1>1, <1>4, OnlyOnce
<1>9. \A k \in Guests \ {g} : r \notin own[k]
  BY <1>4, <1>7 DEF Apart
<1>10. \A k \in Guests : r \notin Unanswered(k)'
  BY <1>3, <1>7, <1>9 DEF GuestInv, AsksOwn
<1>11. KnownHost'
  <2>1. r[2] \in 1 .. drops
    BY <1>3, <1>7 DEF GuestInv, KnownGuest
  <2>. QED BY <1>1, <1>2, <1>3, <2>1 DEF KnownHost
<1>12. ASSUME NEW k \in Guests, NEW answers, answers = (IF k = g THEN {r} ELSE {}) PROVE GuestInv(k)'
  <2>1. GuestInv(k) /\ KnownHost /\ answers \in SUBSET own[k] /\ drops' \in {drops, drops + 1}
    BY <1>3, <1>7, <1>12
  <2>2. Grown(k, answers, {}, {})
    BY <1>1, <1>2, <1>12
  <2>3. Unanswered(k)' \subseteq Unanswered(k) /\ DropsOnce(k)'
    BY <1>3, <1>7
  <2>4. \A q \in Unanswered(k)' : q \notin deleted' \cup forgotten'
    BY <1>2, <2>1, <2>3 DEF GuestInv, AsksOwn
  <2>5. \A q \in Ans(k) \cup answers : /\ q \notin Waits' \cup forgotten' /\ (q \notin Common => q \notin Grants(k) \cup {})
                                       /\ \A l \in Guests : q \notin Unanswered(l)'
    <3>1. \A q \in Ans(k) : /\ q \notin Waits \cup forgotten /\ (q \notin Common => q \notin Grants(k))
                            /\ \A l \in Guests : q \notin Unanswered(l)
      BY <2>1 DEF GuestInv, AnswersLate
    <3>2. \A l \in Guests : Unanswered(l)' \subseteq Unanswered(l)
      BY <1>3, <1>7
    <3>3. \A q \in answers : q = r
      BY <1>12
    <3>. QED BY <1>2, <1>5, <1>7, <1>8, <1>10, <3>1, <3>2, <3>3
  <2>6. \A q \in own[k] : q \in log' \cup out' => q \in log \cup out \cup Ans(k) \cup answers
    BY <1>1, <1>3, <1>9, <1>12
  <2>. QED BY <1>2, <1>3, <2>1, <2>2, <2>3, <2>4, <2>5, <2>6, GuestKept
<1>. QED BY <1>3, <1>6, <1>11, <1>12 DEF Ownership

\* A drop that waits is its dropper's own still, and so is one that is forgotten.
LEMMA DropWaitsKeeps ==
    ASSUME ItemsInv, NEW g \in Guests, HostReads(g), Head(up[g]).type = "drop", ~loaded
    PROVE  Ownership'
<1>1. PICK r \in References, kept \in SUBSET Waiters :
                 /\ r \in Unanswered(g) /\ (DropsOnce(g) => DropsOnce(g)' /\ Unanswered(g)' = Unanswered(g) \ {r})
                 /\ Waiters' = kept \cup {[player |-> g, ref |-> r]}
                 /\ WaitsOnce /\ r \notin Waits => WaitsOnce'
                 /\ forgotten' = forgotten \cup (Waits \ {d.ref : d \in kept})
                 /\ \E e : Waiters \subseteq kept \cup {e}
  BY DropWaitsDoes, Zenon DEF ItemsInv
<1>2. DownStays /\ world' = world /\ log' = log /\ deleted' = deleted
  BY DropWaitsDoes, Zenon DEF ItemsInv
<1>3. /\ drops \in Nat /\ drops' = drops /\ out' = out /\ KnownHost /\ (\A k \in Guests : GuestInv(k))
      /\ shown' = shown /\ own' = own /\ created' = created
      /\ (\A k \in Guests \ {g} : Unanswered(k)' = Unanswered(k) /\ DropsOnce(k)')
      /\ (\A k \in Guests : Queued(k)' = Queued(k)) /\ Apart'
  BY ReadsKeep
<1>4. AllTypes /\ WaitsOwned /\ Apart /\ \A i \in Items : OneAt(i)
  BY DEF ItemsInv, Ownership
<1>5. DropsOnce(g)' /\ Unanswered(g)' = Unanswered(g) \ {r} /\ r \in own[g] /\ r \notin deleted \cup forgotten
  BY <1>1, <1>3 DEF GuestInv, AsksOwn
<1>6. r \notin Waits
  BY <1>1, <1>4, OnlyOnce
<1>7. PICK d : d = [player |-> g, ref |-> r]
  OBVIOUS
<1>8. Waiters' = kept \cup {d} /\ d.player = g /\ d.ref = r
  BY <1>1, <1>7
<1>9. PICK K : K = {e.ref : e \in kept}
  OBVIOUS
<1>10. Waits' = K \cup {r} /\ K \subseteq Waits /\ forgotten' = forgotten \cup (Waits \ K)
  <2>1. Waits' = {e.ref : e \in Waiters'} /\ Waits = {e.ref : e \in Waiters}
    BY WaitsAre
  <2>2. forgotten' = forgotten \cup (Waits \ K)
    BY <1>1, <1>9, Zenon
  <2>. QED BY <1>8, <1>9, <2>1, <2>2
<1>11. \A e \in Waiters : e.ref \in Waits /\ e.ref \in own[e.player] /\ e.player \in Guests
  BY <1>4, WaitsAre, WaitersAre DEF WaitsOwned, AllTypes, RuleTypes
<1>12. WaitsOwned'
  <2>1. WaitsOnce'
    BY <1>1, <1>4, <1>6 DEF WaitsOwned
  <2>2. \A e \in kept : e.ref \in own[e.player] /\ e.ref \notin deleted \cup forgotten /\ e.ref \in K
    BY <1>4, <1>9 DEF WaitsOwned
  <2>3. \A e \in Waiters' : e.ref \in own'[e.player] /\ e.ref \notin deleted' \cup forgotten'
    BY <1>2, <1>3, <1>5, <1>6, <1>8, <1>10, <2>2
  <2>. QED BY <2>1, <2>3 DEF WaitsOwned
<1>13. KnownHost'
  <2>1. \A q \in Waits : q[2] \in 1 .. drops
    BY <1>3, <1>11, WaitsAre DEF GuestInv, KnownGuest
  <2>. QED BY <1>2, <1>3, <1>10, <2>1 DEF KnownHost
<1>14. \A k \in Guests : Unanswered(k)' \subseteq Unanswered(k) /\ DropsOnce(k)'
  BY <1>3, <1>5
<1>15. ASSUME NEW k \in Guests PROVE GuestInv(k)'
  <2>1. GuestInv(k) /\ KnownHost /\ Grown(k, {}, {}, {}) /\ drops' \in {drops, drops + 1}
    BY <1>2, <1>3 DEF DownStays
  <2>2. \A q \in Unanswered(k)' : q \notin deleted' \cup forgotten'
    <3>1. \A q \in Unanswered(k) : q \notin deleted \cup forgotten
      BY <2>1 DEF GuestInv, AsksOwn
    <3>2. \A q \in Unanswered(k) : q \notin Waits
      BY <1>4, RefsTyped, OnlyOnce
    <3>. QED BY <1>2, <1>10, <1>14, <3>1, <3>2
  <2>3. \A q \in Ans(k) \cup {} : /\ q \notin Waits' \cup forgotten' /\ (q \notin Common => q \notin Grants(k) \cup {})
                                  /\ \A l \in Guests : q \notin Unanswered(l)'
    <3>1. \A q \in Ans(k) : /\ q \notin Waits \cup forgotten /\ (q \notin Common => q \notin Grants(k))
                            /\ \A l \in Guests : q \notin Unanswered(l)
      BY <2>1 DEF GuestInv, AnswersLate
    <3>. QED BY <1>1, <1>10, <1>14, <3>1
  <2>4. \A h \in shown[k] : h[1] \in forgotten' \ Common => h[1] \in forgotten \cup own[k]
    <3>1. ASSUME NEW h \in shown[k], h[1] \in Waits, h[1] \notin Common PROVE h[1] \in own[k]
      <4>1. PICK e \in Waiters : e.ref = h[1]
        BY <3>1, WaitsAre
      <4>2. e.player \in Guests /\ h[1] \in own[e.player] /\ Own(h[1]) \in shown[e.player]
        BY <1>3, <1>11, <4>1 DEF GuestInv, OwnShown
      <4>3. Own(h[1])[1] = h[1]
        BY Pairs
      <4>. QED BY <1>4, <3>1, <4>2, <4>3 DEF Apart
    <3>. QED BY <1>10, <3>1
  <2>. QED BY <1>2, <1>3, <1>14, <2>1, <2>2, <2>3, <2>4, GuestKept
<1>. QED BY <1>3, <1>12, <1>13, <1>15 DEF Ownership

\* A drop given back is granted to its dropper, whose it still is.
LEMMA GivesBackKeeps ==
    ASSUME ItemsInv, NEW g \in Guests, HostReads(g), Head(up[g]).type = "take", GivesBack(g, Head(up[g]))
    PROVE  Ownership'
<1>1. AllTypes /\ WaitsOwned /\ Apart /\ \A i \in Items : OneAt(i)
  BY DEF ItemsInv, Ownership
<1>2. PICK r \in References :
                 /\ [player |-> g, ref |-> r] \in Waiters
                 /\ Waiters' = {d \in Waiters : ~(d.player = g /\ d.ref = r)} /\ (WaitsOnce => WaitsOnce')
                 /\ Grown(g, {}, {r}, {})
  BY <1>1, GivesBackDoes, Zenon
<1>3. /\ (\A k \in Guests \ {g} : Grown(k, {}, {}, {}))
      /\ (DropsOnce(g) => DropsOnce(g)' /\ Unanswered(g)' = Unanswered(g))
      /\ world' = world /\ deleted' = deleted /\ log' = log /\ forgotten' = forgotten
  BY <1>1, GivesBackDoes, Zenon
<1>4. /\ drops \in Nat /\ drops' = drops /\ out' = out /\ KnownHost /\ (\A k \in Guests : GuestInv(k))
      /\ shown' = shown /\ own' = own /\ created' = created
      /\ (\A k \in Guests \ {g} : Unanswered(k)' = Unanswered(k) /\ DropsOnce(k)')
      /\ (\A k \in Guests : Queued(k)' = Queued(k)) /\ Apart'
  BY ReadsKeep
<1>5. \A k \in Guests : Unanswered(k)' = Unanswered(k) /\ DropsOnce(k)'
  BY <1>3, <1>4 DEF GuestInv, AsksOwn
<1>6. PICK d \in Waiters : d.player = g /\ d.ref = r
  BY <1>2
<1>7. r \in Waits /\ r \in own[g] /\ Waits' \subseteq Waits
  BY <1>1, <1>2, <1>6, WaitsAre DEF WaitsOwned
<1>8. r \notin Grants(g)
  BY <1>1, <1>7, OnlyOnce
<1>9. WaitsOwned'
  BY <1>1, <1>2, <1>3, <1>4 DEF WaitsOwned
<1>10. KnownHost'
  BY <1>3, <1>4 DEF KnownHost
<1>11. ASSUME NEW k \in Guests, NEW grants, grants = (IF k = g THEN {r} ELSE {}) PROVE GuestInv(k)'
  <2>1. GuestInv(k) /\ KnownHost /\ drops' \in {drops, drops + 1}
    BY <1>4
  <2>2. Grown(k, {}, grants, {}) /\ grants \cap Grants(k) = {} /\ grants \ Common \subseteq own[k]
    BY <1>2, <1>3, <1>7, <1>8, <1>11
  <2>3. \A q \in Unanswered(k)' : q \notin deleted' \cup forgotten'
    BY <1>3, <1>5, <2>1 DEF GuestInv, AsksOwn
  <2>4. \A q \in Ans(k) \cup {} : /\ q \notin Waits' \cup forgotten' /\ (q \notin Common => q \notin Grants(k) \cup grants)
                                  /\ \A l \in Guests : q \notin Unanswered(l)'
    <3>1. \A q \in Ans(k) : /\ q \notin Waits \cup forgotten /\ (q \notin Common => q \notin Grants(k))
                            /\ \A l \in Guests : q \notin Unanswered(l)
      BY <2>1 DEF GuestInv, AnswersLate
    <3>2. \A q \in grants : q = r
      BY <1>11
    <3>. QED BY <1>3, <1>5, <1>7, <3>1, <3>2
  <2>. QED BY <1>3, <1>4, <1>5, <2>1, <2>2, <2>3, <2>4, GuestKept
<1>. QED BY <1>4, <1>9, <1>10, <1>11 DEF Ownership

\* A pickup of what the host's game has: deleted there, it was nobody's drop any more.
LEMMA TakesItemKeeps ==
    ASSUME ItemsInv, NEW g \in Guests, HostReads(g), Head(up[g]).type = "take", TakesItem(g, Head(up[g]))
    PROVE  Ownership'
<1>1. AllTypes /\ WaitsOwned /\ Apart /\ \A i \in Items : OneAt(i)
  BY DEF ItemsInv, Ownership
<1>2. /\ WaitsStay /\ (\A k \in Guests \ {g} : Grown(k, {}, {}, {}))
      /\ (DropsOnce(g) => DropsOnce(g)' /\ Unanswered(g)' = Unanswered(g))
      /\ \/ /\ Grown(g, {}, {}, {}) /\ inv' = inv /\ world' = world /\ deleted' = deleted
         \/ \E r \in Common : /\ r \in world /\ r \notin deleted /\ world' = world \ {r} /\ Grown(g, {}, {}, {})
                              /\ inv' = [inv EXCEPT ![Host] = @ \cup {Of(r)}] /\ deleted' = deleted
         \/ \E r \in Common : /\ r \in world /\ r \notin deleted /\ deleted' = deleted \cup {r} /\ Grown(g, {}, {r}, {})
                              /\ inv' = inv /\ world' = world
      /\ log' = log /\ forgotten' = forgotten
  BY <1>1, TakesItemDoes, Zenon
<1>3. /\ drops \in Nat /\ drops' = drops /\ out' = out /\ KnownHost /\ (\A k \in Guests : GuestInv(k))
      /\ shown' = shown /\ own' = own /\ created' = created
      /\ (\A k \in Guests \ {g} : Unanswered(k)' = Unanswered(k) /\ DropsOnce(k)')
      /\ (\A k \in Guests : Queued(k)' = Queued(k)) /\ Apart'
  BY ReadsKeep
<1>4. PICK grants \in SUBSET (Common \cap world) :
          /\ Grown(g, {}, grants, {}) /\ deleted' = deleted \cup grants /\ world' \subseteq world
          /\ grants \cap deleted = {}
  <2>1. {} \in SUBSET (Common \cap world)
    OBVIOUS
  <2>2. CASE Grown(g, {}, {}, {}) /\ inv' = inv /\ world' = world /\ deleted' = deleted
    BY <2>1, <2>2
  <2>3. ASSUME NEW r \in Common, r \in world, r \notin deleted, world' = world \ {r}, Grown(g, {}, {}, {}), deleted' = deleted
        PROVE  \E grants \in SUBSET (Common \cap world) :
                  /\ Grown(g, {}, grants, {}) /\ deleted' = deleted \cup grants /\ world' \subseteq world
                  /\ grants \cap deleted = {}
    BY <2>1, <2>3
  <2>4. ASSUME NEW r \in Common, r \in world, r \notin deleted, deleted' = deleted \cup {r}, Grown(g, {}, {r}, {}), world' = world
        PROVE  \E grants \in SUBSET (Common \cap world) :
                  /\ Grown(g, {}, grants, {}) /\ deleted' = deleted \cup grants /\ world' \subseteq world
                  /\ grants \cap deleted = {}
    <3>1. {r} \in SUBSET (Common \cap world) /\ {r} \cap deleted = {} /\ world' \subseteq world
      BY <2>4
    <3>. QED BY <2>4, <3>1, Zenon
  <2>. QED BY <1>2, <2>2, <2>3, <2>4, Zenon
<1>5. \A r \in grants : r \in Alive /\ r \in References
  BY <1>4, Pairs DEF Alive
<1>6. \A k \in Guests : Unanswered(k)' = Unanswered(k) /\ DropsOnce(k)'
  BY <1>2, <1>3 DEF GuestInv, AsksOwn
<1>7. Waiters' = Waiters /\ Waits' = Waits /\ WaitsOnce'
  BY <1>1, <1>2 DEF WaitsStay, WaitsOwned
<1>8. \A r \in grants, k \in Guests : r \notin Waits \cup Unanswered(k) \cup Grants(k)
  BY <1>1, <1>5, OnlyOnce
<1>9. WaitsOwned'
  <2>1. \A d \in Waiters : d.ref \in Waits
    BY WaitsAre
  <2>. QED BY <1>1, <1>2, <1>3, <1>4, <1>7, <1>8, <2>1 DEF WaitsOwned
<1>10. KnownHost'
  BY <1>2, <1>3, <1>4 DEF KnownHost
<1>11. ASSUME NEW k \in Guests, NEW given, given = (IF k = g THEN grants ELSE {}) PROVE GuestInv(k)'
  <2>1. GuestInv(k) /\ KnownHost /\ drops' \in {drops, drops + 1}
    BY <1>3
  <2>2. Grown(k, {}, given, {})
    BY <1>2, <1>4, <1>11
  <2>3. given \cap Grants(k) = {} /\ given \ Common \subseteq own[k]
    BY <1>4, <1>8, <1>11
  <2>4. \A q \in Unanswered(k)' : q \notin deleted' \cup forgotten'
    <3>1. \A q \in Unanswered(k) : q \notin deleted \cup forgotten
      BY <2>1 DEF GuestInv, AsksOwn
    <3>. QED BY <1>2, <1>4, <1>6, <1>8, <3>1
  <2>5. \A q \in Ans(k) \cup {} : /\ q \notin Waits' \cup forgotten' /\ (q \notin Common => q \notin Grants(k) \cup given)
                                  /\ \A l \in Guests : q \notin Unanswered(l)'
    <3>1. \A q \in Ans(k) : /\ q \notin Waits \cup forgotten /\ (q \notin Common => q \notin Grants(k))
                            /\ \A l \in Guests : q \notin Unanswered(l)
      BY <2>1 DEF GuestInv, AnswersLate
    <3>2. given \subseteq Common
      BY <1>4, <1>11
    <3>. QED BY <1>2, <1>6, <1>7, <3>1, <3>2
  <2>. QED BY <1>2, <1>3, <1>6, <2>1, <2>2, <2>3, <2>4, <2>5, GuestKept
<1>. QED BY <1>3, <1>9, <1>10, <1>11 DEF Ownership

\* The cell's state names what the guests were told of, so nothing that is not answered.
LEMMA CellAskedKeeps ==
    ASSUME ItemsInv, NEW g \in Guests, HostReads(g), Head(up[g]).type = "cell"
    PROVE  Ownership'
<1>1. AllTypes /\ WaitsOwned /\ Apart
  BY DEF ItemsInv, Ownership
<1>2. /\ WaitsStay /\ (\A k \in Guests : Grown(k, {}, {}, out))
      /\ (DropsOnce(g) => DropsOnce(g)' /\ Unanswered(g)' = Unanswered(g))
      /\ world' = world /\ deleted' = deleted /\ log' = log /\ forgotten' = forgotten
  BY <1>1, CellAskedDoes, Zenon
<1>3. /\ drops \in Nat /\ drops' = drops /\ out' = out /\ KnownHost /\ (\A k \in Guests : GuestInv(k))
      /\ shown' = shown /\ own' = own /\ created' = created
      /\ (\A k \in Guests \ {g} : Unanswered(k)' = Unanswered(k) /\ DropsOnce(k)')
      /\ (\A k \in Guests : Queued(k)' = Queued(k)) /\ Apart'
  BY ReadsKeep
<1>4. \A k \in Guests : Unanswered(k)' = Unanswered(k) /\ DropsOnce(k)'
  BY <1>2, <1>3 DEF GuestInv, AsksOwn
<1>5. Waiters' = Waiters /\ Waits' = Waits /\ WaitsOnce'
  BY <1>1, <1>2 DEF WaitsStay, WaitsOwned
<1>6. WaitsOwned' /\ KnownHost'
  BY <1>1, <1>2, <1>3, <1>5 DEF WaitsOwned, KnownHost
<1>7. ASSUME NEW k \in Guests PROVE GuestInv(k)'
  <2>1. GuestInv(k) /\ KnownHost /\ Grown(k, {}, {}, out) /\ drops' \in {drops, drops + 1} /\ out \subseteq log \cup out
    BY <1>2, <1>3
  <2>2. \A q \in Unanswered(k)' : q \notin deleted' \cup forgotten'
    BY <1>2, <1>4, <2>1 DEF GuestInv, AsksOwn
  <2>3. \A q \in Ans(k) \cup {} : /\ q \notin Waits' \cup forgotten' /\ (q \notin Common => q \notin Grants(k) \cup {})
                                  /\ \A l \in Guests : q \notin Unanswered(l)'
    BY <1>2, <1>4, <1>5, <2>1 DEF GuestInv, AnswersLate
  <2>. QED BY <1>2, <1>3, <1>4, <2>1, <2>2, <2>3, GuestKept
<1>. QED BY <1>3, <1>6, <1>7 DEF Ownership

\* What the host's game makes of the drops that waited is answered at once, each to its dropper.
LEMMA UpdateKeeps ==
    ASSUME ItemsInv, HostUpdate
    PROVE  Ownership'
<1>1. AllTypes /\ KnownHost /\ WaitsOwned /\ Apart /\ (\A k \in Guests : GuestInv(k)) /\ \A i \in Items : OneAt(i)
  BY DEF ItemsInv, Ownership
<1>2. /\ UpStays /\ TasksStay
      /\ (\A g \in Guests : Grown(g, {d.ref : d \in {e \in Making : e.player = g}}, {}, out \cup log))
      /\ out' \subseteq out \cup log
      /\ (\E R : /\ R = {d.ref : d \in Making} \cap Common
                 /\ world' = world \cup R /\ log' = R)
      /\ Waiters' = Waiters \ Making /\ (WaitsOnce => WaitsOnce')
      /\ drops' = drops /\ deleted' = deleted /\ shown' = shown /\ own' = own /\ created' = created /\ forgotten' = forgotten
  BY <1>1, UpdateDoes, Zenon
<1>3. PICK M : M = {d.ref : d \in Making}
  OBVIOUS
<1>4. world' = world \cup (M \cap Common) /\ log' = M \cap Common
  BY <1>2, <1>3
<1>5. /\ Making \subseteq Waiters
      /\ \A d \in Waiters : d.player \in Guests /\ d.ref \in own[d.player] /\ d.ref \notin deleted \cup forgotten
      /\ \A d \in Waiters : d.ref \in References /\ d.ref \in Waits
  BY <1>1, WaitersAre, WaitsAre DEF Making, WaitsOwned, AllTypes, RuleTypes
<1>6. \A d \in Waiters, e \in Making : d.ref = e.ref => d = e
  BY <1>1, <1>5, WaiterOnce DEF WaitsOwned
<1>7. Waits' \subseteq Waits /\ Waits' \cap M = {}
  BY <1>2, <1>3, <1>6, WaitsAre
<1>8. WaitsOwned'
  BY <1>1, <1>2 DEF WaitsOwned
<1>9. drops \in Nat
  BY <1>1, BoundsAssumption DEF AllTypes, PlayerTypes
<1>10. \A r \in M : r[2] \in 1 .. drops
  BY <1>1, <1>3, <1>5 DEF GuestInv, KnownGuest
<1>11. KnownHost'
  BY <1>1, <1>2, <1>4, <1>10 DEF KnownHost
<1>12. \A k \in Guests : Unanswered(k)' = Unanswered(k) /\ DropsOnce(k)' /\ Queued(k)' = Queued(k)
  BY <1>1, <1>2 DEF UpStays, TasksStay, GuestInv, AsksOwn
<1>13. \A r \in M, k \in Guests : r \notin Unanswered(k) \cup Grants(k)
  BY <1>1, <1>3, <1>5, OnlyOnce
<1>14. ASSUME NEW g \in Guests, NEW answers, answers = {d.ref : d \in {e \in Making : e.player = g}} PROVE GuestInv(g)'
  <2>1. answers \in SUBSET own[g] /\ answers \subseteq M
    BY <1>3, <1>5, <1>14
  <2>2. Grown(g, answers, {}, out \cup log)
    BY <1>2, <1>14
  <2>3. GuestInv(g) /\ drops' \in {drops, drops + 1} /\ out \cup log \in SUBSET (log \cup out)
    BY <1>1, <1>2
  <2>4. \A q \in Unanswered(g)' : q \notin deleted' \cup forgotten'
    BY <1>2, <1>12, <2>3 DEF GuestInv, AsksOwn
  <2>5. \A q \in Ans(g) \cup answers : /\ q \notin Waits' \cup forgotten' /\ (q \notin Common => q \notin Grants(g) \cup {})
                                       /\ \A l \in Guests : q \notin Unanswered(l)'
    <3>1. \A q \in Ans(g) : /\ q \notin Waits \cup forgotten /\ (q \notin Common => q \notin Grants(g))
                            /\ \A l \in Guests : q \notin Unanswered(l)
      BY <2>3 DEF GuestInv, AnswersLate
    <3>2. \A q \in answers : q \notin forgotten
      BY <1>5, <1>14
    <3>. QED BY <1>2, <1>7, <1>12, <1>13, <2>1, <3>1, <3>2
  <2>6. \A q \in own[g] : q \in log' \cup out' => q \in log \cup out \cup Ans(g) \cup answers
    <3>1. ASSUME NEW d \in Making, d.ref \in own[g] PROVE d.ref \in answers
      <4>1. d.player = g
        BY <1>1, <1>5, <3>1 DEF Apart
      <4>. QED BY <1>14, <4>1
    <3>. QED BY <1>2, <1>3, <1>4, <3>1
  <2>7. {} \cap Grants(g) = {} /\ {} \ Common \subseteq own[g]
    OBVIOUS
  <2>. QED BY <1>1, <1>2, <1>9, <1>12, <2>1, <2>2, <2>3, <2>4, <2>5, <2>6, <2>7, GuestKept
<1>15. Apart'
  BY <1>1, <1>2, ApartStays
<1>. QED BY <1>8, <1>11, <1>14, <1>15 DEF Ownership

\* The other guests, in a step of a guest's game: nothing of theirs changes.
LEMMA OtherKept ==
    ASSUME AllTypes, Ownership, NEW k \in Guests,
           Unanswered(k)' = Unanswered(k), DropsOnce(k)', Grown(k, {}, {}, {}), Queued(k)' = Queued(k),
           shown'[k] = shown[k], own'[k] = own[k], created'[k] = created[k],
           drops' \in {drops, drops + 1}, UNCHANGED <<deleted, log, out, forgotten>>, Waits' \subseteq Waits,
           \A l \in Guests, r \in Ans(k) : r \in Unanswered(l)' => r \in Unanswered(l)
    PROVE  GuestInv(k)'
<1>1. GuestInv(k) /\ KnownHost /\ drops \in Nat
  BY BoundsAssumption DEF Ownership, AllTypes, PlayerTypes
<1>2. \A q \in Unanswered(k)' : q \notin deleted' \cup forgotten'
  BY <1>1 DEF GuestInv, AsksOwn
<1>3. \A q \in Ans(k) \cup {} : /\ q \notin Waits' \cup forgotten' /\ (q \notin Common => q \notin Grants(k) \cup {})
                                /\ \A l \in Guests : q \notin Unanswered(l)'
  BY <1>1 DEF GuestInv, AnswersLate
<1>. QED BY <1>1, <1>2, <1>3, GuestKept

\* GuestDrops: a new reference, shown, its game's own and on its way.
LEMMA GuestDropsKeeps ==
    ASSUME ItemsInv, NEW g \in Guests, NEW i \in Items, GuestDrops(g, i)
    PROVE  Ownership'
<1>1. AllTypes /\ Ownership /\ KnownHost /\ WaitsOwned /\ Apart /\ \A k \in Guests : GuestInv(k)
  BY DEF ItemsInv, Ownership
<1>2. PICK r \in References :
                 /\ Of(r) = i /\ r[2] = drops + 1 /\ drops' = drops + 1
                 /\ shown' = [shown EXCEPT ![g] = @ \cup {Own(r)}] /\ own' = [own EXCEPT ![g] = @ \cup {r}]
                 /\ \A k \in Guests \ {g} : Unanswered(k)' = Unanswered(k) /\ (DropsOnce(k) => DropsOnce(k)')
                 /\ Unanswered(g)' = Unanswered(g) \cup {r}
                 /\ DropsOnce(g) /\ r \notin Unanswered(g) => DropsOnce(g)'
  BY <1>1, GuestDropsDoes, Zenon
<1>3. /\ AllTypes' /\ DownStays /\ TasksStay /\ WaitsStay
      /\ UNCHANGED <<here, world, deleted, log, out, forgotten, created, start>>
  BY <1>1, GuestDropsDoes, Zenon
<1>4. drops \in Nat
  BY <1>1, BoundsAssumption DEF AllTypes, PlayerTypes
<1>5. r[2] \notin 1 .. drops /\ r[2] \in 1 .. drops' /\ (\A x : x \in 1 .. drops => x \in 1 .. drops')
  BY <1>2, <1>4
<1>6. /\ \A k \in Guests \ {g} : shown'[k] = shown[k] /\ own'[k] = own[k]
      /\ shown'[g] = shown[g] \cup {Own(r)} /\ own'[g] = own[g] \cup {r}
  BY <1>1, <1>2 DEF AllTypes, GameTypes
<1>7. /\ r \notin deleted \cup log \cup out \cup forgotten
      /\ \A k \in Guests : /\ r \notin own[k] \cup Ans(k) \cup Heard(k) \cup Queued(k)
                           /\ \A h \in shown[k] \cup created[k] : h[1] # r
  BY <1>1, <1>5 DEF KnownHost, GuestInv, KnownGuest
<1>8. Waiters' = Waiters /\ Waits' = Waits /\ WaitsOnce'
  BY <1>1, <1>3 DEF WaitsStay, WaitsOwned
<1>9. \A d \in Waiters : d.player \in Guests
  BY <1>1, WaitersAre DEF AllTypes, RuleTypes
<1>10. KnownHost' /\ WaitsOwned'
  <2>1. KnownHost'
    BY <1>1, <1>3, <1>2, <1>4 DEF KnownHost
  <2>2. WaitsOwned'
    BY <1>1, <1>3, <1>6, <1>8, <1>9 DEF WaitsOwned
  <2>. QED BY <2>1, <2>2
<1>11. \A k \in Guests : r \notin Unanswered(k)
  BY <1>1, <1>7 DEF GuestInv, AsksOwn
<1>12. ASSUME NEW k \in Guests \ {g} PROVE GuestInv(k)'
  <2>1. Unanswered(k)' = Unanswered(k) /\ DropsOnce(k)' /\ Grown(k, {}, {}, {}) /\ Queued(k)' = Queued(k)
    BY <1>1, <1>2, <1>3, Zenon DEF DownStays, TasksStay, GuestInv, AsksOwn
  <2>2. \A l \in Guests, q \in Ans(k) : q \in Unanswered(l)' => q \in Unanswered(l)
    BY <1>2, <1>7
  <2>. QED BY <1>1, <1>2, <1>3, <1>6, <1>8, <2>1, <2>2, OtherKept
<1>13. GuestInv(g)'
  <2>1. /\ Grown(g, {}, {}, {}) /\ Queued(g)' = Queued(g) /\ created'[g] = created[g] /\ GuestInv(g)
    BY <1>1, <1>3 DEF DownStays, TasksStay
  <2>2. /\ Ans(g)' = Ans(g) /\ Grants(g)' = Grants(g) /\ Heard(g)' \subseteq Heard(g)
        /\ HeardEarly(g)' \subseteq HeardEarly(g) /\ (GrantsOnce(g) => GrantsOnce(g)')
    <3>1. /\ Ans(g)' = Ans(g) \cup {} /\ Grants(g)' = Grants(g) \cup {} /\ Heard(g)' \subseteq Heard(g) \cup {}
          /\ HeardEarly(g)' \subseteq HeardEarly(g) \cup ({} \ Ans(g)) /\ (GrantsOnce(g) /\ {} \cap Grants(g) = {} => GrantsOnce(g)')
      BY <2>1, GrownFacts
    <3>. QED BY <3>1
  <2>3. Own(r)[1] = r
    BY Pairs
  <2>4. KnownGuest(g)'
    <3>1. \A q \in own'[g] \cup Ans(g)' \cup Heard(g)' \cup Queued(g)' : q[2] \in 1 .. drops'
      BY <1>5, <1>6, <2>1, <2>2 DEF GuestInv, KnownGuest
    <3>2. \A h \in shown'[g] \cup created'[g] : h[1][2] \in 1 .. drops'
      BY <1>5, <1>6, <2>1, <2>3 DEF GuestInv, KnownGuest
    <3>. QED BY <3>1, <3>2, Zenon DEF KnownGuest
  <2>5. AsksOwn(g)'
    BY <1>2, <1>3, <1>6, <1>7, <1>11, <2>1 DEF GuestInv, AsksOwn
  <2>6. GrantsReal(g)'
    BY <1>6, <2>1, <2>2 DEF GuestInv, GrantsReal
  <2>7. AnswersLate(g)'
    <3>1. \A l \in Guests, q \in Ans(g) : q \in Unanswered(l)' => q \in Unanswered(l)
      BY <1>2, <1>7
    <3>. QED BY <1>3, <1>8, <2>1, <2>2, <3>1 DEF GuestInv, AnswersLate
  <2>8. OwnShown(g)'
    BY <1>6, <2>1 DEF GuestInv, OwnShown
  <2>9. OwnUnnamed(g)'
    <3>1. HeardEarly(g) \subseteq Heard(g)
      BY DEF HeardEarly, Heard, Early, News
    <3>. QED BY <1>6, <1>7, <2>1, <2>2, <3>1 DEF GuestInv, OwnUnnamed
  <2>10. OwnMade(g)'
    BY <1>3, <1>6, <1>7, <2>1, <2>2 DEF GuestInv, OwnMade
  <2>11. ShownNamed(g)'
    BY <1>6, <2>1, <2>3 DEF GuestInv, ShownNamed
  <2>12. ForgotOwn(g)'
    BY <1>3, <1>6, <2>1, <2>3 DEF GuestInv, ForgotOwn
  <2>. QED BY <2>4, <2>5, <2>6, <2>7, <2>8, <2>9, <2>10, <2>11, <2>12, Zenon DEF GuestInv
<1>14. Apart'
  <2>1. Own(r)[1] = r
    BY Pairs
  <2>. QED BY <1>1, <1>6, <1>7, <2>1 DEF Apart
<1>. QED BY <1>10, <1>12, <1>13, <1>14 DEF Ownership

\* GuestPicksUp: what its game alone has is neither its drop under way nor the host's.
LEMMA GuestPicksUpKeeps ==
    ASSUME ItemsInv, NEW g \in Guests, NEW h \in shown[g], GuestPicksUp(g, h)
    PROVE  Ownership'
<1>1. AllTypes /\ Ownership /\ KnownHost /\ WaitsOwned /\ Apart /\ \A k \in Guests : GuestInv(k)
  BY DEF ItemsInv, Ownership
<1>2. /\ UpStays /\ DownStays /\ TasksStay /\ WaitsStay
      /\ h \in Handles /\ ~(h[1] \in own[g] /\ h[2] = "drop") /\ h \notin created[g]
      /\ shown' = [shown EXCEPT ![g] = @ \ {h}]
      /\ UNCHANGED <<here, drops, world, deleted, log, out, forgotten, own, created, start>>
  BY <1>1, GuestPicksUpDoes, Zenon
<1>3. (\A k \in Guests \ {g} : shown'[k] = shown[k]) /\ shown'[g] = shown[g] \ {h}
  BY <1>1, <1>2 DEF AllTypes, GameTypes
<1>4. \A k \in Guests : Unanswered(k)' = Unanswered(k) /\ DropsOnce(k)' /\ Grown(k, {}, {}, {}) /\ Queued(k)' = Queued(k)
  BY <1>1, <1>2, Zenon DEF UpStays, DownStays, TasksStay, GuestInv, AsksOwn
<1>5. Waiters' = Waiters /\ Waits' = Waits /\ WaitsOnce'
  BY <1>1, <1>2 DEF WaitsStay, WaitsOwned
<1>6. KnownHost' /\ WaitsOwned'
  BY <1>1, <1>2, <1>5 DEF KnownHost, WaitsOwned
<1>7. ASSUME NEW k \in Guests \ {g} PROVE GuestInv(k)'
  <2>1. \A l \in Guests, q \in Ans(k) : q \in Unanswered(l)' => q \in Unanswered(l)
    BY <1>4
  <2>2. drops' \in {drops, drops + 1} /\ own'[k] = own[k] /\ created'[k] = created[k] /\ shown'[k] = shown[k]
    BY <1>2, <1>3
  <2>. QED BY <1>1, <1>2, <1>4, <1>5, <2>1, <2>2, OtherKept
<1>8. GuestInv(g)'
  <2>1. /\ Ans(g)' = Ans(g) /\ Grants(g)' = Grants(g) /\ Heard(g)' \subseteq Heard(g)
        /\ HeardEarly(g)' \subseteq HeardEarly(g) /\ (GrantsOnce(g) => GrantsOnce(g)')
    <3>1. /\ Ans(g)' = Ans(g) \cup {} /\ Grants(g)' = Grants(g) \cup {} /\ Heard(g)' \subseteq Heard(g) \cup {}
          /\ HeardEarly(g)' \subseteq HeardEarly(g) \cup ({} \ Ans(g)) /\ (GrantsOnce(g) /\ {} \cap Grants(g) = {} => GrantsOnce(g)')
      BY <1>4, GrownFacts
    <3>. QED BY <3>1
  <2>2. KnownGuest(g)'
    BY <1>1, <1>2, <1>3, <1>4, <2>1 DEF GuestInv, KnownGuest
  <2>3. AsksOwn(g)' /\ GrantsReal(g)' /\ AnswersLate(g)'
    BY <1>1, <1>2, <1>4, <1>5, <2>1 DEF GuestInv, AsksOwn, GrantsReal, AnswersLate
  <2>4. OwnShown(g)'
    <3>1. \A q \in own[g] : Own(q) # h
      BY <1>2, Pairs
    <3>. QED BY <1>1, <1>2, <1>3, <3>1 DEF GuestInv, OwnShown
  <2>5. OwnUnnamed(g)' /\ OwnMade(g)'
    BY <1>1, <1>2, <1>4, <2>1 DEF GuestInv, OwnUnnamed, OwnMade
  <2>6. ShownNamed(g)' /\ ForgotOwn(g)'
    BY <1>1, <1>2, <1>3 DEF GuestInv, ShownNamed, ForgotOwn
  <2>. QED BY <2>2, <2>3, <2>4, <2>5, <2>6, Zenon DEF GuestInv
<1>9. Apart'
  BY <1>1, <1>2, <1>3 DEF Apart
<1>. QED BY <1>6, <1>7, <1>8, <1>9 DEF Ownership

\* Nobody's references change hands, where games lose some and are told of the host's.
LEMMA ApartLess ==
    ASSUME Apart, \A k \in Guests : own'[k] \subseteq own[k],
           \A k \in Guests : \A h \in shown'[k] : h \in shown[k] \/ h[1] \in Common
    PROVE  Apart'
BY DEF Apart

\* Of the drops that wait, while the rule keeps them.
LEMMA WaitsOwnedStays ==
    ASSUME WaitsOwned, WaitsStay, deleted' = deleted, forgotten' = forgotten,
           \A d \in Waiters : d.ref \in own[d.player] => d.ref \in own'[d.player]
    PROVE  WaitsOwned' /\ Waits' = Waits
<1>1. Waiters' = Waiters /\ Waits' = Waits /\ WaitsOnce'
  BY DEF WaitsStay, WaitsOwned
<1>. QED BY <1>1 DEF WaitsOwned

\* What every step of a guest's game leaves the rest of the party.
LEMMA ReadsLeave ==
    ASSUME ItemsInv, NEW g \in Guests, GuestReads(g), \A k \in Guests \ {g} : Queued(k)' = Queued(k),
           \A k \in Guests \ {g} : shown'[k] = shown[k] /\ own'[k] = own[k] /\ created'[k] = created[k]
    PROVE  /\ KnownHost' /\ drops' = drops /\ WaitsStay
           /\ (\A k \in Guests \ {g} : GuestInv(k)')
           /\ (\A k \in Guests : Unanswered(k)' = Unanswered(k) /\ DropsOnce(k)') /\ Waits' = Waits
           /\ Ans(g)' \subseteq Ans(g) /\ Heard(g)' \subseteq Heard(g)
           /\ UNCHANGED <<deleted, log, out, forgotten>>
<1>1. AllTypes /\ Ownership /\ KnownHost /\ WaitsOwned /\ \A k \in Guests : GuestInv(k)
  BY DEF ItemsInv, Ownership
<1>2. /\ UpStays /\ WaitsStay /\ (\A k \in Guests \ {g} : Grown(k, {}, {}, {}))
      /\ Ans(g)' \subseteq Ans(g) /\ Heard(g)' \subseteq Heard(g)
      /\ UNCHANGED <<here, drops, world, deleted, log, out, forgotten, start>>
  BY <1>1, GuestReadsRest, Zenon
<1>3. KnownHost'
  BY <1>1, <1>2 DEF KnownHost
<1>4. \A k \in Guests : Unanswered(k)' = Unanswered(k) /\ DropsOnce(k)'
  BY <1>1, <1>2, Zenon DEF UpStays, GuestInv, AsksOwn
<1>5. Waits' = Waits
  BY <1>2, StaysAre
<1>6. ASSUME NEW k \in Guests \ {g} PROVE GuestInv(k)'
  <2>1. Grown(k, {}, {}, {})
    BY <1>2
  <2>2. \A l \in Guests, q \in Ans(k) : q \in Unanswered(l)' => q \in Unanswered(l)
    BY <1>4
  <2>3. drops' \in {drops, drops + 1} /\ Waits' \subseteq Waits
    BY <1>2, <1>5
  <2>. QED BY <1>1, <1>2, <1>4, <2>1, <2>2, <2>3, OtherKept
<1>. QED BY <1>2, <1>3, <1>4, <1>5, <1>6

\* AdoptDrop: an answered drop is the game's own no longer; the object's, if it was made.
LEMMA AdoptDropKeeps ==
    ASSUME ItemsInv, NEW g \in Guests, GuestReads(g), Head(down[g]).type = "dropped"
    PROVE  Ownership'
<1>1. AllTypes /\ Ownership /\ KnownHost /\ WaitsOwned /\ Apart /\ GuestInv(g)
  BY DEF ItemsInv, Ownership
<1>2. PICK r \in References :
                 /\ r \in Ans(g) /\ Ans(g) \subseteq Ans(g)' \cup {r} /\ HeardEarly(g)' \subseteq HeardEarly(g) \cup {r}
                 /\ GrantsOnce(g) => GrantsOnce(g)' /\ Grants(g)' = Grants(g)
                 /\ own' = [own EXCEPT ![g] = @ \ {r}]
                 /\ created' = IF r \in Common /\ r \in own[g] /\ Own(r) \in shown[g]
                               THEN [created EXCEPT ![g] = Naming(@, {Own(r)})] ELSE created
  BY <1>1, AdoptDropDoes, Zenon
<1>3. TasksStay /\ shown' = shown
  BY <1>1, AdoptDropDoes, Zenon
<1>4. /\ \A k \in Guests \ {g} : own'[k] = own[k] /\ created'[k] = created[k]
      /\ own'[g] = own[g] \ {r}
      /\ r \in Common /\ r \in own[g] => created'[g] = Naming(created[g], {Own(r)})
      /\ ~(r \in Common /\ r \in own[g]) => created'[g] = created[g]
  <2>1. r \in own[g] => Own(r) \in shown[g]
    BY <1>1 DEF GuestInv, OwnShown
  <2>2. own \in [Guests -> SUBSET References] /\ created \in [Guests -> SUBSET Twins]
    BY <1>1 DEF AllTypes, GameTypes
  <2>3. CASE r \in Common /\ r \in own[g]
    <3>1. created' = [created EXCEPT ![g] = Naming(created[g], {Own(r)})]
      BY <1>2, <2>1, <2>3
    <3>. QED BY <1>2, <2>2, <2>3, <3>1
  <2>4. CASE ~(r \in Common /\ r \in own[g])
    <3>1. created' = created
      BY <1>2, <2>4
    <3>. QED BY <1>2, <2>2, <2>4, <3>1
  <2>. QED BY <2>3, <2>4
<1>5. (\A k \in Guests : Queued(k)' = Queued(k)) /\ \A k \in Guests \ {g} : shown'[k] = shown[k]
  BY <1>3 DEF TasksStay
<1>6. /\ KnownHost' /\ drops' = drops /\ WaitsStay
      /\ (\A k \in Guests \ {g} : GuestInv(k)')
      /\ (\A k \in Guests : Unanswered(k)' = Unanswered(k) /\ DropsOnce(k)') /\ Waits' = Waits
      /\ Ans(g)' \subseteq Ans(g) /\ Heard(g)' \subseteq Heard(g)
      /\ UNCHANGED <<deleted, log, out, forgotten>>
  BY <1>4, <1>5, ReadsLeave
<1>7. /\ r \notin Waits \cup forgotten /\ (r \notin Common => r \notin Grants(g)) /\ r \notin Unanswered(g)
      /\ Grants(g)' = Grants(g) /\ GrantsOnce(g)' /\ r[2] \in 1 .. drops
  BY <1>1, <1>2 DEF GuestInv, AnswersLate, GrantsReal, KnownGuest
<1>8. Own(r)[1] = r
  BY Pairs
<1>9. \A k \in created'[g] : k \in created[g] \/ (k = Own(r) /\ r \in own[g])
  BY <1>4 DEF Naming
<1>10. GuestInv(g)'
  <2>1. KnownGuest(g)'
    <3>1. \A q \in own'[g] \cup Ans(g)' \cup Heard(g)' \cup Queued(g)' : q[2] \in 1 .. drops'
      BY <1>1, <1>4, <1>5, <1>6 DEF GuestInv, KnownGuest
    <3>2. \A h \in shown'[g] \cup created'[g] : h[1][2] \in 1 .. drops'
      BY <1>1, <1>3, <1>6, <1>7, <1>8, <1>9 DEF GuestInv, KnownGuest
    <3>. QED BY <3>1, <3>2, Zenon DEF KnownGuest
  <2>2. AsksOwn(g)'
    BY <1>1, <1>4, <1>6, <1>7 DEF GuestInv, AsksOwn
  <2>3. GrantsReal(g)'
    BY <1>1, <1>4, <1>7 DEF GuestInv, GrantsReal
  <2>4. AnswersLate(g)'
    BY <1>1, <1>6, <1>7 DEF GuestInv, AnswersLate
  <2>5. OwnShown(g)'
    BY <1>1, <1>3, <1>4 DEF GuestInv, OwnShown
  <2>6. OwnUnnamed(g)'
    BY <1>1, <1>2, <1>4, <1>5, <1>8, <1>9, SMTT(30) DEF GuestInv, OwnUnnamed
  <2>7. OwnMade(g)'
    BY <1>1, <1>2, <1>4, <1>6 DEF GuestInv, OwnMade
  <2>8. ShownNamed(g)'
    <3>1. ASSUME NEW h \in shown[g], h[1] \in Common PROVE h \in created'[g] \/ (h = Own(h[1]) /\ h[1] \in own'[g])
      <4>0. h \in created[g] \/ (h = Own(h[1]) /\ h[1] \in own[g])
        BY <1>1, <3>1 DEF GuestInv, ShownNamed
      <4>1. CASE r \in own[g] /\ r \in Common
        <5>1. \A k \in created[g] : k[1] # r
          BY <1>1, <4>1 DEF GuestInv, OwnUnnamed
        <5>2. created'[g] = created[g] \cup {Own(r)}
          BY <1>4, <1>8, <4>1, <5>1 DEF Naming
        <5>. QED BY <1>4, <4>0, <5>2
      <4>2. CASE ~(r \in own[g] /\ r \in Common)
        BY <1>4, <3>1, <4>0, <4>2
      <4>. QED BY <4>1, <4>2
    <3>2. \A h \in shown[g] : h[1] \notin Common => h = Own(h[1])
      BY <1>1 DEF GuestInv, ShownNamed
    <3>. QED BY <1>3, <3>1, <3>2 DEF ShownNamed
  <2>9. ForgotOwn(g)'
    BY <1>1, <1>3, <1>4, <1>6, <1>7 DEF GuestInv, ForgotOwn
  <2>. QED BY <2>1, <2>2, <2>3, <2>4, <2>5, <2>6, <2>7, <2>8, <2>9, Zenon DEF GuestInv
<1>11. WaitsOwned'
  <2>1. \A d \in Waiters : d.player \in Guests /\ d.ref \in Waits
    BY <1>1, WaitersAre, WaitsAre DEF AllTypes, RuleTypes
  <2>2. \A d \in Waiters : d.ref \in own[d.player] => d.ref \in own'[d.player]
    BY <1>4, <1>7, <2>1
  <2>. QED BY <1>1, <1>6, <2>2, WaitsOwnedStays
<1>12. Apart'
  BY <1>1, <1>3, <1>4, ApartLess
<1>. QED BY <1>6, <1>10, <1>11, <1>12 DEF Ownership

\* Granted: the item is with the guest, and its game shows it no longer.
LEMMA GrantedKeeps ==
    ASSUME ItemsInv, NEW g \in Guests, GuestReads(g), Head(down[g]).type = "pickup"
    PROVE  Ownership'
<1>1. AllTypes /\ Ownership /\ KnownHost /\ WaitsOwned /\ Apart /\ GuestInv(g) /\ \A j \in Items : OneAt(j)
  BY DEF ItemsInv, Ownership
<1>2. PICK r \in References, tagged, object \in BOOLEAN :
                 /\ r \in Common \/ tagged
                 /\ r = Head(down[g]).ref /\ tagged = Head(down[g]).tagged /\ object = Head(down[g]).object
                 /\ r \in Grants(g) /\ Ans(g)' = Ans(g) /\ HeardEarly(g)' \subseteq HeardEarly(g)
                 /\ GrantsOnce(g) => GrantsOnce(g)' /\ Grants(g)' = Grants(g) \ {r}
                 /\ inv' = [inv EXCEPT ![g] = @ \cup {Of(r)}]
                 /\ own' = [own EXCEPT ![g] = IF tagged THEN @ \ {r} ELSE @]
                 /\ created' = [created EXCEPT ![g] = IF object THEN {h \in @ : h[1] # r} ELSE @]
                 /\ shown' = [shown EXCEPT ![g] = IF tagged /\ r \in own[g] THEN @ \ {Own(r)}
                                                  ELSE {h \in @ : ~(object /\ h \in created[g] /\ h[1] = r)}]
  BY <1>1, GrantedDoes, Zenon
<1>3. TasksStay
  BY <1>1, GrantedDoes, Zenon
<1>4. /\ \A k \in Guests \ {g} : own'[k] = own[k] /\ created'[k] = created[k] /\ shown'[k] = shown[k]
      /\ own'[g] \subseteq own[g] /\ (\A q \in own[g] : q # r \/ ~tagged => q \in own'[g]) /\ (tagged => r \notin own'[g])
      /\ created'[g] \subseteq created[g] /\ (\A h \in created[g] : h[1] # r \/ ~object => h \in created'[g])
  BY <1>1, <1>2 DEF AllTypes, GameTypes
<1>5. /\ shown'[g] \subseteq shown[g]
      /\ tagged /\ r \in own[g] => shown'[g] = shown[g] \ {Own(r)}
      /\ ~(tagged /\ r \in own[g]) => shown'[g] = {h \in shown[g] : ~(object /\ h \in created[g] /\ h[1] = r)}
  <2>1. shown \in [Guests -> SUBSET Handles]
    BY <1>1 DEF AllTypes, GameTypes
  <2>2. CASE tagged /\ r \in own[g]
    <3>1. shown' = [shown EXCEPT ![g] = shown[g] \ {Own(r)}]
      BY <1>2, <2>2
    <3>. QED BY <2>1, <2>2, <3>1
  <2>3. CASE ~(tagged /\ r \in own[g])
    <3>1. shown' = [shown EXCEPT ![g] = {h \in shown[g] : ~(object /\ h \in created[g] /\ h[1] = r)}]
      BY <1>2, <2>3
    <3>. QED BY <2>1, <2>3, <3>1
  <2>. QED BY <2>2, <2>3
<1>6. \A k \in Guests : Queued(k)' = Queued(k)
  BY <1>3 DEF TasksStay
<1>7. /\ KnownHost' /\ drops' = drops /\ WaitsStay
      /\ (\A k \in Guests \ {g} : GuestInv(k)')
      /\ (\A k \in Guests : Unanswered(k)' = Unanswered(k) /\ DropsOnce(k)') /\ Waits' = Waits
      /\ Ans(g)' \subseteq Ans(g) /\ Heard(g)' \subseteq Heard(g)
      /\ UNCHANGED <<deleted, log, out, forgotten>>
  BY <1>4, <1>6, ReadsLeave
<1>8. /\ r \notin Waits /\ r \notin Unanswered(g) /\ Grants(g)' = Grants(g) \ {r} /\ GrantsOnce(g)'
      /\ (r \notin Common => tagged /\ r \in own[g])
  <2>1. r \notin Waits /\ r \notin Unanswered(g)
    BY <1>1, <1>2, OnlyOnce
  <2>. QED BY <1>1, <1>2, <2>1 DEF GuestInv, GrantsReal
<1>9. GuestInv(g)'
  <2>1. KnownGuest(g)'
    BY <1>1, <1>4, <1>5, <1>6, <1>7 DEF GuestInv, KnownGuest
  <2>2. AsksOwn(g)'
    BY <1>1, <1>4, <1>7, <1>8 DEF GuestInv, AsksOwn
  <2>3. GrantsReal(g)'
    BY <1>1, <1>4, <1>8 DEF GuestInv, GrantsReal
  <2>4. AnswersLate(g)'
    BY <1>1, <1>7, <1>8 DEF GuestInv, AnswersLate
  <2>5. OwnShown(g)'
    <3>1. ASSUME NEW q \in own'[g] PROVE Own(q) \in shown'[g]
      <4>1. Own(q) \in shown[g] /\ \A k \in created[g] : k[1] # q
        BY <1>1, <1>4 DEF GuestInv, OwnShown, OwnUnnamed
      <4>2. Own(q)[1] = q /\ Own(r)[1] = r
        BY Pairs
      <4>3. tagged => q # r
        BY <1>4
      <4>. QED BY <1>5, <4>1, <4>2, <4>3
    <3>. QED BY <3>1 DEF OwnShown
  <2>6. OwnUnnamed(g)'
    BY <1>1, <1>2, <1>4, <1>6 DEF GuestInv, OwnUnnamed
  <2>7. OwnMade(g)'
    BY <1>1, <1>2, <1>4, <1>7 DEF GuestInv, OwnMade
  <2>8. ASSUME NEW h \in shown'[g], h[1] = r PROVE h \in created[g] => ~object /\ h \in created'[g]
    <3>1. h \in created[g] => ~(tagged /\ r \in own[g])
      BY <1>1, <2>8 DEF GuestInv, OwnUnnamed
    <3>. QED BY <1>4, <1>5, <2>8, <3>1
  <2>9. ASSUME NEW h \in shown'[g], h[1] = r, h = Own(r), r \in own[g] PROVE r \in own'[g]
    BY <1>4, <1>5, <2>9
  <2>10. ShownNamed(g)'
    <3>1. ASSUME NEW h \in shown'[g], h[1] \in Common PROVE h \in created'[g] \/ (h = Own(h[1]) /\ h[1] \in own'[g])
      <4>1. h \in created[g] \/ (h = Own(h[1]) /\ h[1] \in own[g])
        BY <1>1, <1>5, <3>1 DEF GuestInv, ShownNamed
      <4>. QED BY <1>4, <2>8, <2>9, <4>1
    <3>2. \A h \in shown'[g] : h[1] \notin Common => h = Own(h[1])
      BY <1>1, <1>5 DEF GuestInv, ShownNamed
    <3>. QED BY <3>1, <3>2 DEF ShownNamed
  <2>11. ForgotOwn(g)'
    <3>1. ASSUME NEW h \in shown'[g], h[1] \in forgotten, h[1] \notin Common PROVE h[1] \in own'[g]
      <4>1. h = Own(h[1]) /\ h[1] \in own[g]
        BY <1>1, <1>5, <3>1 DEF GuestInv, ShownNamed, ForgotOwn
      <4>. QED BY <1>4, <2>9, <4>1
    <3>. QED BY <1>7, <3>1 DEF ForgotOwn
  <2>. QED BY <2>1, <2>2, <2>3, <2>4, <2>5, <2>6, <2>7, <2>10, <2>11, Zenon DEF GuestInv
<1>10. WaitsOwned'
  <2>1. \A d \in Waiters : d.player \in Guests /\ d.ref \in Waits
    BY <1>1, WaitersAre, WaitsAre DEF AllTypes, RuleTypes
  <2>2. \A d \in Waiters : d.ref \in own[d.player] => d.ref \in own'[d.player]
    BY <1>4, <1>8, <2>1
  <2>. QED BY <1>1, <1>7, <2>2, WaitsOwnedStays
<1>11. Apart'
  BY <1>1, <1>4, <1>5, ApartLess
<1>. QED BY <1>7, <1>9, <1>10, <1>11 DEF Ownership

\* The rows a game was told of wait for its main loop.
LEMMA ChangesKeeps ==
    ASSUME ItemsInv, NEW g \in Guests, GuestReads(g), Head(down[g]).type = "changes"
    PROVE  Ownership'
<1>1. AllTypes /\ Ownership /\ KnownHost /\ WaitsOwned /\ Apart /\ GuestInv(g)
  BY DEF ItemsInv, Ownership
<1>2. /\ Ans(g)' = Ans(g) /\ HeardEarly(g)' \subseteq HeardEarly(g)
      /\ (GrantsOnce(g) => GrantsOnce(g)' /\ Grants(g)' = Grants(g))
      /\ (\A k \in Guests \ {g} : Queued(k)' = Queued(k))
      /\ Queued(g)' \subseteq Queued(g) \cup (HeardEarly(g) \cap Heard(g))
      /\ shown' = shown /\ own' = own /\ created' = created
  BY <1>1, ChangesDoes, Zenon
<1>3. /\ KnownHost' /\ drops' = drops /\ WaitsStay
      /\ (\A k \in Guests \ {g} : GuestInv(k)')
      /\ (\A k \in Guests : Unanswered(k)' = Unanswered(k) /\ DropsOnce(k)') /\ Waits' = Waits
      /\ Ans(g)' \subseteq Ans(g) /\ Heard(g)' \subseteq Heard(g)
      /\ UNCHANGED <<deleted, log, out, forgotten>>
  BY <1>2, ReadsLeave
<1>4. Grants(g)' = Grants(g) /\ GrantsOnce(g)'
  BY <1>1, <1>2 DEF GuestInv, GrantsReal
<1>5. GuestInv(g)'
  <2>1. KnownGuest(g)'
    BY <1>1, <1>2, <1>3 DEF GuestInv, KnownGuest
  <2>2. AsksOwn(g)' /\ GrantsReal(g)'
    BY <1>1, <1>2, <1>3, <1>4 DEF GuestInv, AsksOwn, GrantsReal
  <2>3. AnswersLate(g)'
    BY <1>1, <1>2, <1>3, <1>4 DEF GuestInv, AnswersLate
  <2>4. OwnUnnamed(g)'
    BY <1>1, <1>2 DEF GuestInv, OwnUnnamed
  <2>5. OwnShown(g)' /\ OwnMade(g)'
    BY <1>1, <1>2, <1>3 DEF GuestInv, OwnShown, OwnMade
  <2>6. ShownNamed(g)' /\ ForgotOwn(g)'
    BY <1>1, <1>2, <1>3 DEF GuestInv, ShownNamed, ForgotOwn
  <2>. QED BY <2>1, <2>2, <2>3, <2>4, <2>5, <2>6, Zenon DEF GuestInv
<1>6. WaitsOwned'
  BY <1>1, <1>2, <1>3, WaitsOwnedStays
<1>7. Apart'
  BY <1>1, <1>2, ApartStays
<1>. QED BY <1>3, <1>5, <1>6, <1>7 DEF Ownership

\* GuestTask: what it makes is the host's, and what it deletes was named so.
LEMMA GuestTaskKeeps ==
    ASSUME ItemsInv, NEW g \in Guests, GuestTask(g)
    PROVE  Ownership'
<1>1. AllTypes /\ Ownership /\ KnownHost /\ WaitsOwned /\ Apart /\ \A k \in Guests : GuestInv(k)
  BY DEF ItemsInv, Ownership
<1>2. PICK gone \in SUBSET (created[g] \cap shown[g]), N \in SUBSET Common :
                 /\ gone = {h \in created[g] \cap shown[g] : h[1] \in Head(tasks[g]).gone} /\ N \subseteq Head(tasks[g]).new
                 /\ \A r \in Head(tasks[g]).new : r \in N \/ \E h \in (created[g] \cap shown[g]) \ gone : h[1] = r
                 /\ N \subseteq Queued(g) /\ \A r \in N, h \in (created[g] \cap shown[g]) \ gone : h[1] # r
                 /\ shown' = [shown EXCEPT ![g] = (@ \ gone) \cup {Twin(r) : r \in N}]
                 /\ created' = [created EXCEPT ![g] = Naming(@, {Twin(r) : r \in N})]
  BY <1>1, GuestTaskDoes, Zenon
<1>3. /\ UpStays /\ DownStays /\ WaitsStay
      /\ (\A k \in Guests \ {g} : Queued(k)' = Queued(k)) /\ Queued(g)' \subseteq Queued(g)
      /\ UNCHANGED <<here, inv, drops, world, deleted, log, out, forgotten, own, start>>
  BY <1>1, GuestTaskDoes, Zenon
<1>4. /\ \A k \in Guests \ {g} : shown'[k] = shown[k] /\ created'[k] = created[k]
      /\ shown'[g] = (shown[g] \ gone) \cup {Twin(r) : r \in N}
      /\ created'[g] = Naming(created[g], {Twin(r) : r \in N})
  BY <1>1, <1>2 DEF AllTypes, GameTypes
<1>5. \A k \in Guests : Unanswered(k)' = Unanswered(k) /\ DropsOnce(k)' /\ Grown(k, {}, {}, {})
  BY <1>1, <1>3, Zenon DEF UpStays, DownStays, GuestInv, AsksOwn
<1>6. Waits' = Waits
  BY <1>3, StaysAre
<1>7. KnownHost' /\ WaitsOwned'
  <2>1. KnownHost'
    BY <1>1, <1>3 DEF KnownHost
  <2>. QED BY <1>1, <1>3, <2>1, WaitsOwnedStays
<1>8. ASSUME NEW k \in Guests \ {g} PROVE GuestInv(k)'
  <2>1. \A l \in Guests, q \in Ans(k) : q \in Unanswered(l)' => q \in Unanswered(l)
    BY <1>5
  <2>2. drops' \in {drops, drops + 1} /\ own'[k] = own[k] /\ created'[k] = created[k] /\ shown'[k] = shown[k] /\ Waits' \subseteq Waits
    BY <1>3, <1>4, <1>6
  <2>3. Queued(k)' = Queued(k) /\ Grown(k, {}, {}, {})
    BY <1>3, <1>5
  <2>. QED BY <1>1, <1>3, <1>5, <2>1, <2>2, <2>3, OtherKept
<1>9. \A r : Twin(r)[1] = r /\ Own(r)[1] = r
  BY Pairs
<1>10. \A h \in {Twin(r) : r \in N} : h[1] \in N
  BY <1>9
<1>11. (\A k \in created'[g] : k \in created[g] \/ k[1] \in N) /\ {Twin(r) : r \in N} \subseteq created'[g]
       /\ \A k \in created[g] : k[1] \notin N => k \in created'[g]
  BY <1>4, <1>10 DEF Naming
<1>12. GuestInv(g)'
  <2>1. /\ Ans(g)' = Ans(g) /\ Grants(g)' = Grants(g) /\ Heard(g)' \subseteq Heard(g)
        /\ HeardEarly(g)' \subseteq HeardEarly(g) /\ (GrantsOnce(g) => GrantsOnce(g)')
    <3>1. Grown(g, {}, {}, {})
      BY <1>5
    <3>2. /\ Ans(g)' = Ans(g) \cup {} /\ Grants(g)' = Grants(g) \cup {} /\ Heard(g)' \subseteq Heard(g) \cup {}
          /\ HeardEarly(g)' \subseteq HeardEarly(g) \cup ({} \ Ans(g)) /\ (GrantsOnce(g) /\ {} \cap Grants(g) = {} => GrantsOnce(g)')
      BY <3>1, GrownFacts
    <3>. QED BY <3>2
  <2>2. \A r \in N : r[2] \in 1 .. drops /\ r \notin own[g] /\ r \in Common
    BY <1>1, <1>2 DEF GuestInv, KnownGuest, OwnUnnamed
  <2>3. KnownGuest(g)'
    <3>1. \A q \in own'[g] \cup Ans(g)' \cup Heard(g)' \cup Queued(g)' : q[2] \in 1 .. drops'
      BY <1>1, <1>3, <2>1 DEF GuestInv, KnownGuest
    <3>2. \A h \in shown'[g] \cup created'[g] : h \in shown[g] \cup created[g] \/ h[1] \in N
      BY <1>4, <1>10, <1>11
    <3>3. \A h \in shown'[g] \cup created'[g] : h[1][2] \in 1 .. drops'
      BY <1>1, <1>3, <2>2, <3>2 DEF GuestInv, KnownGuest
    <3>. QED BY <3>1, <3>3, Zenon DEF KnownGuest
  <2>4. AsksOwn(g)' /\ GrantsReal(g)'
    BY <1>1, <1>3, <1>5, <2>1 DEF GuestInv, AsksOwn, GrantsReal
  <2>5. AnswersLate(g)'
    BY <1>1, <1>3, <1>5, <1>6, <2>1 DEF GuestInv, AnswersLate
  <2>6. OwnShown(g)'
    <3>1. ASSUME NEW q \in own[g] PROVE Own(q) \in shown[g] /\ Own(q) \notin gone
      <4>1. Own(q) \in shown[g] /\ \A k \in created[g] : k[1] # q
        BY <1>1 DEF GuestInv, OwnShown, OwnUnnamed
      <4>. QED BY <1>2, <1>9, <4>1
    <3>. QED BY <1>3, <1>4, <3>1 DEF OwnShown
  <2>7. OwnUnnamed(g)'
    BY <1>1, <1>3, <1>11, <2>1, <2>2 DEF GuestInv, OwnUnnamed
  <2>8. OwnMade(g)'
    BY <1>1, <1>3, <2>1 DEF GuestInv, OwnMade
  <2>9. ShownNamed(g)'
    <3>1. ASSUME NEW h \in shown'[g]
          PROVE  /\ h[1] \in Common => h \in created'[g] \/ (h = Own(h[1]) /\ h[1] \in own'[g])
                 /\ h[1] \notin Common => h = Own(h[1])
      <4>1. CASE h \in {Twin(r) : r \in N}
        BY <1>10, <1>11, <2>2, <4>1
      <4>2. CASE h \in shown[g] \ gone
        <5>1. /\ h[1] \in Common => h \in created[g] \/ (h = Own(h[1]) /\ h[1] \in own[g])
              /\ h[1] \notin Common => h = Own(h[1])
          BY <1>1, <4>2 DEF GuestInv, ShownNamed
        <5>2. h \in created[g] => h[1] \notin N
          BY <1>2, <4>2
        <5>. QED BY <1>3, <1>11, <5>1, <5>2
      <4>. QED BY <1>4, <4>1, <4>2
    <3>. QED BY <3>1 DEF ShownNamed
  <2>10. ForgotOwn(g)'
    <3>1. \A h \in shown'[g] : h \in shown[g] \/ h[1] \in Common
      BY <1>4, <1>10, <2>2
    <3>. QED BY <1>1, <1>3, <3>1 DEF GuestInv, ForgotOwn
  <2>. QED BY <2>3, <2>4, <2>5, <2>6, <2>7, <2>8, <2>9, <2>10, Zenon DEF GuestInv
<1>13. Apart'
  <2>1. \A k \in Guests : \A h \in shown'[k] : h \in shown[k] \/ h[1] \in Common
    BY <1>4, <1>10, <1>2
  <2>2. \A k \in Guests : own'[k] \subseteq own[k]
    BY <1>3
  <2>. QED BY <1>1, <2>1, <2>2, ApartLess
<1>. QED BY <1>7, <1>8, <1>12, <1>13 DEF Ownership

\* Leave: the guest has nothing; nor does the rule keep what waited for it.
LEMMA LeaveKeeps ==
    ASSUME ItemsInv, NEW g \in Guests, Leave(g)
    PROVE  Ownership'
<1>1. AllTypes /\ Ownership /\ KnownHost /\ WaitsOwned /\ Apart /\ \A k \in Guests : GuestInv(k)
  BY DEF ItemsInv, Ownership
<1>2. /\ (\A k \in Guests \ {g} : /\ Unanswered(k)' = Unanswered(k) /\ (DropsOnce(k) => DropsOnce(k)')
                                  /\ Grown(k, {}, {}, {}) /\ Queued(k)' = Queued(k))
      /\ Unanswered(g)' = {} /\ DropsOnce(g)' /\ Queued(g)' = {}
      /\ Ans(g)' = {} /\ Grants(g)' = {} /\ GrantsOnce(g)' /\ Heard(g)' = {} /\ HeardEarly(g)' = {}
      /\ Waiters' = {d \in Waiters : d.player # g} /\ (WaitsOnce => WaitsOnce')
      /\ shown' = [shown EXCEPT ![g] = {}] /\ own' = [own EXCEPT ![g] = {}] /\ created' = [created EXCEPT ![g] = {}]
      /\ UNCHANGED <<drops, world, deleted, log, out, forgotten, start>>
  BY <1>1, LeaveDoes, Zenon
<1>3. /\ \A k \in Guests \ {g} : shown'[k] = shown[k] /\ own'[k] = own[k] /\ created'[k] = created[k]
      /\ shown'[g] = {} /\ own'[g] = {} /\ created'[g] = {}
  BY <1>1, <1>2 DEF AllTypes, GameTypes
<1>4. KnownHost'
  BY <1>1, <1>2 DEF KnownHost
<1>5. Waits' \subseteq Waits
  BY <1>2, WaitsAre
<1>6. WaitsOwned'
  <2>1. \A d \in Waiters : d.player \in Guests
    BY <1>1, WaitersAre DEF AllTypes, RuleTypes
  <2>. QED BY <1>1, <1>2, <1>3, <2>1 DEF WaitsOwned
<1>7. ASSUME NEW k \in Guests \ {g} PROVE GuestInv(k)'
  <2>1. Grown(k, {}, {}, {}) /\ Unanswered(k)' = Unanswered(k) /\ DropsOnce(k)' /\ Queued(k)' = Queued(k)
    BY <1>1, <1>2 DEF GuestInv, AsksOwn
  <2>2. \A l \in Guests, q \in Ans(k) : q \in Unanswered(l)' => q \in Unanswered(l)
    BY <1>2
  <2>3. drops' \in {drops, drops + 1} /\ UNCHANGED <<deleted, log, out, forgotten>>
    BY <1>2
  <2>. QED BY <1>1, <1>3, <1>5, <2>1, <2>2, <2>3, OtherKept
<1>8. GuestInv(g)'
  <2>1. KnownGuest(g)'
    BY <1>2, <1>3, Zenon DEF KnownGuest
  <2>2. AsksOwn(g)' /\ GrantsReal(g)' /\ AnswersLate(g)'
    BY <1>2, <1>3 DEF AsksOwn, GrantsReal, AnswersLate
  <2>3. OwnShown(g)' /\ OwnUnnamed(g)' /\ OwnMade(g)'
    BY <1>3 DEF OwnShown, OwnUnnamed, OwnMade
  <2>4. ShownNamed(g)' /\ ForgotOwn(g)'
    BY <1>3 DEF ShownNamed, ForgotOwn
  <2>. QED BY <2>1, <2>2, <2>3, <2>4, Zenon DEF GuestInv
<1>9. Apart'
  BY <1>1, <1>3, ApartLess
<1>. QED BY <1>4, <1>6, <1>7, <1>8, <1>9 DEF Ownership

-----------------------------------------------------------------------------
\* The invariant: it is so at first, and stays so.

\* At first every item is with the player that holds it.
LEMMA InitItems == Init => ItemsInv
<1>1. HAVE Init
<1>2. AllTypes
  BY <1>1, InitTypes
<1>3. /\ drops = 0 /\ world = {} /\ deleted = {} /\ log = {} /\ out = {} /\ pending = <<>> /\ forgotten = {}
      /\ \A g \in Guests : shown[g] = {} /\ own[g] = {} /\ created[g] = {} /\ tasks[g] = <<>> /\ up[g] = <<>> /\ down[g] = <<>>
  BY <1>1 DEF Init
<1>4. \A g \in Guests : /\ Unanswered(g) = {} /\ Grants(g) = {} /\ Ans(g) = {} /\ Heard(g) = {} /\ HeardEarly(g) = {}
                        /\ Queued(g) = {} /\ DropsOnce(g) /\ GrantsOnce(g)
  <2>1. \A type : Refs(<<>>, type) = {} /\ Once(<<>>, type)
    BY DEF Refs, Once, ToSet
  <2>2. News(<<>>) = {} /\ Early(<<>>) = {}
    BY DEF News, Early
  <2>3. UNION {t.new : t \in ToSet(<<>>)} = {}
    BY DEF ToSet
  <2>4. ASSUME NEW g \in Guests PROVE Unanswered(g) = Refs(up[g], "drop") /\ Grants(g) = Refs(down[g], "pickup")
    BY Zenon DEF Unanswered, Grants, Refs
  <2>. QED BY <1>3, <2>1, <2>2, <2>3, <2>4, Zenon DEF Ans, Heard, HeardEarly, Queued, DropsOnce, GrantsOnce
<1>5. Waiters = {} /\ Waits = {} /\ WaitsOnce
  BY <1>3, WaitsAre DEF Waiters, Sent, WaitsOnce
<1>6. KnownHost
  BY <1>3 DEF KnownHost
<1>7. WaitsOwned
  BY <1>5 DEF WaitsOwned
<1>8. ASSUME NEW g \in Guests PROVE GuestInv(g)
  <2>1. KnownGuest(g) /\ AsksOwn(g) /\ GrantsReal(g)
    BY <1>3, <1>4 DEF KnownGuest, AsksOwn, GrantsReal
  <2>2. AnswersLate(g) /\ OwnShown(g) /\ OwnUnnamed(g) /\ OwnMade(g)
    BY <1>3, <1>4 DEF AnswersLate, OwnShown, OwnUnnamed, OwnMade
  <2>3. ShownNamed(g) /\ ForgotOwn(g)
    BY <1>3 DEF ShownNamed, ForgotOwn
  <2>. QED BY <2>1, <2>2, <2>3, Zenon DEF GuestInv
<1>9. Apart
  BY <1>3 DEF Apart
<1>10. ASSUME NEW i \in Items PROVE OneAt(i)
  <2>1. inv = [p \in Players |-> {j \in DOMAIN start : start[j] = p}] /\ start \in Starts
    BY <1>1, Zenon DEF Init
  <2>2. \A p \in Players : i \in inv[p] <=> i \in DOMAIN start /\ start[i] = p
    BY <2>1
  <2>3. \A r \in References : ~Dropping(r) /\ r \notin Alive
    BY <1>3, <1>4 DEF Dropping, Alone, Alive
  <2>4. \A z : IsAt(i, z) => z = AtHand(start[i])
    BY <1>4, <1>5, <2>2, <2>3 DEF IsAt
  <2>5. \A x, y \in Places(i) : x = y
    BY <1>2, <2>4, InPlacesNow
  <2>6. i \in DOMAIN start => Places(i) # {}
    <3>1. HAVE i \in DOMAIN start
    <3>2. start[i] \in Players
      BY <2>1, <3>1, ItemsAssumption DEF Players
    <3>3. IsAt(i, AtHand(start[i]))
      BY <2>2, <3>1, <3>2 DEF IsAt
    <3>. QED BY <1>2, <3>3, InPlacesNow
  <2>. QED BY <2>5, <2>6 DEF OneAt, MayBeLost
<1>. QED BY <1>2, <1>6, <1>7, <1>8, <1>9, <1>10, Zenon DEF ItemsInv, Ownership

\* What the items' places tell apart: whose an item is, and that it is the party's.
Held(p, x) == x = AtHand(p) \/ \E r : x = AtGrant(p, r)
Free(x) == \E r : x = AtDrop(r) \/ x = AtWait(r) \/ x = AtWorld(r)

Still(i) == Same(i) \/ \E x, y : Moves(i, x, y) /\ ((Free(x) /\ Free(y)) \/ \E p : Held(p, x) /\ Held(p, y))
Drops(i, p) == \E x, y : Moves(i, x, y) /\ Held(p, x) /\ Free(y)
Takes(i, p) == \E x, y : Moves(i, x, y) /\ Free(x) /\ Held(p, y)
Loses(i, p) == Places(i)' = {} /\ \A z \in Places(i) : Held(p, z) \/ Free(z)

\* A step moves one item, forgets one, or takes a leaver's with it.
OneMoves ==
    \/ \A j \in Items : Still(j)
    \/ \E i \in Items, p \in Players : (Drops(i, p) \/ Takes(i, p)) /\ \A j \in Items \ {i} : Still(j)
    \/ \E f : \A j \in Items : Still(j) \/ Forgets(j, f)
    \/ \E p \in Leavers \ here' : \A j \in Items : Still(j) \/ Loses(j, p)

\* A move of an item, by what its places are.
LEMMA Kinds ==
    /\ \A p : Held(p, AtHand(p))
    /\ \A g, r : Held(g, AtGrant(g, r))
    /\ \A r : Free(AtDrop(r)) /\ Free(AtWait(r)) /\ Free(AtWorld(r))
BY Zenon DEF Held, Free

\* The host's steps.
LEMMA HostMoves ==
    ASSUME ItemsInv, NEW g \in Guests, HostReads(g)
    PROVE  OneMoves
<1>1. /\ AllTypes /\ (\A j \in Items : OneAt(j)) /\ WaitsOwned /\ (\A k \in Guests : GuestInv(k)) /\ Apart
      /\ g \in Players /\ Host \in Players
  BY DEF ItemsInv, Ownership, Players
<1>2. CASE Head(up[g]).type = "drop" /\ loaded
  <2>1. \A j \in Items : Same(j) \/ \E r \in References : Moves(j, AtDrop(r), AtWorld(r))
    BY <1>1, <1>2, DropMadeMoves, Zenon
  <2>2. \A j \in Items : Still(j)
    BY <2>1, Kinds, Zenon DEF Still
  <2>. QED BY <2>2, Zenon DEF OneMoves
<1>3. CASE Head(up[g]).type = "drop" /\ ~loaded
  <2>1. PICK f : \A j \in Items : Same(j) \/ Forgets(j, f) \/ \E r \in References : Moves(j, AtDrop(r), AtWait(r))
    BY <1>1, <1>3, DropWaitsMoves, Zenon
  <2>2. \A j \in Items : Still(j) \/ Forgets(j, f)
    BY <2>1, Kinds, Zenon DEF Still
  <2>. QED BY <2>2, Zenon DEF OneMoves
<1>4. CASE Head(up[g]).type = "take" /\ GivesBack(g, Head(up[g]))
  <2>1. PICK r \in References : Moves(Of(r), AtWait(r), AtGrant(g, r)) /\ \A j \in Items \ {Of(r)} : Same(j)
    BY <1>1, <1>4, GivesBackMoves, Zenon
  <2>2. Of(r) \in Items
    BY Pairs
  <2>3. Takes(Of(r), g) /\ \A j \in Items \ {Of(r)} : Still(j)
    BY <2>1, Kinds, Zenon DEF Still, Takes
  <2>. QED BY <1>1, <2>2, <2>3, Zenon DEF OneMoves
<1>5. CASE Head(up[g]).type = "take" /\ TakesItem(g, Head(up[g]))
  <2>1. CASE \A j \in Items : Same(j)
    BY <2>1, Zenon DEF OneMoves, Still
  <2>2. ASSUME NEW r \in References, Moves(Of(r), AtWorld(r), AtHand(Host)) \/ Moves(Of(r), AtWorld(r), AtGrant(g, r)),
               \A j \in Items \ {Of(r)} : Same(j)
        PROVE  OneMoves
    <3>1. Of(r) \in Items
      BY Pairs
    <3>2. (Takes(Of(r), Host) \/ Takes(Of(r), g)) /\ \A j \in Items \ {Of(r)} : Still(j)
      BY <2>2, Kinds, Zenon DEF Still, Takes
    <3>. QED BY <1>1, <3>1, <3>2, Zenon DEF OneMoves
  <2>3. \/ \A j \in Items : Same(j)
        \/ \E r \in References : /\ Moves(Of(r), AtWorld(r), AtHand(Host)) \/ Moves(Of(r), AtWorld(r), AtGrant(g, r))
                                 /\ \A j \in Items \ {Of(r)} : Same(j)
    BY <1>1, <1>5, TakesItemMoves, Zenon
  <2>. QED BY <2>1, <2>2, <2>3, Zenon
<1>6. CASE Head(up[g]).type = "cell"
  <2>1. \A j \in Items : Same(j)
    BY <1>1, <1>6, CellAskedMoves, Zenon
  <2>. QED BY <2>1, Zenon DEF OneMoves, Still
<1>. QED BY <1>1, <1>2, <1>3, <1>4, <1>5, <1>6, ReadsCases, Zenon

\* Leave: nobody else's item goes with the guest.
LEMMA LeaveLoses ==
    ASSUME ItemsInv, NEW g \in Guests, Leave(g)
    PROVE  OneMoves
<1>1. /\ AllTypes /\ (\A j \in Items : OneAt(j)) /\ WaitsOwned /\ (\A k \in Guests : GuestInv(k)) /\ Apart
  BY DEF ItemsInv, Ownership
<1>2. /\ g \in Leavers \ here'
      /\ \A j \in Items : Same(j) \/ (Places(j)' = {} /\ \A z \in Places(j) : z # AtHand(g) => z[1] # "with"
                                                       /\ \A k \in Guests \ {g}, r \in References : z # AtGrant(k, r))
  BY <1>1, LeaveMoves, Zenon
<1>3. ASSUME NEW j \in Items, ~Same(j) PROVE Loses(j, g)
  <2>1. ASSUME NEW z \in Places(j) PROVE Held(g, z) \/ Free(z)
    <3>1. IsAt(j, z)
      BY <1>1, InPlacesNow
    <3>2. z # AtHand(g) => z[1] # "with" /\ \A k \in Guests \ {g}, r \in References : z # AtGrant(k, r)
      BY <1>2, <1>3
    <3>3. ASSUME NEW p \in Players, z = AtHand(p) PROVE z = AtHand(g)
      BY <3>2, <3>3, Spots
    <3>4. ASSUME NEW k \in Guests, NEW r \in References, z = AtGrant(k, r) PROVE Held(g, z)
      BY <3>2, <3>4, Zenon DEF Held
    <3>. QED BY <3>1, <3>3, <3>4, Zenon DEF IsAt, Held, Free
  <2>. QED BY <1>2, <1>3, <2>1 DEF Loses
<1>. QED BY <1>2, <1>3, Zenon DEF OneMoves, Still

\* Every step moves one item at most.
LEMMA StepMoves ==
    ASSUME ItemsInv, [Next]_vars
    PROVE  OneMoves
<1>1. /\ AllTypes /\ (\A j \in Items : OneAt(j)) /\ KnownHost /\ WaitsOwned /\ (\A k \in Guests : GuestInv(k)) /\ Apart
      /\ Host \in Players /\ (\A g \in Guests : g \in Players) /\ \A r \in References : Of(r) \in Items
  BY Pairs DEF ItemsInv, Ownership, Players
<1>2. ASSUME NEW i \in Items, HostDrops(i) PROVE OneMoves
  <2>1. (\E r \in References : Moves(i, AtHand(Host), AtWorld(r))) /\ \A j \in Items \ {i} : Same(j)
    BY <1>1, <1>2, HostDropsMoves, Zenon
  <2>2. Drops(i, Host) /\ \A j \in Items \ {i} : Still(j)
    BY <2>1, Kinds, Zenon DEF Still, Drops
  <2>. QED BY <1>1, <2>2, Zenon DEF OneMoves
<1>3. ASSUME NEW i \in Items, NEW g \in Guests, GuestDrops(g, i) PROVE OneMoves
  <2>1. (\E r \in References : Moves(i, AtHand(g), AtDrop(r))) /\ \A j \in Items \ {i} : Same(j)
    BY <1>1, <1>3, GuestDropsMoves, Zenon
  <2>2. Drops(i, g) /\ \A j \in Items \ {i} : Still(j)
    BY <2>1, Kinds, Zenon DEF Still, Drops
  <2>. QED BY <1>1, <2>2, Zenon DEF OneMoves
<1>4. ASSUME NEW r \in References, HostPicksUp(r) PROVE OneMoves
  <2>1. Moves(Of(r), AtWorld(r), AtHand(Host)) /\ \A j \in Items \ {Of(r)} : Same(j)
    BY <1>1, <1>4, HostPicksUpMoves, Zenon
  <2>2. Takes(Of(r), Host) /\ \A j \in Items \ {Of(r)} : Still(j)
    BY <2>1, Kinds, Zenon DEF Still, Takes
  <2>. QED BY <1>1, <2>2, Zenon DEF OneMoves
<1>5. ASSUME \/ CellLoads
             \/ \E g \in Guests : Join(g) \/ \E h \in shown[g] : GuestAsks(g, h)
      PROVE OneMoves
  <2>1. \A j \in Items : Same(j)
    BY <1>1, <1>5, QuietMoves, Zenon
  <2>. QED BY <2>1, Zenon DEF OneMoves, Still
<1>6. CASE HostUpdate
  <2>1. \A j \in Items : Same(j) \/ \E r \in References : Moves(j, AtWait(r), AtWorld(r)) \/ Moves(j, AtWait(r), AtDrop(r))
    BY <1>1, <1>6, UpdateMoves, Zenon
  <2>2. \A j \in Items : Still(j)
    BY <2>1, Kinds, Zenon DEF Still
  <2>. QED BY <2>2, Zenon DEF OneMoves
<1>7. ASSUME NEW g \in Guests, GuestReads(g) PROVE OneMoves
  <2>1. CASE Head(down[g]).type = "pickup"
    <3>1. PICK r \in References : Moves(Of(r), AtGrant(g, r), AtHand(g)) /\ \A j \in Items \ {Of(r)} : Same(j)
      BY <1>1, <1>7, <2>1, GrantedMoves, Zenon
    <3>2. Held(g, AtGrant(g, r)) /\ Held(g, AtHand(g))
      BY Kinds, Zenon
    <3>3. Still(Of(r))
      BY <3>1, <3>2, Zenon DEF Still
    <3>4. \A j \in Items \ {Of(r)} : Still(j)
      BY <3>1, Zenon DEF Still
    <3>5. \A j \in Items : Still(j)
      BY <3>3, <3>4
    <3>. QED BY <3>5, Zenon DEF OneMoves
  <2>2. CASE Head(down[g]).type # "pickup"
    <3>1. \A j \in Items : Same(j)
      BY <1>1, <1>7, <2>2, ToldMoves, Zenon
    <3>. QED BY <3>1, Zenon DEF OneMoves, Still
  <2>. QED BY <2>1, <2>2
<1>8. ASSUME NEW g \in Guests, GuestTask(g) PROVE OneMoves
  <2>1. \A j \in Items : Same(j)
    BY <1>1, <1>8, GuestTaskMoves, Zenon
  <2>. QED BY <2>1, Zenon DEF OneMoves, Still
<1>9. ASSUME NEW g \in Guests, NEW h \in shown[g], GuestPicksUp(g, h) PROVE OneMoves
  <2>1. PICK r \in References : Moves(Of(r), AtDrop(r), AtHand(g)) /\ \A j \in Items \ {Of(r)} : Same(j)
    BY <1>1, <1>9, GuestPicksUpMoves, Zenon
  <2>2. Takes(Of(r), g) /\ \A j \in Items \ {Of(r)} : Still(j)
    BY <2>1, Kinds, Zenon DEF Still, Takes
  <2>. QED BY <1>1, <2>2, Zenon DEF OneMoves
<1>10. CASE UNCHANGED vars
  <2>1. UNCHANGED <<inv, world, deleted, pending, forgotten, up, down, shown>>
    BY <1>10, Zenon DEF vars, host, rule, game, history
  <2>2. \A g \in Guests : Unanswered(g)' = Unanswered(g) /\ Grants(g)' = Grants(g) /\ Alone(g)' = Alone(g)
    BY <2>1, Zenon DEF Unanswered, Grants, Alone, Waits
  <2>3. Waits' = Waits /\ Alive' = Alive
    BY <2>1, Zenon DEF Waits, Alive
  <2>4. \A r \in References : Dropping(r)' <=> Dropping(r)
    BY <2>2, Zenon DEF Dropping
  <2>5. AllTypes'
    BY <1>1, <1>10, StepTypes
  <2>6. \A j \in Items : Same(j)
    BY <1>1, <2>1, <2>2, <2>3, <2>4, <2>5, ItKeepsPlaces
  <2>. QED BY <2>6, Zenon DEF OneMoves, Still
<1>11. CASE Next
  BY <1>2, <1>3, <1>4, <1>5, <1>6, <1>7, <1>8, <1>9, <1>11, HostMoves, LeaveLoses, Zenon DEF Next
<1>. QED BY <1>10, <1>11

\* What may lose an item may go on to.
LEMMA LostStays ==
    ASSUME AllTypes, [Next]_vars, NEW i, MayBeLost(i)
    PROVE  MayBeLost(i)'
<1>. DEFINE Same3 == start' = start /\ forgotten \subseteq forgotten' /\ Leavers \ here \subseteq Leavers \ here'
<1>1. ASSUME NEW j \in Items, HostDrops(j) PROVE Same3
  BY <1>1, Zenon DEF HostDrops, history
<1>2. ASSUME NEW j \in Items, NEW g \in Guests, GuestDrops(g, j) PROVE Same3
  BY <1>2, Zenon DEF GuestDrops, history
<1>3. ASSUME NEW r \in References, HostPicksUp(r) PROVE Same3
  BY <1>3, Zenon DEF HostPicksUp, history
<1>4. ASSUME CellLoads PROVE Same3
  BY <1>4, Zenon DEF CellLoads, history
<1>5. ASSUME HostUpdate PROVE Same3
  BY <1>5, Zenon DEF HostUpdate, history
<1>6. ASSUME NEW g \in Guests, HostReads(g) PROVE Same3
  <2>1. here' = here /\ start' = start
    BY <1>6, HostReadsRest, Zenon
  <2>2. forgotten' = forgotten \/ \E F : forgotten' = forgotten \cup F
    BY <1>6, ReadsCases, DropMadeDoes, DropWaitsDoes, GivesBackDoes, TakesItemDoes, CellAskedDoes, Zenon
  <2>. QED BY <2>1, <2>2
<1>7. ASSUME NEW g \in Guests, GuestReads(g) PROVE Same3
  BY <1>7, Zenon DEF GuestReads, history
<1>8. ASSUME NEW g \in Guests, GuestTask(g) PROVE Same3
  BY <1>8, Zenon DEF GuestTask, history
<1>9. ASSUME NEW g \in Guests, NEW h \in shown[g], GuestAsks(g, h) \/ GuestPicksUp(g, h) PROVE Same3
  BY <1>9, Zenon DEF GuestAsks, GuestPicksUp, history
<1>10. ASSUME NEW g \in Guests, Join(g) PROVE Same3
  <2>1. g \in Late /\ here' = here \cup {g} /\ start' = start /\ forgotten' = forgotten
    BY <1>10, Zenon DEF Join, history
  <2>2. g \notin Leavers
    BY <2>1, PlayersAssumption
  <2>. QED BY <2>1, <2>2
<1>11. ASSUME NEW g \in Guests, Leave(g) PROVE Same3
  <2>1. here' = here \ {g} /\ start' = start /\ forgotten' = forgotten
    BY <1>11, Zenon DEF Leave, history
  <2>. QED BY <2>1
<1>12. ASSUME UNCHANGED vars PROVE Same3
  BY <1>12, Zenon DEF vars, history
<1>13. Same3
  <2>. HIDE DEF Same3
  <2>. QED BY <1>1, <1>2, <1>3, <1>4, <1>5, <1>6, <1>7, <1>8, <1>9, <1>10, <1>11, <1>12, Zenon DEF Next
<1>. QED BY <1>13 DEF MayBeLost

\* Who owns what, whatever happens.
LEMMA StepOwnership == ItemsInv /\ [Next]_vars => Ownership'
<1>1. SUFFICES ASSUME ItemsInv, Next \/ UNCHANGED vars PROVE Ownership'
  OBVIOUS
<1>2. AllTypes /\ Ownership
  BY <1>1 DEF ItemsInv
<1>3. ASSUME NEW g \in Guests, HostReads(g) PROVE Ownership'
  <2>1. CASE Head(up[g]).type = "drop" /\ loaded
    BY <1>1, <1>3, <2>1, DropMadeKeeps, Zenon
  <2>2. CASE Head(up[g]).type = "drop" /\ ~loaded
    BY <1>1, <1>3, <2>2, DropWaitsKeeps, Zenon
  <2>3. CASE Head(up[g]).type = "take" /\ GivesBack(g, Head(up[g]))
    BY <1>1, <1>3, <2>3, GivesBackKeeps, Zenon
  <2>4. CASE Head(up[g]).type = "take" /\ TakesItem(g, Head(up[g]))
    BY <1>1, <1>3, <2>4, TakesItemKeeps, Zenon
  <2>5. CASE Head(up[g]).type = "cell"
    BY <1>1, <1>3, <2>5, CellAskedKeeps, Zenon
  <2>. QED BY <1>2, <1>3, <2>1, <2>2, <2>3, <2>4, <2>5, ReadsCases, Zenon
<1>4. ASSUME NEW g \in Guests, GuestReads(g) PROVE Ownership'
  <2>1. Head(down[g]).type \in {"dropped", "pickup", "changes"}
    BY <1>2, <1>4, ReadsCases, Zenon
  <2>. QED BY <1>1, <1>4, <2>1, AdoptDropKeeps, GrantedKeeps, ChangesKeeps, Zenon
<1>5. CASE UNCHANGED vars
  <2>1. UNCHANGED <<here, drops, world, deleted, log, out, pending, forgotten, up, down, shown, own, created, tasks>>
    BY <1>5, Zenon DEF vars, host, rule, game, history
  <2>2. KnownHost' /\ Apart'
    BY <1>2, <2>1, Zenon DEF Ownership, KnownHost, Apart
  <2>3. WaitsOwned'
    BY <1>2, <2>1, Zenon DEF Ownership, WaitsOwned, WaitsOnce, Waiters
  <2>4. ASSUME NEW g \in Guests PROVE GuestInv(g)'
    <3>1. GuestInv(g)
      BY <1>2 DEF Ownership
    <3>. QED BY <2>1, <3>1, Zenon DEF GuestInv, KnownGuest, AsksOwn, GrantsReal, AnswersLate, OwnShown, OwnUnnamed, OwnMade,
          ShownNamed, ForgotOwn, Ans, Heard, HeardEarly, Queued, DropsOnce, GrantsOnce, Unanswered, Grants, Waits
  <2>. QED BY <2>2, <2>3, <2>4 DEF Ownership
<1>6. ASSUME NEW i \in Items, HostDrops(i) \/ \E g \in Guests : GuestDrops(g, i) PROVE Ownership'
  BY <1>1, <1>6, HostDropsKeeps, GuestDropsKeeps, Zenon
<1>7. ASSUME \/ CellLoads \/ \E r \in References : HostPicksUp(r)
             \/ \E g \in Guests : Join(g) \/ \E h \in shown[g] : GuestAsks(g, h)
      PROVE  Ownership'
  BY <1>1, <1>7, OthersKeep, Zenon
<1>8. ASSUME NEW g \in Guests, GuestTask(g) \/ Leave(g) \/ \E h \in shown[g] : GuestPicksUp(g, h) PROVE Ownership'
  BY <1>1, <1>8, GuestTaskKeeps, LeaveKeeps, GuestPicksUpKeeps, Zenon
<1>9. CASE HostUpdate
  BY <1>1, <1>9, UpdateKeeps, Zenon
<1>10. CASE Next
  BY <1>3, <1>4, <1>6, <1>7, <1>8, <1>9, <1>10, Zenon DEF Next
<1>. QED BY <1>1, <1>5, <1>10

\* Where the items are, whatever happens.
LEMMA StepItems == ItemsInv /\ [Next]_vars => ItemsInv'
<1>1. SUFFICES ASSUME ItemsInv, [Next]_vars PROVE ItemsInv'
  OBVIOUS
<1>2. AllTypes /\ \A j \in Items : OneAt(j)
  BY <1>1 DEF ItemsInv
<1>3. AllTypes' /\ Ownership'
  BY <1>1, <1>2, StepTypes, StepOwnership, Zenon
<1>4. OneMoves
  BY <1>1, StepMoves
<1>5. \A j \in Items : MayBeLost(j) => MayBeLost(j)'
  BY <1>1, <1>2, LostStays, Zenon
<1>6. ASSUME NEW j \in Items, Same(j) PROVE OneAt(j)'
  BY <1>2, <1>5, <1>6 DEF OneAt, Same
<1>7. ASSUME NEW j \in Items, NEW x, NEW y, Moves(j, x, y) PROVE OneAt(j)'
  BY <1>7 DEF OneAt, Moves
<1>8. ASSUME NEW j \in Items, NEW f, Forgets(j, f) PROVE OneAt(j)'
  BY <1>8 DEF OneAt, Forgets, MayBeLost
<1>9. ASSUME NEW j \in Items, NEW p \in Leavers \ here', Loses(j, p) PROVE OneAt(j)'
  BY <1>9 DEF OneAt, Loses, MayBeLost
<1>10. ASSUME NEW j \in Items, Still(j) PROVE OneAt(j)'
  BY <1>6, <1>7, <1>10, Zenon DEF Still
<1>11. ASSUME NEW j \in Items, NEW p, Drops(j, p) \/ Takes(j, p) PROVE OneAt(j)'
  BY <1>7, <1>11, Zenon DEF Drops, Takes
<1>12. ASSUME NEW i \in Items, NEW p \in Players, Drops(i, p) \/ Takes(i, p), \A j \in Items \ {i} : Still(j)
       PROVE  \A j \in Items : OneAt(j)'
  BY <1>10, <1>11, <1>12
<1>13. \A j \in Items : OneAt(j)'
  BY <1>4, <1>8, <1>9, <1>10, <1>12, Zenon DEF OneMoves
<1>. QED BY <1>3, <1>13, Zenon DEF ItemsInv

\* No pickup race, retried ask, waiting drop or late answer duplicates an item or loses it (HostItems::OnDrop, OnPickUp,
\* Make); only a player that left, and a drop forgotten past kMaxPending, may take one with it.
THEOREM ItemsAreOnce == Spec => []OnePlace
<1>1. Init => ItemsInv
  BY InitItems
<1>2. ItemsInv /\ [Next]_vars => ItemsInv'
  BY StepItems
<1>3. ItemsInv => OnePlace
  <2>1. HAVE ItemsInv
  <2>2. ASSUME NEW i \in Items PROVE Cardinality(Places(i)) = 1 \/ (Places(i) = {} /\ MayBeLost(i))
    <3>1. OneAt(i)
      BY <2>1 DEF ItemsInv
    <3>2. CASE Places(i) = {}
      BY <3>1, <3>2 DEF OneAt
    <3>3. ASSUME NEW x \in Places(i) PROVE Cardinality(Places(i)) = 1
      <4>1. Places(i) = {x}
        BY <3>1, <3>3 DEF OneAt
      <4>. QED BY <4>1, FS_Singleton
    <3>. QED BY <3>2, <3>3
  <2>. QED BY <2>2 DEF OnePlace
<1>. QED BY <1>1, <1>2, <1>3, PTL DEF Spec

-----------------------------------------------------------------------------
\* The rule and the games implement PartyItems.

\* Where PartyItems has an item.
LEMMA AtNow ==
    \A i, z : Places(i) = {z} => (\A p : Held(p, z) => At(i) = p) /\ (Free(z) => At(i) = "loose")
<1>1. SUFFICES ASSUME NEW i, NEW z, Places(i) = {z}
      PROVE  (\A p : Held(p, z) => At(i) = p) /\ (Free(z) => At(i) = "loose")
  OBVIOUS
<1>. DEFINE with == {pl \in Places(i) : pl[1] \in {"with", "granted"}}
<1>2. At(i) = IF with # {} THEN (CHOOSE pl \in with : TRUE)[2] ELSE IF Places(i) # {} THEN "loose" ELSE "lost"
  BY Zenon DEF At
<1>3. ASSUME NEW p, Held(p, z) PROVE At(i) = p
  <2>1. z[1] \in {"with", "granted"} /\ z[2] = p
    <3>1. CASE z = AtHand(p)
      BY <3>1 DEF AtHand
    <3>2. ASSUME NEW r, z = AtGrant(p, r) PROVE z[1] \in {"with", "granted"} /\ z[2] = p
      BY <3>2 DEF AtGrant
    <3>. QED BY <1>3, <3>1, <3>2, Zenon DEF Held
  <2>2. with = {z}
    BY <1>1, <2>1
  <2>3. (CHOOSE pl \in with : TRUE) = z
    <3>1. \A pl \in with : pl = z
      BY <2>2
    <3>2. \E pl \in with : TRUE
      BY <2>2
    <3>3. (CHOOSE pl \in with : TRUE) \in with
      <4>. HIDE DEF with
      <4>. QED BY <3>2, Zenon
    <3>. HIDE DEF with
    <3>. QED BY <3>1, <3>3, Zenon
  <2>4. with # {}
    BY <2>2
  <2>. HIDE DEF with
  <2>. QED BY <1>2, <2>1, <2>3, <2>4
<1>4. ASSUME Free(z) PROVE At(i) = "loose"
  <2>1. z[1] \notin {"with", "granted"}
    BY <1>4, Spots DEF Free
  <2>2. with = {} /\ Places(i) # {}
    BY <1>1, <2>1
  <2>. HIDE DEF with
  <2>. QED BY <1>2, <2>2
<1>. QED BY <1>3, <1>4

\* The same after a step.
LEMMA AtNext ==
    (\A i, z : Places(i) = {z} => (\A p : Held(p, z) => At(i) = p) /\ (Free(z) => At(i) = "loose"))'
BY AtNow, PTL

\* What is nowhere is lost.
LEMMA AtNone == \A i : Places(i) = {} => At(i) = "lost"
BY DEF At

\* The same after a step.
LEMMA AtNoneNext == (\A i : Places(i) = {} => At(i) = "lost")'
BY AtNone, PTL

\* How PartyItems sees each.
LEMMA AtMoves ==
    ASSUME NEW i
    PROVE  /\ Still(i) => At(i)' = At(i)
           /\ \A p : Drops(i, p) => At(i) = p /\ At(i)' = "loose"
           /\ \A p : Takes(i, p) => At(i) = "loose" /\ At(i)' = p
           /\ \A f : Forgets(i, f) => At(i) = "loose" /\ At(i)' = "lost"
<1>1. ASSUME NEW x, NEW y, Moves(i, x, y)
      PROVE  /\ \A p : Held(p, x) => At(i) = p
             /\ Free(x) => At(i) = "loose"
             /\ \A p : Held(p, y) => At(i)' = p
             /\ Free(y) => At(i)' = "loose"
  <2>1. Places(i) = {x} /\ Places(i)' = {y}
    BY <1>1 DEF Moves
  <2>2. (\A p : Held(p, x) => At(i) = p) /\ (Free(x) => At(i) = "loose")
    BY <2>1, AtNow
  <2>3. (\A p : Held(p, y) => At(i)' = p) /\ (Free(y) => At(i)' = "loose")
    BY <2>1, AtNext, Zenon DEF Held, Free, AtHand, AtGrant, AtDrop, AtWait, AtWorld
  <2>. QED BY <2>2, <2>3
<1>2. Same(i) => At(i)' = At(i)
  <2>. DEFINE Ours(P) == {pl \in P : pl[1] \in {"with", "granted"}}
              Whose(P) == IF Ours(P) # {} THEN (CHOOSE pl \in Ours(P) : TRUE)[2] ELSE IF P # {} THEN "loose" ELSE "lost"
  <2>1. At(i) = Whose(Places(i))
    BY Zenon DEF At
  <2>2. At(i)' = Whose(Places(i)')
    BY Zenon DEF At
  <2>. HIDE DEF Whose
  <2>. QED BY <2>1, <2>2, Zenon DEF Same
<1>3. Still(i) => At(i)' = At(i)
  BY <1>1, <1>2, Zenon DEF Still
<1>4. \A p : Drops(i, p) => At(i) = p /\ At(i)' = "loose"
  BY <1>1, Zenon DEF Drops
<1>5. \A p : Takes(i, p) => At(i) = "loose" /\ At(i)' = p
  BY <1>1, Zenon DEF Takes
<1>6. ASSUME NEW f, Forgets(i, f) PROVE At(i) = "loose" /\ At(i)' = "lost"
  <2>1. Places(i) = {AtWait(f)} /\ Places(i)' = {}
    BY <1>6 DEF Forgets
  <2>2. Free(AtWait(f))
    BY Kinds
  <2>3. At(i) = "loose"
    BY <2>1, <2>2, AtNow
  <2>. QED BY <2>1, <2>3, AtNoneNext
<1>. QED BY <1>3, <1>4, <1>5, <1>6

\* What a leaver's game loses is its own, or nobody's yet; or it was lost before.
LEMMA AtLoses ==
    ASSUME NEW i, OneAt(i), NEW p, Loses(i, p)
    PROVE  At(i)' = "lost" /\ (At(i) \in {p, "loose"} \/ At(i) = "lost")
<1>1. Places(i)' = {} /\ \A z \in Places(i) : Held(p, z) \/ Free(z)
  BY DEF Loses
<1>2. At(i)' = "lost"
  BY <1>1, AtNoneNext
<1>3. CASE Places(i) = {}
  BY <1>2, <1>3, AtNone
<1>4. ASSUME NEW z \in Places(i) PROVE At(i) \in {p, "loose"}
  <2>1. Places(i) = {z}
    BY <1>4 DEF OneAt
  <2>. QED BY <1>1, <2>1, AtNow
<1>. QED BY <1>2, <1>3, <1>4

\* The items' places are PartyItems' at first.
LEMMA PromiseInit == ItemsInv => Promise!Init
<1>1. SUFFICES ASSUME ItemsInv, NEW i \in Items PROVE At(i) \in Players \cup {"loose", "lost"}
  BY Zenon DEF Promise!Init
<1>2. CASE Places(i) = {}
  BY <1>2, AtNone
<1>3. ASSUME NEW z \in Places(i) PROVE At(i) \in Players \cup {"loose"}
  <2>1. Places(i) = {z} /\ IsAt(i, z)
    BY <1>1, <1>3, InPlacesNow DEF ItemsInv, OneAt
  <2>2. (\E p \in Players : Held(p, z)) \/ Free(z)
    <3>1. Guests \subseteq Players
      BY DEF Players
    <3>. QED BY <2>1, <3>1, Kinds, Zenon DEF IsAt
  <2>. QED BY <2>1, <2>2, AtNow
<1>. QED BY <1>2, <1>3

\* Each step is a step of PartyItems, or none.
LEMMA PromiseNext == ItemsInv /\ [Next]_vars => [Promise!Next]_([i \in Items |-> At(i)])
<1>1. SUFFICES ASSUME ItemsInv, [Next]_vars PROVE Promise!Next \/ [i \in Items |-> At(i)]' = [i \in Items |-> At(i)]
  OBVIOUS
<1>2. OneMoves /\ \A j \in Items : OneAt(j)
  BY <1>1, StepMoves DEF ItemsInv
<1>3. PICK at, atNext : at = [i \in Items |-> At(i)] /\ atNext = [i \in Items |-> At(i)']
  OBVIOUS
<1>4. DOMAIN at = Items /\ at = [i \in Items |-> at[i]] /\ \A i \in Items : at[i] = At(i) /\ atNext[i] = At(i)'
  BY <1>3
<1>5. CASE \A j \in Items : Still(j)
  <2>1. \A j \in Items : At(j)' = At(j)
    BY <1>5, AtMoves
  <2>2. atNext = at
    BY <1>3, <2>1
  <2>. QED BY <1>3, <2>2
<1>6. ASSUME NEW i \in Items, NEW p \in Players, Drops(i, p) \/ Takes(i, p), \A j \in Items \ {i} : Still(j)
      PROVE  Promise!Next
  <2>1. \A j \in Items \ {i} : At(j)' = At(j)
    BY <1>6, AtMoves
  <2>2. CASE Drops(i, p)
    <3>1. At(i) = p /\ At(i)' = "loose"
      BY <2>2, AtMoves
    <3>2. atNext = [at EXCEPT ![i] = "loose"] /\ at[i] = p
      BY <1>3, <1>4, <2>1, <3>1
    <3>3. Promise!Drop(p, i)
      BY <1>3, <3>2 DEF Promise!Drop
    <3>. QED BY <3>3, Zenon DEF Promise!Next
  <2>3. CASE Takes(i, p)
    <3>1. At(i) = "loose" /\ At(i)' = p
      BY <2>3, AtMoves
    <3>2. atNext = [at EXCEPT ![i] = p] /\ at[i] = "loose"
      BY <1>3, <1>4, <2>1, <3>1
    <3>3. Promise!Take(p, i)
      BY <1>3, <3>2 DEF Promise!Take
    <3>. QED BY <3>3, Zenon DEF Promise!Next
  <2>. QED BY <1>6, <2>2, <2>3
<1>7. ASSUME NEW f, \A j \in Items : Still(j) \/ Forgets(j, f), NEW i \in Items, Forgets(i, f)
      PROVE  Promise!Next
  <2>1. \A j \in Items \ {i} : Still(j)
    BY <1>7 DEF Forgets
  <2>2. (\A j \in Items \ {i} : At(j)' = At(j)) /\ At(i) = "loose" /\ At(i)' = "lost"
    BY <1>7, <2>1, AtMoves
  <2>3. atNext = [at EXCEPT ![i] = "lost"] /\ at[i] = "loose"
    BY <1>3, <1>4, <2>2
  <2>4. Promise!Forget(i)
    BY <1>3, <2>3 DEF Promise!Forget
  <2>. QED BY <2>4, Zenon DEF Promise!Next
<1>8. ASSUME NEW p \in Leavers \ here', \A j \in Items : Still(j) \/ Loses(j, p)
      PROVE  Promise!Next
  <2>1. PICK gone : gone = {j \in Items : At(j) \in {p, "loose"} /\ At(j)' = "lost"}
    OBVIOUS
  <2>2. ASSUME NEW j \in Items, j \notin gone PROVE At(j)' = At(j)
    <3>1. CASE Still(j)
      BY <3>1, AtMoves
    <3>2. CASE Loses(j, p)
      BY <1>2, <2>1, <2>2, <3>2, AtLoses
    <3>. QED BY <1>8, <3>1, <3>2
  <2>3. atNext = [j \in Items |-> IF j \in gone THEN "lost" ELSE at[j]]
    BY <1>3, <1>4, <2>1, <2>2
  <2>4. gone \in SUBSET {j \in Items : at[j] \in {p, "loose"}}
    BY <1>4, <2>1
  <2>5. Promise!Leave(p)
    BY <1>3, <2>3, <2>4 DEF Promise!Leave
  <2>6. p \in Players
    BY PlayersAssumption DEF Players
  <2>. QED BY <2>5, <2>6, Zenon DEF Promise!Next
<1>. QED BY <1>2, <1>5, <1>6, <1>7, <1>8, Zenon DEF OneMoves

\* Whoever picks an item up has it and nobody else: a pickup is granted from the world, a drop makes the item the party's,
\* and every other step leaves all items where they are (HostItems, GuestEngine; docs/design/dropped-items.md).
THEOREM ItemsArePromised == Spec => OneTaker
<1>1. Init => ItemsInv
  BY InitItems
<1>2. ItemsInv /\ [Next]_vars => ItemsInv'
  BY StepItems
<1>3. Spec => []ItemsInv
  BY <1>1, <1>2, PTL DEF Spec
<1>. QED BY <1>1, <1>3, PromiseInit, PromiseNext, PTL DEF Spec, OneTaker, Promise!Spec
-----------------------------------------------------------------------------
\* What is under way, for the references a game shows.

\* No element of a channel clashes with a later one, or with itself.
Orderly(s, clash) == \A a, b \in DOMAIN s : a <= b => <<s[a], s[b]>> \notin clash

\* What a notice tells: a drop answered, references created and deleted, the object a grant names, and one granted by its object.
AnswerIn(m) == IF m.type = "dropped" THEN {m.ref} ELSE {}
NewIn(m) == IF m.type = "changes" THEN m.rows.new ELSE {}
GoneIn(m) == IF m.type = "changes" THEN m.rows.gone ELSE {}
ObjectIn(m) == IF m.type = "pickup" /\ m.object THEN {m.ref} ELSE {}
PlainIn(m) == IF m.type = "pickup" /\ ~m.tagged THEN {m.ref} ELSE {}
Bygone(s) == UNION {GoneIn(m) : m \in Sent(s)}
Objects(s) == UNION {ObjectIn(m) : m \in Sent(s)}
Untagged(s) == UNION {PlainIn(m) : m \in Sent(s)}

\* What is deleted is not created by the same rows, or by later ones, in notices and in the main loop's tasks; nor
\* is the answer to its drop to come.
Undone == {mn \in Told \X Told : GoneIn(mn[1]) \cap (NewIn(mn[2]) \cup AnswerIn(mn[2])) # {}}
UndoneTask == {mn \in Applied \X Applied : mn[1].gone \cap mn[2].new # {}}

\* A game was told more: answers, rows that create and delete, and grants.
Adds(s, t, answers, new, gone, objects, plain) ==
    /\ News(t) = News(s) \cup new /\ Bygone(t) = Bygone(s) \cup gone
    /\ Objects(t) = Objects(s) \cup objects /\ Untagged(t) = Untagged(s) \cup plain
    /\ Orderly(s, Undone) /\ (Bygone(s) \cup gone) \cap (new \cup answers) = {} => Orderly(t, Undone)

\* The order of a channel, when an element is put last.
LEMMA OrderlyAppend ==
    ASSUME NEW S, NEW s \in Seq(S), NEW e \in S, NEW clash, Orderly(s, clash), <<e, e>> \notin clash,
           \A d \in Sent(s) : <<d, e>> \notin clash
    PROVE  Orderly(Append(s, e), clash)
<1>1. PICK t, r : t = <<e>> /\ r = Append(s, e)
  OBVIOUS
<1>2. Joined(s, t, r) /\ t[1] = e /\ DOMAIN t = {1}
  BY <1>1, AppendFacts
<1>3. ASSUME NEW i \in DOMAIN r PROVE (i \in DOMAIN s /\ r[i] = s[i]) \/ (r[i] = e /\ \A j \in DOMAIN s : j < i)
  <2>1. CASE i \in DOMAIN s
    BY <1>2, <2>1 DEF Joined
  <2>2. CASE i \notin DOMAIN s
    BY <1>2, <2>2 DEF Joined
  <2>. QED BY <2>1, <2>2
<1>4. ASSUME NEW a \in DOMAIN r, NEW b \in DOMAIN r, a <= b PROVE <<r[a], r[b]>> \notin clash
  <2>0. a \in Nat /\ b \in Nat
    BY <1>2 DEF Joined
  <2>1. CASE b \in DOMAIN s /\ r[b] = s[b]
    <3>1. a \in DOMAIN s /\ r[a] = s[a]
      BY <1>3, <1>4, <2>0, <2>1
    <3>. QED BY <1>4, <2>1, <3>1 DEF Orderly
  <2>2. CASE r[b] = e
    <3>1. r[a] = e \/ r[a] \in Sent(s)
      BY <1>3 DEF Sent
    <3>. QED BY <2>2, <3>1
  <2>. QED BY <1>3, <2>1, <2>2
<1>. QED BY <1>1, <1>4 DEF Orderly

\* When elements are put last that clash with none.
LEMMA OrderlyJoin ==
    ASSUME NEW S, NEW s \in Seq(S), NEW t \in Seq(S), NEW clash, Orderly(s, clash),
           \A d \in Sent(s) \cup Sent(t), e \in Sent(t) : <<d, e>> \notin clash
    PROVE  Orderly(s \o t, clash)
<1>1. PICK r : r = s \o t
  OBVIOUS
<1>2. Joined(s, t, r)
  BY <1>1, JoinFacts
<1>3. ASSUME NEW i \in DOMAIN r PROVE (i \in DOMAIN s /\ r[i] = s[i]) \/ (r[i] \in Sent(t) /\ \A j \in DOMAIN s : j < i)
  <2>1. CASE i \in DOMAIN s
    BY <1>2, <2>1 DEF Joined
  <2>2. CASE i \notin DOMAIN s
    BY <1>2, <2>2 DEF Joined, Sent
  <2>. QED BY <2>1, <2>2
<1>4. ASSUME NEW a \in DOMAIN r, NEW b \in DOMAIN r, a <= b PROVE <<r[a], r[b]>> \notin clash
  <2>0. a \in Nat /\ b \in Nat
    BY <1>2 DEF Joined
  <2>1. CASE b \in DOMAIN s /\ r[b] = s[b]
    <3>1. a \in DOMAIN s /\ r[a] = s[a]
      BY <1>3, <1>4, <2>0, <2>1
    <3>. QED BY <1>4, <2>1, <3>1 DEF Orderly
  <2>2. CASE r[b] \in Sent(t)
    <3>1. r[a] \in Sent(s) \cup Sent(t)
      BY <1>3 DEF Sent
    <3>. QED BY <2>2, <3>1
  <2>. QED BY <1>3, <2>1, <2>2
<1>. QED BY <1>1, <1>4 DEF Orderly

\* When the oldest is taken: it clashed with nothing.
LEMMA OrderlyRead ==
    ASSUME NEW S, NEW s \in Seq(S), s # <<>>, NEW clash, Orderly(s, clash)
    PROVE  Orderly(Tail(s), clash) /\ \A d \in Sent(s) : <<Head(s), d>> \notin clash
<1>1. PICK t, h : t = Tail(s) /\ h = Head(s)
  OBVIOUS
<1>2. FirstTaken(s, t) /\ h = s[1]
  BY <1>1, ReadFacts DEF FirstTaken
<1>3. ASSUME NEW a \in DOMAIN t, NEW b \in DOMAIN t, a <= b PROVE <<t[a], t[b]>> \notin clash
  <2>1. a + 1 \in DOMAIN s /\ b + 1 \in DOMAIN s /\ a + 1 <= b + 1 /\ t[a] = s[a + 1] /\ t[b] = s[b + 1]
    BY <1>2, <1>3 DEF FirstTaken
  <2>. QED BY <2>1 DEF Orderly
<1>4. ASSUME NEW d \in Sent(s) PROVE <<h, d>> \notin clash
  <2>1. PICK i \in DOMAIN s : d = s[i]
    BY DEF Sent
  <2>2. 1 \in DOMAIN s /\ 1 <= i
    BY <1>2 DEF FirstTaken
  <2>. QED BY <1>2, <2>1, <2>2 DEF Orderly
<1>. QED BY <1>1, <1>3, <1>4 DEF Orderly

\* A notice's rows and reference are references.
LEMMA ToldIsTyped ==
    ASSUME NEW m \in Told
    PROVE  NewIn(m) \subseteq Common /\ NewIn(m) \subseteq References /\ GoneIn(m) \subseteq References
           /\ ObjectIn(m) \subseteq References /\ PlainIn(m) \subseteq References
BY DEF Told, Notice, RowsOf, NewIn, GoneIn, ObjectIn, PlainIn, Common

\* The references created under way, of notices as they are sent.
LEMMA NewsAre ==
    ASSUME NEW s \in Seq(Told)
    PROVE  News(s) = UNION {NewIn(m) : m \in Sent(s)}
<1>1. \A m \in Sent(s) : NewIn(m) \subseteq References
  BY SentFew, ToldIsTyped
<1>2. ASSUME NEW r \in News(s) PROVE r \in UNION {NewIn(m) : m \in Sent(s)}
  BY DEF News, Creates, Sent, NewIn
<1>3. ASSUME NEW m \in Sent(s), NEW r \in NewIn(m) PROVE r \in News(s)
  <2>1. r \in References /\ m.type = "changes" /\ r \in m.rows.new
    BY <1>1, <1>3 DEF NewIn
  <2>2. PICK n \in DOMAIN s : m = s[n]
    BY DEF Sent
  <2>. QED BY <2>1, <2>2 DEF News, Creates
<1>. QED BY <1>2, <1>3

\* Nothing was put.
LEMMA AddsSame == \A s : Adds(s, s, {}, {}, {}, {}, {})
BY DEF Adds

\* A notice put last (HostNetwork::Send).
LEMMA AddsAppend ==
    ASSUME NEW s \in Seq(Told), NEW m \in Told
    PROVE  Adds(s, Append(s, m), AnswerIn(m), NewIn(m), GoneIn(m), ObjectIn(m), PlainIn(m))
<1>0. Append(s, m) \in Seq(Told) /\ Sent(Append(s, m)) = Sent(s) \cup {m}
  BY SentAppend
<1>1. PICK r : r = Append(s, m) /\ r \in Seq(Told) /\ Sent(r) = Sent(s) \cup {m}
  BY <1>0, Zenon
<1>2. News(r) = News(s) \cup NewIn(m)
  BY <1>1, NewsAre
<1>3. Bygone(r) = Bygone(s) \cup GoneIn(m) /\ Objects(r) = Objects(s) \cup ObjectIn(m) /\ Untagged(r) = Untagged(s) \cup PlainIn(m)
  BY <1>1 DEF Bygone, Objects, Untagged
<1>4. ASSUME Orderly(s, Undone), (Bygone(s) \cup GoneIn(m)) \cap (NewIn(m) \cup AnswerIn(m)) = {} PROVE Orderly(r, Undone)
  <2>1. <<m, m>> \notin Undone
    BY <1>4 DEF Undone
  <2>2. \A d \in Sent(s) : <<d, m>> \notin Undone
    BY <1>4 DEF Undone, Bygone
  <2>. QED BY <1>1, <1>4, <2>1, <2>2, OrderlyAppend
<1>. QED BY <1>1, <1>2, <1>3, <1>4 DEF Adds

\* One growth after another.
LEMMA AddsTrans ==
    ASSUME NEW s, NEW t, NEW u, NEW a, NEW b, NEW new, NEW gone, NEW more, NEW less, NEW objects, NEW plain,
           Adds(s, t, a, new, gone, {}, {}), Adds(t, u, b, more, less, objects, plain)
    PROVE  Adds(s, u, a \cup b, new \cup more, gone \cup less, objects, plain)
BY DEF Adds

\* Answers to drops tell of no rows and of no grants.
LEMMA AddsAnswers ==
    ASSUME NEW s \in Seq(Told), NEW S, NEW t \in Seq(S), \A m \in S : m.type = "dropped", s \o t \in Seq(Told)
    PROVE  Adds(s, s \o t, {m.ref : m \in Sent(t)}, {}, {}, {}, {})
<1>0. PICK A : A = Told \cup S
  OBVIOUS
<1>1. PICK r : r = s \o t /\ r \in Seq(Told) /\ Sent(r) = Sent(s) \cup Sent(t)
  <2>1. s \in Seq(A) /\ t \in Seq(A)
    BY <1>0
  <2>. QED BY <2>1, SentJoin
<1>2. \A m \in Sent(t) : AnswerIn(m) = {m.ref} /\ NewIn(m) = {} /\ GoneIn(m) = {} /\ ObjectIn(m) = {} /\ PlainIn(m) = {}
  <2>1. \A m \in Sent(t) : m.type = "dropped"
    BY SentFew
  <2>. QED BY <2>1 DEF AnswerIn, NewIn, GoneIn, ObjectIn, PlainIn
<1>3. News(r) = News(s)
  <2>1. News(r) = UNION {NewIn(m) : m \in Sent(r)} /\ News(s) = UNION {NewIn(m) : m \in Sent(s)}
    BY <1>1, NewsAre
  <2>. QED BY <1>1, <1>2, <2>1
<1>4. Bygone(r) = Bygone(s) /\ Objects(r) = Objects(s) /\ Untagged(r) = Untagged(s)
  BY <1>1, <1>2 DEF Bygone, Objects, Untagged
<1>6. ASSUME Orderly(s, Undone), Bygone(s) \cap {m.ref : m \in Sent(t)} = {} PROVE Orderly(r, Undone)
  <2>1. s \in Seq(A) /\ t \in Seq(A)
    BY <1>0
  <2>2. \A d \in Sent(s) \cup Sent(t), e \in Sent(t) : <<d, e>> \notin Undone
    BY <1>2, <1>6 DEF Undone, Bygone
  <2>. QED BY <1>1, <1>6, <2>1, <2>2, OrderlyJoin
<1>. QED BY <1>1, <1>3, <1>4, <1>6 DEF Adds

\* What is left when the oldest notice is read.
LEMMA AddsRead ==
    ASSUME NEW s \in Seq(Told), s # <<>>, NEW h, h = Head(s), NEW t, t = Tail(s)
    PROVE  /\ News(s) = News(t) \cup NewIn(h) /\ Bygone(s) = Bygone(t) \cup GoneIn(h)
           /\ Objects(s) = Objects(t) \cup ObjectIn(h) /\ Untagged(s) = Untagged(t) \cup PlainIn(h)
           /\ Orderly(s, Undone) => Orderly(t, Undone) /\ GoneIn(h) \cap (News(s) \cup Refs(s, "dropped")) = {}
<1>1. t \in Seq(Told) /\ h \in Told /\ Sent(s) = Sent(t) \cup {h}
  BY SentRead
<1>2. News(s) = News(t) \cup NewIn(h)
  <2>1. News(t) = UNION {NewIn(m) : m \in Sent(t)} /\ News(s) = UNION {NewIn(m) : m \in Sent(s)}
    BY <1>1, NewsAre
  <2>. QED BY <1>1, <2>1
<1>3. Bygone(s) = Bygone(t) \cup GoneIn(h) /\ Objects(s) = Objects(t) \cup ObjectIn(h) /\ Untagged(s) = Untagged(t) \cup PlainIn(h)
  BY <1>1 DEF Bygone, Objects, Untagged
<1>4. ASSUME Orderly(s, Undone) PROVE Orderly(t, Undone) /\ GoneIn(h) \cap (News(s) \cup Refs(s, "dropped")) = {}
  <2>1. Orderly(t, Undone) /\ \A d \in Sent(s) : <<h, d>> \notin Undone
    BY <1>4, OrderlyRead
  <2>2. \A d \in Sent(s) : d \in Told
    BY <1>1, SentFew
  <2>3. \A d \in Sent(s) : GoneIn(h) \cap (NewIn(d) \cup AnswerIn(d)) = {}
    BY <1>1, <2>1, <2>2 DEF Undone
  <2>4. Refs(s, "dropped") = UNION {AnswerIn(d) : d \in Sent(s)}
    BY RefsAre DEF Sent, AnswerIn
  <2>. QED BY <2>1, <2>3, <2>4, NewsAre
<1>. QED BY <1>2, <1>3, <1>4
-----------------------------------------------------------------------------
\* What each guest's game shows: the inductive invariant of ShownIsReal.

\* Under way to a game: references deleted, objects granted and those granted by their object; deletions its main loop
\* has yet to apply; what it asks for by an object, and whether it asks for the cell's state.
Went(g) == Bygone(down[g])
Got(g) == Objects(down[g])
Plain(g) == Untagged(down[g])
Going(g) == UNION {t.gone : t \in Sent(tasks[g])}
Named(g) == {r \in References : \E m \in Sent(up[g]) : m.type = "take" /\ ~m.tagged /\ m.ref = r}
AsksCell(g) == \E m \in Sent(up[g]) : m.type = "cell"
Awaits(g) == g \in cells \/ AsksCell(g)

\* What a game shows as the host's, and what it, or its player, was told of.
Mine(g) == {h[1] : h \in created[g] \cap shown[g]}
Public(g) == Ans(g) \cup Mine(g) \cup Heard(g) \cup Queued(g) \cup Went(g) \cup Going(g) \cup Named(g) \cup Got(g) \cup Plain(g)

\* The drop of a reference was made, and answered if a guest's.
Past(r) == r[2] \in 1 .. drops /\ \A k \in Guests : r \in own[k] => r \in Ans(k)

\* The host's game knows of what is there once: by its log, or as told.
HostKeeps == Alive \subseteq log \cup out /\ log \cap out = {}

\* A guest's drop made by the host is no quest's, and nobody else's.
MadeInv == \A d \in made : Past(d[2]) /\ Of(d[2]) \notin Quest /\ \A e \in made : d[2] = e[2] => d = e

\* A drop that is not answered is under way, waits, or was forgotten.
OwnGoes(g) == own[g] \subseteq Unanswered(g) \cup Waiting(g) \cup forgotten \cup Ans(g) \cup Grants(g)
NoQuest(g) == inv[g] \cap Quest = {} /\ \A r \in own[g] \cup Grants(g) : Of(r) \notin Quest
PublicInv(g) == \A r \in Public(g) : Past(r)

\* What is asked for and granted by its object, or is to be deleted, is no drop that waits for an answer.
Unowned(g) == (Named(g) \cup Plain(g) \cup Going(g)) \cap own[g] = {}

\* What was deleted is not created again.
InOrder(g) == /\ Orderly(down[g], Undone) /\ Orderly(tasks[g], UndoneTask) /\ Going(g) \cap Heard(g) = {}
NewsOut(g) == Heard(g) \cup Queued(g) \subseteq out \cup Went(g) \cup Going(g)
GoneDead(g) == (Went(g) \cup Going(g) \cup Got(g)) \cap Alive = {}

\* What a game has as the host's, or will by an answer, is there: guests were told of it, or it is the dropper's,
\* made since the last update. Or its deletion, or its grant, is on its way.
Real(g, r) == r \in out \/ (<<g, r>> \in made /\ r \in log \cap Alive) \/ r \in Went(g) \cup Going(g) \cup Got(g)
MineReal(g) == \A r \in Mine(g) \cup (Ans(g) \cap Common \cap own[g]) : Real(g, r)

\* Until guests are told, only the dropper has it.
Logged(g) == \A r \in log \cap Alive : r \in Ans(g) \cup Named(g) \cup Mine(g) => <<g, r>> \in made

\* What is there, a game that does not wait for the cell's state has or is told of.
AllTold(g) == g \in here /\ ~Awaits(g) => out \cap Alive \subseteq Mine(g) \cup Heard(g) \cup Queued(g)
Present(g) == g \notin here => shown[g] = {}

GuestReal(g) ==
    /\ OwnGoes(g) /\ NoQuest(g) /\ PublicInv(g) /\ Unowned(g) /\ InOrder(g) /\ NewsOut(g)
    /\ GoneDead(g) /\ MineReal(g) /\ Logged(g) /\ AllTold(g) /\ Present(g)
RealInv == HostKeeps /\ MadeInv /\ \A g \in Guests : GuestReal(g)

\* What was past stays it.
PastStays == \A r : Past(r) => Past(r)'

\* The game of a guest whose player and main loop do nothing, and what it is told by a step of the host.
GameStays(g) ==
    shown'[g] = shown[g] /\ own'[g] = own[g] /\ created'[g] = created[g] /\ inv'[g] = inv[g] /\ tasks'[g] = tasks[g]
Hears(g, answers, grants, new, gone, objects, plain) ==
    /\ Ans(g)' = Ans(g) \cup answers /\ Grants(g)' = Grants(g) \cup grants
    /\ Heard(g)' = Heard(g) \cup new /\ Went(g)' = Went(g) \cup gone
    /\ Got(g)' = Got(g) \cup objects /\ Plain(g)' = Plain(g) \cup plain
    /\ Orderly(down[g], Undone) /\ (Went(g) \cup gone) \cap (new \cup answers) = {} => Orderly(down'[g], Undone)
    /\ Named(g)' \subseteq Named(g)

\* What the host does to a drop: it is answered, granted, waits or is forgotten; an answer comes with what was made.
Answered(g, answers, grants) ==
    /\ own[g] \cap (Unanswered(g) \cup Waiting(g) \cup forgotten)
           \subseteq Unanswered(g)' \cup Waiting(g)' \cup forgotten' \cup answers \cup grants
    /\ \A r \in grants : Of(r) \notin Quest
    /\ \A r \in answers \cap Common \cap own[g] : <<g, r>> \in made' /\ r \in log' \cap Alive'
    /\ \A r \in answers : ~Past(r) /\ Past(r)'

\* What guests are told of a step: what is new is known, what is not known any more is deleted; nothing granted or deleted is there.
Tells(g, new, gone, objects, plain) ==
    /\ new \subseteq out' /\ out \subseteq out' \cup gone
    /\ (gone \cup objects) \cap Alive' = {} /\ (Going(g) \cup Went(g) \cup gone) \cap new = {}
    /\ plain \cap own[g] = {} /\ \A r \in new \cup gone \cup objects \cup plain : Past(r)' /\ Past(r)

\* What is new to the host's game has no past; and what it logged stays so, or guests are told.
Changed(g, answers, objects) ==
    /\ \A r \in Alive' \ Alive : ~Past(r)
    /\ \A r \in log' \cap Alive' : /\ Past(r) => r \in log \cap Alive /\ (<<g, r>> \in made => <<g, r>> \in made')
                                   /\ r \in answers => <<g, r>> \in made'
    /\ \A r \in log \cap Alive : <<g, r>> \in made => r \in out' \cup objects \/ (<<g, r>> \in made' /\ r \in log' \cap Alive')

\* Who waits for the cell's state is told all, or waits on.
Celled(g, new) ==
    /\ g \in here' <=> g \in here
    /\ g \in here => \/ out' \cap Alive' \subseteq (out \cap Alive) \cup new /\ (~Awaits(g)' => ~Awaits(g))
                     \/ ~Awaits(g)' => out' \cap Alive' \subseteq new
                     \/ Awaits(g)'

\* A step of the host keeps what holds of each game.
LEMMA HostStepKeeps ==
    ASSUME NEW g \in Guests, GuestReal(g), PastStays, GameStays(g), Queued(g)' = Queued(g),
           NEW answers, NEW grants, NEW new, NEW gone, NEW objects, NEW plain, Hears(g, answers, grants, new, gone, objects, plain),
           Answered(g, answers, grants), Tells(g, new, gone, objects, plain), Changed(g, answers, objects), Celled(g, new)
    PROVE  GuestReal(g)'
<1>1. /\ Mine(g)' = Mine(g) /\ Going(g)' = Going(g) /\ Orderly(tasks[g], UndoneTask)' = Orderly(tasks[g], UndoneTask)
      /\ shown'[g] = shown[g] /\ own'[g] = own[g] /\ inv'[g] = inv[g]
  BY Zenon DEF GameStays, Mine, Going
<1>2. OwnGoes(g)'
  BY <1>1 DEF GuestReal, OwnGoes, Hears, Answered
<1>3. NoQuest(g)'
  BY <1>1 DEF GuestReal, NoQuest, Hears, Answered
<1>4. PublicInv(g)'
  <2>1. ASSUME NEW r \in Public(g)' PROVE Past(r)'
    <3>1. r \in Public(g) \/ r \in answers \/ r \in new \cup gone \cup objects \cup plain
      BY <1>1, <2>1 DEF Hears, Public
    <3>. QED BY <3>1 DEF GuestReal, PublicInv, PastStays, Answered, Tells
  <2>. QED BY <2>1, Zenon DEF PublicInv
<1>5. Unowned(g)'
  BY <1>1 DEF GuestReal, Unowned, Hears, Tells
<1>6. InOrder(g)'
  <2>1. (Went(g) \cup gone) \cap answers = {}
    BY DEF GuestReal, PublicInv, Public, Answered, Tells
  <2>2. Orderly(down[g], Undone)'
    BY <2>1 DEF GuestReal, InOrder, Hears, Tells
  <2>. QED BY <1>1, <2>2 DEF GuestReal, InOrder, Hears, Tells
<1>7. NewsOut(g)'
  BY <1>1 DEF GuestReal, NewsOut, Hears, Tells
<1>8. GoneDead(g)'
  <2>1. ASSUME NEW r \in Went(g)' \cup Going(g)' \cup Got(g)', r \in Alive' PROVE FALSE
    <3>1. r \in Went(g) \cup Going(g) \cup Got(g)
      BY <1>1, <2>1 DEF Hears, Tells
    <3>2. r \notin Alive
      BY <3>1 DEF GuestReal, GoneDead
    <3>. QED BY <2>1, <3>1, <3>2 DEF GuestReal, PublicInv, Public, Changed
  <2>. QED BY <2>1 DEF GoneDead
<1>9. MineReal(g)'
  <2>1. ASSUME NEW r, r \in Mine(g)' \cup (Ans(g)' \cap Common \cap own'[g]) PROVE Real(g, r)'
    <3>1. CASE r \in answers \cap Common \cap own[g]
      BY <3>1 DEF Answered, Real
    <3>2. CASE r \in Mine(g) \cup (Ans(g) \cap Common \cap own[g])
      <4>1. Real(g, r)
        BY <3>2 DEF GuestReal, MineReal
      <4>2. CASE r \in out
        BY <1>1, <4>2 DEF Tells, Hears, Real
      <4>3. CASE <<g, r>> \in made /\ r \in log \cap Alive
        BY <4>3 DEF Changed, Hears, Real
      <4>4. CASE r \in Went(g) \cup Going(g) \cup Got(g)
        BY <1>1, <4>4 DEF Hears, Real
      <4>. QED BY <4>1, <4>2, <4>3, <4>4 DEF Real
    <3>. QED BY <1>1, <2>1, <3>1, <3>2 DEF Hears
  <2>. QED BY <2>1 DEF MineReal
<1>10. Logged(g)'
  <2>1. ASSUME NEW r \in log' \cap Alive', r \in Ans(g)' \cup Named(g)' \cup Mine(g)' PROVE <<g, r>> \in made'
    <3>1. CASE r \in answers
      BY <2>1, <3>1 DEF Changed
    <3>2. CASE r \in Ans(g) \cup Named(g) \cup Mine(g)
      <4>1. Past(r)
        BY <3>2 DEF GuestReal, PublicInv, Public
      <4>2. r \in log \cap Alive /\ (<<g, r>> \in made => <<g, r>> \in made')
        BY <2>1, <4>1 DEF Changed
      <4>. QED BY <3>2, <4>2 DEF GuestReal, Logged
    <3>. QED BY <1>1, <2>1, <3>1, <3>2 DEF Hears
  <2>. QED BY <2>1 DEF Logged
<1>11. AllTold(g)'
  <2>1. ASSUME g \in here', ~Awaits(g)', NEW r \in out' \cap Alive' PROVE r \in Mine(g) \cup Heard(g)' \cup Queued(g)
    <3>1. r \in new \/ (r \in out \cap Alive /\ g \in here /\ ~Awaits(g))
      BY <2>1 DEF Celled
    <3>. QED BY <3>1 DEF GuestReal, AllTold, Hears
  <2>. QED BY <1>1, <2>1 DEF AllTold
<1>12. Present(g)'
  BY <1>1 DEF GuestReal, Present, Celled
<1>. QED BY <1>2, <1>3, <1>4, <1>5, <1>6, <1>7, <1>8, <1>9, <1>10, <1>11, <1>12 DEF GuestReal

\* What the host's game knows of is past.
LEMMA KnownIsPast == Ownership => \A r \in log \cup out : Past(r)
<1>1. ASSUME Ownership, NEW r \in log \cup out PROVE Past(r)
  <2>1. r[2] \in 1 .. drops
    BY <1>1 DEF Ownership, KnownHost
  <2>2. \A k \in Guests : r \in own[k] => r \in Ans(k)
    BY <1>1 DEF Ownership, GuestInv, OwnMade
  <2>. QED BY <2>1, <2>2 DEF Past
<1>. QED BY <1>1

\* A drop that is under way, or waits, is not.
LEMMA AskedIsNotPast ==
    ASSUME AllTypes, Ownership
    PROVE  /\ \A g \in Guests : \A r \in Unanswered(g) : ~Past(r) /\ r \in own[g]
           /\ \A r \in Waits : ~Past(r)
<1>1. ASSUME NEW g \in Guests, NEW r \in Unanswered(g) PROVE ~Past(r) /\ r \in own[g]
  BY DEF Ownership, GuestInv, AsksOwn, AnswersLate, Past
<1>2. ASSUME NEW r \in Waits PROVE ~Past(r)
  <2>1. PICK d \in Waiters : r = d.ref /\ d.player \in Guests
    BY WaitsAre, WaitersAre DEF AllTypes, RuleTypes
  <2>2. r \in own[d.player] /\ r \notin Ans(d.player)
    BY <1>2, <2>1 DEF Ownership, GuestInv, WaitsOwned, AnswersLate
  <2>. QED BY <2>1, <2>2 DEF Past
<1>. QED BY <1>1, <1>2

\* Whose drop is waiting.
LEMMA WaitingAre ==
    /\ \A g : Waiting(g) = {d.ref : d \in {k \in Waiters : k.player = g}}
    /\ \A g : Waiting(g)' = {d.ref : d \in {k \in Waiters' : k.player = g}}
BY ToSetIsSent, Zenon DEF Waiting, Waiters

\* While no game drops, and no answer is read, what is past stays it.
LEMMA PastWithHost ==
    ASSUME own' = own, drops' \in Nat, drops \in Nat, drops <= drops', \A k \in Guests : Ans(k) \subseteq Ans(k)'
    PROVE  PastStays
<1>1. \A n : n \in 1 .. drops => n \in 1 .. drops'
  OBVIOUS
<1>. QED BY <1>1 DEF PastStays, Past

\* A game that is told nothing and says nothing.
LEMMA HearsNothing ==
    ASSUME NEW g, down'[g] = down[g], up'[g] = up[g]
    PROVE  /\ Hears(g, {}, {}, {}, {}, {}, {}) /\ Named(g)' = Named(g) /\ (AsksCell(g)' <=> AsksCell(g))
           /\ Unanswered(g)' = Unanswered(g) /\ Ans(g)' = Ans(g)
<1>1. /\ Ans(g)' = Ans(g) /\ Grants(g)' = Grants(g) /\ Heard(g)' = Heard(g) /\ Went(g)' = Went(g)
      /\ Got(g)' = Got(g) /\ Plain(g)' = Plain(g) /\ Named(g)' = Named(g) /\ Unanswered(g)' = Unanswered(g)
      /\ (AsksCell(g)' <=> AsksCell(g))
  BY Zenon DEF Ans, Grants, Heard, Went, Got, Plain, Named, Unanswered, AsksCell
<1>. QED BY <1>1 DEF Hears

\* The host read a request: of what was asked for by an object, no more is left.
LEMMA NamedRead ==
    ASSUME UpTypes, NEW g \in Guests, up[g] # <<>>, up' = [up EXCEPT ![g] = Tail(@)], NEW m, m = Head(up[g])
    PROVE  /\ Named(g)' \subseteq Named(g) /\ (AsksCell(g)' => AsksCell(g))
           /\ m.type # "cell" => (AsksCell(g) <=> AsksCell(g)')
           /\ m.type = "take" /\ ~m.tagged => m.ref \in Named(g)
           /\ \A k \in Guests \ {g} : up'[k] = up[k]
<1>1. PICK s, t : s = up[g] /\ t = Tail(s) /\ s \in Seq(Posted) /\ s # <<>> /\ m = Head(s)
  BY Zenon DEF UpTypes
<1>2. Sent(t) \subseteq Sent(s) /\ Sent(s) \subseteq Sent(t) \cup {m} /\ m \in Sent(s) /\ m \in Posted
  BY <1>1, SentRead
<1>3. up'[g] = t /\ \A k \in Guests \ {g} : up'[k] = up[k]
  BY <1>1 DEF UpTypes
<1>4. Sent(up[g]) = Sent(s) /\ Sent(up'[g]) = Sent(t)
  BY <1>1, <1>3, Zenon
<1>5. m.type = "take" => m.ref \in References
  BY <1>2 DEF Posted
<1>6. Named(g)' \subseteq Named(g) /\ (m.type = "take" /\ ~m.tagged => m.ref \in Named(g))
  BY <1>2, <1>4, <1>5 DEF Named
<1>7. (AsksCell(g)' => AsksCell(g)) /\ (m.type # "cell" => (AsksCell(g) <=> AsksCell(g)'))
  BY <1>2, <1>4 DEF AsksCell
<1>. QED BY <1>3, <1>6, <1>7

\* A notice is sent to a game.
LEMMA HearsTold ==
    ASSUME DownTypes, NEW g \in Guests, NEW m \in Told, down' = [down EXCEPT ![g] = Append(@, m)], Named(g)' \subseteq Named(g)
    PROVE  /\ Hears(g, IF m.type = "dropped" THEN {m.ref} ELSE {}, IF m.type = "pickup" THEN {m.ref} ELSE {},
                    NewIn(m), GoneIn(m), ObjectIn(m), PlainIn(m))
           /\ \A k \in Guests \ {g} : down'[k] = down[k]
<1>1. PICK s, r : s = down[g] /\ r = Append(s, m) /\ s \in Seq(Told)
  BY Zenon DEF DownTypes
<1>2. Adds(s, r, AnswerIn(m), NewIn(m), GoneIn(m), ObjectIn(m), PlainIn(m))
  BY <1>1, AddsAppend
<1>3. down'[g] = r /\ \A k \in Guests \ {g} : down'[k] = down[k]
  BY <1>1 DEF DownTypes
<1>4. /\ Heard(g) = News(s) /\ Heard(g)' = News(r) /\ Went(g) = Bygone(s) /\ Went(g)' = Bygone(r)
      /\ Got(g) = Objects(s) /\ Got(g)' = Objects(r) /\ Plain(g) = Untagged(s) /\ Plain(g)' = Untagged(r)
      /\ Orderly(down[g], Undone) = Orderly(s, Undone) /\ Orderly(down'[g], Undone) = Orderly(r, Undone)
  BY <1>1, <1>3, Zenon DEF Heard, Went, Got, Plain
<1>5. Grown(g, IF m.type = "dropped" THEN {m.ref} ELSE {}, IF m.type = "pickup" THEN {m.ref} ELSE {},
            IF m.type = "changes" THEN m.rows.new ELSE {})
  BY DownTells
<1>6. /\ Ans(g)' = Ans(g) \cup (IF m.type = "dropped" THEN {m.ref} ELSE {})
      /\ Grants(g)' = Grants(g) \cup (IF m.type = "pickup" THEN {m.ref} ELSE {})
  BY <1>5, GrownFacts
<1>. QED BY <1>2, <1>3, <1>4, <1>6 DEF Adds, AnswerIn, Hears

\* The games a step does not concern, while guests are not told of what is there.
LEMMA OthersReal ==
    ASSUME Ownership, NEW k \in Guests, GuestReal(k), PastStays, GameStays(k), down'[k] = down[k], up'[k] = up[k],
           out' = out, \A r \in Alive' \ Alive : ~Past(r), \A r \in log' \cap Alive' : Past(r) => r \in log \cap Alive,
           \A r \in log \cap Alive : <<k, r>> \in made => <<k, r>> \in made' /\ r \in log' \cap Alive',
           own[k] \cap (Waiting(k) \cup forgotten) \subseteq Waiting(k)' \cup forgotten',
           k \in here' <=> k \in here, k \in cells' <=> k \in cells
    PROVE  GuestReal(k)'
<1>1. /\ Hears(k, {}, {}, {}, {}, {}, {}) /\ (AsksCell(k)' <=> AsksCell(k)) /\ Unanswered(k)' = Unanswered(k)
      /\ Queued(k)' = Queued(k)
  <2>1. Queued(k)' = Queued(k)
    BY Zenon DEF GameStays, Queued
  <2>. QED BY <2>1, HearsNothing
<1>2. Answered(k, {}, {})
  BY <1>1 DEF Answered
<1>3. Tells(k, {}, {}, {}, {})
  BY DEF Tells
<1>4. Changed(k, {}, {})
  BY DEF Changed
<1>5. Celled(k, {})
  <2>1. \A r \in out' \cap Alive' : r \in out \cap Alive
    BY KnownIsPast
  <2>. QED BY <1>1, <2>1 DEF Celled, Awaits
<1>. QED BY <1>1, <1>2, <1>3, <1>4, <1>5, HostStepKeeps
-----------------------------------------------------------------------------
\* Each action keeps what the games show.

\* Of what guests' drops made, nothing is new.
LEMMA MadeStays == MadeInv /\ PastStays /\ made' \subseteq made => MadeInv'
BY DEF MadeInv, PastStays

\* The host's player, and its game, when no guest is told of it: a reference of the host's game may be new, or gone.
LEMMA HostPlays ==
    ASSUME ItemsInv, RealInv, drops' \in {drops, drops + 1}, \A k \in Guests : inv'[k] = inv[k],
           UNCHANGED <<here, out, made, cells, pending, forgotten, shown, own, created, tasks, up, down>>,
           log \subseteq log', log \cap Alive \subseteq Alive', \A r \in (log' \ log) \cup (Alive' \ Alive) : ~Past(r),
           HostKeeps'
    PROVE  RealInv'
<1>0. Ownership /\ drops \in Nat
  BY BoundsAssumption DEF ItemsInv, AllTypes, PlayerTypes
<1>1. \A k \in Guests : down'[k] = down[k] /\ up'[k] = up[k]
  OBVIOUS
<1>2. \A k \in Guests : Ans(k)' = Ans(k)
  BY Zenon DEF Ans
<1>3. PastStays
  BY <1>0, <1>2, PastWithHost
<1>4. ASSUME NEW k \in Guests PROVE GuestReal(k)'
  <2>1. GuestReal(k) /\ Waiting(k)' = Waiting(k)
    BY Zenon DEF RealInv, Waiting
  <2>2. GameStays(k)
    BY DEF GameStays
  <2>3. own[k] \cap (Waiting(k) \cup forgotten) \subseteq Waiting(k)' \cup forgotten'
    BY <2>1
  <2>4. \A r \in log' \cap Alive' : Past(r) => r \in log \cap Alive
    OBVIOUS
  <2>5. \A r \in log \cap Alive : <<k, r>> \in made => <<k, r>> \in made' /\ r \in log' \cap Alive'
    OBVIOUS
  <2>. QED BY <1>0, <1>1, <1>3, <2>1, <2>2, <2>3, <2>4, <2>5, OthersReal
<1>5. MadeInv'
  BY <1>3, MadeStays DEF RealInv
<1>. QED BY <1>4, <1>5, Zenon DEF RealInv

\* HostDrops: nobody was told of its new reference.
LEMMA HostDropsReal ==
    ASSUME ItemsInv, RealInv, NEW i \in Items, HostDrops(i)
    PROVE  RealInv'
<1>1. /\ i \in inv[Host] /\ inv' = [inv EXCEPT ![Host] = @ \ {i}] /\ deleted' = deleted
      /\ UNCHANGED <<here, out, made, cells, pending, forgotten, shown, own, created, tasks, up, down>>
  BY HostDropsDoes, Zenon DEF ItemsInv, HostDrops, rule, game, history
<1>2. PICK r \in Common : r[2] = drops + 1 /\ drops' = drops + 1 /\ world' = world \cup {r} /\ log' = log \cup {r}
  BY HostDropsDoes, Zenon DEF ItemsInv
<1>3. /\ drops \in Nat /\ KnownHost /\ HostKeeps /\ inv \in [Players -> SUBSET Items]
  BY BoundsAssumption DEF ItemsInv, AllTypes, PlayerTypes, Ownership, RealInv
<1>4. ~Past(r) /\ r \notin world \cup deleted \cup log \cup out
  BY <1>2, <1>3 DEF KnownHost, Past
<1>5. Alive' = Alive \cup {r}
  BY <1>1, <1>2, <1>4 DEF Alive
<1>6. HostKeeps'
  BY <1>1, <1>2, <1>3, <1>4, <1>5 DEF HostKeeps
<1>7. \A k \in Guests : inv'[k] = inv[k]
  BY <1>1, <1>3, PlayersAssumption DEF Players
<1>. QED BY <1>1, <1>2, <1>4, <1>5, <1>6, <1>7, HostPlays

\* HostPicksUp: what it picks up is not in the log.
LEMMA HostPicksUpReal ==
    ASSUME ItemsInv, RealInv, NEW r \in References, HostPicksUp(r)
    PROVE  RealInv'
<1>1. /\ r \in world /\ world' = world \ {r} /\ inv' = [inv EXCEPT ![Host] = @ \cup {Of(r)}]
      /\ UNCHANGED <<drops, deleted, log, here, out, made, cells, pending, forgotten, shown, own, created, tasks, up, down>>
  BY HostPicksUpDoes, Zenon DEF ItemsInv, HostPicksUp, rule, game, history
<1>2. r \notin log
  BY DEF HostPicksUp
<1>3. inv \in [Players -> SUBSET Items] /\ HostKeeps
  BY DEF ItemsInv, AllTypes, PlayerTypes, RealInv
<1>4. Alive' = Alive \ {r}
  BY <1>1 DEF Alive
<1>5. HostKeeps'
  BY <1>1, <1>3, <1>4 DEF HostKeeps
<1>6. \A k \in Guests : inv'[k] = inv[k]
  BY <1>1, <1>3, PlayersAssumption DEF Players
<1>. QED BY <1>1, <1>2, <1>4, <1>5, <1>6, HostPlays

\* CellLoads changes nothing of it.
LEMMA CellLoadsReal ==
    ASSUME ItemsInv, RealInv, CellLoads
    PROVE  RealInv'
<1>1. UNCHANGED <<inv, drops, world, deleted, log, here, out, made, cells, pending, forgotten, shown, own, created, tasks, up, down>>
  BY Zenon DEF CellLoads, rule, game, history
<1>2. Alive' = Alive
  BY <1>1, Zenon DEF Alive
<1>3. HostKeeps'
  BY <1>1, <1>2, Zenon DEF RealInv, HostKeeps
<1>. QED BY <1>1, <1>2, <1>3, HostPlays

\* What a notice tells of: an answer to a drop, a grant, and rows.
LEMMA NoticesTell ==
    /\ \A r, object : LET m == Dropped(r, object) IN
          /\ m.type = "dropped" /\ m.ref = r
          /\ NewIn(m) = {} /\ GoneIn(m) = {} /\ ObjectIn(m) = {} /\ PlainIn(m) = {}
    /\ \A r, object, tagged : LET m == PickUp(r, object, tagged) IN
          /\ m.type = "pickup" /\ m.ref = r /\ AnswerIn(m) = {} /\ NewIn(m) = {} /\ GoneIn(m) = {}
          /\ ObjectIn(m) = (IF object THEN {r} ELSE {}) /\ PlainIn(m) = (IF ~tagged THEN {r} ELSE {})
    /\ \A rows : LET m == Changes(rows) IN
          /\ m.type = "changes" /\ AnswerIn(m) = {}
          /\ NewIn(m) = rows.new /\ GoneIn(m) = rows.gone /\ ObjectIn(m) = {} /\ PlainIn(m) = {}
BY DEF Dropped, PickUp, Changes, AnswerIn, NewIn, GoneIn, ObjectIn, PlainIn

\* A game is sent the answer to a drop.
LEMMA HearsAnswer ==
    ASSUME DownTypes, NEW g \in Guests, NEW r \in References, NEW object \in BOOLEAN, object <=> r \in Common,
           down' = [down EXCEPT ![g] = Append(@, Dropped(r, object))], Named(g)' \subseteq Named(g)
    PROVE  Hears(g, {r}, {}, {}, {}, {}, {}) /\ \A k \in Guests \ {g} : down'[k] = down[k]
<1>1. PICK m : m = Dropped(r, object) /\ m \in Told
  BY MessageTypes
<1>2. m.type = "dropped" /\ m.ref = r /\ NewIn(m) = {} /\ GoneIn(m) = {} /\ ObjectIn(m) = {} /\ PlainIn(m) = {}
  BY <1>1, NoticesTell
<1>3. /\ Hears(g, IF m.type = "dropped" THEN {m.ref} ELSE {}, IF m.type = "pickup" THEN {m.ref} ELSE {},
               NewIn(m), GoneIn(m), ObjectIn(m), PlainIn(m))
      /\ \A k \in Guests \ {g} : down'[k] = down[k]
  BY <1>1, HearsTold
<1>4. (IF m.type = "dropped" THEN {m.ref} ELSE {}) = {r} /\ (IF m.type = "pickup" THEN {m.ref} ELSE {}) = {}
  BY <1>2
<1>. QED BY <1>2, <1>3, <1>4, Zenon

\* It is sent a grant.
LEMMA HearsGrant ==
    ASSUME DownTypes, NEW g \in Guests, NEW r \in References, NEW object \in BOOLEAN, NEW tagged \in BOOLEAN, r \in Common \/ tagged,
           down' = [down EXCEPT ![g] = Append(@, PickUp(r, object, tagged))], Named(g)' \subseteq Named(g)
    PROVE  /\ Hears(g, {}, {r}, {}, {}, IF object THEN {r} ELSE {}, IF ~tagged THEN {r} ELSE {})
           /\ \A k \in Guests \ {g} : down'[k] = down[k]
<1>1. PICK m : m = PickUp(r, object, tagged) /\ m \in Told
  BY MessageTypes
<1>2. /\ m.type = "pickup" /\ m.ref = r /\ NewIn(m) = {} /\ GoneIn(m) = {}
      /\ ObjectIn(m) = (IF object THEN {r} ELSE {}) /\ PlainIn(m) = (IF ~tagged THEN {r} ELSE {})
  BY <1>1, NoticesTell
<1>3. /\ Hears(g, IF m.type = "dropped" THEN {m.ref} ELSE {}, IF m.type = "pickup" THEN {m.ref} ELSE {},
               NewIn(m), GoneIn(m), ObjectIn(m), PlainIn(m))
      /\ \A k \in Guests \ {g} : down'[k] = down[k]
  BY <1>1, HearsTold
<1>4. (IF m.type = "dropped" THEN {m.ref} ELSE {}) = {} /\ (IF m.type = "pickup" THEN {m.ref} ELSE {}) = {r}
  BY <1>2
<1>. QED BY <1>2, <1>3, <1>4, Zenon

\* It is sent rows.
LEMMA HearsRows ==
    ASSUME DownTypes, NEW g \in Guests, NEW rows \in Applied,
           down' = [down EXCEPT ![g] = Append(@, Changes(rows))], Named(g)' \subseteq Named(g)
    PROVE  Hears(g, {}, {}, rows.new, rows.gone, {}, {}) /\ \A k \in Guests \ {g} : down'[k] = down[k]
<1>1. PICK m : m = Changes(rows) /\ m \in Told
  BY MessageTypes
<1>2. m.type = "changes" /\ NewIn(m) = rows.new /\ GoneIn(m) = rows.gone /\ ObjectIn(m) = {} /\ PlainIn(m) = {}
  BY <1>1, NoticesTell
<1>3. /\ Hears(g, IF m.type = "dropped" THEN {m.ref} ELSE {}, IF m.type = "pickup" THEN {m.ref} ELSE {},
               NewIn(m), GoneIn(m), ObjectIn(m), PlainIn(m))
      /\ \A k \in Guests \ {g} : down'[k] = down[k]
  BY <1>1, HearsTold
<1>4. (IF m.type = "dropped" THEN {m.ref} ELSE {}) = {} /\ (IF m.type = "pickup" THEN {m.ref} ELSE {}) = {}
  BY <1>2
<1>. QED BY <1>2, <1>3, <1>4, Zenon

\* What every request the host reads leaves as it is.
LEMMA ReadReal ==
    ASSUME ItemsInv, RealInv, NEW g \in Guests, HostReads(g), \A k \in Guests : Ans(k) \subseteq Ans(k)'
    PROVE  /\ PastStays /\ here' = here /\ out' = out /\ own' = own
           /\ \A k \in Guests : inv'[k] = inv[k] => GameStays(k) /\ Queued(k)' = Queued(k)
           /\ \A k \in Guests \ {g} : up'[k] = up[k]
<1>1. /\ here' = here /\ drops' = drops /\ out' = out /\ shown' = shown /\ own' = own /\ created' = created /\ tasks' = tasks
      /\ \A k \in Guests \ {g} : up'[k] = up[k]
  BY HostReadsRest, Zenon DEF ItemsInv
<1>2. drops \in Nat
  BY BoundsAssumption DEF ItemsInv, AllTypes, PlayerTypes
<1>3. PastStays
  BY <1>1, <1>2, PastWithHost
<1>4. \A k \in Guests : inv'[k] = inv[k] => GameStays(k) /\ Queued(k)' = Queued(k)
  BY <1>1, Zenon DEF GameStays, Queued
<1>. QED BY <1>1, <1>3, <1>4, Zenon

\* The other guests' games, when the host read a request: of what is logged no more is made or kept by another guest.
LEMMA OthersRead ==
    ASSUME ItemsInv, RealInv, NEW g \in Guests, HostReads(g), NEW k \in Guests \ {g}, Ans(g) \subseteq Ans(g)',
           \A l \in Guests \ {g} : down'[l] = down[l], inv'[k] = inv[k],
           \A r \in Alive' \ Alive : ~Past(r), \A r \in log' \cap Alive' : Past(r) => r \in log \cap Alive,
           \A r \in log \cap Alive : <<k, r>> \in made => <<k, r>> \in made' /\ r \in log' \cap Alive',
           own[k] \cap (Waiting(k) \cup forgotten) \subseteq Waiting(k)' \cup forgotten', k \in cells' <=> k \in cells
    PROVE  GuestReal(k)'
<1>1. \A l \in Guests : Ans(l) \subseteq Ans(l)'
  <2>1. \A l \in Guests \ {g} : Ans(l)' = Ans(l)
    BY Zenon DEF Ans
  <2>. QED BY <2>1
<1>2. PastStays /\ here' = here /\ out' = out /\ GameStays(k) /\ up'[k] = up[k]
  BY <1>1, ReadReal
<1>3. GuestReal(k) /\ Ownership
  BY DEF RealInv, ItemsInv
<1>. QED BY <1>2, <1>3, OthersReal

\* The request the host read.
LEMMA RequestRead ==
    ASSUME ItemsInv, NEW g \in Guests, HostReads(g), NEW m, m = Head(up[g])
    PROVE  /\ m.type \in {"drop", "take"} => m.ref \in References /\ m.tagged \in BOOLEAN
           /\ Named(g)' \subseteq Named(g) /\ (m.type # "cell" => (AsksCell(g) <=> AsksCell(g)'))
           /\ m.type = "take" /\ ~m.tagged => m.ref \in Named(g)
<1>1. m \in Posted
  BY HostReadsRest DEF ItemsInv
<1>2. up[g] # <<>> /\ up' = [up EXCEPT ![g] = Tail(@)]
  BY Zenon DEF HostReads
<1>3. UpTypes
  BY DEF ItemsInv, AllTypes
<1>4. /\ Named(g)' \subseteq Named(g) /\ (m.type # "cell" => (AsksCell(g) <=> AsksCell(g)'))
      /\ m.type = "take" /\ ~m.tagged => m.ref \in Named(g)
  BY <1>2, <1>3, NamedRead
<1>5. m.type \in {"drop", "take"} => m.ref \in References /\ m.tagged \in BOOLEAN
  BY <1>1 DEF Posted, Requests
<1>. QED BY <1>4, <1>5

\* A drop the host made, or cannot make: the answer says what was made.
LEMMA DropMadeReal ==
    ASSUME ItemsInv, RealInv, NEW g \in Guests, HostReads(g), Head(up[g]).type = "drop", loaded
    PROVE  RealInv'
<1>1. PICK m, r : m = Head(up[g]) /\ r = m.ref
  OBVIOUS
<1>2. AllTypes /\ Ownership /\ GuestReal(g) /\ GuestInv(g) /\ KnownHost /\ Apart /\ HostKeeps /\ MadeInv
  BY DEF ItemsInv, Ownership, RealInv
<1>3. /\ r \in References /\ Named(g)' \subseteq Named(g) /\ (AsksCell(g) <=> AsksCell(g)')
  BY <1>1, RequestRead
<1>4. OnDrop(g, r) /\ inv' = inv /\ deleted' = deleted /\ cells' = cells
  BY <1>1, Zenon DEF HostReads
<1>5. PICK made1 \in BOOLEAN : made1 = (Of(r) \notin Foreign)
  OBVIOUS
<1>6. /\ world' = (IF made1 THEN world \cup {r} ELSE world) /\ log' = (IF made1 THEN log \cup {r} ELSE log)
      /\ made' = (IF made1 THEN made \cup {<<g, r>>} ELSE made)
      /\ down' = [down EXCEPT ![g] = Append(@, Dropped(r, made1))]
      /\ pending' = pending /\ forgotten' = forgotten
  BY <1>4, <1>5, Zenon DEF OnDrop
<1>7. made1 <=> r \in Common
  BY <1>3, <1>5 DEF Common
<1>8. r \in Unanswered(g) /\ Unanswered(g)' = Unanswered(g) \ {r}
  BY <1>1, <1>2, HostReadsRest DEF GuestInv, AsksOwn
<1>9. r \in own[g] /\ ~Past(r) /\ r \notin deleted /\ r[2] \in 1 .. drops
  BY <1>2, <1>8, AskedIsNotPast DEF GuestInv, AsksOwn, KnownGuest
<1>10. r \notin log \cup out
  BY <1>2, <1>9, KnownIsPast
<1>11. /\ Hears(g, {r}, {}, {}, {}, {}, {}) /\ \A k \in Guests \ {g} : down'[k] = down[k]
  BY <1>2, <1>3, <1>6, <1>7, HearsAnswer DEF AllTypes
<1>12. r \in Ans(g)' /\ \A k \in Guests : Ans(k) \subseteq Ans(k)'
  <2>1. \A k \in Guests \ {g} : Ans(k)' = Ans(k)
    BY <1>11, Zenon DEF Ans
  <2>. QED BY <1>11, <2>1 DEF Hears
<1>13. /\ PastStays /\ here' = here /\ out' = out /\ own' = own
       /\ \A k \in Guests : GameStays(k) /\ Queued(k)' = Queued(k)
  BY <1>4, <1>12, ReadReal
<1>14. Past(r)'
  <2>1. \A k \in Guests : r \in own[k] => k = g
    BY <1>2, <1>9 DEF Apart
  <2>2. drops' = drops
    BY <1>2, HostReadsRest, Zenon
  <2>. QED BY <1>9, <1>12, <1>13, <2>1, <2>2 DEF Past
<1>15. /\ (r \in Common => <<g, r>> \in made' /\ r \in log' /\ r \in Alive')
       /\ (\A q \in Alive' \ Alive : q = r) /\ (r \notin Common => log' = log)
       /\ log' \subseteq log \cup {r} /\ log \subseteq log' /\ Alive \subseteq Alive' /\ (r \notin Common => Alive' = Alive)
       /\ made \subseteq made'
  BY <1>4, <1>6, <1>7, <1>9 DEF Alive
<1>16. \A k : Waiting(k)' = Waiting(k)
  BY <1>6, Zenon DEF Waiting
<1>17. ASSUME NEW k \in Guests \ {g} PROVE GuestReal(k)'
  <2>1. \A q \in log' \cap Alive' : Past(q) => q \in log \cap Alive
    BY <1>9, <1>15
  <2>2. \A q \in log \cap Alive : <<k, q>> \in made => <<k, q>> \in made' /\ q \in log' \cap Alive'
    BY <1>15
  <2>. QED BY <1>4, <1>6, <1>9, <1>11, <1>12, <1>15, <1>16, <2>1, <2>2, OthersRead
<1>18. GuestReal(g)'
  <2>1. Answered(g, {r}, {})
    BY <1>6, <1>8, <1>9, <1>14, <1>15, <1>16 DEF Answered
  <2>2. Tells(g, {}, {}, {}, {})
    BY <1>13 DEF Tells
  <2>3. Changed(g, {r}, {})
    BY <1>9, <1>10, <1>15 DEF Changed
  <2>4. Celled(g, {})
    BY <1>3, <1>4, <1>10, <1>13, <1>15 DEF Celled, Awaits
  <2>. QED BY <1>2, <1>11, <1>13, <2>1, <2>2, <2>3, <2>4, HostStepKeeps
<1>19. HostKeeps'
  BY <1>2, <1>10, <1>13, <1>15 DEF HostKeeps
<1>20. MadeInv'
  <2>1. Of(r) \notin Quest
    BY <1>2, <1>9 DEF GuestReal, NoQuest
  <2>2. \A d \in made' : d \in made \/ d = <<g, r>>
    BY <1>6
  <2>3. \A d \in made : d[2] # r /\ Past(d[2])' /\ Of(d[2]) \notin Quest
    BY <1>2, <1>9, <1>13 DEF MadeInv, PastStays
  <2>4. <<g, r>>[2] = r
    OBVIOUS
  <2>5. \A d \in made' : Past(d[2])' /\ Of(d[2]) \notin Quest
    BY <1>14, <2>1, <2>2, <2>3, <2>4
  <2>6. \A d, e \in made' : d[2] = e[2] => d = e
    BY <1>2, <2>2, <2>3, <2>4 DEF MadeInv
  <2>. QED BY <2>5, <2>6 DEF MadeInv
<1>. QED BY <1>17, <1>18, <1>19, <1>20 DEF RealInv

\* A drop waits, and the oldest may be forgotten: no game is told.
LEMMA DropWaitsReal ==
    ASSUME ItemsInv, RealInv, NEW g \in Guests, HostReads(g), Head(up[g]).type = "drop", ~loaded
    PROVE  RealInv'
<1>1. PICK m : m = Head(up[g])
  OBVIOUS
<1>2. /\ AllTypes /\ Ownership /\ GuestReal(g) /\ GuestInv(g) /\ WaitsOnce
  BY DEF ItemsInv, Ownership, RealInv, WaitsOwned
<1>3. /\ Named(g)' \subseteq Named(g) /\ (AsksCell(g) <=> AsksCell(g)')
  BY <1>1, RequestRead
<1>4. OnDrop(g, m.ref) /\ inv' = inv /\ deleted' = deleted /\ cells' = cells
  BY <1>1, Zenon DEF HostReads
<1>5. world' = world /\ log' = log /\ made' = made /\ down' = down
  BY <1>4, Zenon DEF OnDrop
<1>6. PICK r \in References, kept \in SUBSET Waiters :
                 /\ (DropsOnce(g) => DropsOnce(g)' /\ Unanswered(g)' = Unanswered(g) \ {r})
                 /\ Waiters' = kept \cup {[player |-> g, ref |-> r]}
                 /\ forgotten' = forgotten \cup (Waits \ {d.ref : d \in kept})
  BY <1>2, DropWaitsDoes, Zenon
<1>7. Unanswered(g)' = Unanswered(g) \ {r}
  BY <1>2, <1>6 DEF GuestInv, AsksOwn
<1>8. \A k : /\ Waiting(k) = {d.ref : d \in {e \in Waiters : e.player = k}}
             /\ Waiting(k)' = {d.ref : d \in {e \in Waiters' : e.player = k}}
  BY WaitingAre
<1>9. \A k \in Guests : Waiting(k) \subseteq Waiting(k)' \cup forgotten'
  <2>1. ASSUME NEW k, NEW d \in Waiters, d.player = k, d.ref \notin forgotten' PROVE d.ref \in Waiting(k)'
    <3>1. d.ref \in Waits
      BY WaitsAre
    <3>2. PICK e \in kept : d.ref = e.ref
      BY <1>6, <2>1, <3>1
    <3>3. d \in kept
      BY <1>2, <3>2, WaiterOnce
    <3>. QED BY <1>6, <1>8, <2>1, <3>3
  <2>. QED BY <1>8, <2>1
<1>10. r \in Waiting(g)' /\ forgotten \subseteq forgotten'
  <2>1. [player |-> g, ref |-> r].player = g /\ [player |-> g, ref |-> r].ref = r
    OBVIOUS
  <2>. QED BY <1>6, <1>8, <2>1
<1>11. (\A k \in Guests : Ans(k)' = Ans(k)) /\ Alive' = Alive
  BY <1>4, <1>5, Zenon DEF Ans, Alive
<1>12. /\ PastStays /\ here' = here /\ out' = out /\ own' = own
       /\ \A k \in Guests : GameStays(k) /\ Queued(k)' = Queued(k)
  BY <1>4, <1>11, ReadReal
<1>13. ASSUME NEW k \in Guests \ {g} PROVE GuestReal(k)'
  <2>1. own[k] \cap (Waiting(k) \cup forgotten) \subseteq Waiting(k)' \cup forgotten'
    BY <1>9, <1>10
  <2>2. k \in cells' <=> k \in cells
    BY <1>4
  <2>. QED BY <1>4, <1>5, <1>11, <2>1, <2>2, OthersRead
<1>14. GuestReal(g)'
  <2>0. Hears(g, {}, {}, {}, {}, {}, {})
    <3>1. /\ Ans(g)' = Ans(g) /\ Grants(g)' = Grants(g) /\ Heard(g)' = Heard(g) /\ Went(g)' = Went(g)
          /\ Got(g)' = Got(g) /\ Plain(g)' = Plain(g) /\ down'[g] = down[g]
      BY <1>5, Zenon DEF Ans, Grants, Heard, Went, Got, Plain
    <3>. QED BY <1>3, <3>1 DEF Hears
  <2>1. Answered(g, {}, {})
    BY <1>7, <1>9, <1>10 DEF Answered
  <2>2. Tells(g, {}, {}, {}, {})
    BY <1>12 DEF Tells
  <2>3. Changed(g, {}, {})
    BY <1>5, <1>11 DEF Changed
  <2>4. Celled(g, {})
    BY <1>3, <1>4, <1>11, <1>12 DEF Celled, Awaits
  <2>. QED BY <1>2, <1>12, <2>0, <2>1, <2>2, <2>3, <2>4, HostStepKeeps
<1>15. HostKeeps' /\ MadeInv'
  <2>1. HostKeeps'
    BY <1>5, <1>11, <1>12, Zenon DEF RealInv, HostKeeps
  <2>. QED BY <1>5, <1>12, <2>1, MadeStays DEF RealInv
<1>. QED BY <1>13, <1>14, <1>15, Zenon DEF RealInv

\* A drop given back: granted to its dropper, by its tag.
LEMMA GivesBackReal ==
    ASSUME ItemsInv, RealInv, NEW g \in Guests, HostReads(g), Head(up[g]).type = "take", GivesBack(g, Head(up[g]))
    PROVE  RealInv'
<1>1. PICK m, r : m = Head(up[g]) /\ r = m.ref
  OBVIOUS
<1>2. /\ AllTypes /\ Ownership /\ GuestReal(g) /\ GuestInv(g) /\ WaitsOwned /\ Apart
  BY DEF ItemsInv, Ownership, RealInv
<1>3. /\ r \in References /\ Named(g)' \subseteq Named(g) /\ (AsksCell(g) <=> AsksCell(g)')
  BY <1>1, RequestRead
<1>4. /\ [player |-> g, ref |-> r] \in ToSet(pending)
      /\ pending' = Only(pending, {d \in ToSet(pending) : ~(d.player = g /\ d.ref = r)})
      /\ down' = [down EXCEPT ![g] = Append(@, PickUp(r, FALSE, TRUE))]
      /\ inv' = inv /\ world' = world /\ deleted' = deleted /\ made' = made
  BY <1>1, Zenon DEF GivesBack
<1>5. log' = log /\ cells' = cells /\ forgotten' = forgotten
  BY <1>1, Zenon DEF HostReads
<1>6. Unanswered(g)' = Unanswered(g)
  BY <1>1, <1>2, HostReadsRest DEF GuestInv, AsksOwn
<1>7. Waiters' = {d \in Waiters : ~(d.player = g /\ d.ref = r)} /\ [player |-> g, ref |-> r] \in Waiters
  <2>1. Waiters' = Waiters \cap {d \in ToSet(pending) : ~(d.player = g /\ d.ref = r)}
    BY <1>2, <1>4, WaitsOnly DEF AllTypes, RuleTypes
  <2>. QED BY <1>4, <2>1, ToSetIsSent DEF Waiters
<1>8. \A k : /\ Waiting(k) = {d.ref : d \in {e \in Waiters : e.player = k}}
             /\ Waiting(k)' = {d.ref : d \in {e \in Waiters' : e.player = k}}
  BY WaitingAre
<1>9. (\A k \in Guests \ {g} : Waiting(k) \subseteq Waiting(k)') /\ Waiting(g) \subseteq Waiting(g)' \cup {r}
  BY <1>7, <1>8
<1>10. r \in own[g]
  <2>1. [player |-> g, ref |-> r].player = g /\ [player |-> g, ref |-> r].ref = r
    OBVIOUS
  <2>. QED BY <1>2, <1>7, <2>1 DEF WaitsOwned
<1>11. Hears(g, {}, {r}, {}, {}, {}, {}) /\ \A k \in Guests \ {g} : down'[k] = down[k]
  <2>1. DownTypes /\ FALSE \in BOOLEAN /\ TRUE \in BOOLEAN
    BY <1>2 DEF AllTypes
  <2>2. /\ Hears(g, {}, {r}, {}, {}, IF FALSE THEN {r} ELSE {}, IF ~TRUE THEN {r} ELSE {})
        /\ \A k \in Guests \ {g} : down'[k] = down[k]
    BY <1>3, <1>4, <2>1, HearsGrant
  <2>. QED BY <2>2
<1>12. (\A k \in Guests : Ans(k) \subseteq Ans(k)') /\ Alive' = Alive
  <2>1. \A k \in Guests \ {g} : Ans(k)' = Ans(k)
    BY <1>11, Zenon DEF Ans
  <2>2. Ans(g) \subseteq Ans(g)'
    BY <1>11 DEF Hears
  <2>. QED BY <1>4, <2>1, <2>2 DEF Alive
<1>13. /\ PastStays /\ here' = here /\ out' = out /\ own' = own
       /\ \A k \in Guests : GameStays(k) /\ Queued(k)' = Queued(k)
  BY <1>4, <1>12, ReadReal
<1>14. ASSUME NEW k \in Guests \ {g} PROVE GuestReal(k)'
  <2>1. own[k] \cap (Waiting(k) \cup forgotten) \subseteq Waiting(k)' \cup forgotten'
    BY <1>5, <1>9
  <2>2. k \in cells' <=> k \in cells
    BY <1>5
  <2>. QED BY <1>4, <1>5, <1>11, <1>12, <2>1, <2>2, OthersRead
<1>15. GuestReal(g)'
  <2>1. Answered(g, {}, {r})
    BY <1>2, <1>5, <1>6, <1>9, <1>10 DEF Answered, GuestReal, NoQuest
  <2>2. Tells(g, {}, {}, {}, {})
    BY <1>13 DEF Tells
  <2>3. Changed(g, {}, {})
    BY <1>4, <1>5, <1>12 DEF Changed
  <2>4. Celled(g, {})
    BY <1>3, <1>5, <1>12, <1>13 DEF Celled, Awaits
  <2>. QED BY <1>2, <1>11, <1>13, <2>1, <2>2, <2>3, <2>4, HostStepKeeps
<1>16. HostKeeps' /\ MadeInv'
  <2>1. HostKeeps'
    BY <1>5, <1>12, <1>13, Zenon DEF RealInv, HostKeeps
  <2>. QED BY <1>4, <1>13, <2>1, MadeStays DEF RealInv
<1>. QED BY <1>14, <1>15, <1>16, Zenon DEF RealInv

\* TakesItem: what is granted was told to the guests or the asker's own; the asker's game has it, or will, until then.
LEMMA TakesItemReal ==
    ASSUME ItemsInv, RealInv, NEW g \in Guests, HostReads(g), Head(up[g]).type = "take", TakesItem(g, Head(up[g]))
    PROVE  RealInv'
<1>1. PICK m, r : m = Head(up[g]) /\ r = m.ref
  OBVIOUS
<1>2. /\ AllTypes /\ Ownership /\ GuestReal(g) /\ GuestInv(g) /\ MadeInv /\ HostKeeps
  BY DEF ItemsInv, Ownership, RealInv
<1>3. /\ r \in References /\ m.tagged \in BOOLEAN /\ Named(g)' \subseteq Named(g) /\ (AsksCell(g) <=> AsksCell(g)')
      /\ ~m.tagged => r \in Named(g)
  BY <1>1, RequestRead
<1>4. PICK asked \in BOOLEAN, quest \in BOOLEAN :
         asked = Asked(g, m) /\ quest = (Of(r) \in Quest)
  <2>1. Asked(g, m) \in BOOLEAN /\ (Of(r) \in Quest) \in BOOLEAN
    BY DEF Asked
  <2>. QED BY <2>1, Zenon
<1>5. PICK there \in BOOLEAN : there = (asked /\ r \in Alive)
  <2>1. (asked /\ r \in Alive) \in BOOLEAN
    OBVIOUS
  <2>. QED BY <2>1, Zenon
<1>6. /\ world' = (IF there /\ quest THEN world \ {r} ELSE world)
      /\ inv' = (IF there /\ quest THEN [inv EXCEPT ![Host] = @ \cup {Of(r)}] ELSE inv)
      /\ deleted' = (IF there /\ ~quest THEN deleted \cup {r} ELSE deleted)
      /\ down' = (IF there /\ ~quest THEN [down EXCEPT ![g] = Append(@, PickUp(r, TRUE, m.tagged))] ELSE down)
      /\ made' = (IF asked THEN {d \in made : d[2] # r} ELSE made)
      /\ pending' = pending
  <2>1. Asked(g, m) = asked /\ (there /\ Of(r) \in Quest) = (there /\ quest) /\ (Asked(g, m) /\ r \in Alive) = there
    BY <1>4, <1>5
  <2>. QED BY <1>1, <2>1, Zenon DEF TakesItem
<1>7. log' = log /\ cells' = cells /\ forgotten' = forgotten
  BY <1>1, Zenon DEF HostReads
<1>8. Alive' = Alive \ (IF there THEN {r} ELSE {})
  BY <1>6 DEF Alive
<1>9. made' \subseteq made /\ \A d \in made : d \in made' \/ (asked /\ d[2] = r)
  BY <1>6
<1>10. asked /\ r \in log \cap Alive => <<g, r>> \in made
  <2>1. asked => ~m.tagged \/ <<g, r>> \in made
    BY <1>1, <1>4, Zenon DEF Asked
  <2>2. r \in log \cap Alive /\ r \in Named(g) => <<g, r>> \in made
    BY <1>2 DEF GuestReal, Logged
  <2>. QED BY <1>3, <2>1, <2>2
<1>11. <<g, r>> \in made => ~quest
  <2>1. <<g, r>>[2] = r
    OBVIOUS
  <2>. QED BY <1>2, <1>4, <2>1 DEF MadeInv
<1>12. there => Past(r)
  BY <1>2, <1>5, KnownIsPast DEF HostKeeps
<1>13. \A k \in Guests : inv'[k] = inv[k]
  <2>1. inv \in [Players -> SUBSET Items]
    BY <1>2 DEF AllTypes, PlayerTypes
  <2>. QED BY <1>6, <2>1, PlayersAssumption DEF Players
<1>14. PICK grants, plain :
         /\ grants = (IF there /\ ~quest THEN {r} ELSE {}) /\ plain = (IF there /\ ~quest /\ ~m.tagged THEN {r} ELSE {})
  OBVIOUS
<1>15. Hears(g, {}, grants, {}, {}, grants, plain) /\ \A k \in Guests \ {g} : down'[k] = down[k]
  <2>1. CASE there /\ ~quest
    <3>1. r \in Common /\ TRUE \in BOOLEAN /\ DownTypes
      BY <1>2, <1>5, <2>1 DEF Alive, AllTypes, HostTypes
    <3>2. down' = [down EXCEPT ![g] = Append(@, PickUp(r, TRUE, m.tagged))]
      BY <1>6, <2>1
    <3>3. /\ Hears(g, {}, {r}, {}, {}, IF TRUE THEN {r} ELSE {}, IF ~m.tagged THEN {r} ELSE {})
          /\ \A k \in Guests \ {g} : down'[k] = down[k]
      BY <1>3, <3>1, <3>2, HearsGrant
    <3>4. plain = (IF ~m.tagged THEN {r} ELSE {}) /\ grants = {r} /\ grants = (IF TRUE THEN {r} ELSE {})
      BY <1>14, <2>1
    <3>. QED BY <3>3, <3>4, Zenon
  <2>2. CASE ~(there /\ ~quest)
    <3>1. down' = down /\ grants = {} /\ plain = {}
      BY <1>6, <1>14, <2>2
    <3>2. /\ Ans(g)' = Ans(g) /\ Grants(g)' = Grants(g) /\ Heard(g)' = Heard(g) /\ Went(g)' = Went(g)
          /\ Got(g)' = Got(g) /\ Plain(g)' = Plain(g) /\ down'[g] = down[g]
      BY <3>1, Zenon DEF Ans, Grants, Heard, Went, Got, Plain
    <3>. QED BY <1>3, <3>1, <3>2 DEF Hears
  <2>. QED BY <2>1, <2>2
<1>16. \A k \in Guests : Ans(k) \subseteq Ans(k)'
  <2>1. \A k \in Guests \ {g} : Ans(k)' = Ans(k)
    BY <1>15, Zenon DEF Ans
  <2>2. Ans(g) \subseteq Ans(g)'
    BY <1>15 DEF Hears
  <2>. QED BY <2>1, <2>2
<1>17. /\ PastStays /\ here' = here /\ out' = out /\ own' = own
       /\ \A k \in Guests : GameStays(k) /\ Queued(k)' = Queued(k)
  BY <1>13, <1>16, ReadReal
<1>18. \A k : Waiting(k)' = Waiting(k)
  BY <1>6, Zenon DEF Waiting
<1>19. Unanswered(g)' = Unanswered(g)
  BY <1>1, <1>2, HostReadsRest DEF GuestInv, AsksOwn
<1>20. ASSUME NEW k \in Guests \ {g} PROVE GuestReal(k)'
  <2>1. own[k] \cap (Waiting(k) \cup forgotten) \subseteq Waiting(k)' \cup forgotten'
    BY <1>7, <1>18
  <2>2. k \in cells' <=> k \in cells
    BY <1>7
  <2>3. ASSUME NEW q \in log \cap Alive, <<k, q>> \in made PROVE <<k, q>> \in made' /\ q \in log' \cap Alive'
    <3>1. ~(asked /\ q = r)
      <4>1. SUFFICES ASSUME asked, q = r PROVE FALSE
        OBVIOUS
      <4>2. <<g, r>> \in made /\ <<k, r>> \in made
        BY <1>10, <2>3, <4>1
      <4>3. <<g, r>>[2] = <<k, r>>[2] /\ <<g, r>>[1] = g /\ <<k, r>>[1] = k
        OBVIOUS
      <4>. QED BY <1>2, <4>2, <4>3 DEF MadeInv
    <3>2. <<k, q>>[2] = q
      OBVIOUS
    <3>. QED BY <1>5, <1>7, <1>8, <1>9, <2>3, <3>1, <3>2
  <2>4. (\A q \in Alive' \ Alive : ~Past(q)) /\ \A q \in log' \cap Alive' : Past(q) => q \in log \cap Alive
    BY <1>7, <1>8
  <2>. QED BY <1>13, <1>15, <1>16, <2>1, <2>2, <2>3, <2>4, OthersRead
<1>21. GuestReal(g)'
  <2>1. Answered(g, {}, grants)
    BY <1>4, <1>7, <1>14, <1>18, <1>19 DEF Answered
  <2>2. Tells(g, {}, {}, grants, plain)
    <3>1. (grants \cap Alive' = {}) /\ grants \cup plain \subseteq {r} /\ (grants \cup plain # {} => there)
      BY <1>8, <1>14
    <3>2. \A q \in grants \cup plain : Past(q)' /\ Past(q)
      BY <1>12, <1>17, <3>1 DEF PastStays
    <3>3. plain \cap own[g] = {}
      BY <1>2, <1>3, <1>14 DEF GuestReal, Unowned
    <3>. QED BY <1>17, <3>1, <3>2, <3>3 DEF Tells
  <2>3. Changed(g, {}, grants)
    <3>1. ASSUME NEW q \in log' \cap Alive' PROVE q \in log \cap Alive /\ (<<g, q>> \in made => <<g, q>> \in made')
      <4>1. <<g, q>>[2] = q
        OBVIOUS
      <4>. QED BY <1>5, <1>7, <1>8, <1>9, <4>1
    <3>2. ASSUME NEW q \in log \cap Alive, <<g, q>> \in made
          PROVE  q \in grants \/ (<<g, q>> \in made' /\ q \in log' \cap Alive')
      <4>1. <<g, q>>[2] = q
        OBVIOUS
      <4>2. CASE asked /\ q = r
        BY <1>5, <1>11, <1>14, <3>2, <4>2
      <4>3. CASE ~(asked /\ q = r)
        BY <1>5, <1>7, <1>8, <1>9, <3>2, <4>1, <4>3
      <4>. QED BY <4>2, <4>3
    <3>. QED BY <1>8, <3>1, <3>2 DEF Changed
  <2>4. Celled(g, {})
    BY <1>3, <1>7, <1>8, <1>17 DEF Celled, Awaits
  <2>. QED BY <1>2, <1>15, <1>17, <2>1, <2>2, <2>3, <2>4, HostStepKeeps
<1>22. HostKeeps' /\ MadeInv'
  <2>1. HostKeeps'
    BY <1>2, <1>7, <1>8, <1>17 DEF HostKeeps
  <2>. QED BY <1>9, <1>17, <2>1, MadeStays DEF RealInv
<1>. QED BY <1>20, <1>21, <1>22, Zenon DEF RealInv

\* CellAsked: the guest is told all that guests were told of and is there, or waits for it.
LEMMA CellAskedReal ==
    ASSUME ItemsInv, RealInv, NEW g \in Guests, HostReads(g), Head(up[g]).type = "cell"
    PROVE  RealInv'
<1>1. PICK m : m = Head(up[g])
  OBVIOUS
<1>2. /\ AllTypes /\ Ownership /\ GuestReal(g) /\ GuestInv(g) /\ HostKeeps
  BY DEF ItemsInv, Ownership, RealInv
<1>3. Named(g)' \subseteq Named(g)
  BY <1>1, RequestRead
<1>4. OnCellState(g) /\ UNCHANGED <<inv, world, deleted, log, pending, made, forgotten>>
  BY <1>1, Zenon DEF HostReads
<1>5. cells' = (IF loaded THEN cells \ {g} ELSE cells \cup {g}) /\ (~loaded => down' = down)
  BY <1>4, Zenon DEF OnCellState
<1>6. Alive' = Alive /\ (\A k : Waiting(k)' = Waiting(k)) /\ Unanswered(g)' = Unanswered(g)
  <2>1. Unanswered(g)' = Unanswered(g)
    BY <1>1, <1>2, HostReadsRest DEF GuestInv, AsksOwn
  <2>. QED BY <1>4, <2>1, Zenon DEF Alive, Waiting
<1>7. PICK new : new = (IF loaded THEN Alive \cap out ELSE {})
  OBVIOUS
<1>8. Hears(g, {}, {}, new, {}, {}, {}) /\ \A k \in Guests \ {g} : down'[k] = down[k]
  <2>1. CASE loaded
    <3>1. PICK t : t = Rows({}, Alive \cap out)
      OBVIOUS
    <3>2. Alive \cap out \in SUBSET Common /\ DownTypes
      BY <1>2 DEF AllTypes, HostTypes
    <3>3. t \in Applied /\ t.new = new /\ t.gone = {}
      BY <1>7, <2>1, <3>1, <3>2, MessageTypes DEF Rows
    <3>4. CellState = Changes(t)
      BY <3>1, Zenon DEF CellState
    <3>5. down' = [down EXCEPT ![g] = Append(@, Changes(t))]
      BY <1>4, <2>1, <3>4, Zenon DEF OnCellState
    <3>6. Hears(g, {}, {}, t.new, t.gone, {}, {}) /\ \A k \in Guests \ {g} : down'[k] = down[k]
      BY <1>3, <3>2, <3>3, <3>5, HearsRows
    <3>. QED BY <3>3, <3>6, Zenon
  <2>2. CASE ~loaded
    <3>1. down' = down /\ new = {}
      BY <1>5, <1>7, <2>2
    <3>2. /\ Ans(g)' = Ans(g) /\ Grants(g)' = Grants(g) /\ Heard(g)' = Heard(g) /\ Went(g)' = Went(g)
          /\ Got(g)' = Got(g) /\ Plain(g)' = Plain(g) /\ down'[g] = down[g]
      BY <3>1, Zenon DEF Ans, Grants, Heard, Went, Got, Plain
    <3>. QED BY <1>3, <3>1, <3>2 DEF Hears
  <2>. QED BY <2>1, <2>2
<1>9. \A k \in Guests : Ans(k) \subseteq Ans(k)'
  <2>1. \A k \in Guests \ {g} : Ans(k)' = Ans(k)
    BY <1>8, Zenon DEF Ans
  <2>2. Ans(g) \subseteq Ans(g)'
    BY <1>8 DEF Hears
  <2>. QED BY <2>1, <2>2
<1>10. /\ PastStays /\ here' = here /\ out' = out /\ own' = own
       /\ \A k \in Guests : GameStays(k) /\ Queued(k)' = Queued(k)
  BY <1>4, <1>9, ReadReal
<1>11. ASSUME NEW k \in Guests \ {g} PROVE GuestReal(k)'
  <2>1. own[k] \cap (Waiting(k) \cup forgotten) \subseteq Waiting(k)' \cup forgotten'
    BY <1>4, <1>6
  <2>2. k \in cells' <=> k \in cells
    BY <1>5
  <2>. QED BY <1>4, <1>6, <1>8, <1>9, <2>1, <2>2, OthersRead
<1>12. GuestReal(g)'
  <2>1. Answered(g, {}, {})
    BY <1>4, <1>6 DEF Answered
  <2>2. Tells(g, new, {}, {}, {})
    <3>1. new \subseteq out \cap Alive
      BY <1>7
    <3>2. \A q \in new : Past(q)' /\ Past(q)
      BY <1>2, <1>10, <3>1, KnownIsPast DEF PastStays
    <3>3. (Going(g) \cup Went(g)) \cap new = {}
      BY <1>2, <3>1 DEF GuestReal, GoneDead
    <3>. QED BY <1>10, <3>1, <3>2, <3>3 DEF Tells
  <2>3. Changed(g, {}, {})
    BY <1>4, <1>6 DEF Changed
  <2>4. Celled(g, new)
    <3>1. CASE loaded
      BY <1>6, <1>7, <1>10, <3>1 DEF Celled
    <3>2. CASE ~loaded
      BY <1>5, <1>10, <3>2 DEF Celled, Awaits
    <3>. QED BY <3>1, <3>2
  <2>. QED BY <1>2, <1>8, <1>10, <2>1, <2>2, <2>3, <2>4, HostStepKeeps
<1>13. HostKeeps' /\ MadeInv'
  <2>1. HostKeeps'
    BY <1>2, <1>4, <1>6, <1>10, Zenon DEF HostKeeps
  <2>. QED BY <1>4, <1>10, <2>1, MadeStays DEF RealInv
<1>. QED BY <1>11, <1>12, <1>13, Zenon DEF RealInv

\* A game that has nothing, of which nothing is under way.
LEMMA EmptyReal ==
    \A g : /\ up[g] = <<>> /\ down[g] = <<>> /\ tasks[g] = <<>> /\ shown[g] = {} /\ own[g] = {} /\ inv[g] \cap Quest = {}
           /\ g \notin here \/ out = {}
           => GuestReal(g)
<1>1. Sent(<<>>) = {} /\ \A s : ToSet(s) = Sent(s)
  BY ToSetIsSent DEF Sent
<1>2. /\ \A type : Refs(<<>>, type) = {}
      /\ News(<<>>) = {} /\ Bygone(<<>>) = {} /\ Objects(<<>>) = {} /\ Untagged(<<>>) = {}
      /\ \A clash : Orderly(<<>>, clash)
  BY <1>1 DEF Refs, News, Bygone, Objects, Untagged, Orderly
<1>3. ASSUME NEW g, up[g] = <<>>, down[g] = <<>>, tasks[g] = <<>>, shown[g] = {}, own[g] = {}, inv[g] \cap Quest = {},
             g \notin here \/ out = {}
      PROVE  GuestReal(g)
  <2>1. Ans(g) = {} /\ Heard(g) = {} /\ Went(g) = {} /\ Got(g) = {} /\ Plain(g) = {}
    BY <1>2, <1>3, Zenon DEF Ans, Heard, Went, Got, Plain
  <2>2. Queued(g) = {} /\ Going(g) = {} /\ Named(g) = {} /\ Mine(g) = {} /\ Grants(g) = {}
    BY <1>1, <1>3 DEF Queued, Going, Named, Mine, Grants
  <2>3. Public(g) = {}
    BY <2>1, <2>2 DEF Public
  <2>4. OwnGoes(g) /\ NoQuest(g) /\ PublicInv(g) /\ Unowned(g)
    BY <1>3, <2>2, <2>3 DEF OwnGoes, NoQuest, PublicInv, Unowned
  <2>5. InOrder(g)
    BY <1>2, <1>3, <2>2, Zenon DEF InOrder
  <2>6. NewsOut(g) /\ GoneDead(g) /\ MineReal(g) /\ Logged(g) /\ Present(g)
    BY <1>3, <2>1, <2>2 DEF NewsOut, GoneDead, MineReal, Logged, Present
  <2>7. AllTold(g)
    BY <1>3 DEF AllTold
  <2>. QED BY <2>4, <2>5, <2>6, <2>7 DEF GuestReal
<1>. QED BY <1>3

\* The same after a step.
LEMMA EmptyRealNext ==
    (\A g : /\ up[g] = <<>> /\ down[g] = <<>> /\ tasks[g] = <<>> /\ shown[g] = {} /\ own[g] = {} /\ inv[g] \cap Quest = {}
            /\ g \notin here \/ out = {}
            => GuestReal(g))'
BY EmptyReal, PTL

\* What the host's update tells each guest: rows, the cell's state that it waits for, and the answers to its drops.
UpdateGone(g) == IF g \in here THEN Removed ELSE {}
UpdateNew(g) == IF g \notin here THEN {} ELSE IF loaded /\ g \in cells THEN Made \cup (Alive \cap ((out \ Removed) \cup Made)) ELSE Made
UpdateAnswers(g) == {d.ref : d \in {e \in Making : e.player = g}}

\* HostUpdate tells it, and makes the drops that wait for the cell.
LEMMA UpdateTells ==
    ASSUME AllTypes, HostUpdate
    PROVE  /\ \A g \in Guests : Hears(g, UpdateAnswers(g), {}, UpdateNew(g), UpdateGone(g), {}, {})
           /\ out' = (out \ Removed) \cup Made /\ cells' = IF loaded THEN {} ELSE cells
           /\ \E R : /\ R = {d.ref : d \in Making} \cap Common /\ world' = world \cup R /\ log' = R
                     /\ made' = made \cup {<<d.player, d.ref>> : d \in {e \in Making : e.ref \in R}}
           /\ UNCHANGED <<here, inv, drops, deleted, shown, own, created, tasks, up, forgotten>>
<1>. DEFINE rows == Rows(Removed, Made)
            told == IF rows = NoRows THEN down ELSE TellsHere(rows)
            state == Changes(Rows({}, Alive \cap ((out \ Removed) \cup Made)))
            celled == [g \in Guests |-> IF loaded /\ g \in cells THEN Append(told[g], state) ELSE told[g]]
            makes == IF loaded THEN pending ELSE <<>>
            answers(g) == Only(makes, {d \in ToSet(makes) : d.player = g})
            refs == {d.ref : d \in {e \in ToSet(makes) : Of(e.ref) \notin Foreign}}
            says(g) == [n \in DOMAIN answers(g) |-> Dropped(answers(g)[n].ref, answers(g)[n].ref \in refs)]
<1>1. /\ out' = (out \ Removed) \cup Made
      /\ cells' = (IF loaded THEN {} ELSE cells)
      /\ world' = world \cup refs /\ log' = refs
      /\ made' = made \cup {<<d.player, d.ref>> : d \in {e \in ToSet(makes) : e.ref \in refs}}
      /\ down' = [g \in Guests |-> celled[g] \o says(g)]
  BY Zenon DEF HostUpdate, Update
<1>2. /\ here' = here /\ inv' = inv /\ drops' = drops /\ deleted' = deleted /\ shown' = shown /\ own' = own
      /\ created' = created /\ tasks' = tasks /\ up' = up /\ forgotten' = forgotten
  BY UpdateDoes, Zenon DEF HostUpdate, game
<1>3. makes \in Seq(Waitings) /\ ToSet(makes) = Making
  <2>1. CASE loaded
    <3>1. makes = pending /\ Making = Waiters
      BY <2>1, Zenon DEF Making
    <3>2. pending \in Seq(Waitings) /\ ToSet(pending) = Waiters
      BY ToSetIsSent, Zenon DEF AllTypes, RuleTypes, WaitTypes, Waiters
    <3>. HIDE DEF makes
    <3>. QED BY <3>1, <3>2
  <2>2. CASE ~loaded
    <3>1. makes = <<>> /\ Making = {}
      BY <2>2, Zenon DEF Making
    <3>2. <<>> \in Seq(Waitings) /\ ToSet(<<>>) = {}
      BY DEF ToSet
    <3>. HIDE DEF makes
    <3>. QED BY <3>1, <3>2
  <2>. QED BY <2>1, <2>2
<1>4. \A d \in Making : d.ref \in References
  BY WaitersAre DEF Making, AllTypes, RuleTypes
<1>5. refs = {d.ref : d \in Making} \cap Common
  BY <1>3, <1>4 DEF Common
<1>6. PICK N : N = Alive \cap ((out \ Removed) \cup Made)
  OBVIOUS
<1>7. Removed \in SUBSET References /\ Made \in SUBSET Common /\ N \in SUBSET Common
  BY <1>6 DEF Removed, Made, Alive, AllTypes, HostTypes, Common
<1>8. PICK c, e, q : c = Changes(rows) /\ q = Rows({}, N) /\ e = Changes(q)
  OBVIOUS
<1>9. c \in Told /\ NewIn(c) = Made /\ AnswerIn(c) = {} /\ GoneIn(c) = Removed /\ ObjectIn(c) = {} /\ PlainIn(c) = {}
  <2>1. rows \in Applied /\ rows.new = Made /\ rows.gone = Removed
    BY <1>7, MessageTypes DEF Rows
  <2>. HIDE DEF rows
  <2>. QED BY <1>8, <2>1, MessageTypes, NoticesTell
<1>10. e \in Told /\ NewIn(e) = N /\ AnswerIn(e) = {} /\ GoneIn(e) = {} /\ ObjectIn(e) = {} /\ PlainIn(e) = {} /\ e = state
  <2>1. q \in Applied /\ q.new = N /\ q.gone = {}
    BY <1>7, <1>8, MessageTypes DEF Rows
  <2>2. e = state
    BY <1>6, <1>8, Zenon
  <2>. HIDE DEF state
  <2>. QED BY <1>8, <2>1, <2>2, MessageTypes, NoticesTell
<1>11. rows = NoRows => Removed = {} /\ Made = {}
  <2>1. rows.gone = Removed /\ rows.new = Made /\ NoRows.gone = {} /\ NoRows.new = {}
    BY DEF Rows, NoRows
  <2>. HIDE DEF rows
  <2>. QED BY <2>1
<1>12. cells \subseteq here /\ AllTypes'
  BY UpdateDoes DEF AllTypes, RuleTypes
<1>13. ASSUME NEW g \in Guests PROVE Hears(g, UpdateAnswers(g), {}, UpdateNew(g), UpdateGone(g), {}, {})
  <2>1. PICK s, t, u, a, v, z : s = down[g] /\ t = told[g] /\ u = celled[g] /\ a = answers(g) /\ v = says(g) /\ z = down'[g]
    OBVIOUS
  <2>2. s \in Seq(Told) /\ z \in Seq(Told)
    BY <1>12, <2>1 DEF AllTypes, DownTypes
  <2>3. PICK new, gone : new = (IF g \in here THEN Made ELSE {}) /\ gone = UpdateGone(g)
    OBVIOUS
  <2>4. t \in Seq(Told) /\ Adds(s, t, {}, new, gone, {}, {})
    <3>1. t = (IF rows # NoRows /\ g \in here THEN Append(s, c) ELSE s)
      <4>1. TellsHere(rows)[g] = (IF g \in here THEN Append(s, c) ELSE s)
        BY <1>8, <2>1, Zenon DEF TellsHere
      <4>. QED BY <2>1, <4>1, Zenon
    <3>. HIDE DEF rows
    <3>2. CASE rows # NoRows /\ g \in here
      <4>1. Adds(s, Append(s, c), {}, Made, Removed, {}, {}) /\ Append(s, c) \in Seq(Told)
        BY <1>9, <2>2, AddsAppend, AppendFacts, Zenon
      <4>2. t = Append(s, c) /\ new = Made /\ gone = Removed
        BY <2>3, <3>1, <3>2, Zenon DEF UpdateGone
      <4>. QED BY <4>1, <4>2, Zenon
    <3>3. CASE ~(rows # NoRows /\ g \in here)
      <4>1. t = s
        BY <3>1, <3>3, Zenon
      <4>2. new = {} /\ gone = {}
        BY <1>11, <2>3, <3>3 DEF UpdateGone
      <4>. QED BY <2>2, <4>1, <4>2, AddsSame, Zenon
    <3>. QED BY <3>2, <3>3
  <2>5. u \in Seq(Told) /\ Adds(s, u, {}, UpdateNew(g), gone, {}, {})
    <3>1. u = (IF loaded /\ g \in cells THEN Append(t, e) ELSE t)
      BY <1>10, <2>1, Zenon
    <3>2. CASE loaded /\ g \in cells
      <4>1. Append(t, e) \in Seq(Told) /\ Adds(t, Append(t, e), {}, N, {}, {}, {})
        BY <1>10, <2>4, AddsAppend, AppendFacts, Zenon
      <4>2. Adds(s, Append(t, e), {} \cup {}, new \cup N, gone \cup {}, {}, {})
        BY <2>4, <4>1, AddsTrans
      <4>3. new \cup N = UpdateNew(g) /\ gone \cup {} = gone /\ {} \cup {} = {}
        BY <1>6, <1>12, <2>3, <3>2 DEF UpdateNew
      <4>4. u = Append(t, e)
        BY <3>1, <3>2, Zenon
      <4>. QED BY <4>1, <4>2, <4>3, <4>4, Zenon
    <3>3. CASE ~(loaded /\ g \in cells)
      <4>1. new = UpdateNew(g) /\ u = t
        BY <2>3, <3>1, <3>3 DEF UpdateNew
      <4>. QED BY <2>4, <4>1, Zenon
    <3>. QED BY <3>2, <3>3
  <2>6. a \in Seq(Waitings) /\ Sent(a) \subseteq {d \in ToSet(makes) : d.player = g}
    <3>1. /\ Only(makes, {d \in ToSet(makes) : d.player = g}) \in Seq(Waitings)
          /\ Sent(Only(makes, {d \in ToSet(makes) : d.player = g})) \subseteq {d \in ToSet(makes) : d.player = g}
      <4>. HIDE DEF makes
      <4>. QED BY <1>3, OnlyFacts
    <3>. QED BY <2>1, <3>1, Zenon
  <2>7. v = [n \in DOMAIN a |-> Dropped(a[n].ref, a[n].ref \in refs)]
    BY <2>1, Zenon
  <2>8. DOMAIN v = DOMAIN a /\ \A n \in DOMAIN a : v[n].type = "dropped" /\ v[n].ref = a[n].ref
    <3>2. ASSUME NEW n \in DOMAIN a PROVE v[n].type = "dropped" /\ v[n].ref = a[n].ref
      <4>. HIDE DEF refs
      <4>1. v[n] = Dropped(a[n].ref, a[n].ref \in refs)
        BY <2>7, Zenon
      <4>2. PICK o \in BOOLEAN : o = (a[n].ref \in refs)
        <5>1. (a[n].ref \in refs) \in BOOLEAN
          OBVIOUS
        <5>. QED BY <5>1, Zenon
      <4>3. PICK r, d : r = a[n].ref /\ d = v[n]
        OBVIOUS
      <4>4. d = Dropped(r, o)
        BY <4>1, <4>2, <4>3, Zenon
      <4>5. d.type = "dropped" /\ d.ref = r
        BY <4>4 DEF Dropped
      <4>. QED BY <4>3, <4>5, Zenon
    <3>. QED BY <2>7, <3>2, Zenon
  <2>9. z = u \o v
    BY <1>1, <2>1, Zenon
  <2>. HIDE DEF refs
  <2>10. PICK S : S = {v[n] : n \in DOMAIN a}
    OBVIOUS
  <2>11. v \in Seq(S) /\ (\A m \in S : m.type = "dropped") /\ Sent(v) = S
    <3>1. v = [n \in 1 .. Len(a) |-> v[n]] /\ Len(a) \in Nat /\ DOMAIN a = 1 .. Len(a)
      BY <2>6, <2>7, <2>8, LenProperties
    <3>2. Sent(v) = S
      BY <2>8, <2>10 DEF Sent
    <3>. QED BY <2>8, <2>10, <3>1, <3>2
  <2>12. Adds(u, u \o v, {m.ref : m \in S}, {}, {}, {}, {})
    BY <2>2, <2>5, <2>9, <2>11, AddsAnswers
  <2>13. Adds(s, u \o v, {} \cup {m.ref : m \in S}, UpdateNew(g) \cup {}, gone \cup {}, {}, {})
    BY <2>5, <2>12, AddsTrans
  <2>14. Adds(down[g], down'[g], {m.ref : m \in S}, UpdateNew(g), UpdateGone(g), {}, {})
    <3>1. {} \cup {m.ref : m \in S} = {m.ref : m \in S} /\ UpdateNew(g) \cup {} = UpdateNew(g) /\ gone \cup {} = UpdateGone(g)
      BY <2>3
    <3>. QED BY <2>1, <2>9, <2>13, <3>1, Zenon
  <2>15. Ans(g)' = Ans(g) \cup UpdateAnswers(g) /\ Grants(g)' = Grants(g) \cup {}
    <3>1. Grown(g, UpdateAnswers(g), {}, out \cup log)
      BY UpdateDoes, Zenon DEF UpdateAnswers
    <3>. QED BY <3>1, GrownFacts, Zenon
  <2>16. {m.ref : m \in S} \subseteq UpdateAnswers(g)
    <3>1. ASSUME NEW n \in DOMAIN a PROVE v[n].ref \in UpdateAnswers(g)
      <4>1. a[n] \in Sent(a)
        BY DEF Sent
      <4>2. PICK d : d = a[n] /\ d \in ToSet(makes) /\ d.player = g
        BY <2>6, <4>1
      <4>3. d \in Making /\ v[n].ref = d.ref
        BY <1>3, <2>8, <4>2, Zenon
      <4>. QED BY <4>2, <4>3 DEF UpdateAnswers
    <3>. QED BY <2>10, <3>1
  <2>17. Named(g)' = Named(g)
    BY <1>2, Zenon DEF Named
  <2>. QED BY <2>14, <2>15, <2>16, <2>17 DEF Adds, Hears, Heard, Went, Got, Plain
<1>. HIDE DEF rows, told, state, celled, makes, answers, refs, says
<1>14. made' = made \cup {<<d.player, d.ref>> : d \in {k \in Making : k.ref \in refs}}
  BY <1>1, <1>3, Zenon
<1>. QED BY <1>1, <1>2, <1>5, <1>13, <1>14, Zenon

\* HostUpdate: guests that are here are told of what is new and gone, and those that wait are told all.
LEMMA UpdateReal ==
    ASSUME ItemsInv, RealInv, HostUpdate
    PROVE  RealInv'
<1>1. /\ AllTypes /\ Ownership /\ KnownHost /\ WaitsOwned /\ Apart /\ HostKeeps /\ MadeInv
      /\ \A g \in Guests : GuestInv(g) /\ GuestReal(g)
  BY DEF ItemsInv, Ownership, RealInv
<1>2. /\ \A g \in Guests : Hears(g, UpdateAnswers(g), {}, UpdateNew(g), UpdateGone(g), {}, {})
      /\ out' = (out \ Removed) \cup Made /\ cells' = (IF loaded THEN {} ELSE cells)
      /\ UNCHANGED <<here, inv, drops, deleted, shown, own, created, tasks, up, forgotten>>
  BY <1>1, UpdateTells, Zenon
<1>3. PICK R : /\ R = {d.ref : d \in Making} \cap Common /\ world' = world \cup R /\ log' = R
               /\ made' = made \cup {<<d.player, d.ref>> : d \in {e \in Making : e.ref \in R}}
  BY <1>1, UpdateTells, Zenon
<1>4. Making \subseteq Waiters /\ (\A d \in Making : d.player \in Guests) /\ Waiters' = Waiters \ Making
  BY <1>1, UpdateDoes, WaitersAre DEF Making, AllTypes, RuleTypes
<1>5. \A d \in Making : d.ref \in own[d.player] /\ ~Past(d.ref) /\ d.ref \notin deleted /\ d.ref \notin log \cup out
  <2>1. \A d \in Making : d.ref \in own[d.player] /\ ~Past(d.ref) /\ d.ref \notin deleted
    BY <1>1, <1>4, AskedIsNotPast, WaitsAre DEF WaitsOwned
  <2>. QED BY <1>1, <2>1, KnownIsPast
<1>6. \A r \in R : ~Past(r) /\ r \notin log \cup out \cup deleted
  BY <1>3, <1>5
<1>7. Alive' = Alive \cup R
  BY <1>2, <1>3, <1>6 DEF Alive
<1>8. PastStays
  <2>1. drops \in Nat
    BY <1>1, BoundsAssumption DEF AllTypes, PlayerTypes
  <2>2. \A k \in Guests : Ans(k) \subseteq Ans(k)'
    BY <1>2 DEF Hears
  <2>. QED BY <1>2, <2>1, <2>2, PastWithHost
<1>9. ASSUME NEW d \in Making PROVE Past(d.ref)'
  <2>1. d.ref[2] \in 1 .. drops
    BY <1>1, <1>4, <1>5 DEF GuestInv, KnownGuest
  <2>2. \A k \in Guests : d.ref \in own[k] => k = d.player
    BY <1>1, <1>4, <1>5 DEF Apart
  <2>3. d.ref \in UpdateAnswers(d.player)
    BY DEF UpdateAnswers
  <2>4. d.ref \in Ans(d.player)'
    BY <1>2, <1>4, <2>3 DEF Hears
  <2>. QED BY <1>2, <2>1, <2>2, <2>4 DEF Past
<1>10. \A g \in Guests : \A r \in UpdateAnswers(g) : /\ \E d \in Making : d.player = g /\ d.ref = r
                                                     /\ r \in Common => r \in R /\ <<g, r>> \in made'
  BY <1>3 DEF UpdateAnswers
<1>11. HostKeeps'
  <2>1. Alive \subseteq log \cup out /\ log \cap out = {} /\ out' \subseteq log \cup out
    BY <1>1, <1>2 DEF HostKeeps, Made
  <2>2. Alive \subseteq out'
    BY <1>2, <2>1 DEF Made, Removed
  <2>. QED BY <1>3, <1>6, <1>7, <2>1, <2>2 DEF HostKeeps
<1>12. out' \cap Alive' = (out \cap Alive) \cup Made /\ Made = log \cap Alive /\ Removed \subseteq out /\ Removed \cap Alive = {}
  <2>1. Made = log \cap Alive /\ Removed = out \ Alive
    BY DEF Made, Removed
  <2>2. out' = (out \cap Alive) \cup Made
    BY <1>2, <2>1
  <2>. QED BY <1>6, <1>7, <2>1, <2>2
<1>13. ASSUME NEW g \in Guests, g \in here PROVE GuestReal(g)'
  <2>1. GameStays(g) /\ Queued(g)' = Queued(g) /\ Unanswered(g)' = Unanswered(g) /\ (AsksCell(g)' <=> AsksCell(g))
    BY <1>2, Zenon DEF GameStays, Queued, Unanswered, AsksCell
  <2>2. PICK new, gone : new = UpdateNew(g) /\ gone = UpdateGone(g)
    OBVIOUS
  <2>3. gone = Removed /\ Made \subseteq new /\ new \subseteq out' \cap Alive /\ (loaded /\ g \in cells => out' \cap Alive' \subseteq new)
    <3>1. gone = Removed
      BY <1>13, <2>2 DEF UpdateGone
    <3>2. new = Made \/ new = Made \cup (Alive \cap out')
      BY <1>2, <1>13, <2>2 DEF UpdateNew
    <3>3. loaded /\ g \in cells => new = Made \cup (Alive \cap out')
      BY <1>2, <1>13, <2>2 DEF UpdateNew
    <3>. QED BY <1>12, <3>1, <3>2, <3>3
  <2>4. Answered(g, UpdateAnswers(g), {})
    <3>1. Waiting(g) \subseteq Waiting(g)' \cup UpdateAnswers(g)
      BY <1>4, WaitingAre DEF UpdateAnswers
    <3>2. \A r \in UpdateAnswers(g) : ~Past(r) /\ Past(r)'
      BY <1>5, <1>9, <1>10
    <3>3. \A r \in UpdateAnswers(g) \cap Common \cap own[g] : <<g, r>> \in made' /\ r \in log' \cap Alive'
      BY <1>3, <1>7, <1>10
    <3>. QED BY <1>2, <2>1, <3>1, <3>2, <3>3 DEF Answered
  <2>5. Tells(g, new, gone, {}, {})
    <3>1. GoneDead(g)
      BY <1>1 DEF GuestReal
    <3>2. (gone \cap Alive' = {}) /\ new \subseteq out' /\ out \subseteq out' \cup gone /\ (Going(g) \cup Went(g) \cup gone) \cap new = {}
      BY <1>2, <1>6, <1>7, <1>12, <2>3, <3>1 DEF GoneDead
    <3>3. \A r \in new \cup gone : r \in log \cup out
      BY <1>7, <1>12, <2>3
    <3>4. \A r \in new \cup gone : Past(r)' /\ Past(r)
      BY <1>1, <1>8, <3>3, KnownIsPast DEF PastStays
    <3>. QED BY <3>2, <3>4 DEF Tells
  <2>6. Changed(g, UpdateAnswers(g), {})
    <3>1. \A r \in log' \cap Alive' : ~Past(r) /\ (r \in UpdateAnswers(g) => <<g, r>> \in made')
      BY <1>3, <1>6, <1>10
    <3>2. \A r \in log \cap Alive : r \in out'
      BY <1>2, <1>12
    <3>3. \A r \in Alive' \ Alive : ~Past(r)
      BY <1>6, <1>7
    <3>. QED BY <3>1, <3>2, <3>3 DEF Changed
  <2>7. Celled(g, new)
    <3>1. CASE loaded /\ g \in cells
      BY <1>2, <2>3, <3>1 DEF Celled
    <3>2. CASE ~(loaded /\ g \in cells)
      <4>1. g \in cells' <=> g \in cells
        BY <1>2, <3>2
      <4>. QED BY <1>2, <1>12, <2>1, <2>3, <4>1 DEF Celled, Awaits
    <3>. QED BY <3>1, <3>2
  <2>8. Hears(g, UpdateAnswers(g), {}, new, gone, {}, {})
    BY <1>2, <2>2
  <2>. QED BY <1>1, <1>8, <2>1, <2>4, <2>5, <2>6, <2>7, <2>8, HostStepKeeps
<1>14. ASSUME NEW g \in Guests, g \notin here PROVE GuestReal(g)'
  <2>1. AllTypes' /\ g \notin here'
    BY <1>1, <1>2, <1>14, UpdateDoes
  <2>2. up'[g] = <<>> /\ down'[g] = <<>> /\ tasks'[g] = <<>>
    BY <2>1 DEF AllTypes, Away
  <2>3. shown[g] = {} /\ own[g] = {} /\ inv[g] \cap Quest = {}
    BY <1>1, <1>14 DEF GuestInv, OwnShown, GuestReal, Present, NoQuest
  <2>. QED BY <1>2, <2>1, <2>2, <2>3, EmptyRealNext
<1>15. MadeInv'
  <2>1. ASSUME NEW d \in made' PROVE d \in made \/ \E e \in Making : e.ref \in R /\ d = <<e.player, e.ref>> /\ d[2] = e.ref
    BY <1>3
  <2>2. \A d \in made : ~(d[2] \in R) /\ Past(d[2])' /\ Of(d[2]) \notin Quest
    BY <1>1, <1>6, <1>8 DEF MadeInv, PastStays
  <2>3. \A e \in Making : Of(e.ref) \notin Quest
    BY <1>1, <1>4, <1>5 DEF GuestReal, NoQuest
  <2>4. \A d \in made' : Past(d[2])' /\ Of(d[2]) \notin Quest
    BY <1>9, <2>1, <2>2, <2>3
  <2>5. ASSUME NEW d \in made', NEW e \in made', d[2] = e[2] PROVE d = e
    <3>1. CASE d \in made /\ e \in made
      BY <1>1, <2>5, <3>1 DEF MadeInv
    <3>2. CASE ~(d \in made /\ e \in made)
      <4>1. d \notin made /\ e \notin made
        BY <2>1, <2>2, <2>5, <3>2
      <4>2. PICK x \in Making : d = <<x.player, x.ref>> /\ d[2] = x.ref
        BY <2>1, <4>1
      <4>3. PICK y \in Making : e = <<y.player, y.ref>> /\ e[2] = y.ref
        BY <2>1, <4>1
      <4>4. x = y
        BY <1>1, <1>4, <2>5, <4>2, <4>3, WaiterOnce DEF WaitsOwned
      <4>. QED BY <4>2, <4>3, <4>4
    <3>. QED BY <3>1, <3>2
  <2>. QED BY <2>4, <2>5 DEF MadeInv
<1>. QED BY <1>11, <1>13, <1>14, <1>15 DEF RealInv

\* While only new references are dropped, and what is answered leaves the drops, what is past stays it.
LEMMA PastWithGuest ==
    ASSUME drops \in Nat, drops' \in {drops, drops + 1},
           \A k \in Guests : \A r \in own'[k] : r[2] \notin 1 .. drops \/ (r \in own[k] /\ (r \in Ans(k) => r \in Ans(k)'))
    PROVE  PastStays
<1>1. \A n : n \in 1 .. drops => n \in 1 .. drops'
  OBVIOUS
<1>. QED BY <1>1 DEF PastStays, Past

\* A game that is told nothing, and applies none of what it was told.
LEMMA ToldNothing ==
    ASSUME NEW g, down'[g] = down[g], tasks'[g] = tasks[g]
    PROVE  /\ Ans(g)' = Ans(g) /\ Grants(g)' = Grants(g) /\ Heard(g)' = Heard(g) /\ Went(g)' = Went(g)
           /\ Got(g)' = Got(g) /\ Plain(g)' = Plain(g) /\ Queued(g)' = Queued(g) /\ Going(g)' = Going(g)
           /\ (InOrder(g) => InOrder(g)')
BY Zenon DEF Ans, Grants, Heard, Went, Got, Plain, Queued, Going, InOrder

\* A guest's player, or its game, acts: no step of it concerns what the other games show.
LEMMA GuestActs ==
    ASSUME ItemsInv, RealInv, NEW g \in Guests, PastStays, UNCHANGED <<world, deleted, log, out, forgotten>>, made' \subseteq made,
           \A k \in Guests \ {g} :
              /\ GameStays(k) /\ up'[k] = up[k] /\ down'[k] = down[k] /\ Waiting(k) \subseteq Waiting(k)'
              /\ (k \in here' <=> k \in here) /\ (k \in cells' <=> k \in cells) /\ \A r : <<k, r>> \in made => <<k, r>> \in made',
           GuestReal(g)'
    PROVE  RealInv'
<1>1. Alive' = Alive /\ Ownership
  BY Zenon DEF Alive, ItemsInv
<1>2. HostKeeps'
  BY <1>1, Zenon DEF RealInv, HostKeeps
<1>3. MadeInv'
  BY MadeStays DEF RealInv
<1>4. ASSUME NEW k \in Guests \ {g} PROVE GuestReal(k)'
  <2>1. /\ GuestReal(k) /\ GameStays(k) /\ up'[k] = up[k] /\ down'[k] = down[k] /\ Waiting(k) \subseteq Waiting(k)'
        /\ (k \in here' <=> k \in here) /\ (k \in cells' <=> k \in cells) /\ \A r : <<k, r>> \in made => <<k, r>> \in made'
    BY Zenon DEF RealInv
  <2>2. own[k] \cap (Waiting(k) \cup forgotten) \subseteq Waiting(k)' \cup forgotten'
    BY <2>1
  <2>3. /\ \A r \in Alive' \ Alive : ~Past(r)
        /\ \A r \in log' \cap Alive' : Past(r) => r \in log \cap Alive
        /\ \A r \in log \cap Alive : <<k, r>> \in made => <<k, r>> \in made' /\ r \in log' \cap Alive'
    BY <1>1, <2>1
  <2>. QED BY <1>1, <2>1, <2>2, <2>3, OthersReal
<1>. QED BY <1>2, <1>3, <1>4, Zenon DEF RealInv

\* What it is told of and has moves on, its own asks and drops are of what it has, and nothing of it is lost.
LEMMA GuestStepKeeps ==
    ASSUME NEW g \in Guests, GuestReal(g), HostKeeps, PastStays, UNCHANGED <<world, deleted, log, out, made>>,
           OwnGoes(g)', NoQuest(g)', Unowned(g)', InOrder(g)', Plain(g)' \subseteq Plain(g),
           Went(g)' \cup Going(g)' \cup Got(g)' \subseteq Went(g) \cup Going(g) \cup Got(g),
           \A q \in Heard(g)' \cup Queued(g)' :
              q \in Heard(g) \cup Queued(g) /\ (q \in Went(g) \cup Going(g) => q \in Went(g)' \cup Going(g)'),
           \A q \in Mine(g)' \cup (Ans(g)' \cap Common \cap own'[g]) :
              /\ q \in Mine(g) \cup (Ans(g) \cap Common \cap own[g]) \cup Queued(g)
              /\ q \in Went(g) \cup Going(g) \cup Got(g) => q \in Went(g)' \cup Going(g)' \cup Got(g)',
           Mine(g)' \cup Ans(g)' \cup Named(g)' \subseteq Mine(g) \cup Ans(g) \cup Named(g) \cup Queued(g),
           g \in here' /\ ~Awaits(g)' => g \in here /\ ~Awaits(g),
           (Mine(g) \cup Heard(g) \cup Queued(g)) \cap Alive \subseteq Mine(g)' \cup Heard(g)' \cup Queued(g)',
           g \notin here' => shown'[g] = {}
    PROVE  GuestReal(g)'
<1>1. Alive' = Alive
  BY Zenon DEF Alive
<1>2. PublicInv(g)'
  <2>1. Public(g)' \subseteq Public(g)
    BY DEF Public
  <2>. QED BY <2>1 DEF GuestReal, PublicInv, PastStays
<1>3. NewsOut(g)'
  BY DEF GuestReal, NewsOut
<1>4. GoneDead(g)'
  BY <1>1 DEF GuestReal, GoneDead
<1>5. MineReal(g)'
  <2>1. ASSUME NEW q \in Mine(g)' \cup (Ans(g)' \cap Common \cap own'[g]) PROVE Real(g, q)'
    <3>1. Real(g, q)
      BY <2>1 DEF GuestReal, MineReal, NewsOut, Real
    <3>. QED BY <1>1, <2>1, <3>1 DEF Real
  <2>. QED BY <2>1 DEF MineReal
<1>6. Logged(g)'
  <2>1. ASSUME NEW q \in log' \cap Alive', q \in Ans(g)' \cup Named(g)' \cup Mine(g)' PROVE <<g, q>> \in made'
    <3>1. q \notin Queued(g)
      BY <1>1, <2>1 DEF GuestReal, NewsOut, GoneDead, HostKeeps
    <3>. QED BY <1>1, <2>1, <3>1 DEF GuestReal, Logged
  <2>. QED BY <2>1 DEF Logged
<1>7. AllTold(g)'
  BY <1>1 DEF GuestReal, AllTold
<1>8. Present(g)'
  BY DEF Present
<1>. QED BY <1>2, <1>3, <1>4, <1>5, <1>6, <1>7, <1>8 DEF GuestReal

\* A request is sent.
LEMMA AsksMore ==
    ASSUME UpTypes, NEW g \in Guests, NEW m \in Posted, Asks(g, m)
    PROVE  /\ Named(g)' = Named(g) \cup (IF m.type = "take" /\ ~m.tagged THEN {m.ref} ELSE {})
           /\ AsksCell(g)' <=> AsksCell(g) \/ m.type = "cell"
           /\ \A k \in Guests \ {g} : up'[k] = up[k]
<1>1. PICK s, t : s = up[g] /\ t = Append(s, m) /\ s \in Seq(Posted)
  BY Zenon DEF UpTypes
<1>2. Sent(t) = Sent(s) \cup {m}
  BY <1>1, SentAppend
<1>3. up'[g] = t /\ \A k \in Guests \ {g} : up'[k] = up[k]
  BY <1>1 DEF UpTypes, Asks
<1>4. Sent(up[g]) = Sent(s) /\ Sent(up'[g]) = Sent(t)
  BY <1>1, <1>3, Zenon
<1>5. m.type = "take" => m.ref \in References
  BY DEF Posted
<1>6. Named(g)' = Named(g) \cup (IF m.type = "take" /\ ~m.tagged THEN {m.ref} ELSE {})
  BY <1>2, <1>4, <1>5 DEF Named
<1>7. AsksCell(g)' <=> AsksCell(g) \/ m.type = "cell"
  BY <1>2, <1>4 DEF AsksCell
<1>. QED BY <1>3, <1>6, <1>7

\* GuestDrops: nobody was told of its new reference.
LEMMA GuestDropsReal ==
    ASSUME ItemsInv, RealInv, NEW g \in Guests, NEW i \in Items, GuestDrops(g, i)
    PROVE  RealInv'
<1>1. /\ g \in here /\ UNCHANGED <<here, world, deleted, log, out, pending, made, cells, created, tasks, down, forgotten>>
  BY Zenon DEF GuestDrops, MaySend, host, rule, history
<1>2. PICK r \in References : /\ Of(r) = i /\ r[2] = drops + 1 /\ drops' = drops + 1
                              /\ shown' = [shown EXCEPT ![g] = @ \cup {Own(r)}] /\ own' = [own EXCEPT ![g] = @ \cup {r}]
                              /\ Asks(g, Request("drop", r, TRUE))
  <2>1. PICK r : r = <<i, drops + 1>>
    OBVIOUS
  <2>2. drops + 1 \in 1 .. MaxDrops
    BY BoundsAssumption DEF GuestDrops, ItemsInv, AllTypes, PlayerTypes
  <2>3. r \in References /\ Of(r) = i /\ r[2] = drops + 1
    BY <2>1, <2>2, Pairs
  <2>4. /\ shown' = [shown EXCEPT ![g] = @ \cup {Own(r)}] /\ own' = [own EXCEPT ![g] = @ \cup {r}]
        /\ Asks(g, Request("drop", r, TRUE)) /\ drops' = drops + 1
    BY <2>1, Zenon DEF GuestDrops
  <2>. QED BY <2>3, <2>4, Zenon
<1>3. /\ AllTypes /\ GuestInv(g) /\ GuestReal(g) /\ HostKeeps /\ drops \in Nat
      /\ \A k \in Guests : KnownGuest(k)
  BY BoundsAssumption DEF ItemsInv, AllTypes, PlayerTypes, Ownership, GuestInv, RealInv
<1>4. /\ shown'[g] = shown[g] \cup {Own(r)} /\ own'[g] = own[g] \cup {r}
      /\ \A k \in Guests \ {g} : shown'[k] = shown[k] /\ own'[k] = own[k]
  BY <1>2, <1>3 DEF AllTypes, GameTypes
<1>5. /\ i \in inv[g] /\ inv'[g] = inv[g] \ {i} /\ \A k \in Guests \ {g} : inv'[k] = inv[k]
  BY <1>3 DEF GuestDrops, AllTypes, PlayerTypes, Players
<1>6. /\ Unanswered(g)' = Unanswered(g) \cup {r} /\ Named(g)' = Named(g) /\ (AsksCell(g)' <=> AsksCell(g))
      /\ \A k \in Guests \ {g} : up'[k] = up[k]
  <2>1. PICK m : m = Request("drop", r, TRUE)
    OBVIOUS
  <2>2. m \in Posted /\ m.type = "drop" /\ m.ref = r
    BY <2>1, MessageTypes
  <2>. QED BY <1>2, <1>3, <2>1, <2>2, AsksMore, UpAsks DEF AllTypes
<1>7. ~Past(r) /\ r \notin Ans(g)
  BY <1>2, <1>3 DEF KnownGuest, Past
<1>8. \A k \in Guests : down'[k] = down[k] /\ tasks'[k] = tasks[k] /\ created'[k] = created[k] /\ Waiting(k)' = Waiting(k)
  BY <1>1, Zenon DEF Waiting
<1>9. \A k \in Guests : Ans(k)' = Ans(k)
  BY <1>8, ToldNothing
<1>10. PastStays
  <2>1. r[2] \notin 1 .. drops
    BY <1>2, <1>3
  <2>. QED BY <1>2, <1>3, <1>4, <1>9, <2>1, PastWithGuest
<1>11. Mine(g)' = Mine(g)
  <2>1. Own(r) \notin created[g]
    BY <1>2, <1>3, Pairs DEF KnownGuest
  <2>. QED BY <1>4, <1>8, <2>1 DEF Mine
<1>12. /\ Grants(g)' = Grants(g) /\ Heard(g)' = Heard(g) /\ Went(g)' = Went(g) /\ Ans(g)' = Ans(g)
       /\ Got(g)' = Got(g) /\ Plain(g)' = Plain(g) /\ Queued(g)' = Queued(g) /\ Going(g)' = Going(g) /\ InOrder(g)'
  BY <1>3, <1>8, ToldNothing DEF GuestReal
<1>13. OwnGoes(g)'
  BY <1>1, <1>3, <1>4, <1>6, <1>8, <1>12 DEF GuestReal, OwnGoes
<1>14. NoQuest(g)'
  BY <1>2, <1>3, <1>4, <1>5, <1>12 DEF GuestReal, NoQuest
<1>15. Unowned(g)'
  <2>1. r \notin Public(g)
    BY <1>3, <1>7 DEF GuestReal, PublicInv
  <2>. QED BY <1>3, <1>4, <1>6, <1>12, <2>1 DEF GuestReal, Unowned, Public
<1>16. Awaits(g)' <=> Awaits(g)
  BY <1>1, <1>6 DEF Awaits
<1>17. GuestReal(g)'
  <2>1. Ans(g)' \cap Common \cap own'[g] = Ans(g) \cap Common \cap own[g]
    BY <1>4, <1>7, <1>12
  <2>. QED BY <1>1, <1>3, <1>6, <1>10, <1>11, <1>12, <1>13, <1>14, <1>15, <1>16, <2>1, GuestStepKeeps
<1>18. \A k \in Guests \ {g} : GameStays(k)
  BY <1>4, <1>5, <1>8 DEF GameStays
<1>. QED BY <1>1, <1>6, <1>8, <1>10, <1>17, <1>18, GuestActs

\* GuestAsks: by its object, it asks for what its game has as the host's.
LEMMA GuestAsksReal ==
    ASSUME ItemsInv, RealInv, NEW g \in Guests, NEW h \in shown[g], GuestAsks(g, h)
    PROVE  RealInv'
<1>1. UNCHANGED <<here, inv, drops, world, deleted, log, out, pending, made, cells, shown, own, created, tasks, down, forgotten>>
  BY Zenon DEF GuestAsks, host, rule, game, history
<1>2. /\ AllTypes /\ GuestInv(g) /\ GuestReal(g) /\ HostKeeps /\ drops \in Nat
  BY BoundsAssumption DEF ItemsInv, AllTypes, PlayerTypes, Ownership, RealInv
<1>3. PICK r, tagged : r = h[1] /\ tagged \in BOOLEAN /\ (tagged <=> IsOwn(g, h))
  <2>1. \E b \in BOOLEAN : b <=> IsOwn(g, h)
    BY DEF IsOwn
  <2>. QED BY <2>1
<1>4. r \in References
  BY <1>2, <1>3, Pairs DEF AllTypes, GameTypes
<1>5. /\ Unanswered(g)' = Unanswered(g) /\ Named(g)' = Named(g) \cup (IF tagged THEN {} ELSE {r}) /\ (AsksCell(g)' <=> AsksCell(g))
      /\ \A k \in Guests \ {g} : up'[k] = up[k]
  <2>1. PICK m : m = Request("take", r, tagged)
    OBVIOUS
  <2>2. m \in Posted /\ m.type = "take" /\ m.ref = r /\ m.tagged = tagged
    <3>1. m \in Posted /\ m.type = "take"
      BY <1>3, <1>4, <2>1, MessageTypes
    <3>2. m.ref = r /\ m.tagged = tagged
      BY <2>1, Zenon DEF Request
    <3>. QED BY <3>1, <3>2
  <2>3. Asks(g, m)
    <3>1. Asks(g, Request("take", h[1], IsOwn(g, h)))
      BY Zenon DEF GuestAsks
    <3>2. IsOwn(g, h) = tagged
      BY <1>3 DEF IsOwn
    <3>. QED BY <1>3, <2>1, <3>1, <3>2, Zenon
  <2>. QED BY <1>2, <2>2, <2>3, AsksMore, UpAsks DEF AllTypes
<1>6. ~tagged => r \in Mine(g) /\ r \notin own[g]
  <2>1. ~tagged => h \in created[g]
    BY <1>3 DEF GuestAsks, IsPartyItem
  <2>. QED BY <1>2, <1>3, <2>1 DEF Mine, GuestInv, OwnUnnamed
<1>7. \A k \in Guests : /\ down'[k] = down[k] /\ tasks'[k] = tasks[k] /\ GameStays(k) /\ Waiting(k)' = Waiting(k)
  BY <1>1, Zenon DEF Waiting, GameStays
<1>8. \A k \in Guests : Ans(k)' = Ans(k)
  BY <1>7, ToldNothing
<1>9. PastStays
  BY <1>1, <1>2, <1>8, PastWithGuest
<1>10. Mine(g)' = Mine(g)
  BY <1>1, Zenon DEF Mine
<1>11. /\ Grants(g)' = Grants(g) /\ Heard(g)' = Heard(g) /\ Went(g)' = Went(g) /\ Ans(g)' = Ans(g)
       /\ Got(g)' = Got(g) /\ Plain(g)' = Plain(g) /\ Queued(g)' = Queued(g) /\ Going(g)' = Going(g) /\ InOrder(g)'
  BY <1>2, <1>7, ToldNothing DEF GuestReal
<1>12. OwnGoes(g)'
  BY <1>1, <1>2, <1>5, <1>7, <1>11 DEF GuestReal, OwnGoes
<1>13. NoQuest(g)'
  BY <1>1, <1>2, <1>11 DEF GuestReal, NoQuest
<1>14. Unowned(g)'
  BY <1>1, <1>2, <1>5, <1>6, <1>11 DEF GuestReal, Unowned
<1>15. Awaits(g)' <=> Awaits(g)
  BY <1>1, <1>5 DEF Awaits
<1>16. GuestReal(g)'
  <2>1. Mine(g)' \cup Ans(g)' \cup Named(g)' \subseteq Mine(g) \cup Ans(g) \cup Named(g) \cup Queued(g)
    BY <1>5, <1>6, <1>10, <1>11
  <2>2. g \notin here' => shown'[g] = {}
    BY <1>1, <1>2 DEF GuestReal, Present
  <2>. QED BY <1>1, <1>2, <1>9, <1>10, <1>11, <1>12, <1>13, <1>14, <1>15, <2>1, <2>2, GuestStepKeeps
<1>. QED BY <1>1, <1>5, <1>7, <1>9, <1>16, GuestActs

\* GuestPicksUp: its game's alone, so no quest's.
LEMMA GuestPicksUpReal ==
    ASSUME ItemsInv, RealInv, NEW g \in Guests, NEW h \in shown[g], GuestPicksUp(g, h)
    PROVE  RealInv'
<1>1. /\ g \in here
      /\ UNCHANGED <<here, drops, world, deleted, log, out, pending, made, cells, own, created, tasks, up, down, forgotten>>
  BY Zenon DEF GuestPicksUp, host, rule, history
<1>2. /\ AllTypes /\ GuestInv(g) /\ GuestReal(g) /\ HostKeeps /\ drops \in Nat
      /\ WaitsOwned /\ Apart /\ \A k \in Guests : GuestInv(k)
  BY BoundsAssumption DEF ItemsInv, AllTypes, PlayerTypes, Ownership, RealInv
<1>3. /\ ~(h[1] \in own[g] /\ h[2] = "drop") /\ h \notin created[g]
      /\ shown' = [shown EXCEPT ![g] = @ \ {h}] /\ inv' = [inv EXCEPT ![g] = @ \cup {Of(h[1])}]
  BY <1>2, GuestPicksUpDoes, Zenon
<1>4. Of(h[1]) \notin Quest
  <2>1. h[1] \in References \ Common
    BY <1>2, <1>3, AloneIsTaken
  <2>. QED BY <2>1, ItemsAssumption DEF Common
<1>5. /\ shown'[g] = shown[g] \ {h} /\ inv'[g] = inv[g] \cup {Of(h[1])}
      /\ \A k \in Guests \ {g} : shown'[k] = shown[k] /\ inv'[k] = inv[k]
  BY <1>2, <1>3 DEF AllTypes, GameTypes, PlayerTypes, Players
<1>6. \A k \in Guests : /\ down'[k] = down[k] /\ tasks'[k] = tasks[k] /\ up'[k] = up[k] /\ own'[k] = own[k]
                         /\ created'[k] = created[k] /\ Waiting(k)' = Waiting(k)
  BY <1>1, Zenon DEF Waiting
<1>7. \A k \in Guests : Ans(k)' = Ans(k)
  BY <1>6, ToldNothing
<1>8. PastStays
  BY <1>1, <1>2, <1>7, PastWithGuest
<1>9. Mine(g)' = Mine(g)
  BY <1>3, <1>5, <1>6 DEF Mine
<1>10. /\ Grants(g)' = Grants(g) /\ Heard(g)' = Heard(g) /\ Went(g)' = Went(g) /\ Ans(g)' = Ans(g)
       /\ Got(g)' = Got(g) /\ Plain(g)' = Plain(g) /\ Queued(g)' = Queued(g) /\ Going(g)' = Going(g) /\ InOrder(g)'
  BY <1>2, <1>6, ToldNothing DEF GuestReal
<1>11. Named(g)' = Named(g) /\ (AsksCell(g)' <=> AsksCell(g)) /\ Unanswered(g)' = Unanswered(g)
  BY <1>6, HearsNothing
<1>12. OwnGoes(g)' /\ Unowned(g)'
  BY <1>1, <1>2, <1>6, <1>10, <1>11 DEF GuestReal, OwnGoes, Unowned
<1>13. NoQuest(g)'
  BY <1>2, <1>4, <1>5, <1>6, <1>10 DEF GuestReal, NoQuest
<1>14. Awaits(g)' <=> Awaits(g)
  BY <1>1, <1>11 DEF Awaits
<1>15. GuestReal(g)'
  BY <1>1, <1>2, <1>6, <1>8, <1>9, <1>10, <1>11, <1>12, <1>13, <1>14, GuestStepKeeps
<1>16. \A k \in Guests \ {g} : GameStays(k)
  BY <1>5, <1>6 DEF GameStays
<1>. QED BY <1>1, <1>6, <1>8, <1>15, <1>16, GuestActs

\* Join: it has nothing, and waits for the cell's state.
LEMMA JoinReal ==
    ASSUME ItemsInv, RealInv, NEW g \in Guests, Join(g)
    PROVE  RealInv'
<1>1. /\ here' = here \cup {g} /\ Asks(g, Request("cell", NoReference, FALSE))
      /\ UNCHANGED <<inv, drops, world, deleted, log, out, pending, made, cells, shown, own, created, tasks, down, forgotten>>
  BY Zenon DEF Join, host, rule, game, history
<1>2. AllTypes /\ GuestReal(g) /\ HostKeeps /\ drops \in Nat
  BY BoundsAssumption DEF ItemsInv, AllTypes, PlayerTypes, RealInv
<1>3. /\ Unanswered(g)' = Unanswered(g) /\ Named(g)' = Named(g) /\ AsksCell(g)'
      /\ \A k \in Guests \ {g} : up'[k] = up[k]
  <2>1. PICK m : m = Request("cell", NoReference, FALSE)
    OBVIOUS
  <2>2. m \in Posted /\ m.type = "cell"
    BY <2>1, MessageTypes
  <2>. QED BY <1>1, <1>2, <2>1, <2>2, AsksMore, UpAsks DEF AllTypes
<1>4. \A k \in Guests : /\ down'[k] = down[k] /\ tasks'[k] = tasks[k] /\ GameStays(k) /\ Waiting(k)' = Waiting(k)
  BY <1>1, Zenon DEF Waiting, GameStays
<1>5. \A k \in Guests : Ans(k)' = Ans(k)
  BY <1>4, ToldNothing
<1>6. PastStays
  BY <1>1, <1>2, <1>5, PastWithGuest
<1>7. Mine(g)' = Mine(g)
  BY <1>1, Zenon DEF Mine
<1>8. /\ Grants(g)' = Grants(g) /\ Heard(g)' = Heard(g) /\ Went(g)' = Went(g) /\ Ans(g)' = Ans(g)
      /\ Got(g)' = Got(g) /\ Plain(g)' = Plain(g) /\ Queued(g)' = Queued(g) /\ Going(g)' = Going(g) /\ InOrder(g)'
  BY <1>2, <1>4, ToldNothing DEF GuestReal
<1>9. OwnGoes(g)' /\ Unowned(g)' /\ NoQuest(g)'
  BY <1>1, <1>2, <1>3, <1>4, <1>8 DEF GuestReal, OwnGoes, Unowned, NoQuest
<1>10. Awaits(g)' /\ g \in here'
  BY <1>1, <1>3 DEF Awaits
<1>11. GuestReal(g)'
  BY <1>1, <1>2, <1>3, <1>6, <1>7, <1>8, <1>9, <1>10, GuestStepKeeps
<1>12. \A k \in Guests \ {g} : k \in here' <=> k \in here
  BY <1>1
<1>. QED BY <1>1, <1>3, <1>4, <1>6, <1>11, <1>12, GuestActs

\* A game reads a notice: what it told is under way no more; the host's game and rule stay as they are.
LEMMA NoticeRead ==
    ASSUME ItemsInv, RealInv, NEW g \in Guests, GuestReads(g), NEW m, m = Head(down[g])
    PROVE  /\ Heard(g) = Heard(g)' \cup NewIn(m) /\ Went(g) = Went(g)' \cup GoneIn(m)
           /\ Got(g) = Got(g)' \cup ObjectIn(m) /\ Plain(g) = Plain(g)' \cup PlainIn(m)
           /\ Orderly(down'[g], Undone) /\ GoneIn(m) \cap (Heard(g) \cup Ans(g)) = {}
           /\ Named(g)' = Named(g) /\ (Awaits(g)' <=> Awaits(g)) /\ Unanswered(g)' = Unanswered(g) /\ m \in Told
           /\ (\A k \in Guests : up'[k] = up[k] /\ Waiting(k)' = Waiting(k)) /\ (\A k \in Guests \ {g} : down'[k] = down[k])
           /\ g \in here /\ UNCHANGED <<here, drops, world, deleted, log, out, pending, made, cells, forgotten>>
<1>1. AllTypes /\ GuestReal(g)
  BY DEF ItemsInv, RealInv
<1>2. /\ down[g] # <<>> /\ down' = [down EXCEPT ![g] = Tail(@)]
      /\ UNCHANGED <<here, drops, world, deleted, log, out, pending, made, cells, forgotten, up>>
  BY Zenon DEF GuestReads, host, rule, history
<1>3. PICK s, t : s = down[g] /\ t = Tail(s) /\ s \in Seq(Told) /\ s # <<>> /\ m = Head(s)
  BY <1>1, <1>2, Zenon DEF AllTypes, DownTypes
<1>4. down'[g] = t /\ \A k \in Guests \ {g} : down'[k] = down[k]
  BY <1>1, <1>2, <1>3 DEF AllTypes, DownTypes
<1>5. /\ Heard(g) = News(s) /\ Heard(g)' = News(t) /\ Went(g) = Bygone(s) /\ Went(g)' = Bygone(t)
      /\ Got(g) = Objects(s) /\ Got(g)' = Objects(t) /\ Plain(g) = Untagged(s) /\ Plain(g)' = Untagged(t)
      /\ Ans(g) = Refs(s, "dropped")
      /\ Orderly(down[g], Undone) = Orderly(s, Undone) /\ Orderly(down'[g], Undone) = Orderly(t, Undone)
  BY <1>3, <1>4, Zenon DEF Heard, Went, Got, Plain, Ans
<1>6. /\ News(s) = News(t) \cup NewIn(m) /\ Bygone(s) = Bygone(t) \cup GoneIn(m)
      /\ Objects(s) = Objects(t) \cup ObjectIn(m) /\ Untagged(s) = Untagged(t) \cup PlainIn(m)
      /\ Orderly(s, Undone) => Orderly(t, Undone) /\ GoneIn(m) \cap (News(s) \cup Refs(s, "dropped")) = {}
  BY <1>3, AddsRead
<1>7. Named(g)' = Named(g) /\ (Awaits(g)' <=> Awaits(g)) /\ Unanswered(g)' = Unanswered(g)
  BY <1>2, Zenon DEF Named, Awaits, AsksCell, Unanswered
<1>8. \A k \in Guests : up'[k] = up[k] /\ Waiting(k)' = Waiting(k)
  BY <1>2, Zenon DEF Waiting
<1>9. m \in Told /\ g \in here
  BY <1>1, <1>2, <1>3, SentRead DEF AllTypes, Away
<1>. QED BY <1>1, <1>2, <1>4, <1>5, <1>6, <1>7, <1>8, <1>9 DEF GuestReal, InOrder

\* What a notice that is no object changes tells.
LEMMA NoRowsIn ==
    \A m : /\ m.type = "dropped" => NewIn(m) = {} /\ GoneIn(m) = {} /\ ObjectIn(m) = {} /\ PlainIn(m) = {}
           /\ m.type = "pickup" => NewIn(m) = {} /\ GoneIn(m) = {} /\ AnswerIn(m) = {}
           /\ m.type = "changes" => ObjectIn(m) = {} /\ PlainIn(m) = {} /\ AnswerIn(m) = {}
BY DEF NewIn, GoneIn, ObjectIn, PlainIn, AnswerIn

\* A drop answered: made, it becomes what the game has as the host's; not made, it stays its own.
LEMMA AdoptDropReal ==
    ASSUME ItemsInv, RealInv, NEW g \in Guests, GuestReads(g), Head(down[g]).type = "dropped"
    PROVE  RealInv'
<1>1. PICK m : m = Head(down[g])
  OBVIOUS
<1>2. /\ Heard(g) = Heard(g)' \cup NewIn(m) /\ Went(g) = Went(g)' \cup GoneIn(m)
      /\ Got(g) = Got(g)' \cup ObjectIn(m) /\ Plain(g) = Plain(g)' \cup PlainIn(m)
      /\ Orderly(down'[g], Undone)
      /\ Named(g)' = Named(g) /\ (Awaits(g)' <=> Awaits(g)) /\ Unanswered(g)' = Unanswered(g)
      /\ (\A k \in Guests : up'[k] = up[k] /\ Waiting(k)' = Waiting(k)) /\ (\A k \in Guests \ {g} : down'[k] = down[k])
      /\ g \in here /\ UNCHANGED <<here, drops, world, deleted, log, out, pending, made, cells, forgotten>>
  BY <1>1, NoticeRead
<1>3. /\ AllTypes /\ GuestInv(g) /\ GuestReal(g) /\ HostKeeps /\ drops \in Nat
  BY BoundsAssumption DEF ItemsInv, AllTypes, PlayerTypes, Ownership, RealInv
<1>4. PICK r \in References :
                 /\ r \in Ans(g) /\ Ans(g) \subseteq Ans(g)' \cup {r} /\ HeardEarly(g)' \subseteq HeardEarly(g) \cup {r}
                 /\ GrantsOnce(g) => GrantsOnce(g)' /\ Grants(g)' = Grants(g)
                 /\ own' = [own EXCEPT ![g] = @ \ {r}]
                 /\ created' = IF r \in Common /\ r \in own[g] /\ Own(r) \in shown[g]
                               THEN [created EXCEPT ![g] = Naming(@, {Own(r)})] ELSE created
  BY <1>3, AdoptDropDoes, Zenon
<1>5. inv' = inv /\ shown' = shown /\ tasks' = tasks
  BY <1>1, Zenon DEF GuestReads, AdoptDrop, Granted
<1>6. /\ Ans(g)' \subseteq Ans(g) /\ Grants(g)' = Grants(g)
  BY <1>3, <1>4, GuestReadsRest DEF GuestInv, GrantsReal
<1>7. /\ own'[g] = own[g] \ {r} /\ \A k \in Guests \ {g} : own'[k] = own[k] /\ created'[k] = created[k]
  BY <1>3, <1>4 DEF AllTypes, GameTypes
<1>8. Mine(g)' = Mine(g) \cup ({r} \cap Common \cap own[g])
  <2>1. CASE r \in Common /\ r \in own[g]
    <3>1. Own(r) \in shown[g] /\ Own(r)[1] = r /\ \A k \in created[g] : k[1] # r
      BY <1>3, <2>1, Pairs DEF GuestInv, OwnShown, OwnUnnamed
    <3>2. created'[g] = created[g] \cup {Own(r)}
      <4>1. created'[g] = Naming(created[g], {Own(r)})
        BY <1>3, <1>4, <2>1, <3>1 DEF AllTypes, GameTypes
      <4>. QED BY <3>1, <4>1 DEF Naming
    <3>. QED BY <1>5, <2>1, <3>1, <3>2 DEF Mine
  <2>2. CASE ~(r \in Common /\ r \in own[g])
    <3>1. created' = created
      BY <1>4, <2>2
    <3>. QED BY <1>5, <2>2, <3>1 DEF Mine
  <2>. QED BY <2>1, <2>2
<1>9. \A k \in Guests \ {g} : Ans(k)' = Ans(k)
  BY <1>2, Zenon DEF Ans
<1>10. PastStays
  <2>1. \A q \in own'[g] : q \in own[g] /\ (q \in Ans(g) => q \in Ans(g)')
    BY <1>4, <1>7
  <2>. QED BY <1>2, <1>3, <1>7, <1>9, <2>1, PastWithGuest
<1>11. /\ Heard(g)' = Heard(g) /\ Went(g)' = Went(g) /\ Got(g)' = Got(g) /\ Plain(g)' = Plain(g)
  BY <1>1, <1>2, NoRowsIn
<1>12. Queued(g)' = Queued(g) /\ Going(g)' = Going(g) /\ tasks'[g] = tasks[g]
  BY <1>5, Zenon DEF Queued, Going
<1>13. InOrder(g)'
  BY <1>2, <1>3, <1>11, <1>12 DEF GuestReal, InOrder
<1>14. OwnGoes(g)'
  BY <1>2, <1>3, <1>4, <1>6, <1>7 DEF GuestReal, OwnGoes
<1>15. NoQuest(g)' /\ Unowned(g)'
  BY <1>2, <1>3, <1>5, <1>6, <1>7, <1>11, <1>12 DEF GuestReal, NoQuest, Unowned
<1>16. GuestReal(g)'
  <2>1. Mine(g) \subseteq Mine(g)' /\ Mine(g)' \cup (Ans(g)' \cap Common \cap own'[g]) \subseteq Mine(g) \cup (Ans(g) \cap Common \cap own[g])
    BY <1>4, <1>6, <1>7, <1>8
  <2>2. Mine(g)' \cup Ans(g)' \cup Named(g)' \subseteq Mine(g) \cup Ans(g) \cup Named(g) \cup Queued(g)
    BY <1>2, <1>4, <1>6, <1>8
  <2>. QED BY <1>2, <1>3, <1>10, <1>11, <1>12, <1>13, <1>14, <1>15, <2>1, <2>2, GuestStepKeeps
<1>17. \A k \in Guests \ {g} : GameStays(k)
  BY <1>5, <1>7 DEF GameStays
<1>. QED BY <1>2, <1>10, <1>16, <1>17, GuestActs

\* A grant: what its object names is there no more, and its game has it no more.
LEMMA GrantedReal ==
    ASSUME ItemsInv, RealInv, NEW g \in Guests, GuestReads(g), Head(down[g]).type = "pickup"
    PROVE  RealInv'
<1>1. PICK m : m = Head(down[g])
  OBVIOUS
<1>2. /\ Heard(g) = Heard(g)' \cup NewIn(m) /\ Went(g) = Went(g)' \cup GoneIn(m)
      /\ Got(g) = Got(g)' \cup ObjectIn(m) /\ Plain(g) = Plain(g)' \cup PlainIn(m)
      /\ Orderly(down'[g], Undone)
      /\ Named(g)' = Named(g) /\ (Awaits(g)' <=> Awaits(g)) /\ Unanswered(g)' = Unanswered(g)
      /\ (\A k \in Guests : up'[k] = up[k] /\ Waiting(k)' = Waiting(k)) /\ (\A k \in Guests \ {g} : down'[k] = down[k])
      /\ g \in here /\ UNCHANGED <<here, drops, world, deleted, log, out, pending, made, cells, forgotten>>
  BY <1>1, NoticeRead
<1>3. /\ AllTypes /\ GuestInv(g) /\ GuestReal(g) /\ HostKeeps /\ drops \in Nat
  BY BoundsAssumption DEF ItemsInv, AllTypes, PlayerTypes, Ownership, RealInv
<1>4. PICK r \in References, tagged, object \in BOOLEAN :
                 /\ r \in Common \/ tagged
                 /\ r = Head(down[g]).ref /\ tagged = Head(down[g]).tagged /\ object = Head(down[g]).object
                 /\ r \in Grants(g) /\ Ans(g)' = Ans(g) /\ HeardEarly(g)' \subseteq HeardEarly(g)
                 /\ GrantsOnce(g) => GrantsOnce(g)' /\ Grants(g)' = Grants(g) \ {r}
                 /\ inv' = [inv EXCEPT ![g] = @ \cup {Of(r)}]
                 /\ own' = [own EXCEPT ![g] = IF tagged THEN @ \ {r} ELSE @]
                 /\ created' = [created EXCEPT ![g] = IF object THEN {h \in @ : h[1] # r} ELSE @]
                 /\ shown' = [shown EXCEPT ![g] = IF tagged /\ r \in own[g] THEN @ \ {Own(r)}
                                                  ELSE {h \in @ : ~(object /\ h \in created[g] /\ h[1] = r)}]
  BY <1>3, GrantedDoes, Zenon
<1>5. tasks' = tasks
  BY <1>1, Zenon DEF GuestReads, Granted
<1>6. Grants(g)' = Grants(g) \ {r} /\ Ans(g)' = Ans(g)
  BY <1>3, <1>4 DEF GuestInv, GrantsReal
<1>7. /\ own'[g] = (IF tagged THEN own[g] \ {r} ELSE own[g])
      /\ created'[g] = (IF object THEN {h \in created[g] : h[1] # r} ELSE created[g])
      /\ shown'[g] = (IF tagged /\ r \in own[g] THEN shown[g] \ {Own(r)}
                      ELSE {h \in shown[g] : ~(object /\ h \in created[g] /\ h[1] = r)})
      /\ inv'[g] = inv[g] \cup {Of(r)}
      /\ \A k \in Guests \ {g} : own'[k] = own[k] /\ created'[k] = created[k] /\ shown'[k] = shown[k] /\ inv'[k] = inv[k]
  <2>1. /\ own'[g] = (IF tagged THEN own[g] \ {r} ELSE own[g])
        /\ \A k \in Guests \ {g} : own'[k] = own[k]
    BY <1>3, <1>4 DEF AllTypes, GameTypes
  <2>2. /\ created'[g] = (IF object THEN {h \in created[g] : h[1] # r} ELSE created[g])
        /\ \A k \in Guests \ {g} : created'[k] = created[k]
    BY <1>3, <1>4 DEF AllTypes, GameTypes
  <2>3. /\ shown'[g] = (IF tagged /\ r \in own[g] THEN shown[g] \ {Own(r)}
                        ELSE {h \in shown[g] : ~(object /\ h \in created[g] /\ h[1] = r)})
        /\ \A k \in Guests \ {g} : shown'[k] = shown[k]
    BY <1>3, <1>4 DEF AllTypes, GameTypes
  <2>4. inv'[g] = inv[g] \cup {Of(r)} /\ \A k \in Guests \ {g} : inv'[k] = inv[k]
    BY <1>3, <1>4 DEF AllTypes, PlayerTypes, Players
  <2>. QED BY <2>1, <2>2, <2>3, <2>4
<1>8. /\ Got(g) = Got(g)' \cup (IF object THEN {r} ELSE {}) /\ Plain(g) = Plain(g)' \cup (IF tagged THEN {} ELSE {r})
      /\ Heard(g)' = Heard(g) /\ Went(g)' = Went(g)
  <2>1. /\ NewIn(m) = {} /\ GoneIn(m) = {}
    BY <1>1, NoRowsIn
  <2>2. ObjectIn(m) = (IF object THEN {r} ELSE {}) /\ PlainIn(m) = (IF tagged THEN {} ELSE {r})
    BY <1>1, <1>4 DEF ObjectIn, PlainIn
  <2>. QED BY <1>2, <2>1, <2>2
<1>9. (~tagged => r \notin own[g]) /\ (object => r \notin Alive)
  BY <1>3, <1>8 DEF GuestReal, Unowned, GoneDead
<1>10. Mine(g)' = (IF object THEN Mine(g) \ {r} ELSE Mine(g))
  <2>1. r \in own[g] => \A h \in created[g] : h[1] # r
    BY <1>3 DEF GuestInv, OwnUnnamed
  <2>2. Own(r)[1] = r
    BY Pairs
  <2>3. created'[g] \cap shown'[g] = (IF object THEN {h \in created[g] \cap shown[g] : h[1] # r} ELSE created[g] \cap shown[g])
    BY <1>7, <2>1, <2>2
  <2>. QED BY <2>3 DEF Mine
<1>11. \A k \in Guests \ {g} : Ans(k)' = Ans(k)
  BY <1>2, Zenon DEF Ans
<1>12. PastStays
  BY <1>2, <1>3, <1>6, <1>7, <1>11, PastWithGuest
<1>13. Queued(g)' = Queued(g) /\ Going(g)' = Going(g) /\ tasks'[g] = tasks[g]
  BY <1>5, Zenon DEF Queued, Going
<1>14. InOrder(g)'
  BY <1>2, <1>3, <1>8, <1>13 DEF GuestReal, InOrder
<1>15. OwnGoes(g)'
  BY <1>2, <1>3, <1>6, <1>7, <1>9 DEF GuestReal, OwnGoes
<1>16. NoQuest(g)'
  BY <1>3, <1>4, <1>6, <1>7 DEF GuestReal, NoQuest
<1>17. Unowned(g)'
  BY <1>2, <1>3, <1>7, <1>8, <1>13 DEF GuestReal, Unowned
<1>18. GuestReal(g)'
  <2>1. \A q \in Mine(g)' \cup (Ans(g)' \cap Common \cap own'[g]) :
              /\ q \in Mine(g) \cup (Ans(g) \cap Common \cap own[g])
              /\ q \in Got(g) => q \in Got(g)'
    <3>1. ASSUME NEW q \in Mine(g)' \cup (Ans(g)' \cap Common \cap own'[g]), object PROVE q # r
      BY <1>7, <1>9, <1>10, <3>1
    <3>. QED BY <1>6, <1>7, <1>8, <1>10, <3>1
  <2>2. Mine(g) \cap Alive \subseteq Mine(g)'
    BY <1>9, <1>10
  <2>3. Mine(g)' \cup Ans(g)' \cup Named(g)' \subseteq Mine(g) \cup Ans(g) \cup Named(g) \cup Queued(g)
    BY <1>2, <1>6, <1>10
  <2>4. Got(g)' \subseteq Got(g) /\ Plain(g)' \subseteq Plain(g)
    BY <1>8
  <2>. QED BY <1>2, <1>3, <1>8, <1>12, <1>13, <1>14, <1>15, <1>16, <1>17, <2>1, <2>2, <2>3, <2>4, GuestStepKeeps
<1>19. \A k \in Guests \ {g} : GameStays(k)
  BY <1>5, <1>7 DEF GameStays
<1>. QED BY <1>2, <1>12, <1>18, <1>19, GuestActs

\* Object changes: what they tell is for the main loop to apply.
LEMMA ChangesReal ==
    ASSUME ItemsInv, RealInv, NEW g \in Guests, GuestReads(g), Head(down[g]).type = "changes"
    PROVE  RealInv'
<1>1. PICK m, rows : m = Head(down[g]) /\ rows = m.rows
  OBVIOUS
<1>2. /\ Heard(g) = Heard(g)' \cup NewIn(m) /\ Went(g) = Went(g)' \cup GoneIn(m)
      /\ Got(g) = Got(g)' \cup ObjectIn(m) /\ Plain(g) = Plain(g)' \cup PlainIn(m)
      /\ Orderly(down'[g], Undone) /\ GoneIn(m) \cap (Heard(g) \cup Ans(g)) = {}
      /\ Named(g)' = Named(g) /\ (Awaits(g)' <=> Awaits(g)) /\ Unanswered(g)' = Unanswered(g) /\ m \in Told
      /\ (\A k \in Guests : up'[k] = up[k] /\ Waiting(k)' = Waiting(k)) /\ (\A k \in Guests \ {g} : down'[k] = down[k])
      /\ g \in here /\ UNCHANGED <<here, drops, world, deleted, log, out, pending, made, cells, forgotten>>
  BY <1>1, NoticeRead
<1>3. /\ AllTypes /\ GuestInv(g) /\ GuestReal(g) /\ HostKeeps /\ drops \in Nat
  BY BoundsAssumption DEF ItemsInv, AllTypes, PlayerTypes, Ownership, RealInv
<1>4. /\ tasks' = [tasks EXCEPT ![g] = Append(@, rows)] /\ UNCHANGED <<inv, shown, own, created>>
  BY <1>1, Zenon DEF GuestReads
<1>5. NewIn(m) = rows.new /\ GoneIn(m) = rows.gone /\ ObjectIn(m) = {} /\ PlainIn(m) = {} /\ rows \in Applied
  <2>1. rows \in Applied
    BY <1>1, <1>2 DEF Told, Notice, Applied
  <2>. QED BY <1>1, <2>1, NoRowsIn DEF NewIn, GoneIn
<1>6. /\ Queued(g)' = Queued(g) \cup rows.new /\ Going(g)' = Going(g) \cup rows.gone
      /\ (\A k \in Guests \ {g} : tasks'[k] = tasks[k]) /\ Orderly(tasks'[g], UndoneTask)
  <2>1. PICK s, t : s = tasks[g] /\ t = Append(s, rows) /\ s \in Seq(Applied)
    BY <1>3, Zenon DEF AllTypes, TaskTypes
  <2>2. Sent(t) = Sent(s) \cup {rows}
    BY <1>5, <2>1, SentAppend
  <2>3. tasks'[g] = t /\ \A k \in Guests \ {g} : tasks'[k] = tasks[k]
    BY <1>3, <1>4, <2>1 DEF AllTypes, TaskTypes
  <2>4. Going(g) = UNION {d.gone : d \in Sent(s)} /\ Going(g)' = UNION {d.gone : d \in Sent(t)}
    BY <2>1, <2>3, Zenon DEF Going
  <2>5. Orderly(t, UndoneTask)
    <3>1. <<rows, rows>> \notin UndoneTask
      BY <1>2, <1>5 DEF UndoneTask
    <3>2. \A d \in Sent(s) : <<d, rows>> \notin UndoneTask
      BY <1>2, <1>3, <1>5, <2>4 DEF UndoneTask, GuestReal, InOrder
    <3>3. Orderly(s, UndoneTask)
      BY <1>3, <2>1 DEF GuestReal, InOrder
    <3>. QED BY <1>5, <2>1, <3>1, <3>2, <3>3, OrderlyAppend
  <2>6. Queued(g)' = Queued(g) \cup rows.new
    BY <1>3, <1>4, <1>5, TasksAdd DEF AllTypes
  <2>. QED BY <2>2, <2>3, <2>4, <2>5, <2>6
<1>7. /\ Ans(g)' = Ans(g) /\ Grants(g)' = Grants(g)
  BY <1>3, ChangesDoes DEF GuestInv, GrantsReal
<1>8. \A k \in Guests : shown'[k] = shown[k] /\ own'[k] = own[k] /\ created'[k] = created[k] /\ inv'[k] = inv[k]
  BY <1>4
<1>9. Mine(g)' = Mine(g)
  BY <1>8, Zenon DEF Mine
<1>10. \A k \in Guests \ {g} : Ans(k)' = Ans(k)
  BY <1>2, Zenon DEF Ans
<1>11. PastStays
  BY <1>2, <1>3, <1>7, <1>8, <1>10, PastWithGuest
<1>12. InOrder(g)'
  BY <1>2, <1>3, <1>5, <1>6 DEF GuestReal, InOrder
<1>13. OwnGoes(g)' /\ NoQuest(g)'
  BY <1>2, <1>3, <1>7, <1>8 DEF GuestReal, OwnGoes, NoQuest
<1>14. Unowned(g)'
  <2>1. rows.gone \cap own[g] = {}
    BY <1>2, <1>3, <1>5 DEF GuestReal, PublicInv, Public, Past
  <2>. QED BY <1>2, <1>3, <1>6, <1>8, <2>1 DEF GuestReal, Unowned
<1>15. GuestReal(g)'
  <2>1. Heard(g)' \cup Queued(g)' = Heard(g) \cup Queued(g) /\ Went(g)' \cup Going(g)' = Went(g) \cup Going(g)
    BY <1>2, <1>5, <1>6
  <2>2. Got(g)' = Got(g) /\ Plain(g)' = Plain(g)
    BY <1>2, <1>5
  <2>. QED BY <1>2, <1>3, <1>7, <1>8, <1>9, <1>11, <1>12, <1>13, <1>14, <2>1, <2>2, GuestStepKeeps
<1>16. \A k \in Guests \ {g} : GameStays(k)
  BY <1>6, <1>8 DEF GameStays
<1>. QED BY <1>2, <1>11, <1>15, <1>16, GuestActs

\* GuestTask: what is deleted is told of no more, and what is created it has.
LEMMA GuestTaskReal ==
    ASSUME ItemsInv, RealInv, NEW g \in Guests, GuestTask(g)
    PROVE  RealInv'
<1>1. /\ tasks[g] # <<>> /\ tasks' = [tasks EXCEPT ![g] = Tail(@)]
      /\ UNCHANGED <<here, inv, drops, world, deleted, log, out, pending, made, cells, own, up, down, forgotten>>
  BY Zenon DEF GuestTask, host, rule, history
<1>2. /\ AllTypes /\ GuestReal(g) /\ HostKeeps /\ drops \in Nat
  BY BoundsAssumption DEF ItemsInv, AllTypes, PlayerTypes, RealInv
<1>3. PICK gone \in SUBSET (created[g] \cap shown[g]), N \in SUBSET Common :
                 /\ gone = {h \in created[g] \cap shown[g] : h[1] \in Head(tasks[g]).gone} /\ N \subseteq Head(tasks[g]).new
                 /\ \A r \in Head(tasks[g]).new : r \in N \/ \E h \in (created[g] \cap shown[g]) \ gone : h[1] = r
                 /\ N \subseteq Queued(g) /\ \A r \in N, h \in (created[g] \cap shown[g]) \ gone : h[1] # r
                 /\ shown' = [shown EXCEPT ![g] = (@ \ gone) \cup {Twin(r) : r \in N}]
                 /\ created' = [created EXCEPT ![g] = Naming(@, {Twin(r) : r \in N})]
  BY <1>2, GuestTaskDoes, Zenon
<1>4. PICK s, t, rows : s = tasks[g] /\ t = Tail(s) /\ rows = Head(s) /\ s \in Seq(Applied) /\ s # <<>>
  BY <1>1, <1>2, Zenon DEF AllTypes, TaskTypes
<1>5. Sent(s) = Sent(t) \cup {rows} /\ rows \in Applied /\ t \in Seq(Applied)
  BY <1>4, SentRead
<1>6. tasks'[g] = t /\ \A k \in Guests \ {g} : tasks'[k] = tasks[k]
  BY <1>1, <1>2, <1>4 DEF AllTypes, TaskTypes
<1>7. Going(g) = Going(g)' \cup rows.gone /\ Queued(g) = Queued(g)' \cup rows.new
  <2>1. Going(g) = UNION {d.gone : d \in Sent(s)} /\ Going(g)' = UNION {d.gone : d \in Sent(t)}
    BY <1>4, <1>6, Zenon DEF Going
  <2>2. Queued(g) = UNION {d.new : d \in Sent(s)} /\ Queued(g)' = UNION {d.new : d \in Sent(t)}
    BY <1>4, <1>6, ToSetIsSent, Zenon DEF Queued
  <2>. QED BY <1>5, <2>1, <2>2
<1>8. Orderly(t, UndoneTask) /\ rows.gone \cap Queued(g) = {}
  <2>1. Orderly(s, UndoneTask)
    BY <1>2, <1>4 DEF GuestReal, InOrder
  <2>2. Orderly(t, UndoneTask) /\ \A d \in Sent(s) : <<rows, d>> \notin UndoneTask
    BY <1>4, <2>1, OrderlyRead
  <2>3. \A d \in Sent(s) : d \in Applied
    BY <1>4, SentFew
  <2>4. \A d \in Sent(s) : rows.gone \cap d.new = {}
    BY <1>5, <2>2, <2>3 DEF UndoneTask
  <2>5. Queued(g) = UNION {d.new : d \in Sent(s)}
    BY <1>4, ToSetIsSent, Zenon DEF Queued
  <2>. QED BY <2>2, <2>4, <2>5
<1>9. rows.gone \cap Heard(g) = {} /\ rows.gone \cap Alive = {} /\ rows.gone \cap own[g] = {}
  BY <1>2, <1>7 DEF GuestReal, InOrder, GoneDead, Unowned
<1>10. /\ shown'[g] = (shown[g] \ gone) \cup {Twin(r) : r \in N}
       /\ created'[g] = Naming(created[g], {Twin(r) : r \in N})
       /\ \A k \in Guests \ {g} : shown'[k] = shown[k] /\ created'[k] = created[k]
  BY <1>2, <1>3 DEF AllTypes, GameTypes
<1>11. Mine(g)' = (Mine(g) \ rows.gone) \cup rows.new
  <2>1. \A r : Twin(r)[1] = r
    BY Pairs
  <2>2. PICK new : new = {Twin(r) : r \in N}
    OBVIOUS
  <2>3. \A h \in new : h[1] \in N
    BY <2>1, <2>2
  <2>4. \A r \in N : \E h \in new : h[1] = r
    BY <2>1, <2>2
  <2>5. gone = {h \in created[g] \cap shown[g] : h[1] \in rows.gone} /\ N \subseteq rows.new
        /\ (\A r \in rows.new : r \in N \/ \E h \in (created[g] \cap shown[g]) \ gone : h[1] = r)
        /\ \A r \in N, h \in (created[g] \cap shown[g]) \ gone : h[1] # r
    BY <1>3, <1>4, Zenon
  <2>6. created'[g] = {k \in created[g] : \A h \in new : k[1] # h[1]} \cup new /\ shown'[g] = (shown[g] \ gone) \cup new
    BY <1>10, <2>2, Zenon DEF Naming
  <2>7. ASSUME NEW h \in created'[g] \cap shown'[g] PROVE h[1] \in (Mine(g) \ rows.gone) \cup rows.new
    <3>1. h \in new \/ h \in (created[g] \cap shown[g]) \ gone
      BY <2>6, <2>7
    <3>. QED BY <2>3, <2>5, <3>1 DEF Mine
  <2>8. ASSUME NEW h \in (created[g] \cap shown[g]) \ gone PROVE h \in created'[g] \cap shown'[g]
    BY <2>3, <2>5, <2>6, <2>8
  <2>9. ASSUME NEW r \in (Mine(g) \ rows.gone) \cup rows.new PROVE r \in Mine(g)'
    <3>1. r \in N \/ \E h \in (created[g] \cap shown[g]) \ gone : h[1] = r
      BY <2>5, <2>9 DEF Mine
    <3>2. \E h \in created'[g] \cap shown'[g] : h[1] = r
      BY <2>4, <2>6, <2>8, <3>1
    <3>. QED BY <3>2 DEF Mine
  <2>. QED BY <2>7, <2>9 DEF Mine
<1>12. \A k \in Guests : down'[k] = down[k] /\ up'[k] = up[k] /\ own'[k] = own[k] /\ inv'[k] = inv[k] /\ Waiting(k)' = Waiting(k)
  BY <1>1, Zenon DEF Waiting
<1>13. /\ (\A k \in Guests : Ans(k)' = Ans(k)) /\ Grants(g)' = Grants(g) /\ Heard(g)' = Heard(g) /\ Went(g)' = Went(g)
       /\ Got(g)' = Got(g) /\ Plain(g)' = Plain(g) /\ Named(g)' = Named(g) /\ Unanswered(g)' = Unanswered(g)
       /\ (Awaits(g)' <=> Awaits(g))
  BY <1>1, <1>12, Zenon DEF Ans, Grants, Heard, Went, Got, Plain, Named, Unanswered, Awaits, AsksCell
<1>14. PastStays
  BY <1>1, <1>2, <1>12, <1>13, PastWithGuest
<1>15. InOrder(g)'
  BY <1>2, <1>6, <1>7, <1>8, <1>12, <1>13 DEF GuestReal, InOrder
<1>16. OwnGoes(g)' /\ NoQuest(g)' /\ Unowned(g)'
  BY <1>1, <1>2, <1>7, <1>12, <1>13 DEF GuestReal, OwnGoes, NoQuest, Unowned
<1>17. GuestReal(g)'
  <2>1. Went(g)' \cup Going(g)' \cup Got(g)' \subseteq Went(g) \cup Going(g) \cup Got(g) /\ Plain(g)' \subseteq Plain(g)
    BY <1>7, <1>13
  <2>2. \A q \in Heard(g)' \cup Queued(g)' :
              q \in Heard(g) \cup Queued(g) /\ (q \in Went(g) \cup Going(g) => q \in Went(g)' \cup Going(g)')
    BY <1>7, <1>8, <1>9, <1>13
  <2>3. \A q \in Mine(g)' \cup (Ans(g)' \cap Common \cap own'[g]) :
              /\ q \in Mine(g) \cup (Ans(g) \cap Common \cap own[g]) \cup Queued(g)
              /\ q \in Went(g) \cup Going(g) \cup Got(g) => q \in Went(g)' \cup Going(g)' \cup Got(g)'
    BY <1>7, <1>8, <1>9, <1>11, <1>12, <1>13
  <2>4. Mine(g)' \cup Ans(g)' \cup Named(g)' \subseteq Mine(g) \cup Ans(g) \cup Named(g) \cup Queued(g)
    BY <1>7, <1>11, <1>13
  <2>5. (Mine(g) \cup Heard(g) \cup Queued(g)) \cap Alive \subseteq Mine(g)' \cup Heard(g)' \cup Queued(g)'
    BY <1>7, <1>9, <1>11, <1>13
  <2>6. g \in here
    BY <1>1, <1>2, Zenon DEF AllTypes, Away
  <2>. QED BY <1>1, <1>2, <1>13, <1>14, <1>15, <1>16, <2>1, <2>2, <2>3, <2>4, <2>5, <2>6, GuestStepKeeps
<1>18. \A k \in Guests \ {g} : GameStays(k)
  BY <1>6, <1>10, <1>12 DEF GameStays
<1>. QED BY <1>1, <1>12, <1>14, <1>17, <1>18, GuestActs

\* Leave: it has nothing any more.
LEMMA LeaveReal ==
    ASSUME ItemsInv, RealInv, NEW g \in Guests, Leave(g)
    PROVE  RealInv'
<1>1. /\ here' = here \ {g} /\ made' = {d \in made : d[1] # g} /\ cells' = cells \ {g}
      /\ inv' = [inv EXCEPT ![g] = {}] /\ tasks' = [tasks EXCEPT ![g] = <<>>]
      /\ shown' = [shown EXCEPT ![g] = {}] /\ own' = [own EXCEPT ![g] = {}] /\ created' = [created EXCEPT ![g] = {}]
      /\ up' = [up EXCEPT ![g] = <<>>] /\ down' = [down EXCEPT ![g] = <<>>]
      /\ UNCHANGED <<drops, world, deleted, log, out, forgotten>>
  BY Zenon DEF Leave, host, history
<1>2. AllTypes /\ drops \in Nat
  BY BoundsAssumption DEF ItemsInv, AllTypes, PlayerTypes
<1>3. \A k \in Guests \ {g} : /\ inv'[k] = inv[k] /\ tasks'[k] = tasks[k] /\ shown'[k] = shown[k] /\ own'[k] = own[k]
                              /\ created'[k] = created[k] /\ up'[k] = up[k] /\ down'[k] = down[k]
  <2>1. \A k \in Guests \ {g} : inv'[k] = inv[k] /\ tasks'[k] = tasks[k] /\ shown'[k] = shown[k] /\ own'[k] = own[k]
    BY <1>1, <1>2 DEF AllTypes, PlayerTypes, TaskTypes, GameTypes, Players
  <2>2. \A k \in Guests \ {g} : created'[k] = created[k] /\ up'[k] = up[k] /\ down'[k] = down[k]
    BY <1>1, <1>2 DEF AllTypes, GameTypes, UpTypes, DownTypes
  <2>. QED BY <2>1, <2>2
<1>4. inv'[g] = {} /\ tasks'[g] = <<>> /\ shown'[g] = {} /\ own'[g] = {} /\ up'[g] = <<>> /\ down'[g] = <<>>
  BY <1>1, <1>2 DEF AllTypes, PlayerTypes, TaskTypes, GameTypes, UpTypes, DownTypes, Players
<1>5. \A k \in Guests \ {g} : Waiting(k)' = Waiting(k)
  <2>1. Waiters' = {d \in Waiters : d.player # g}
    BY <1>2, LeaveDoes
  <2>. QED BY <2>1, WaitingAre
<1>6. \A k \in Guests \ {g} : Ans(k)' = Ans(k)
  BY <1>3, Zenon DEF Ans
<1>7. PastStays
  BY <1>1, <1>2, <1>3, <1>4, <1>6, PastWithGuest
<1>8. GuestReal(g)'
  <2>1. g \notin here' /\ inv'[g] \cap Quest = {}
    BY <1>1, <1>4
  <2>. QED BY <1>4, <2>1, EmptyRealNext
<1>9. \A k \in Guests \ {g} : /\ GameStays(k) /\ (k \in here' <=> k \in here) /\ (k \in cells' <=> k \in cells)
                              /\ \A r : <<k, r>> \in made => <<k, r>> \in made'
  BY <1>1, <1>3 DEF GameStays
<1>. QED BY <1>1, <1>3, <1>5, <1>7, <1>8, <1>9, GuestActs
-----------------------------------------------------------------------------
\* At first no game has, or was told of, a reference.
LEMMA InitReal == Init => RealInv
<1>1. HAVE Init
<1>2. /\ world = {} /\ log = {} /\ out = {} /\ made = {}
      /\ \A g \in Guests : shown[g] = {} /\ own[g] = {} /\ tasks[g] = <<>> /\ up[g] = <<>> /\ down[g] = <<>>
  BY <1>1 DEF Init
<1>3. HostKeeps /\ MadeInv
  BY <1>2 DEF HostKeeps, MadeInv, Alive
<1>4. ASSUME NEW g \in Guests PROVE GuestReal(g)
  <2>1. inv = [p \in Players |-> {j \in DOMAIN start : start[j] = p}] /\ start \in Starts
    BY <1>1, Zenon DEF Init
  <2>2. inv[g] \cap Quest = {}
    BY <2>1, PlayersAssumption, ItemsAssumption DEF Players
  <2>. QED BY <1>2, <2>2, EmptyReal
<1>. QED BY <1>3, <1>4, Zenon DEF RealInv

\* What each guest's game shows stays so, whatever happens.
LEMMA StepReal == ItemsInv /\ RealInv /\ [Next]_vars => RealInv'
<1>1. SUFFICES ASSUME ItemsInv, RealInv, Next \/ UNCHANGED vars PROVE RealInv'
  OBVIOUS
<1>2. AllTypes
  BY <1>1 DEF ItemsInv
<1>3. ASSUME NEW g \in Guests, HostReads(g) PROVE RealInv'
  <2>1. CASE Head(up[g]).type = "drop" /\ loaded
    BY <1>1, <1>3, <2>1, DropMadeReal, Zenon
  <2>2. CASE Head(up[g]).type = "drop" /\ ~loaded
    BY <1>1, <1>3, <2>2, DropWaitsReal, Zenon
  <2>3. CASE Head(up[g]).type = "take" /\ GivesBack(g, Head(up[g]))
    BY <1>1, <1>3, <2>3, GivesBackReal, Zenon
  <2>4. CASE Head(up[g]).type = "take" /\ TakesItem(g, Head(up[g]))
    BY <1>1, <1>3, <2>4, TakesItemReal, Zenon
  <2>5. CASE Head(up[g]).type = "cell"
    BY <1>1, <1>3, <2>5, CellAskedReal, Zenon
  <2>. QED BY <1>2, <1>3, <2>1, <2>2, <2>3, <2>4, <2>5, ReadsCases, Zenon
<1>4. ASSUME NEW g \in Guests, GuestReads(g) PROVE RealInv'
  <2>1. Head(down[g]).type \in {"dropped", "pickup", "changes"}
    BY <1>2, <1>4, ReadsCases, Zenon
  <2>. QED BY <1>1, <1>4, <2>1, AdoptDropReal, GrantedReal, ChangesReal, Zenon
<1>5. CASE UNCHANGED vars
  <2>1. UNCHANGED <<inv, drops, world, deleted, log, here, out, made, cells, pending, forgotten, shown, own, created, tasks, up, down>>
    BY <1>5, Zenon DEF vars, host, rule, game, history
  <2>2. Alive' = Alive
    BY <2>1, Zenon DEF Alive
  <2>3. HostKeeps'
    BY <1>1, <2>1, <2>2, Zenon DEF RealInv, HostKeeps
  <2>. QED BY <1>1, <2>1, <2>2, <2>3, HostPlays
<1>6. ASSUME NEW i \in Items, HostDrops(i) \/ \E g \in Guests : GuestDrops(g, i) PROVE RealInv'
  BY <1>1, <1>6, HostDropsReal, GuestDropsReal, Zenon
<1>7. ASSUME NEW r \in References, HostPicksUp(r) PROVE RealInv'
  BY <1>1, <1>7, HostPicksUpReal, Zenon
<1>8. ASSUME NEW g \in Guests, \E h \in shown[g] : GuestAsks(g, h) \/ GuestPicksUp(g, h) PROVE RealInv'
  BY <1>1, <1>8, GuestAsksReal, GuestPicksUpReal, Zenon
<1>9. ASSUME NEW g \in Guests, GuestTask(g) \/ Join(g) \/ Leave(g) PROVE RealInv'
  BY <1>1, <1>9, GuestTaskReal, JoinReal, LeaveReal, Zenon
<1>10. CASE CellLoads \/ HostUpdate
  BY <1>1, <1>10, CellLoadsReal, UpdateReal, Zenon
<1>11. CASE Next
  BY <1>3, <1>4, <1>6, <1>7, <1>8, <1>9, <1>10, <1>11, Zenon DEF Next
<1>. QED BY <1>1, <1>5, <1>11

\* Once nothing is under way for a guest it shows the host's loose items, each once, and besides only its own drops that
\* wait, were forgotten or cannot be made (GuestEngine::Create, AdoptDrop, PickUp, HostEngine::TakeDeletedCreated).
THEOREM ShownIsThere == Spec => []ShownIsReal
<1>1. Init => ItemsInv /\ RealInv
  BY InitItems, InitReal
<1>2. ItemsInv /\ RealInv /\ [Next]_vars => ItemsInv' /\ RealInv'
  BY StepItems, StepReal
<1>3. ItemsInv /\ RealInv => ShownIsReal
  <2>1. SUFFICES ASSUME ItemsInv, RealInv, NEW g \in Guests, Quiet(g)
                 PROVE  /\ \A r \in Alive : Cardinality({h \in shown[g] : h[1] = r}) = 1
                        /\ \A h \in shown[g] : \/ h[1] \in Alive /\ h \in created[g]
                                               \/ h[1] \in Waiting(g) \union forgotten /\ IsOwn(g, h)
                                               \/ Of(h[1]) \in Foreign /\ ~IsPartyItem(g, h)
    BY DEF ShownIsReal
  <2>2. /\ AllTypes /\ GuestInv(g) /\ GuestReal(g) /\ HostKeeps /\ g \in here
        /\ log = {} /\ out \subseteq Alive /\ g \notin cells /\ up[g] = <<>> /\ down[g] = <<>> /\ tasks[g] = <<>>
    <3>1. AllTypes /\ GuestInv(g) /\ GuestReal(g) /\ HostKeeps
      BY <2>1 DEF ItemsInv, Ownership, RealInv
    <3>2. /\ g \in here /\ log = {} /\ Removed = {} /\ g \notin cells
          /\ up[g] = <<>> /\ down[g] = <<>> /\ tasks[g] = <<>>
      BY <2>1, Zenon DEF Quiet, UpdateIsDue
    <3>3. out \subseteq Alive
      BY <3>2 DEF Removed
    <3>. QED BY <3>1, <3>2, <3>3
  <2>3. Sent(<<>>) = {} /\ \A s : ToSet(s) = Sent(s)
    BY ToSetIsSent DEF Sent
  <2>4. /\ Ans(g) = {} /\ Heard(g) = {} /\ Went(g) = {} /\ Got(g) = {}
    <3>1. Refs(<<>>, "dropped") = {} /\ News(<<>>) = {} /\ Bygone(<<>>) = {} /\ Objects(<<>>) = {}
      BY <2>3 DEF Refs, News, Bygone, Objects
    <3>. QED BY <2>2, <3>1, Zenon DEF Ans, Heard, Went, Got
  <2>5. Queued(g) = {} /\ Going(g) = {} /\ Grants(g) = {} /\ Unanswered(g) = {} /\ ~Awaits(g)
    BY <2>2, <2>3 DEF Queued, Going, Grants, Unanswered, Awaits, AsksCell
  <2>6. Alive = out /\ Alive \subseteq Mine(g)
    BY <2>2, <2>4, <2>5 DEF HostKeeps, GuestReal, AllTold
  <2>7. Mine(g) \subseteq Alive
    BY <2>2, <2>4, <2>5 DEF GuestReal, MineReal, Real
  <2>8. own[g] \subseteq Waiting(g) \cup forgotten
    BY <2>2, <2>4, <2>5 DEF GuestReal, OwnGoes
  <2>9. Alive \subseteq Common /\ created[g] \subseteq Twins /\ shown[g] \subseteq Handles
        /\ \A h, k \in created[g] : h[1] = k[1] => h = k
    BY <2>2, RefsTyped DEF AllTypes, GameTypes
  <2>10. ASSUME NEW r \in Alive PROVE Cardinality({h \in shown[g] : h[1] = r}) = 1
    <3>1. PICK h \in created[g] \cap shown[g] : h[1] = r
      BY <2>6 DEF Mine
    <3>2. r \notin own[g]
      BY <2>2, <3>1 DEF GuestInv, OwnUnnamed
    <3>3. {k \in shown[g] : k[1] = r} = {h}
      BY <2>2, <2>9, <3>1, <3>2 DEF GuestInv, ShownNamed
    <3>. QED BY <3>3, FS_Singleton
  <2>11. ASSUME NEW h \in shown[g]
         PROVE  \/ h[1] \in Alive /\ h \in created[g]
                \/ h[1] \in Waiting(g) \union forgotten /\ IsOwn(g, h)
                \/ Of(h[1]) \in Foreign /\ ~IsPartyItem(g, h)
    <3>1. CASE h \in created[g]
      BY <2>7, <3>1 DEF Mine
    <3>2. CASE h \notin created[g] /\ h[1] \in own[g]
      <4>1. h = Own(h[1])
        BY <2>2, <3>2 DEF GuestInv, ShownNamed
      <4>2. h[2] = "drop"
        BY <4>1, Pairs
      <4>. QED BY <2>8, <3>2, <4>2 DEF IsOwn
    <3>3. CASE h \notin created[g] /\ h[1] \notin own[g]
      <4>1. h[1] \in References /\ h[1] \notin Common
        BY <2>2, <2>9, <3>3, Pairs DEF GuestInv, ShownNamed
      <4>2. ~IsPartyItem(g, h)
        BY <3>3 DEF IsPartyItem, IsOwn
      <4>. QED BY <4>1, <4>2, Pairs
    <3>. QED BY <3>1, <3>2, <3>3
  <2>. QED BY <2>10, <2>11
<1>. QED BY <1>1, <1>2, <1>3, PTL DEF Spec
=============================================================================
