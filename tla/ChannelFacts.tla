---------------------------- MODULE ChannelFacts ----------------------------
(***************************************************************************)
(* What the proofs need of the channels: sequences to which one side puts  *)
(* messages and from which the other takes the oldest (ENet's reliable     *)
(* packets, TransportService and HostNetwork).                             *)
(***************************************************************************)
EXTENDS Integers, Sequences, SequenceTheorems, WellFoundedInduction, TLAPS

\* The messages of a channel, in whatever order.
Sent(s) == {s[n] : n \in DOMAIN s}

\* The channel r is s with the messages t put into it.
Joined(s, t, r) ==
    /\ \A i \in DOMAIN s : i \in DOMAIN r /\ r[i] = s[i] /\ i \in Nat
    /\ \A i \in DOMAIN t : Len(s) + i \in DOMAIN r /\ r[Len(s) + i] = t[i] /\ \A j \in DOMAIN s : j < Len(s) + i
    /\ \A i \in DOMAIN r : \/ i \in DOMAIN s
                           \/ /\ i - Len(s) \in DOMAIN t /\ r[i] = t[i - Len(s)]
                              /\ \A j \in DOMAIN s : j < i
    /\ Len(s) \in Nat /\ DOMAIN r \subseteq Nat

\* The channel t is s without its oldest message.
FirstTaken(s, t) ==
    /\ 1 \in DOMAIN s /\ Head(s) = s[1]
    /\ \A i \in DOMAIN t : i \in Nat /\ 1 <= i /\ i + 1 \in DOMAIN s /\ t[i] = s[i + 1]
    /\ \A i \in DOMAIN s : i \in Nat /\ 1 <= i /\ (i # 1 => i - 1 \in DOMAIN t /\ t[i - 1] = s[i])

\* Messages put into a channel come after those that are there.
LEMMA JoinFacts ==
    ASSUME NEW S, NEW s \in Seq(S), NEW t \in Seq(S)
    PROVE  Joined(s, t, s \o t) /\ s \o t \in Seq(S)
<1>1. PICK r : r = s \o t
  OBVIOUS
<1>2. /\ r \in Seq(S) /\ Len(s) \in Nat /\ Len(t) \in Nat /\ DOMAIN s = 1 .. Len(s) /\ DOMAIN t = 1 .. Len(t)
      /\ DOMAIN r = 1 .. Len(s) + Len(t)
      /\ \A i \in 1 .. Len(s) + Len(t) : r[i] = IF i <= Len(s) THEN s[i] ELSE t[i - Len(s)]
  BY <1>1, LenProperties, ConcatProperties
<1>3. \A i \in DOMAIN s : i \in DOMAIN r /\ r[i] = s[i] /\ i \in Nat
  BY <1>2
<1>4. \A i \in DOMAIN t : Len(s) + i \in DOMAIN r /\ r[Len(s) + i] = t[i] /\ \A j \in DOMAIN s : j < Len(s) + i
  BY <1>2
<1>5. \A i \in DOMAIN r : \/ i \in DOMAIN s
                          \/ /\ i - Len(s) \in DOMAIN t /\ r[i] = t[i - Len(s)]
                             /\ \A j \in DOMAIN s : j < i
  <2>1. ASSUME NEW i \in DOMAIN r, i \notin DOMAIN s
        PROVE  i - Len(s) \in DOMAIN t /\ r[i] = t[i - Len(s)] /\ \A j \in DOMAIN s : j < i
    BY <1>2, <2>1
  <2>. QED BY <2>1
<1>6. Joined(s, t, r)
  BY <1>2, <1>3, <1>4, <1>5 DEF Joined
<1>. QED BY <1>1, <1>2, <1>6, Zenon

\* One message put into a channel comes last.
LEMMA AppendFacts ==
    ASSUME NEW S, NEW s \in Seq(S), NEW e \in S
    PROVE  Joined(s, <<e>>, Append(s, e)) /\ Append(s, e) \in Seq(S) /\ <<e>> \in Seq(S)
<1>1. <<e>> \in Seq(S)
  OBVIOUS
<1>2. Append(s, e) = s \o <<e>>
  BY AppendIsConcat
<1>. QED BY <1>1, <1>2, JoinFacts, Zenon

\* The oldest message is the one that is read.
LEMMA ReadFacts ==
    ASSUME NEW S, NEW s \in Seq(S), s # <<>>
    PROVE  FirstTaken(s, Tail(s)) /\ Tail(s) \in Seq(S) /\ Head(s) \in S
<1>1. PICK t : t = Tail(s)
  OBVIOUS
<1>2. /\ t \in Seq(S) /\ Len(t) = Len(s) - 1 /\ Len(s) \in Nat /\ Len(s) # 0
      /\ \A i \in 1 .. Len(t) : t[i] = s[i + 1]
  BY <1>1, HeadTailProperties, EmptySeq, LenProperties
<1>3. DOMAIN s = 1 .. Len(s) /\ DOMAIN t = 1 .. Len(t) /\ Head(s) = s[1] /\ Head(s) \in S
  BY <1>2, LenProperties, HeadTailProperties
<1>4. \A i \in DOMAIN t : i \in Nat /\ 1 <= i /\ i + 1 \in DOMAIN s /\ t[i] = s[i + 1]
  BY <1>2, <1>3
<1>5. \A i \in DOMAIN s : i \in Nat /\ 1 <= i /\ (i # 1 => i - 1 \in DOMAIN t /\ t[i - 1] = s[i])
  BY <1>2, <1>3
<1>6. 1 \in DOMAIN s
  BY <1>2, <1>3
<1>7. FirstTaken(s, t)
  BY <1>3, <1>4, <1>5, <1>6 DEF FirstTaken
<1>. QED BY <1>1, <1>2, <1>3, <1>7, Zenon

\* Nothing is lost by putting messages into a channel, and nothing else is in it.
LEMMA JoinedSent ==
    ASSUME NEW s, NEW t, NEW r, Joined(s, t, r)
    PROVE  Sent(r) = Sent(s) \cup Sent(t)
<1>1. ASSUME NEW m \in Sent(r) PROVE m \in Sent(s) \cup Sent(t)
  <2>1. PICK i \in DOMAIN r : m = r[i]
    BY DEF Sent
  <2>2. CASE i \in DOMAIN s
    BY <2>1, <2>2 DEF Joined, Sent
  <2>3. CASE i \notin DOMAIN s
    BY <2>1, <2>3 DEF Joined, Sent
  <2>. QED BY <2>2, <2>3
<1>2. Sent(s) \subseteq Sent(r)
  BY DEF Joined, Sent
<1>3. Sent(t) \subseteq Sent(r)
  BY DEF Joined, Sent
<1>. QED BY <1>1, <1>2, <1>3

\* What is read is taken out, and nothing else.
LEMMA ReadSent ==
    ASSUME NEW s, NEW t, FirstTaken(s, t)
    PROVE  Head(s) \in Sent(s) /\ Sent(t) \subseteq Sent(s) /\ Sent(s) \subseteq Sent(t) \cup {Head(s)}
<1>1. Head(s) \in Sent(s)
  BY DEF FirstTaken, Sent
<1>2. Sent(t) \subseteq Sent(s)
  BY DEF FirstTaken, Sent
<1>3. ASSUME NEW m \in Sent(s) PROVE m \in Sent(t) \cup {Head(s)}
  <2>1. PICK i \in DOMAIN s : m = s[i]
    BY DEF Sent
  <2>2. CASE i = 1
    BY <2>1, <2>2 DEF FirstTaken
  <2>3. CASE i # 1
    BY <2>1, <2>3 DEF FirstTaken, Sent
  <2>. QED BY <2>2, <2>3
<1>. QED BY <1>1, <1>2, <1>3

\* Putting messages into a channel, as what is sent.
LEMMA SentJoin ==
    ASSUME NEW S, NEW s \in Seq(S), NEW t \in Seq(S)
    PROVE  s \o t \in Seq(S) /\ Sent(s \o t) = Sent(s) \cup Sent(t)
BY JoinFacts, JoinedSent, Zenon

\* The same for one message.
LEMMA SentAppend ==
    ASSUME NEW S, NEW s \in Seq(S), NEW e \in S
    PROVE  Append(s, e) \in Seq(S) /\ Sent(Append(s, e)) = Sent(s) \cup {e}
<1>1. PICK t, r : t = <<e>> /\ r = Append(s, e)
  OBVIOUS
<1>2. Sent(t) = {e}
  BY <1>1 DEF Sent
<1>3. Joined(s, t, r) /\ r \in Seq(S)
  BY <1>1, AppendFacts
<1>4. Sent(r) = Sent(s) \cup Sent(t)
  BY <1>3, JoinedSent
<1>. QED BY <1>1, <1>2, <1>3, <1>4

\* Reading a message, as what is sent.
LEMMA SentRead ==
    ASSUME NEW S, NEW s \in Seq(S), s # <<>>
    PROVE  /\ Tail(s) \in Seq(S) /\ Head(s) \in S /\ Head(s) \in Sent(s)
           /\ Sent(Tail(s)) \subseteq Sent(s) /\ Sent(s) \subseteq Sent(Tail(s)) \cup {Head(s)}
BY ReadFacts, ReadSent, Zenon

\* Short channels.
LEMMA SentFew ==
    /\ Sent(<<>>) = {}
    /\ \A e : Sent(<<e>>) = {e}
    /\ \A d, e : Sent(<<d, e>>) = {d, e}
    /\ \A S, s : s \in Seq(S) => Sent(s) \subseteq S
<1>1. Sent(<<>>) = {}
  BY DEF Sent
<1>2. ASSUME NEW e PROVE Sent(<<e>>) = {e}
  BY DEF Sent
<1>3. ASSUME NEW d, NEW e PROVE Sent(<<d, e>>) = {d, e}
  BY DEF Sent
<1>4. ASSUME NEW S, NEW s \in Seq(S) PROVE Sent(s) \subseteq S
  BY ElementOfSeq, LenProperties DEF Sent
<1>. QED BY <1>1, <1>2, <1>3, <1>4

\* One of finitely many positions is the last (a sequence's, of those that satisfy something).
LEMMA LastOne ==
    ASSUME NEW n \in Nat, NEW S \in SUBSET (1 .. n), S # {}
    PROVE  \E l \in S : \A j \in S : j <= l
<1>1. PICK i : i \in S
  OBVIOUS
<1>2. DEFINE T == {n - k : k \in S}
<1>3. T \in SUBSET Nat /\ n - i \in T
  BY <1>1
<1>4. PICK m \in T : \A k \in T : m <= k
  <2>1. PICK m \in T : \A k \in T : ~(<<k, m>> \in OpToRel(<, Nat))
    <3>. HIDE DEF T
    <3>. QED BY <1>3, WFMin, NatLessThanWellFounded
  <2>2. \A k \in T : ~(k < m) /\ k \in Nat /\ m \in Nat
    BY <1>3, <2>1 DEF OpToRel
  <2>. QED BY <2>2
<1>5. PICK l \in S : m = n - l
  OBVIOUS
<1>6. ASSUME NEW j \in S PROVE j <= l
  <2>1. n - j \in T
    OBVIOUS
  <2>2. n - l <= n - j
    BY <1>4, <1>5, <2>1
  <2>. QED BY <2>2
<1>. QED BY <1>6

-----------------------------------------------------------------------------
(* The words of the shared dialogue's channels.                            *)

\* What a player says of being in a conversation: its game joins it or leaves it (the engine's own end is no such word).
Word(m, c) == m.conv = c /\ (m.type = "join" \/ (m.type = "close" /\ ~m.flag))
Silent(q, c) == \A m \in Sent(q) : ~Word(m, c)

\* A player the rules have in it (s) or not is, once they have read what it says, in it as its game takes itself to be (j).
Tallies(q, c, s, j) ==
    /\ Silent(q, c) => (s <=> j)
    /\ \A i \in DOMAIN q : Word(q[i], c) /\ (\A k \in DOMAIN q : i < k => ~Word(q[k], c)) => (q[i].type = "join" <=> j)

\* What a game is told of the steps of a conversation: its first, by the opening, and the picks.
Turn(m, c) == m.type \in {"open", "picked"} /\ m.conv = c
StepOf(m) == IF m.type = "open" THEN 1 ELSE m.step
Unturned(q, c) == \A m \in Sent(q) : ~Turn(m, c)

\* A game in conversation v at the step s comes to the step t of the conversation c.
StepsTo(q, c, v, s, t) ==
    /\ v = c /\ Unturned(q, c) => s = t
    /\ \A i \in DOMAIN q : Turn(q[i], c) /\ (\A k \in DOMAIN q : i < k => ~Turn(q[k], c)) => StepOf(q[i]) = t

\* No list of an earlier step is read at this one.
IsList(m, c) == m.type = "list" /\ m.conv = c
Fresh(q, c, t) == \A i \in DOMAIN q : IsList(q[i], c) => q[i].step = t \/ \E j \in DOMAIN q : i < j /\ Turn(q[j], c)

\* The step's list is on its way behind the step.
ListComes(q, c, t) == \E i \in DOMAIN q : IsList(q[i], c) /\ q[i].step = t /\ \A j \in DOMAIN q : Turn(q[j], c) => j < i

\* What a player says of something else.
LEMMA TalliesSays ==
    ASSUME NEW S, NEW q \in Seq(S), NEW c, NEW s \in BOOLEAN, NEW j \in BOOLEAN, NEW e \in Seq(S), Silent(e, c)
    PROVE  (Tallies(q, c, s, j) => Tallies(q \o e, c, s, j)) /\ (Silent(q, c) => Silent(q \o e, c))
<1>1. PICK u : u = q \o e /\ Joined(q, e, u) /\ Sent(u) = Sent(q) \cup Sent(e)
  BY JoinFacts, JoinedSent
<1>2. Silent(u, c) <=> Silent(q, c)
  BY <1>1 DEF Silent
<1>3. \A i \in DOMAIN u : Word(u[i], c) => i \in DOMAIN q /\ u[i] = q[i]
  BY <1>1 DEF Joined, Silent, Sent
<1>4. \A i \in DOMAIN q : i \in DOMAIN u /\ u[i] = q[i]
  BY <1>1 DEF Joined
<1>5. Tallies(q, c, s, j) => Tallies(u, c, s, j)
  BY <1>2, <1>3, <1>4 DEF Tallies
<1>. QED BY <1>1, <1>2, <1>5

\* What it says of being in it.
LEMMA TalliesSaid ==
    ASSUME NEW S, NEW q \in Seq(S), NEW c, NEW s \in BOOLEAN, NEW w \in S, Word(w, c), NEW j \in BOOLEAN, j <=> w.type = "join"
    PROVE  Tallies(q \o <<w>>, c, s, j)
<1>1. PICK d : d = <<w>> /\ d \in Seq(S) /\ DOMAIN d = {1} /\ d[1] = w /\ Sent(d) = {w}
  <2>1. Sent(<<w>>) = {w} /\ <<w>> \in Seq(S)
    BY SentFew
  <2>2. DOMAIN <<w>> = {1} /\ <<w>>[1] = w
    OBVIOUS
  <2>. QED BY <2>1, <2>2
<1>2. PICK u : u = q \o d /\ Joined(q, d, u) /\ Sent(u) = Sent(q) \cup Sent(d)
  BY <1>1, JoinFacts, JoinedSent
<1>3. PICK l : l = Len(q) + 1 /\ l \in DOMAIN u /\ u[l] = w /\ \A i \in DOMAIN u : i = l \/ i < l
  BY <1>1, <1>2 DEF Joined
<1>4. ~Silent(u, c)
  BY <1>1, <1>2 DEF Silent
<1>5. Tallies(u, c, s, j)
  BY <1>3, <1>4 DEF Tallies
<1>. QED BY <1>1, <1>2, <1>5

\* Reading it.
LEMMA SilentRead ==
    ASSUME NEW S, NEW q \in Seq(S), q # <<>>, NEW c
    PROVE  Silent(q, c) <=> Silent(Tail(q), c) /\ ~Word(Head(q), c)
BY ReadFacts, ReadSent DEF Silent

\* Reading one that says it is in or out.
LEMMA TalliesRead ==
    ASSUME NEW S, NEW q \in Seq(S), q # <<>>, NEW c, NEW s \in BOOLEAN, NEW j \in BOOLEAN, Tallies(q, c, s, j)
    PROVE  /\ ~Word(Head(q), c) => Tallies(Tail(q), c, s, j)
           /\ Word(Head(q), c) /\ Head(q).type = "join" => Tallies(Tail(q), c, TRUE, j)
           /\ Word(Head(q), c) /\ Head(q).type # "join" => Tallies(Tail(q), c, FALSE, j)
<1>1. PICK u, m : u = Tail(q) /\ m = Head(q) /\ FirstTaken(q, u)
  BY ReadFacts
<1>2. 1 \in DOMAIN q /\ m = q[1]
  BY <1>1 DEF FirstTaken
<1>3. Silent(q, c) <=> Silent(u, c) /\ ~Word(m, c)
  BY <1>1, SilentRead
<1>4. ASSUME NEW i \in DOMAIN u, Word(u[i], c), \A k \in DOMAIN u : i < k => ~Word(u[k], c)
      PROVE  u[i].type = "join" <=> j
  <2>1. i \in Nat /\ i + 1 \in DOMAIN q /\ u[i] = q[i + 1]
    BY <1>1 DEF FirstTaken
  <2>2. ASSUME NEW k \in DOMAIN q, i + 1 < k PROVE ~Word(q[k], c)
    <3>1. k \in Nat /\ k - 1 \in DOMAIN u /\ u[k - 1] = q[k] /\ i < k - 1
      BY <1>1, <2>1, <2>2 DEF FirstTaken
    <3>. QED BY <1>4, <3>1
  <2>. QED BY <1>4, <2>1, <2>2 DEF Tallies
<1>5. ASSUME Word(m, c), Silent(u, c) PROVE m.type = "join" <=> j
  <2>1. ASSUME NEW k \in DOMAIN q, 1 < k PROVE ~Word(q[k], c)
    <3>1. k \in Nat /\ k - 1 \in DOMAIN u /\ u[k - 1] = q[k]
      BY <1>1, <2>1 DEF FirstTaken
    <3>. QED BY <1>5, <3>1 DEF Silent, Sent
  <2>. QED BY <1>2, <1>5, <2>1 DEF Tallies
<1>6. ~Word(m, c) => Tallies(u, c, s, j)
  BY <1>3, <1>4 DEF Tallies
<1>7. Word(m, c) /\ m.type = "join" => Tallies(u, c, TRUE, j)
  BY <1>4, <1>5 DEF Tallies
<1>8. Word(m, c) /\ m.type # "join" => Tallies(u, c, FALSE, j)
  BY <1>4, <1>5 DEF Tallies
<1>. QED BY <1>1, <1>6, <1>7, <1>8

\* What a game is told of the steps: something else, or the step's list.
LEMMA StepsTold ==
    ASSUME NEW S, NEW q \in Seq(S), NEW c \in Nat, NEW v, NEW s, NEW t, StepsTo(q, c, v, s, t), Fresh(q, c, t)
    PROVE  \A e \in Seq(S) : Unturned(e, c) =>
              /\ StepsTo(q \o e, c, v, s, t)
              /\ (\A m \in Sent(e) : IsList(m, c) => m.step = t) => Fresh(q \o e, c, t)
              /\ (\A m \in Sent(e) : ~IsList(m, c)) => (ListComes(q, c, t) => ListComes(q \o e, c, t))
              /\ Unturned(q, c) => Unturned(q \o e, c)
<1>. SUFFICES ASSUME NEW e \in Seq(S), Unturned(e, c)
              PROVE  /\ StepsTo(q \o e, c, v, s, t)
                     /\ (\A m \in Sent(e) : IsList(m, c) => m.step = t) => Fresh(q \o e, c, t)
                     /\ (\A m \in Sent(e) : ~IsList(m, c)) => (ListComes(q, c, t) => ListComes(q \o e, c, t))
                     /\ Unturned(q, c) => Unturned(q \o e, c)
  OBVIOUS
<1>1. PICK u : u = q \o e /\ Joined(q, e, u) /\ Sent(u) = Sent(q) \cup Sent(e)
  BY JoinFacts, JoinedSent
<1>2. Unturned(u, c) <=> Unturned(q, c)
  BY <1>1 DEF Unturned
<1>3. \A i \in DOMAIN u : Turn(u[i], c) => i \in DOMAIN q /\ u[i] = q[i]
  BY <1>1 DEF Joined, Unturned, Sent
<1>4. \A i \in DOMAIN q : i \in DOMAIN u /\ u[i] = q[i]
  BY <1>1 DEF Joined
<1>5. StepsTo(u, c, v, s, t)
  BY <1>2, <1>3, <1>4 DEF StepsTo
<1>6. ASSUME \A m \in Sent(e) : IsList(m, c) => m.step = t PROVE Fresh(u, c, t)
  <2>1. ASSUME NEW i \in DOMAIN u, IsList(u[i], c) PROVE u[i].step = t \/ \E j \in DOMAIN u : i < j /\ Turn(u[j], c)
    <3>1. CASE i \in DOMAIN q
      BY <1>4, <2>1, <3>1 DEF Fresh
    <3>2. CASE i \notin DOMAIN q
      BY <1>1, <1>6, <2>1, <3>2 DEF Joined, Sent
    <3>. QED BY <3>1, <3>2
  <2>. QED BY <2>1 DEF Fresh
<1>7. ListComes(q, c, t) => ListComes(u, c, t)
  BY <1>3, <1>4 DEF ListComes
<1>. QED BY <1>1, <1>2, <1>5, <1>6, <1>7

\* The list of the step, last.
LEMMA ListTold ==
    ASSUME NEW S, NEW q \in Seq(S), NEW c, NEW t, NEW m \in S, IsList(m, c), m.step = t
    PROVE  ListComes(q \o <<m>>, c, t) /\ <<m>> \in Seq(S) /\ Unturned(<<m>>, c) /\ Sent(<<m>>) = {m}
<1>1. PICK d : d = <<m>> /\ d \in Seq(S) /\ DOMAIN d = {1} /\ d[1] = m /\ Sent(d) = {m}
  <2>1. Sent(<<m>>) = {m} /\ <<m>> \in Seq(S)
    BY SentFew
  <2>2. DOMAIN <<m>> = {1} /\ <<m>>[1] = m
    OBVIOUS
  <2>. QED BY <2>1, <2>2
<1>2. PICK u : u = q \o d /\ Joined(q, d, u)
  BY <1>1, JoinFacts
<1>3. PICK l : l = Len(q) + 1 /\ l \in DOMAIN u /\ u[l] = m /\ \A i \in DOMAIN u : i = l \/ i < l
  BY <1>1, <1>2 DEF Joined
<1>4. ~Turn(m, c)
  BY DEF IsList, Turn
<1>5. ListComes(u, c, t)
  BY <1>3, <1>4 DEF ListComes
<1>. QED BY <1>1, <1>2, <1>4, <1>5 DEF Unturned

\* The next step, last.
LEMMA TurnTold ==
    ASSUME NEW S, NEW q \in Seq(S), NEW c, NEW v, NEW s, NEW m \in S, Turn(m, c)
    PROVE  StepsTo(q \o <<m>>, c, v, s, StepOf(m)) /\ Fresh(q \o <<m>>, c, StepOf(m))
<1>1. PICK d : d = <<m>> /\ d \in Seq(S) /\ DOMAIN d = {1} /\ d[1] = m /\ Sent(d) = {m}
  <2>1. Sent(<<m>>) = {m} /\ <<m>> \in Seq(S)
    BY SentFew
  <2>2. DOMAIN <<m>> = {1} /\ <<m>>[1] = m
    OBVIOUS
  <2>. QED BY <2>1, <2>2
<1>2. PICK u : u = q \o d /\ Joined(q, d, u) /\ Sent(u) = Sent(q) \cup Sent(d)
  BY <1>1, JoinFacts, JoinedSent
<1>3. PICK l : l = Len(q) + 1 /\ l \in DOMAIN u /\ u[l] = m /\ \A i \in DOMAIN u : i = l \/ i < l
  BY <1>1, <1>2 DEF Joined
<1>4. ~Unturned(u, c)
  BY <1>1, <1>2 DEF Unturned
<1>5. StepsTo(u, c, v, s, StepOf(m))
  BY <1>3, <1>4 DEF StepsTo
<1>6. ~IsList(m, c)
  BY DEF IsList, Turn
<1>7. Fresh(u, c, StepOf(m))
  BY <1>3, <1>6 DEF Fresh
<1>. QED BY <1>1, <1>2, <1>5, <1>7

\* A game reads.
LEMMA StepsRead ==
    ASSUME NEW S, NEW q \in Seq(S), q # <<>>, NEW c, NEW v, NEW s, NEW t, StepsTo(q, c, v, s, t), Fresh(q, c, t), NEW m, m = Head(q)
    PROVE  /\ ~Turn(m, c) => StepsTo(Tail(q), c, v, s, t)
           /\ Turn(m, c) => StepsTo(Tail(q), c, c, StepOf(m), t) /\ \A w, r : w # c => StepsTo(Tail(q), c, w, r, t)
           /\ Fresh(Tail(q), c, t)
           /\ Unturned(q, c) => Unturned(Tail(q), c)
           /\ IsList(m, c) => m.step = t \/ ~Unturned(Tail(q), c)
           /\ ListComes(q, c, t) => \/ ListComes(Tail(q), c, t)
                                    \/ IsList(m, c) /\ m.step = t /\ Unturned(q, c)
<1>1. PICK u : u = Tail(q) /\ FirstTaken(q, u)
  BY ReadFacts
<1>2. 1 \in DOMAIN q /\ m = q[1] /\ Head(q) \in Sent(q) /\ Sent(u) \subseteq Sent(q) /\ Sent(q) \subseteq Sent(u) \cup {m}
  BY <1>1, ReadSent DEF FirstTaken
<1>3. Unturned(q, c) <=> Unturned(u, c) /\ ~Turn(m, c)
  BY <1>2 DEF Unturned
<1>4. \A i \in DOMAIN u : i \in Nat /\ i + 1 \in DOMAIN q /\ u[i] = q[i + 1]
  BY <1>1 DEF FirstTaken
<1>5. \A k \in DOMAIN q : k \in Nat /\ 1 <= k /\ (k # 1 => k - 1 \in DOMAIN u /\ u[k - 1] = q[k])
  BY <1>1 DEF FirstTaken
<1>6. ASSUME NEW i \in DOMAIN u, Turn(u[i], c), \A k \in DOMAIN u : i < k => ~Turn(u[k], c)
      PROVE  StepOf(u[i]) = t
  <2>1. i \in Nat /\ i + 1 \in DOMAIN q /\ u[i] = q[i + 1]
    BY <1>4
  <2>2. ASSUME NEW k \in DOMAIN q, i + 1 < k PROVE ~Turn(q[k], c)
    <3>1. k \in Nat /\ k - 1 \in DOMAIN u /\ u[k - 1] = q[k] /\ i < k - 1
      BY <1>5, <2>1, <2>2
    <3>. QED BY <1>6, <3>1
  <2>. QED BY <1>6, <2>1, <2>2 DEF StepsTo
<1>7. ASSUME Turn(m, c), Unturned(u, c) PROVE StepOf(m) = t
  <2>1. ASSUME NEW k \in DOMAIN q, 1 < k PROVE ~Turn(q[k], c)
    <3>1. k \in Nat /\ k - 1 \in DOMAIN u /\ u[k - 1] = q[k]
      BY <1>5, <2>1
    <3>. QED BY <1>7, <3>1 DEF Unturned, Sent
  <2>. QED BY <1>2, <1>7, <2>1 DEF StepsTo
<1>8. ~Turn(m, c) => StepsTo(u, c, v, s, t)
  BY <1>3, <1>6 DEF StepsTo
<1>9. Turn(m, c) => StepsTo(u, c, c, StepOf(m), t) /\ \A w, r : w # c => StepsTo(u, c, w, r, t)
  BY <1>6, <1>7 DEF StepsTo
<1>10. ASSUME NEW i \in DOMAIN u, IsList(u[i], c) PROVE u[i].step = t \/ \E j \in DOMAIN u : i < j /\ Turn(u[j], c)
  <2>1. i \in Nat /\ i + 1 \in DOMAIN q /\ u[i] = q[i + 1]
    BY <1>4
  <2>2. CASE q[i + 1].step # t
    <3>1. PICK j \in DOMAIN q : i + 1 < j /\ Turn(q[j], c)
      BY <1>10, <2>1, <2>2 DEF Fresh
    <3>2. j - 1 \in DOMAIN u /\ u[j - 1] = q[j] /\ i < j - 1
      BY <1>5, <2>1, <3>1
    <3>. QED BY <3>1, <3>2
  <2>. QED BY <2>1, <2>2
<1>11. ASSUME IsList(m, c), m.step # t PROVE ~Unturned(u, c)
  <2>1. PICK j \in DOMAIN q : 1 < j /\ Turn(q[j], c)
    BY <1>2, <1>11 DEF Fresh
  <2>2. j - 1 \in DOMAIN u /\ u[j - 1] = q[j]
    BY <1>5, <2>1
  <2>. QED BY <2>1, <2>2 DEF Unturned, Sent
<1>12. ASSUME ListComes(q, c, t) PROVE ListComes(u, c, t) \/ (IsList(m, c) /\ m.step = t /\ Unturned(q, c))
  <2>1. PICK i \in DOMAIN q : IsList(q[i], c) /\ q[i].step = t /\ \A j \in DOMAIN q : Turn(q[j], c) => j < i
    BY <1>12 DEF ListComes
  <2>2. CASE i = 1
    <3>1. ASSUME NEW j \in DOMAIN q PROVE ~Turn(q[j], c)
      BY <1>5, <2>1, <2>2
    <3>. QED BY <1>2, <2>1, <2>2, <3>1 DEF Unturned, Sent
  <2>3. CASE i # 1
    <3>1. i - 1 \in DOMAIN u /\ u[i - 1] = q[i]
      BY <1>5, <2>3
    <3>2. ASSUME NEW j \in DOMAIN u, Turn(u[j], c) PROVE j < i - 1
      BY <1>4, <1>5, <2>1, <3>2
    <3>. QED BY <2>1, <3>1, <3>2 DEF ListComes
  <2>. QED BY <2>2, <2>3
<1>13. Fresh(u, c, t)
  BY <1>10 DEF Fresh
<1>. QED BY <1>1, <1>3, <1>8, <1>9, <1>11, <1>12, <1>13

\* A player whose game takes itself to be out is out, or says so.
LEMMA TalliesOut ==
    ASSUME NEW S, NEW q \in Seq(S), NEW c, NEW s, Tallies(q, c, s, FALSE)
    PROVE  ~s \/ \E m \in Sent(q) : Word(m, c) /\ m.type = "close"
<1>1. CASE Silent(q, c)
  BY <1>1 DEF Tallies
<1>2. CASE ~Silent(q, c)
  <2>1. PICK n : n = Len(q) /\ n \in Nat /\ DOMAIN q = 1 .. n
    BY LenProperties
  <2>2. PICK T : T = {i \in 1 .. n : Word(q[i], c)}
    OBVIOUS
  <2>3. T \in SUBSET (1 .. n) /\ T # {}
    BY <1>2, <2>1, <2>2 DEF Silent, Sent
  <2>4. PICK l \in T : \A j \in T : j <= l
    BY <2>1, <2>3, LastOne
  <2>5. l \in DOMAIN q /\ Word(q[l], c)
    BY <2>1, <2>2
  <2>6. ASSUME NEW k \in DOMAIN q, l < k PROVE ~Word(q[k], c)
    BY <2>1, <2>2, <2>4, <2>6
  <2>7. q[l].type # "join"
    BY <2>5, <2>6 DEF Tallies
  <2>. QED BY <2>5, <2>7 DEF Word, Sent
<1>. QED BY <1>1, <1>2
=============================================================================
