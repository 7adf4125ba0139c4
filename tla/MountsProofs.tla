---------------------------- MODULE MountsProofs ----------------------------
(***************************************************************************)
(* Proofs about Mounts for every set of guests and every number of rides:  *)
(* type correctness, and once all is read exactly one game simulates the   *)
(* horse, its rider's, every game keeps it while a guest rides, and it is  *)
(* as it was when nobody rides it any more.                                *)
(***************************************************************************)
EXTENDS Mounts, SequenceTheorems, TLAPS

-----------------------------------------------------------------------------
\* The channels.

ChannelsOK ==
    /\ here \subseteq Guests /\ owner \in In
    /\ up \in [Guests -> Seq(Requests)] /\ down \in [Players -> Seq(Notices)]

\* What the host tells is a notice, and a channel takes it (HostNetwork::Send).
LEMMA NoticeTypes ==
    /\ \A k \in Requests, p \in Players : Notice(k, p) \in Notices
    /\ \A S : \A s \in Seq(S), e \in S : Append(s, e) \in Seq(S)
    /\ \A S : \A s \in Seq(S) : s # <<>> => Head(s) \in S /\ Tail(s) \in Seq(S)
BY DEF Notice, Notices

\* Everyone in the session is a player.
LEMMA InPlayers == ASSUME ChannelsOK PROVE In \subseteq Players /\ Host \in In /\ owner \in Players
BY DEF ChannelsOK, In, Players

\* The host's rule keeps the channels and gives the horse to someone in the session
\* (HostCharacters::OnMount, OnDismount).
LEMMA HandleType ==
    ASSUME ChannelsOK, NEW request \in Requests, NEW sender \in In, Handle(request, sender)
    PROVE  owner' \in In /\ down' \in [Players -> Seq(Notices)]
<1>1. /\ sender \in Players /\ Host \in In /\ down \in [Players -> Seq(Notices)] /\ owner \in In
      /\ \A k \in Requests, p \in Players : Notice(k, p) \in Notices
  BY InPlayers, NoticeTypes DEF ChannelsOK
<1>2. ASSUME NEW notice \in Notices, ToAll(notice) PROVE down' \in [Players -> Seq(Notices)]
  BY <1>1, <1>2, NoticeTypes DEF ToAll
<1>3. ASSUME NEW notice \in Notices, ToOthers(notice, sender) PROVE down' \in [Players -> Seq(Notices)]
  BY <1>1, <1>3, NoticeTypes DEF ToOthers
<1>4. CASE request = "mount"
  <2>1. Notice("mount", sender) \in Notices
    BY <1>1 DEF Requests
  <2>. QED BY <1>2, <1>3, <1>4, <2>1 DEF Handle, OnMount
<1>5. CASE request = "dismount"
  <2>1. Notice("dismount", sender) \in Notices
    BY <1>1 DEF Requests
  <2>2. CASE owner = sender
    BY <1>1, <1>2, <1>5, <2>1, <2>2 DEF Handle, OnDismount, GiveBack
  <2>3. CASE owner # sender
    BY <1>1, <1>5, <2>3 DEF Handle, OnDismount
  <2>. QED BY <2>2, <2>3
<1>. QED BY <1>4, <1>5 DEF Requests

\* A player's request keeps the channels too (TransportService::Send).
LEMMA SendType ==
    ASSUME ChannelsOK, NEW request \in Requests, NEW p \in In, SendRequest(p, request)
    PROVE  owner' \in In /\ up' \in [Guests -> Seq(Requests)] /\ down' \in [Players -> Seq(Notices)]
<1>1. CASE p = Host
  BY <1>1, HandleType DEF SendRequest, ChannelsOK
<1>2. CASE p # Host
  <2>1. p \in Guests
    BY <1>2 DEF ChannelsOK, In
  <2>2. Append(up[p], request) \in Seq(Requests)
    BY <2>1, NoticeTypes DEF ChannelsOK
  <2>. QED BY <1>2, <2>1, <2>2 DEF SendRequest, ChannelsOK
<1>. QED BY <1>1, <1>2

\* Telling of a dismount, or not, keeps them (CharacterService::OnDismountEvent).
LEMMA TellType ==
    ASSUME ChannelsOK, NEW p \in In, TellDismount(p)
    PROVE  owner' \in In /\ up' \in [Guests -> Seq(Requests)] /\ down' \in [Players -> Seq(Notices)]
<1>1. "dismount" \in Requests
  BY DEF Requests
<1>. QED BY <1>1, SendType DEF TellDismount, ChannelsOK

\* A leave keeps them, and leaves the horse to someone in the session (HostCharacters::OnPlayerLeft).
LEMMA LeaveType ==
    ASSUME ChannelsOK, NEW g \in Guests, Leave(g)
    PROVE  ChannelsOK'
<1>1. Notice("dismount", g) \in Notices
  BY NoticeTypes DEF Requests, Players
<1>2. /\ <<>> \in Seq(Notices) /\ <<>> \in Seq(Requests) /\ down \in [Players -> Seq(Notices)]
      /\ \A p \in Players : Append(down[p], Notice("dismount", g)) \in Seq(Notices)
  BY <1>1, NoticeTypes DEF ChannelsOK
<1>3. here' \subseteq Guests /\ up' \in [Guests -> Seq(Requests)]
  BY <1>2 DEF Leave, ChannelsOK
<1>4. CASE owner = g
  <2>1. owner' \in In'
    BY <1>4 DEF Leave, In
  <2>2. down' \in [Players -> Seq(Notices)]
    BY <1>2, <1>4 DEF Leave
  <2>. QED BY <1>3, <2>1, <2>2 DEF ChannelsOK
<1>5. CASE owner # g
  BY <1>2, <1>3, <1>5 DEF Leave, ChannelsOK, In
<1>. QED BY <1>4, <1>5

\* Every step keeps the channels.
LEMMA ChannelsStay ==
    ASSUME ChannelsOK, [Next]_vars
    PROVE  ChannelsOK'
<1>1. ASSUME NEW p \in Players, OnMountEvent(p) PROVE ChannelsOK'
  <2>1. p \in In /\ "mount" \in Requests /\ here' = here
    BY <1>1 DEF OnMountEvent, Requests
  <2>. QED BY <1>1, <2>1, SendType DEF OnMountEvent, ChannelsOK, In
<1>2. ASSUME NEW p \in Players, OnDismountEvent(p) PROVE ChannelsOK'
  BY <1>2, TellType DEF OnDismountEvent, ChannelsOK, In
<1>3. ASSUME NEW p \in Players, MoveTo(p) PROVE ChannelsOK'
  BY <1>3 DEF MoveTo, ChannelsOK, In
<1>4. ASSUME NEW p \in Players, OnPlayerArrived(p) PROVE ChannelsOK'
  <2>1. CASE saddle[p]
    BY <1>4, <2>1 DEF OnPlayerArrived, ChannelsOK, In
  <2>2. CASE ~saddle[p]
    BY <1>4, <2>2, TellType DEF OnPlayerArrived, ChannelsOK, In
  <2>. QED BY <2>1, <2>2
<1>5. ASSUME NEW p \in Players, GameReads(p) PROVE ChannelsOK'
  <2>1. Tail(down[p]) \in Seq(Notices)
    BY <1>5, NoticeTypes DEF GameReads, ChannelsOK
  <2>. QED BY <1>5, <2>1 DEF GameReads, ChannelsOK, In
<1>6. ASSUME NEW g \in Guests, HostReads(g) PROVE ChannelsOK'
  <2>1. Head(up[g]) \in Requests /\ Tail(up[g]) \in Seq(Requests) /\ g \in In
    BY <1>6, NoticeTypes DEF HostReads, ChannelsOK, In
  <2>. QED BY <1>6, <2>1, HandleType DEF HostReads, ChannelsOK, In
<1>7. CASE UNCHANGED vars
  BY <1>7 DEF vars, ChannelsOK, In
<1>. QED BY <1>1, <1>2, <1>3, <1>4, <1>5, <1>6, <1>7, LeaveType DEF Next
-----------------------------------------------------------------------------
\* Exactly one game simulates the horse once all is read.

\* What a game makes of a notice: does it simulate the horse?
Makes(notice, p) == IF notice.kind = "mount" THEN p = notice.rider ELSE p = Host

\* Whether p's game simulates the horse once it has read every notice: only the last counts.
WillSimulate(p) == IF down[p] = <<>> THEN simulates[p] ELSE Makes(down[p][Len(down[p])], p)

Settles == \A p \in In : WillSimulate(p) <=> p = owner

HorseInv == ChannelsOK /\ simulates \in Flags /\ Settles

\* An appended notice is the last one.
LEMMA LastOfAppend ==
    \A S : \A s \in Seq(S), e \in S : Append(s, e) # <<>> /\ Append(s, e)[Len(Append(s, e))] = e
OBVIOUS

\* Reading the first notice of several leaves the last one, and the only notice is the last one.
LEMMA LastOfTail ==
    \A S : \A s \in Seq(S) : s # <<>> =>
       IF Tail(s) = <<>> THEN Head(s) = s[Len(s)] ELSE Tail(s)[Len(Tail(s))] = s[Len(s)]
<1>. TAKE S
<1>. TAKE s \in Seq(S)
<1>. HAVE s # <<>>
<1>1. PICK t \in Seq(S) :
        t = Tail(s) /\ Len(t) = Len(s) - 1 /\ \A i \in 1 .. Len(t) : t[i] = s[i + 1]
  BY HeadTailProperties
<1>2. Len(s) \in Nat \ {0} /\ Head(s) = s[1]
  BY EmptySeq
<1>3. CASE t = <<>>
  <2>1. Len(t) = 0
    BY <1>3, EmptySeq, Zenon
  <2>2. Len(s) \in Nat /\ Len(t) = Len(s) - 1
    BY <1>1, <1>2
  <2>3. Len(s) = 1
    BY <2>1, <2>2, Z3
  <2>. QED BY <1>1, <1>2, <1>3, <2>3, Zenon
<1>4. CASE t # <<>>
  <2>1. Len(t) \in 1 .. Len(t) /\ Len(t) + 1 = Len(s)
    BY <1>1, <1>2, <1>4, EmptySeq
  <2>2. t[Len(t)] = s[Len(s)]
    BY <1>1, <2>1
  <2>. QED BY <1>1, <1>4, <2>2, Zenon
<1>. QED BY <1>3, <1>4

\* A mount makes exactly the sender's game simulate the horse, a dismount taken exactly the host's
\* (HostCharacters::OnMount, OnDismount, GiveBack).
LEMMA HandleSettles ==
    ASSUME HorseInv, NEW request \in Requests, NEW sender \in In, Handle(request, sender),
           simulates' = simulates, here' = here
    PROVE  Settles'
<1>1. /\ sender \in Players /\ In \subseteq Players /\ In' = In
      /\ down \in [Players -> Seq(Notices)]
      /\ \A k \in Requests, p \in Players : Notice(k, p) \in Notices
  BY InPlayers, NoticeTypes DEF HorseInv, ChannelsOK, In
<1>2. ASSUME NEW p \in In, NEW notice \in Notices, down'[p] = Append(down[p], notice),
             Makes(notice, p) <=> p = owner'
      PROVE  WillSimulate(p)' <=> p = owner'
  BY <1>1, <1>2, LastOfAppend DEF WillSimulate, Makes
<1>3. ASSUME NEW p \in In, down'[p] = down[p], owner' = owner
      PROVE  WillSimulate(p)' <=> p = owner'
  BY <1>3 DEF WillSimulate, Makes, HorseInv, Settles
<1>4. CASE request = "mount"
  <2>1. Notice("mount", sender) \in Notices
    BY <1>1 DEF Requests
  <2>2. owner' = sender /\ \A p \in In : Makes(Notice("mount", sender), p) <=> p = owner'
    BY <1>4 DEF Handle, OnMount, Makes, Notice
  <2>3. CASE owner = sender
    <3>1. ASSUME NEW p \in In PROVE WillSimulate(p)' <=> p = owner'
      <4>1. CASE p = sender
        BY <1>1, <1>3, <1>4, <2>2, <2>3, <4>1 DEF Handle, OnMount, ToOthers
      <4>2. CASE p # sender
        BY <1>1, <1>2, <1>4, <2>1, <2>2, <2>3, <4>2 DEF Handle, OnMount, ToOthers
      <4>. QED BY <4>1, <4>2
    <3>. QED BY <1>1, <3>1 DEF Settles
  <2>4. CASE owner # sender
    <3>1. \A p \in In : down'[p] = Append(down[p], Notice("mount", sender))
      BY <1>1, <1>4, <2>4 DEF Handle, OnMount, ToAll
    <3>. QED BY <1>1, <1>2, <2>1, <2>2, <3>1 DEF Settles
  <2>. QED BY <2>3, <2>4
<1>5. CASE request = "dismount"
  <2>1. CASE owner = sender
    <3>1. Notice("dismount", sender) \in Notices
      BY <1>1 DEF Requests
    <3>2. owner' = Host /\ \A p \in In : Makes(Notice("dismount", sender), p) <=> p = owner'
      BY <1>5, <2>1 DEF Handle, OnDismount, GiveBack, Makes, Notice
    <3>3. \A p \in In : down'[p] = Append(down[p], Notice("dismount", sender))
      BY <1>1, <1>5, <2>1 DEF Handle, OnDismount, GiveBack, ToAll
    <3>. QED BY <1>1, <1>2, <3>1, <3>2, <3>3 DEF Settles
  <2>2. CASE owner # sender
    <3>1. owner' = owner /\ down' = down
      BY <1>5, <2>2 DEF Handle, OnDismount
    <3>. QED BY <1>1, <1>3, <3>1 DEF Settles
  <2>. QED BY <2>1, <2>2
<1>. QED BY <1>4, <1>5 DEF Requests

\* So does a request of the host's own; a guest's is only on its way (TransportService::Send).
LEMMA SendSettles ==
    ASSUME HorseInv, NEW request \in Requests, NEW p \in In, SendRequest(p, request),
           simulates' = simulates, here' = here
    PROVE  Settles'
<1>1. CASE p = Host
  BY <1>1, HandleSettles DEF SendRequest
<1>2. CASE p # Host
  BY <1>2 DEF SendRequest, HorseInv, Settles, WillSimulate, Makes, In
<1>. QED BY <1>1, <1>2

\* A game that reads a notice simulates the horse or not as that notice makes it
\* (CharacterService::OnNotifyMount, OnNotifyDismount).
LEMMA ReadingMakes ==
    ASSUME HorseInv, NEW p \in Players, GameReads(p)
    PROVE  simulates' = [simulates EXCEPT ![p] = Makes(Head(down[p]), p)]
BY DEF GameReads, OnNotifyMount, OnNotifyDismount, Makes

\* So reading the last notice settles the game, and reading an earlier one leaves the last.
LEMMA ReadingSettles ==
    ASSUME HorseInv, NEW p \in Players, GameReads(p)
    PROVE  simulates' \in Flags /\ Settles'
<1>1. /\ down \in [Players -> Seq(Notices)] /\ simulates \in Flags /\ down[p] # <<>>
      /\ down' = [down EXCEPT ![p] = Tail(@)] /\ owner' = owner /\ In' = In
      /\ p \in In /\ In \subseteq Players
  BY InPlayers DEF HorseInv, ChannelsOK, GameReads, In
<1>2. simulates' = [simulates EXCEPT ![p] = Makes(Head(down[p]), p)]
  BY ReadingMakes
<1>3. Makes(Head(down[p]), p) \in BOOLEAN
  BY DEF Makes
<1>4. simulates' \in Flags
  BY <1>1, <1>2, <1>3 DEF Flags
<1>5. ASSUME NEW q \in In PROVE WillSimulate(q)' <=> WillSimulate(q)
  <2>1. CASE q # p
    BY <1>1, <1>2, <2>1 DEF WillSimulate, Makes, Flags
  <2>2. CASE q = p
    <3>1. /\ down'[p] = Tail(down[p])
          /\ simulates'[p] = Makes(Head(down[p]), p)
          /\ IF Tail(down[p]) = <<>> THEN Head(down[p]) = down[p][Len(down[p])]
             ELSE Tail(down[p])[Len(Tail(down[p]))] = down[p][Len(down[p])]
      BY <1>1, <1>2, LastOfTail DEF Flags
    <3>. QED BY <1>1, <2>2, <3>1 DEF WillSimulate, Makes
  <2>. QED BY <2>1, <2>2
<1>. QED BY <1>1, <1>4, <1>5 DEF HorseInv, Settles

\* A leaver's horse is the host's again, and every game left hears it; another's leave changes
\* nothing (HostCharacters::OnPlayerLeft).
LEMMA LeaveSettles ==
    ASSUME HorseInv, NEW g \in Guests, Leave(g)
    PROVE  Settles'
<1>1. /\ down \in [Players -> Seq(Notices)] /\ In \subseteq Players /\ simulates' = simulates
      /\ In' = In \ {g} /\ Notice("dismount", g) \in Notices
  BY InPlayers, NoticeTypes, MountsAssumption DEF HorseInv, ChannelsOK, Leave, In, Requests, Players
<1>2. CASE owner = g
  <2>1. ASSUME NEW p \in In' PROVE WillSimulate(p)' <=> p = owner'
    <3>1. down'[p] = Append(down[p], Notice("dismount", g))
      BY <1>1, <1>2, <2>1 DEF Leave
    <3>2. Makes(Notice("dismount", g), p) <=> p = owner'
      BY <1>2 DEF Leave, Makes, Notice
    <3>. QED BY <1>1, <2>1, <3>1, <3>2, LastOfAppend DEF WillSimulate, Makes
  <2>. QED BY <2>1 DEF Settles
<1>3. CASE owner # g
  <2>1. ASSUME NEW p \in In' PROVE down'[p] = down[p] /\ p \in In
    BY <1>1, <1>3, <2>1 DEF Leave
  <2>2. owner' = owner
    BY <1>3 DEF Leave
  <2>. QED BY <1>1, <2>1, <2>2 DEF HorseInv, Settles, WillSimulate, Makes
<1>. QED BY <1>2, <1>3

\* The invariant holds at first.
LEMMA HorseInit == Init => HorseInv
<1>. SUFFICES ASSUME Init PROVE HorseInv
  OBVIOUS
<1>1. ChannelsOK
  BY DEF Init, ChannelsOK, In
<1>2. simulates \in Flags
  BY DEF Init, Flags
<1>3. Settles
  BY InPlayers, <1>1 DEF Init, Settles, WillSimulate, In, Players
<1>. QED BY <1>1, <1>2, <1>3 DEF HorseInv

\* Every step keeps the invariant.
LEMMA HorseStays ==
    ASSUME HorseInv, [Next]_vars
    PROVE  HorseInv'
<1>1. ChannelsOK'
  BY ChannelsStay DEF HorseInv
<1>2. "mount" \in Requests /\ "dismount" \in Requests
  BY DEF Requests
<1>3. ASSUME simulates' = simulates, here' = here, owner' = owner, down' = down PROVE Settles'
  BY <1>3 DEF HorseInv, Settles, WillSimulate, Makes, In
<1>4. ASSUME NEW p \in In, TellDismount(p), simulates' = simulates, here' = here PROVE Settles'
  BY <1>2, <1>3, <1>4, SendSettles DEF TellDismount
<1>5. ASSUME NEW p \in Players, OnMountEvent(p) PROVE simulates' \in Flags /\ Settles'
  BY <1>2, <1>5, SendSettles DEF OnMountEvent, HorseInv
<1>6. ASSUME NEW p \in Players, OnDismountEvent(p) PROVE simulates' \in Flags /\ Settles'
  BY <1>4, <1>6 DEF OnDismountEvent, HorseInv
<1>7. ASSUME NEW p \in Players, MoveTo(p) PROVE simulates' \in Flags /\ Settles'
  BY <1>3, <1>7 DEF MoveTo, HorseInv
<1>8. ASSUME NEW p \in Players, OnPlayerArrived(p) PROVE simulates' \in Flags /\ Settles'
  BY <1>3, <1>4, <1>8 DEF OnPlayerArrived, HorseInv
<1>9. ASSUME NEW p \in Players, GameReads(p) PROVE simulates' \in Flags /\ Settles'
  BY <1>9, ReadingSettles
<1>10. ASSUME NEW g \in Guests, HostReads(g) PROVE simulates' \in Flags /\ Settles'
  <2>1. /\ Head(up[g]) \in Requests /\ g \in In /\ Handle(Head(up[g]), g)
        /\ simulates' = simulates /\ here' = here
    BY <1>10, NoticeTypes DEF HostReads, HorseInv, ChannelsOK, In
  <2>. QED BY <2>1, HandleSettles DEF HorseInv
<1>11. ASSUME NEW g \in Guests, Leave(g) PROVE simulates' \in Flags /\ Settles'
  BY <1>11, LeaveSettles DEF Leave, HorseInv
<1>12. ASSUME UNCHANGED vars PROVE simulates' \in Flags /\ Settles'
  BY <1>3, <1>12 DEF vars, HorseInv
<1>13. simulates' \in Flags /\ Settles'
  BY <1>5, <1>6, <1>7, <1>8, <1>9, <1>10, <1>11, <1>12 DEF Next
<1>. QED BY <1>1, <1>13 DEF HorseInv

\* When nothing is on its way, a game simulates the horse if it is to.
LEMMA SettledOne == HorseInv => OneSimulates
<1>. SUFFICES ASSUME HorseInv, Quiet PROVE {p \in In : simulates[p]} = {owner}
  BY DEF OneSimulates
<1>1. \A p \in In : simulates[p] <=> p = owner
  BY DEF Quiet, Lags, HorseInv, Settles, WillSimulate
<1>2. owner \in In
  BY DEF HorseInv, ChannelsOK
<1>. QED BY <1>1, <1>2

\* For any number of guests and rides: once every request and notice has been read, exactly one
\* game simulates the horse, and it is its owner's (CharacterService::OnNotifyMount, OnNotifyDismount).
THEOREM OneGameSimulates == Spec => []OneSimulates
<1>1. HorseInv /\ [Next]_vars => HorseInv'
  BY HorseStays
<1>. QED BY <1>1, HorseInit, SettledOne, PTL DEF Spec

-----------------------------------------------------------------------------
\* A ridden horse is kept by every game.

\* Before a notice that gives p the horse, p's game does not have it.
Announced(p) ==
    \A i \in DOMAIN down[p] : down[p][i] = Notice("mount", p) =>
        IF i = 1 THEN ~simulates[p] ELSE ~Makes(down[p][i - 1], p)

\* With the horse a guest's, the last notice on its way to p is of a mount, or p's game keeps the horse.
Keeps(p) ==
    owner \in Guests =>
        IF down[p] = <<>> THEN party[p] /\ lifetime[p] = "persistent"
        ELSE down[p][Len(down[p])].kind = "mount"

\* What the games' books of a kept horse are.
KeptOK == party \in Flags /\ lifetime \in [Players -> Lifetimes]

AccompanyInv == HorseInv /\ KeptOK /\ \A p \in In : Announced(p) /\ Keeps(p)

\* A channel that takes one more notice.
LEMMA AppendedAt ==
    ASSUME NEW S, NEW s \in Seq(S), NEW e \in S
    PROVE  /\ Append(s, e) # <<>> /\ Append(s, e)[Len(Append(s, e))] = e
           /\ \A i \in DOMAIN Append(s, e) :
                IF i = Len(s) + 1 THEN Append(s, e)[i] = e
                ELSE i \in DOMAIN s /\ Append(s, e)[i] = s[i]
           /\ \A i \in DOMAIN s : Append(s, e)[i] = s[i]
           /\ s # <<>> => Len(s) \in DOMAIN s
           /\ s = <<>> => Len(s) = 0
           /\ Len(s) \in Nat /\ DOMAIN s = 1 .. Len(s)
BY AppendProperties, LenProperties, EmptySeq

\* A channel whose first notice is read.
LEMMA ReadAt ==
    ASSUME NEW S, NEW s \in Seq(S), s # <<>>
    PROVE  /\ Head(s) = s[1] /\ Len(s) \in Nat \ {0} /\ DOMAIN s = 1 .. Len(s)
           /\ Tail(s) \in Seq(S) /\ Len(Tail(s)) = Len(s) - 1
           /\ \A i \in DOMAIN Tail(s) : i \in Nat \ {0} /\ i + 1 \in DOMAIN s /\ Tail(s)[i] = s[i + 1]
<1>1. PICK t \in Seq(S) :
        t = Tail(s) /\ Len(t) = Len(s) - 1 /\ \A i \in 1 .. Len(t) : t[i] = s[i + 1]
  BY HeadTailProperties
<1>2. Len(s) \in Nat \ {0} /\ Head(s) = s[1] /\ DOMAIN s = 1 .. Len(s) /\ DOMAIN t = 1 .. Len(t)
  BY EmptySeq, LenProperties
<1>3. \A i \in DOMAIN t : i \in Nat \ {0} /\ i + 1 \in DOMAIN s /\ t[i] = s[i + 1]
  BY <1>1, <1>2
<1>. QED BY <1>1, <1>2, <1>3, Zenon

\* One more notice keeps it so: a mount is told to its rider only when the horse was another's.
LEMMA ToldAnnounced ==
    ASSUME HorseInv, NEW p \in In, NEW notice \in Notices, Announced(p),
           down'[p] = Append(down[p], notice), simulates'[p] = simulates[p],
           notice = Notice("mount", p) => owner # p
    PROVE  Announced(p)'
<1>. DEFINE s == down[p]
            t == down'[p]
<1>1. s \in Seq(Notices) /\ (WillSimulate(p) <=> p = owner)
  BY InPlayers DEF HorseInv, Settles, ChannelsOK
<1>2. SUFFICES ASSUME NEW i \in DOMAIN t, t[i] = Notice("mount", p)
               PROVE  IF i = 1 THEN ~simulates[p] ELSE ~Makes(t[i - 1], p)
  BY DEF Announced, Makes
<1>3. CASE i = Len(s) + 1
  <2>1. notice = Notice("mount", p) /\ ~WillSimulate(p)
    BY <1>1, <1>2, <1>3, AppendedAt
  <2>2. CASE s = <<>>
    BY <1>1, <1>3, <2>1, <2>2, AppendedAt DEF WillSimulate
  <2>3. CASE s # <<>>
    <3>1. i # 1 /\ i - 1 = Len(s) /\ t[i - 1] = s[Len(s)]
      BY <1>1, <1>3, <2>3, AppendedAt
    <3>. QED BY <2>1, <2>3, <3>1 DEF WillSimulate
  <2>. QED BY <2>2, <2>3
<1>4. CASE i # Len(s) + 1
  <2>1. i \in DOMAIN s /\ s[i] = Notice("mount", p)
    BY <1>1, <1>2, <1>4, AppendedAt
  <2>2. i # 1 => i - 1 \in DOMAIN s /\ t[i - 1] = s[i - 1]
    BY <1>1, <2>1, AppendedAt
  <2>. QED BY <2>1, <2>2 DEF Announced
<1>. QED BY <1>3, <1>4

\* The host's handling of a request keeps both (HostCharacters::OnMount, OnDismount).
LEMMA HandleKeeps ==
    ASSUME AccompanyInv, NEW request \in Requests, NEW sender \in In, Handle(request, sender),
           simulates' = simulates,
           \A p \in In : ~(party'[p] /\ lifetime'[p] = "persistent") => party'[p] = party[p] /\ lifetime'[p] = lifetime[p]
    PROVE  \A p \in In : Announced(p)' /\ Keeps(p)'
<1>. TAKE p \in In
<1>1. /\ sender \in Players /\ p \in Players /\ In \subseteq Players /\ Host \notin Guests
      /\ down \in [Players -> Seq(Notices)] /\ down[p] \in Seq(Notices)
      /\ Notice("mount", sender) \in Notices /\ Notice("dismount", sender) \in Notices
  BY InPlayers, NoticeTypes, MountsAssumption DEF AccompanyInv, HorseInv, ChannelsOK, Requests
<1>2. Announced(p) /\ Keeps(p) /\ HorseInv
  BY DEF AccompanyInv
<1>3. ASSUME down'[p] = down[p], owner' \in Guests => owner \in Guests
      PROVE  Announced(p)' /\ Keeps(p)'
  BY <1>2, <1>3 DEF Announced, Keeps, Makes
<1>4. ASSUME NEW notice \in Notices, down'[p] = Append(down[p], notice),
             notice = Notice("mount", p) => owner # p,
             owner' \in Guests => notice.kind = "mount"
      PROVE  Announced(p)' /\ Keeps(p)'
  <2>1. Announced(p)'
    BY <1>2, <1>4, ToldAnnounced
  <2>2. down'[p] # <<>> /\ down'[p][Len(down'[p])] = notice
    BY <1>1, <1>4, AppendedAt
  <2>3. Keeps(p)'
    BY <1>4, <2>2 DEF Keeps
  <2>. QED BY <2>1, <2>3
<1>5. CASE request = "mount" /\ owner = sender
  <2>1. owner' = owner
    BY <1>5 DEF Handle, OnMount
  <2>2. CASE p = sender
    <3>1. down'[p] = down[p]
      BY <1>1, <1>5, <2>2 DEF Handle, OnMount, ToOthers
    <3>. QED BY <1>3, <2>1, <3>1
  <2>3. CASE p # sender
    <3>1. down'[p] = Append(down[p], Notice("mount", sender))
      BY <1>1, <1>5, <2>3 DEF Handle, OnMount, ToOthers
    <3>2. Notice("mount", sender).kind = "mount" /\ Notice("mount", sender) # Notice("mount", p)
      BY <2>3 DEF Notice
    <3>. QED BY <1>1, <1>4, <3>1, <3>2
  <2>. QED BY <2>2, <2>3
<1>6. CASE request = "mount" /\ owner # sender
  <2>1. down'[p] = Append(down[p], Notice("mount", sender))
    BY <1>1, <1>6 DEF Handle, OnMount, ToAll
  <2>2. Notice("mount", sender).kind = "mount" /\ (Notice("mount", sender) = Notice("mount", p) => sender = p)
    BY DEF Notice
  <2>. QED BY <1>1, <1>4, <1>6, <2>1, <2>2
<1>7. CASE request = "dismount" /\ owner = sender
  <2>1. down'[p] = Append(down[p], Notice("dismount", sender)) /\ owner' \notin Guests
    BY <1>1, <1>7 DEF Handle, OnDismount, GiveBack, ToAll
  <2>2. Notice("dismount", sender) # Notice("mount", p)
    BY DEF Notice
  <2>. QED BY <1>1, <1>4, <2>1, <2>2
<1>8. CASE request = "dismount" /\ owner # sender
  BY <1>3, <1>8 DEF Handle, OnDismount
<1>. QED BY <1>5, <1>6, <1>7, <1>8 DEF Requests

\* A request of the host's own does too, and a guest's is only on its way (TransportService::Send).
LEMMA SendKeeps ==
    ASSUME AccompanyInv, NEW request \in Requests, NEW sender \in In, SendRequest(sender, request),
           simulates' = simulates,
           \A p \in In : ~(party'[p] /\ lifetime'[p] = "persistent") => party'[p] = party[p] /\ lifetime'[p] = lifetime[p]
    PROVE  \A p \in In : Announced(p)' /\ Keeps(p)'
<1>1. CASE sender = Host
  BY <1>1, HandleKeeps DEF SendRequest
<1>2. CASE sender # Host
  <2>1. owner' = owner /\ down' = down
    BY <1>2 DEF SendRequest
  <2>. QED BY <2>1 DEF AccompanyInv, Announced, Keeps, Makes
<1>. QED BY <1>1, <1>2

\* A game that reads keeps the horse if the notice is of a mount (CharacterService::OnNotifyMount): its
\* own player's is new to it.
LEMMA ReadingKeeps ==
    ASSUME AccompanyInv, NEW p \in Players, GameReads(p), NEW q \in In
    PROVE  Announced(q)' /\ Keeps(q)'
<1>1. /\ down \in [Players -> Seq(Notices)] /\ simulates \in Flags /\ down[p] # <<>> /\ q \in Players
      /\ down' = [down EXCEPT ![p] = Tail(@)] /\ owner' = owner /\ Announced(q) /\ Keeps(q)
      /\ p \in In /\ HorseInv /\ party \in Flags /\ lifetime \in [Players -> Lifetimes]
  BY InPlayers DEF AccompanyInv, HorseInv, KeptOK, ChannelsOK, GameReads
<1>2. simulates' = [simulates EXCEPT ![p] = Makes(Head(down[p]), p)]
  BY <1>1, ReadingMakes
<1>3. CASE q # p
  <2>1. down'[q] = down[q] /\ simulates'[q] = simulates[q]
    BY <1>1, <1>2, <1>3 DEF Flags
  <2>2. party'[q] = party[q] /\ lifetime'[q] = lifetime[q]
    BY <1>1, <1>3 DEF GameReads, OnNotifyMount, OnNotifyDismount, KeepMount, ReleaseMount, Flags
  <2>. QED BY <1>1, <2>1, <2>2 DEF Announced, Keeps, Makes
<1>4. CASE q = p
  <2>. DEFINE s == down[p]
  <2>1. /\ s \in Seq(Notices) /\ down'[p] = Tail(s) /\ Head(s) = s[1] /\ Len(s) \in Nat \ {0}
        /\ simulates'[p] = Makes(s[1], p)
        /\ \A i \in DOMAIN Tail(s) : i \in Nat \ {0} /\ i + 1 \in DOMAIN s /\ Tail(s)[i] = s[i + 1]
    BY <1>1, <1>2, ReadAt DEF Flags
  <2>2. Announced(p)'
    <3>1. SUFFICES ASSUME NEW i \in DOMAIN Tail(s), Tail(s)[i] = Notice("mount", p)
                   PROVE  IF i = 1 THEN ~Makes(s[1], p) ELSE ~Makes(Tail(s)[i - 1], p)
      BY <2>1 DEF Announced, Makes
    <3>2. i + 1 \in DOMAIN s /\ s[i + 1] = Notice("mount", p) /\ i + 1 # 1 /\ (i + 1) - 1 = i
      BY <2>1, <3>1
    <3>3. ~Makes(s[i], p)
      BY <1>1, <1>4, <3>2 DEF Announced
    <3>4. CASE i = 1
      BY <3>3, <3>4
    <3>5. CASE i # 1
      <4>1. i - 1 \in DOMAIN Tail(s) /\ (i - 1) + 1 = i
        BY <1>1, <2>1, <3>5, HeadTailProperties, LenProperties
      <4>. QED BY <2>1, <3>3, <3>5, <4>1
    <3>. QED BY <3>4, <3>5
  <2>3. Keeps(p)'
    <3>1. SUFFICES ASSUME owner \in Guests
                   PROVE  IF Tail(s) = <<>> THEN party'[p] /\ lifetime'[p] = "persistent"
                          ELSE Tail(s)[Len(Tail(s))].kind = "mount"
      BY <1>1, <2>1 DEF Keeps
    <3>2. s[Len(s)].kind = "mount"
      BY <1>1, <1>4, <3>1 DEF Keeps
    <3>3. CASE Tail(s) # <<>>
      BY <1>1, <2>1, <3>2, <3>3, LastOfTail
    <3>4. CASE Tail(s) = <<>>
      <4>1. Head(s) = s[Len(s)]
        BY <1>1, <2>1, <3>4, LastOfTail
      <4>2. Head(s).kind = "mount" /\ OnNotifyMount(p, Head(s).rider)
        BY <1>1, <3>2, <4>1 DEF GameReads
      <4>3. Head(s).rider = p => s[1] = Notice("mount", p) /\ 1 \in DOMAIN s
        <5>1. 1 \in DOMAIN s /\ s[1] \in Notices /\ Head(s) = s[1]
          BY <2>1, LenProperties, ElementOfSeq, HeadTailProperties
        <5>2. Head(s).kind = "mount" /\ s[1] = Notice(s[1].kind, s[1].rider)
          BY <4>2, <5>1 DEF Notices, Notice
        <5>. QED BY <5>1, <5>2
      <4>4. ~(p = Head(s).rider /\ simulates[p])
        BY <1>1, <1>4, <4>3 DEF Announced
      <4>. QED BY <1>1, <3>4, <4>2, <4>4 DEF OnNotifyMount, KeepMount, Flags
    <3>. QED BY <3>3, <3>4
  <2>. QED BY <1>4, <2>2, <2>3
<1>. QED BY <1>3, <1>4

\* A leave keeps both too: a leaver's horse is the host's.
LEMMA LeaveKeeps ==
    ASSUME AccompanyInv, NEW g \in Guests, Leave(g), NEW p \in In'
    PROVE  Announced(p)' /\ Keeps(p)'
<1>1. /\ down \in [Players -> Seq(Notices)] /\ simulates' = simulates /\ p # g /\ p \in In /\ p \in Players
      /\ party' = party /\ lifetime' = lifetime /\ Host \notin Guests /\ Announced(p) /\ Keeps(p) /\ HorseInv
      /\ Notice("dismount", g) \in Notices /\ Notice("dismount", g) # Notice("mount", p)
  BY InPlayers, NoticeTypes, MountsAssumption
     DEF AccompanyInv, HorseInv, ChannelsOK, Leave, books, In, Requests, Players, Notice
<1>2. CASE owner = g
  <2>1. down'[p] = Append(down[p], Notice("dismount", g)) /\ owner' = Host
    BY <1>1, <1>2 DEF Leave
  <2>. QED BY <1>1, <2>1, ToldAnnounced DEF Keeps
<1>3. CASE owner # g
  <2>1. down'[p] = down[p] /\ owner' = owner
    BY <1>1, <1>3 DEF Leave
  <2>. QED BY <1>1, <2>1 DEF Announced, Keeps, Makes
<1>. QED BY <1>2, <1>3

-----------------------------------------------------------------------------
\* The games' books hold what they may hold.

BooksOK ==
    /\ simulates \in Flags /\ saddle \in Flags /\ ridden \in Flags
    /\ party \in Flags /\ loading \in Flags
    /\ lifetime \in [Players -> Lifetimes] /\ kept \in [Players -> Lifetimes \cup {"none"}]
    /\ rides \in 0 .. MaxRides /\ brief \in BOOLEAN /\ shared \in BOOLEAN

\* Noting a horse's lifetime and restoring it keep the notes (CharacterService::KeepMount, ReleaseMount).
LEMMA KeepType ==
    ASSUME BooksOK, NEW p \in Players, KeepMount(p) \/ ReleaseMount(p)
    PROVE  lifetime' \in [Players -> Lifetimes] /\ kept' \in [Players -> Lifetimes \cup {"none"}]
<1>1. CASE KeepMount(p)
  BY <1>1 DEF KeepMount, BooksOK, Lifetimes
<1>2. CASE ReleaseMount(p)
  BY <1>2 DEF ReleaseMount, BooksOK, Lifetimes
<1>. QED BY <1>1, <1>2

\* So does what a game makes of a notice (CharacterService::OnNotifyMount, OnNotifyDismount).
LEMMA NotifyType ==
    ASSUME BooksOK, NEW p \in Players, NEW rider, OnNotifyMount(p, rider) \/ OnNotifyDismount(p)
    PROVE  /\ simulates' \in Flags /\ ridden' \in Flags /\ party' \in Flags
           /\ lifetime' \in [Players -> Lifetimes] /\ kept' \in [Players -> Lifetimes \cup {"none"}]
<1>1. CASE OnNotifyMount(p, rider)
  <2>1. simulates' \in Flags /\ ridden' \in Flags /\ party' \in Flags
    BY <1>1 DEF OnNotifyMount, BooksOK, Flags
  <2>2. CASE p = rider /\ simulates[p]
    BY <1>1, <2>1, <2>2 DEF OnNotifyMount, BooksOK
  <2>3. CASE ~(p = rider /\ simulates[p])
    BY <1>1, <2>1, <2>3, KeepType DEF OnNotifyMount
  <2>. QED BY <2>2, <2>3
<1>2. CASE OnNotifyDismount(p)
  <2>1. simulates' \in Flags /\ ridden' \in Flags /\ party' \in Flags
    BY <1>2 DEF OnNotifyDismount, BooksOK, Flags
  <2>. QED BY <1>2, <2>1, KeepType DEF OnNotifyDismount
<1>. QED BY <1>1, <1>2

\* Every step keeps the books.
LEMMA BooksStay ==
    ASSUME BooksOK, [Next]_vars
    PROVE  BooksOK'
<1>1. ASSUME NEW p \in Players, OnMountEvent(p) PROVE BooksOK'
  <2>1. saddle' \in Flags /\ ridden' \in Flags /\ party' \in Flags
    BY <1>1 DEF OnMountEvent, BooksOK, Flags
  <2>2. rides' \in 0 .. MaxRides
    BY <1>1, MountsAssumption DEF OnMountEvent, BooksOK
  <2>3. brief' \in BOOLEAN /\ shared' \in BOOLEAN
    BY <1>1 DEF OnMountEvent
  <2>. QED BY <1>1, <2>1, <2>2, <2>3, KeepType DEF OnMountEvent, BooksOK
<1>2. ASSUME NEW p \in Players, OnDismountEvent(p) PROVE BooksOK'
  <2>1. saddle' \in Flags /\ ridden' \in Flags /\ brief' \in BOOLEAN
    BY <1>2 DEF OnDismountEvent, TellDismount, BooksOK, Flags
  <2>. QED BY <1>2, <2>1 DEF OnDismountEvent, BooksOK
<1>3. ASSUME NEW p \in Players, MoveTo(p) PROVE BooksOK'
  <2>1. saddle' \in Flags /\ loading' \in Flags /\ brief' \in BOOLEAN
    BY <1>3 DEF MoveTo, BooksOK, Flags
  <2>. QED BY <1>3, <2>1 DEF MoveTo, BooksOK, books
<1>4. ASSUME NEW p \in Players, OnPlayerArrived(p) PROVE BooksOK'
  <2>1. loading' \in Flags /\ ridden' \in Flags
    BY <1>4 DEF OnPlayerArrived, TellDismount, BooksOK, Flags
  <2>. QED BY <1>4, <2>1 DEF OnPlayerArrived, BooksOK
<1>5. ASSUME NEW p \in Players, GameReads(p) PROVE BooksOK'
  BY <1>5, NotifyType DEF GameReads, BooksOK
<1>6. ASSUME NEW g \in Guests, HostReads(g) PROVE BooksOK'
  BY <1>6 DEF HostReads, BooksOK, books
<1>7. ASSUME NEW g \in Guests, Leave(g) PROVE BooksOK'
  <2>1. saddle' \in Flags /\ loading' \in Flags
    BY <1>7 DEF Leave, BooksOK, Flags, Players
  <2>. QED BY <1>7, <2>1 DEF Leave, BooksOK, books
<1>8. CASE UNCHANGED vars
  BY <1>8 DEF vars, books, BooksOK
<1>. QED BY <1>1, <1>2, <1>3, <1>4, <1>5, <1>6, <1>7, <1>8 DEF Next

\* The books are so at first.
LEMMA BooksInit == Init => BooksOK
<1>. SUFFICES ASSUME Init PROVE BooksOK
  OBVIOUS
<1>1. /\ simulates \in Flags /\ saddle \in Flags /\ ridden \in Flags
      /\ party \in Flags /\ loading \in Flags
  BY DEF Init, Flags
<1>2. lifetime \in [Players -> Lifetimes] /\ kept \in [Players -> Lifetimes \cup {"none"}]
  BY MountsAssumption DEF Init, MountsAssumption
<1>3. rides \in 0 .. MaxRides
  BY MountsAssumption DEF Init, MountsAssumption
<1>4. brief \in BOOLEAN /\ shared \in BOOLEAN
  BY DEF Init
<1>. QED BY <1>1, <1>2, <1>3, <1>4 DEF BooksOK

\* Every reachable state is well typed, and the horse's owner is always a player of the session:
\* a leaver's horse is taken back with the leave (HostCharacters::OnPlayerLeft).
THEOREM TypeCorrect == Spec => []TypeOK
<1>1. Init => ChannelsOK /\ BooksOK
  <2>. SUFFICES ASSUME Init PROVE ChannelsOK /\ BooksOK
    OBVIOUS
  <2>1. ChannelsOK
    BY HorseInit DEF HorseInv
  <2>2. BooksOK
    BY BooksInit
  <2>. QED BY <2>1, <2>2
<1>2. ChannelsOK /\ BooksOK /\ [Next]_vars => (ChannelsOK /\ BooksOK)'
  BY ChannelsStay, BooksStay
<1>3. ChannelsOK /\ BooksOK => TypeOK
  BY DEF ChannelsOK, BooksOK, TypeOK
<1>. QED BY <1>1, <1>2, <1>3, PTL DEF Spec

-----------------------------------------------------------------------------
\* Every step keeps the invariant of the kept horse.
LEMMA AccompanyStays ==
    ASSUME AccompanyInv, BooksOK, [Next]_vars
    PROVE  AccompanyInv'
<1>1. HorseInv' /\ KeptOK'
  BY HorseStays, BooksStay DEF AccompanyInv, BooksOK, KeptOK
<1>2. "mount" \in Requests /\ "dismount" \in Requests
  BY DEF Requests
<1>. DEFINE Good == \A p \in In : Announced(p) /\ Keeps(p)
<1>3. ASSUME simulates' = simulates, In' = In, owner' = owner, down' = down, party' = party, lifetime' = lifetime
      PROVE  Good'
  BY <1>3 DEF AccompanyInv, Announced, Keeps, Makes
<1>4. ASSUME NEW p \in In, TellDismount(p), simulates' = simulates, In' = In, party' = party, lifetime' = lifetime
      PROVE  Good'
  <2>1. CASE ridden[p]
    BY <1>2, <1>4, <2>1, SendKeeps DEF TellDismount
  <2>2. CASE ~ridden[p]
    BY <1>3, <1>4, <2>2 DEF TellDismount
  <2>. QED BY <2>1, <2>2
<1>5. ASSUME NEW p \in Players, OnMountEvent(p) PROVE Good'
  <2>1. \A q \in In : ~(party'[q] /\ lifetime'[q] = "persistent") => party'[q] = party[q] /\ lifetime'[q] = lifetime[q]
    BY <1>5, InPlayers DEF OnMountEvent, KeepMount, AccompanyInv, HorseInv, KeptOK, Flags
  <2>2. simulates' = simulates /\ In' = In /\ p \in In /\ SendRequest(p, "mount")
    BY <1>5 DEF OnMountEvent, In
  <2>3. \A q \in In : Announced(q)' /\ Keeps(q)'
    BY <1>2, <2>1, <2>2, SendKeeps
  <2>. QED BY <2>2, <2>3
<1>6. ASSUME NEW p \in Players, OnDismountEvent(p) PROVE Good'
  BY <1>4, <1>6 DEF OnDismountEvent, In
<1>7. ASSUME NEW p \in Players, MoveTo(p) PROVE Good'
  BY <1>3, <1>7 DEF MoveTo, books, In
<1>8. ASSUME NEW p \in Players, OnPlayerArrived(p) PROVE Good'
  BY <1>3, <1>4, <1>8 DEF OnPlayerArrived, In
<1>9. ASSUME NEW p \in Players, GameReads(p) PROVE Good'
  <2>1. In' = In
    BY <1>9 DEF GameReads, In
  <2>. QED BY <1>9, <2>1, ReadingKeeps
<1>10. ASSUME NEW g \in Guests, HostReads(g) PROVE Good'
  <2>1. /\ Head(up[g]) \in Requests /\ g \in In /\ Handle(Head(up[g]), g)
        /\ simulates' = simulates /\ In' = In /\ party' = party /\ lifetime' = lifetime
    BY <1>10, NoticeTypes DEF HostReads, AccompanyInv, HorseInv, ChannelsOK, In, books
  <2>. QED BY <2>1, HandleKeeps
<1>11. ASSUME NEW g \in Guests, Leave(g) PROVE Good'
  BY <1>11, LeaveKeeps
<1>12. ASSUME UNCHANGED vars PROVE Good'
  BY <1>3, <1>12 DEF vars, books, In
<1>13. Good'
  BY <1>5, <1>6, <1>7, <1>8, <1>9, <1>10, <1>11, <1>12 DEF Next
<1>. QED BY <1>1, <1>13 DEF AccompanyInv

\* At first no notice is on its way, and the horse is the host's.
LEMMA AccompanyInit == Init => AccompanyInv /\ BooksOK
<1>. SUFFICES ASSUME Init PROVE AccompanyInv /\ BooksOK
  OBVIOUS
<1>1. HorseInv /\ BooksOK
  BY HorseInit, BooksInit DEF HorseInv
<1>2. KeptOK
  BY <1>1 DEF BooksOK, KeptOK
<1>3. ASSUME NEW p \in In PROVE Announced(p) /\ Keeps(p)
  <2>1. down[p] = <<>> /\ owner \notin Guests
    BY InPlayers, MountsAssumption DEF Init, HorseInv, Players, In, MountsAssumption
  <2>2. DOMAIN down[p] = {}
    BY <2>1
  <2>. QED BY <2>1, <2>2, Zenon DEF Announced, Keeps
<1>. QED BY <1>1, <1>2, <1>3 DEF AccompanyInv

\* For any number of guests and rides: once all is read, every game keeps the horse a guest rides
\* through unloading (CharacterService::OnActorRemoved, OnNotifyMount).
THEOREM RiddenHorseIsKept == Spec => []Accompanied
<1>1. Init => AccompanyInv /\ BooksOK
  BY AccompanyInit
<1>2. AccompanyInv /\ BooksOK /\ [Next]_vars => (AccompanyInv /\ BooksOK)'
  BY AccompanyStays, BooksStay
<1>3. AccompanyInv => Accompanied
  BY DEF AccompanyInv, Keeps, Accompanied, Quiet, Lags
<1>. QED BY <1>1, <1>2, <1>3, PTL DEF Spec

-----------------------------------------------------------------------------
\* The rider has the horse, and a horse nobody rides is as it was.

\* A game's note of the horse's lifetime is of the game's own data, and is there while it changed it.
NotedOK(p) ==
    /\ kept[p] = "none" => lifetime[p] = Native
    /\ kept[p] # "none" => kept[p] = Native
    /\ ~party[p] => kept[p] = "none"
NotedInv == \A p \in Players : NotedOK(p)

\* Of the notices in a channel: one gives p the horse; none takes it from its rider; the last one.
Gives(s, p) == \E i \in DOMAIN s : s[i] = Notice("mount", p)
TakesNone(s) == \A i \in DOMAIN s : s[i].kind = "mount"
Last(s) == s[Len(s)]

\* A player that is given the horse sits on it, and one whose game takes it for riding does so or was moved off.
GivenOK(p) == Gives(down[p], p) => saddle[p]
RiddenOK(p) == ridden[p] => saddle[p] \/ loading[p]

\* A guest asks for the horse while it sits on it, after giving it back if it had it; and gives it back once off it.
AsksMount(g) == saddle[g] /\ ~loading[g] /\ up[g] \in {<<"mount">>, <<"dismount", "mount">>}
AsksDismount(g) == ~saddle[g] /\ ~ridden[g] /\ up[g] = <<"dismount">>
AsksOK(g) == up[g] = <<>> \/ AsksMount(g) \/ AsksDismount(g)

\* A guest that has the horse by the host's rule gives it back, or its game takes it for riding once all is read.
OwnOK(g) ==
    owner = g => \/ up[g] # <<>> /\ Head(up[g]) = "dismount"
                 \/ up[g] = <<>> /\ (down[g] = <<>> => ridden[g])

\* Unless the host rides, the last word on a horse of the host's is that nobody rides it; or p has just got on.
HostRides == ridden[Host] /\ TakesNone(down[Host])
BackOK(p) ==
    owner = Host /\ ~HostRides =>
        IF down[p] = <<>> THEN party[p] => p \in Guests /\ AsksMount(p)
        ELSE Last(down[p]).kind = "dismount"

\* Who sits on it alone has it, or asks for it.
Alone == \A p, q \in In : saddle[p] /\ saddle[q] => p = q
SeatOK(p) == saddle[p] => IF p = Host THEN owner = Host /\ HostRides ELSE owner = p \/ AsksMount(p)

RideOK(p) ==
    /\ GivenOK(p) /\ RiddenOK(p) /\ BackOK(p) /\ (p \in Guests => AsksOK(p) /\ OwnOK(p))
    /\ ~shared => SeatOK(p)
RideInv ==
    /\ AccompanyInv /\ BooksOK /\ (~shared => Alone)
    /\ ~brief => \A p \in In : RideOK(p)

\* Noting and restoring a lifetime keep the notes true (CharacterService::KeepMount, ReleaseMount).
LEMMA KeepNotes ==
    ASSUME BooksOK, NotedInv, NEW p \in Players,
           \/ KeepMount(p) /\ \A q \in Players : party[q] \/ q = p => party'[q]
           \/ ReleaseMount(p) /\ \A q \in Players \ {p} : party'[q] = party[q]
    PROVE  NotedInv'
<1>1. Native \in Lifetimes /\ Native # "none"
  BY MountsAssumption DEF Lifetimes
<1>2. ASSUME NEW q \in Players, KeepMount(p), \A k \in Players : party[k] \/ k = p => party'[k]
      PROVE  NotedOK(q)'
  BY <1>1, <1>2 DEF KeepMount, NotedInv, NotedOK, BooksOK, Flags
<1>3. ASSUME NEW q \in Players, ReleaseMount(p), \A k \in Players \ {p} : party'[k] = party[k]
      PROVE  NotedOK(q)'
  BY <1>1, <1>3 DEF ReleaseMount, NotedInv, NotedOK, BooksOK, Flags
<1>. QED BY <1>2, <1>3 DEF NotedInv

\* Every step keeps the notes.
LEMMA NotesStay ==
    ASSUME BooksOK, NotedInv, [Next]_vars
    PROVE  NotedInv'
<1>1. ASSUME UNCHANGED <<party, kept, lifetime>> PROVE NotedInv'
  BY <1>1, Zenon DEF NotedInv, NotedOK
<1>2. ASSUME NEW p \in Players, OnMountEvent(p) PROVE NotedInv'
  <2>1. KeepMount(p) /\ \A q \in Players : party[q] \/ q = p => party'[q]
    BY <1>2 DEF OnMountEvent, BooksOK, Flags
  <2>. QED BY <2>1, KeepNotes
<1>3. ASSUME NEW p \in Players, GameReads(p) PROVE NotedInv'
  <2>1. ASSUME NEW rider, OnNotifyMount(p, rider) PROVE NotedInv'
    <3>1. CASE p = rider /\ simulates[p]
      <4>1. kept' = kept /\ lifetime' = lifetime /\ \A q \in Players : party[q] => party'[q]
        BY <2>1, <3>1 DEF OnNotifyMount, BooksOK, Flags
      <4>. QED BY <4>1, Zenon DEF NotedInv, NotedOK
    <3>2. CASE ~(p = rider /\ simulates[p])
      <4>1. KeepMount(p) /\ \A q \in Players : party[q] \/ q = p => party'[q]
        BY <2>1, <3>2 DEF OnNotifyMount, BooksOK, Flags
      <4>. QED BY <4>1, KeepNotes
    <3>. QED BY <3>1, <3>2
  <2>2. ASSUME OnNotifyDismount(p) PROVE NotedInv'
    <3>1. ReleaseMount(p) /\ \A q \in Players \ {p} : party'[q] = party[q]
      BY <2>2 DEF OnNotifyDismount, BooksOK, Flags
    <3>. QED BY <3>1, KeepNotes
  <2>. QED BY <1>3, <2>1, <2>2 DEF GameReads
<1>4. ASSUME NEW p \in Players, OnDismountEvent(p) \/ MoveTo(p) \/ OnPlayerArrived(p) PROVE NotedInv'
  BY <1>1, <1>4 DEF OnDismountEvent, MoveTo, OnPlayerArrived, books
<1>5. ASSUME NEW g \in Guests, HostReads(g) \/ Leave(g) PROVE NotedInv'
  BY <1>1, <1>5 DEF HostReads, Leave, books
<1>6. CASE UNCHANGED vars
  BY <1>1, <1>6 DEF vars, books
<1>. QED BY <1>2, <1>3, <1>4, <1>5, <1>6 DEF Next

\* A channel that takes one more notice.
LEMMA Told ==
    ASSUME NEW s \in Seq(Notices), NEW e \in Notices, NEW p
    PROVE  LET t == Append(s, e) IN
           /\ t # <<>> /\ Last(t) = e
           /\ Gives(t, p) => Gives(s, p) \/ e = Notice("mount", p)
           /\ TakesNone(t) <=> TakesNone(s) /\ e.kind = "mount"
<1>. DEFINE t == Append(s, e)
<1>1. /\ t # <<>> /\ t[Len(t)] = e /\ DOMAIN s = 1 .. Len(s) /\ Len(s) \in Nat
      /\ \A i \in DOMAIN t : IF i = Len(s) + 1 THEN t[i] = e ELSE i \in DOMAIN s /\ t[i] = s[i]
      /\ \A i \in DOMAIN s : t[i] = s[i]
  BY AppendedAt
<1>2. DOMAIN t = 1 .. Len(s) + 1
  BY AppendProperties, LenProperties
<1>3. Gives(t, p) => Gives(s, p) \/ e = Notice("mount", p)
  BY <1>1 DEF Gives
<1>4. TakesNone(t) <=> TakesNone(s) /\ e.kind = "mount"
  <2>1. \A i \in DOMAIN s : i \in DOMAIN t
    BY <1>1, <1>2
  <2>2. Len(s) + 1 \in DOMAIN t
    BY <1>1, <1>2
  <2>. QED BY <1>1, <2>1, <2>2 DEF TakesNone
<1>. QED BY <1>1, <1>3, <1>4 DEF Last

\* A channel whose first notice is read.
LEMMA Heard ==
    ASSUME NEW s \in Seq(Notices), s # <<>>, NEW p
    PROVE  LET t == Tail(s) IN
           /\ Head(s) \in Notices
           /\ IF t = <<>> THEN Head(s) = Last(s) ELSE Last(t) = Last(s)
           /\ Gives(t, p) \/ Head(s) = Notice("mount", p) => Gives(s, p)
           /\ TakesNone(s) <=> TakesNone(t) /\ Head(s).kind = "mount"
<1>. DEFINE t == Tail(s)
<1>1. /\ Head(s) = s[1] /\ Len(s) \in Nat \ {0} /\ DOMAIN s = 1 .. Len(s) /\ t \in Seq(Notices)
      /\ Len(t) = Len(s) - 1
      /\ \A i \in DOMAIN t : i \in Nat \ {0} /\ i + 1 \in DOMAIN s /\ t[i] = s[i + 1]
  BY ReadAt
<1>2. 1 \in DOMAIN s /\ DOMAIN t = 1 .. Len(t)
  BY <1>1, LenProperties
<1>3. Head(s) \in Notices
  BY <1>1, <1>2, ElementOfSeq
<1>4. IF t = <<>> THEN Head(s) = Last(s) ELSE Last(t) = Last(s)
  BY LastOfTail DEF Last
<1>5. Gives(t, p) \/ Head(s) = Notice("mount", p) => Gives(s, p)
  BY <1>1, <1>2 DEF Gives
<1>. HIDE DEF t
<1>6. TakesNone(s) <=> TakesNone(t) /\ Head(s).kind = "mount"
  <2>1. ASSUME NEW i \in DOMAIN s PROVE i = 1 \/ (i - 1 \in DOMAIN t /\ t[i - 1] = s[i])
    BY <1>1, <1>2
  <2>2. TakesNone(s) => TakesNone(t) /\ Head(s).kind = "mount"
    BY <1>1, <1>2 DEF TakesNone
  <2>3. TakesNone(t) /\ Head(s).kind = "mount" => TakesNone(s)
    BY <1>1, <2>1 DEF TakesNone
  <2>. QED BY <2>2, <2>3
<1>. QED BY <1>3, <1>4, <1>5, <1>6 DEF t

\* The requests a guest can have on their way.
LEMMA Asked ==
    /\ Append(<<>>, "mount") = <<"mount">> /\ Append(<<>>, "dismount") = <<"dismount">>
    /\ Append(<<"dismount">>, "mount") = <<"dismount", "mount">>
    /\ Head(<<"mount">>) = "mount" /\ Tail(<<"mount">>) = <<>>
    /\ Head(<<"dismount">>) = "dismount" /\ Tail(<<"dismount">>) = <<>>
    /\ Head(<<"dismount", "mount">>) = "dismount" /\ Tail(<<"dismount", "mount">>) = <<"mount">>
    /\ <<"mount">> # <<>> /\ <<"dismount">> # <<>> /\ <<"dismount", "mount">> # <<>>
    /\ <<"mount">> # <<"dismount">> /\ <<"dismount", "mount">> # <<"dismount">>
<1>1. Append(<<"dismount">>, "mount") = <<"dismount", "mount">>
  <2>. DEFINE s == <<"dismount">>
              t == Append(s, "mount")
              r == <<"dismount", "mount">>
  <2>1. s \in Seq(Requests) /\ "mount" \in Requests /\ r \in Seq(Requests) /\ Len(s) = 1 /\ Len(r) = 2
    BY DEF Requests
  <2>2. t \in Seq(Requests) /\ Len(t) = 2 /\ t[2] = "mount" /\ t[1] = s[1]
    BY <2>1, AppendProperties
  <2>3. r[1] = s[1] /\ r[2] = "mount"
    OBVIOUS
  <2>4. \A i \in 1 .. Len(t) : t[i] = r[i]
    <3>. HIDE DEF t, r, s
    <3>. QED BY <2>1, <2>2, <2>3
  <2>. HIDE DEF t, r, s
  <2>5. t = r
    BY <2>1, <2>2, <2>4, SeqEqual
  <2>. QED BY <2>5 DEF t, r, s
<1>. QED BY <1>1

\* What a step leaves of a player's ride.
Same(q) ==
    /\ saddle'[q] = saddle[q] /\ ridden'[q] = ridden[q] /\ party'[q] = party[q] /\ loading'[q] = loading[q]
    /\ q \in Guests => up'[q] = up[q]

\* The types of what a ride is made of.
LEMMA RideTypes ==
    ASSUME RideInv
    PROVE  /\ saddle \in Flags /\ ridden \in Flags /\ party \in Flags /\ loading \in Flags /\ simulates \in Flags
           /\ up \in [Guests -> Seq(Requests)] /\ down \in [Players -> Seq(Notices)]
           /\ Host \notin Guests /\ Host \in In /\ In \subseteq Players /\ here \subseteq Guests /\ owner \in Players
           /\ In = here \cup {Host} /\ Players = Guests \cup {Host} /\ HorseInv
           /\ \A k \in Requests, q \in Players : Notice(k, q) \in Notices
           /\ "mount" \in Requests /\ "dismount" \in Requests
<1>1. HorseInv /\ ChannelsOK /\ BooksOK
  BY DEF RideInv, AccompanyInv, HorseInv
<1>. QED BY <1>1, InPlayers, NoticeTypes, MountsAssumption
         DEF HorseInv, ChannelsOK, BooksOK, In, Players, Requests

\* Nothing of it changed.
LEMMA SameRide ==
    ASSUME RideInv, NEW q \in In, RideOK(q), Same(q), down'[q] = down[q], owner' = owner, HostRides => HostRides',
           ~shared' => ~shared \/ ~saddle[q]
    PROVE  RideOK(q)'
<1>1. GivenOK(q)' /\ RiddenOK(q)'
  BY DEF RideOK, Same, GivenOK, RiddenOK, Gives, Notice
<1>2. q \in Guests => (AsksMount(q)' <=> AsksMount(q)) /\ (AsksDismount(q)' <=> AsksDismount(q))
  BY Zenon DEF Same, AsksMount, AsksDismount
<1>3. BackOK(q)'
  <2>. SUFFICES ASSUME owner = Host, ~HostRides
                PROVE  IF down[q] = <<>> THEN party[q] => q \in Guests /\ AsksMount(q)' ELSE Last(down[q]).kind = "dismount"
    BY Zenon DEF BackOK, Last, Same
  <2>. QED BY <1>2, Zenon DEF RideOK, BackOK
<1>4. q \in Guests => AsksOK(q)' /\ OwnOK(q)'
  BY <1>2, Zenon DEF RideOK, Same, AsksOK, OwnOK
<1>5. ~shared' => SeatOK(q)'
  <2>. SUFFICES ASSUME ~shared', saddle[q], SeatOK(q)
                PROVE  IF q = Host THEN owner = Host /\ HostRides' ELSE owner = q \/ AsksMount(q)'
    BY Zenon DEF SeatOK, RideOK, Same
  <2>1. q # Host => q \in Guests
    BY RideTypes
  <2>. QED BY <1>2, <2>1, Zenon DEF SeatOK
<1>. QED BY <1>1, <1>3, <1>4, <1>5, Zenon DEF RideOK

\* A guest with the horse by the host's rule is told so last.
LEMMA OwnGiven ==
    ASSUME HorseInv, NEW g \in here, owner = g, down[g] # <<>>
    PROVE  Last(down[g]) = Notice("mount", g) /\ Gives(down[g], g)
<1>1. g \in Guests /\ g # Host /\ g \in In /\ g \in Players /\ down[g] \in Seq(Notices)
  BY InPlayers, MountsAssumption DEF HorseInv, ChannelsOK, In
<1>2. Makes(Last(down[g]), g)
  BY <1>1 DEF HorseInv, Settles, WillSimulate, Last
<1>3. Len(down[g]) \in DOMAIN down[g] /\ Last(down[g]) \in Notices
  BY <1>1, AppendedAt, ElementOfSeq DEF Last
<1>4. Last(down[g]) = Notice(Last(down[g]).kind, Last(down[g]).rider)
  BY <1>3 DEF Notices, Notice
<1>5. Last(down[g]).kind = "mount" /\ Last(down[g]).rider = g
  BY <1>1, <1>2 DEF Makes
<1>. QED BY <1>3, <1>4, <1>5 DEF Gives, Last

\* A player that gets on is alone on the horse, or shares it.
LEMMA AloneStays ==
    ASSUME RideInv, [Next]_vars, ~shared'
    PROVE  ~shared /\ Alone'
<1>1. saddle \in Flags /\ (~shared => Alone)
  BY RideTypes DEF RideInv
<1>2. ASSUME ~shared, In' \subseteq In, \A q \in Players : saddle'[q] => saddle[q] PROVE ~shared /\ Alone'
  BY <1>1, <1>2, RideTypes DEF Alone
<1>3. ASSUME NEW p \in Players, OnMountEvent(p) PROVE ~shared /\ Alone'
  <2>1. In' = In /\ ~shared /\ \A q \in In : ~saddle[q]
    BY <1>3 DEF OnMountEvent, In
  <2>2. \A q \in In : saddle'[q] => q = p
    BY <1>1, <1>3, <2>1, RideTypes DEF OnMountEvent, Flags
  <2>. QED BY <2>1, <2>2 DEF Alone
<1>4. ASSUME NEW p \in Players, OnDismountEvent(p) PROVE ~shared /\ Alone'
  BY <1>1, <1>2, <1>4 DEF OnDismountEvent, In, Flags
<1>5. ASSUME NEW p \in Players, MoveTo(p) PROVE ~shared /\ Alone'
  BY <1>1, <1>2, <1>5 DEF MoveTo, In, Flags
<1>6. ASSUME NEW p \in Players, OnPlayerArrived(p) \/ GameReads(p) PROVE ~shared /\ Alone'
  BY <1>1, <1>2, <1>6 DEF OnPlayerArrived, GameReads, In, Flags
<1>7. ASSUME NEW g \in Guests, HostReads(g) PROVE ~shared /\ Alone'
  BY <1>1, <1>2, <1>7 DEF HostReads, In, Flags
<1>8. ASSUME NEW g \in Guests, Leave(g) PROVE ~shared /\ Alone'
  BY <1>1, <1>2, <1>8 DEF Leave, In, Flags
<1>9. CASE UNCHANGED vars
  BY <1>1, <1>2, <1>9 DEF vars, In, Flags
<1>. QED BY <1>3, <1>4, <1>5, <1>6, <1>7, <1>8, <1>9 DEF Next

\* A guest that gets on asks for the horse (CharacterService::OnMountEvent).
LEMMA GuestMounts ==
    ASSUME RideInv, NEW p \in Guests, OnMountEvent(p), ~brief', NEW q \in In
    PROVE  RideOK(q)'
<1>1. /\ p \in here /\ p \in In /\ ~saddle[p] /\ ~loading[p] /\ owner' = owner /\ down' = down /\ ~brief /\ p # Host
      /\ ~shared' => ~shared /\ ~saddle[q]
  BY RideTypes DEF OnMountEvent, SendRequest
<1>2. /\ saddle' = [saddle EXCEPT ![p] = TRUE] /\ ridden' = [ridden EXCEPT ![p] = TRUE]
      /\ party' = [party EXCEPT ![p] = TRUE] /\ loading' = loading /\ up' = [up EXCEPT ![p] = Append(@, "mount")]
  BY <1>1 DEF OnMountEvent, SendRequest
<1>3. RideOK(p) /\ RideOK(q)
  BY <1>1 DEF RideInv
<1>4. HostRides' <=> HostRides
  BY <1>1, <1>2, RideTypes DEF HostRides, TakesNone, Flags
<1>5. CASE q # p
  <2>1. Same(q)
    BY <1>2, <1>5, RideTypes DEF Same, Flags
  <2>. QED BY <1>1, <1>3, <1>4, <2>1, SameRide
<1>6. CASE q = p
  <2>1. saddle'[p] /\ ridden'[p] /\ ~loading'[p] /\ up'[p] = Append(up[p], "mount")
    BY <1>1, <1>2, RideTypes DEF Flags
  <2>2. up[p] \in {<<>>, <<"dismount">>}
    BY <1>1, <1>3, Zenon DEF RideOK, AsksOK, AsksMount, AsksDismount
  <2>3. AsksMount(p)'
    BY <1>1, <2>1, <2>2, Asked DEF AsksMount
  <2>4. OwnOK(p)'
    <3>1. SUFFICES ASSUME owner = p PROVE Head(up'[p]) = "dismount" /\ up'[p] # <<>>
      BY <1>1, Zenon DEF OwnOK
    <3>2. up[p] # <<>>
      <4>1. SUFFICES ASSUME up[p] = <<>> PROVE FALSE
        OBVIOUS
      <4>2. down[p] = <<>> => ridden[p]
        BY <1>3, <3>1, <4>1, Zenon DEF RideOK, OwnOK
      <4>3. CASE down[p] = <<>>
        BY <1>1, <1>3, <4>2, <4>3, Zenon DEF RideOK, RiddenOK
      <4>4. CASE down[p] # <<>>
        BY <1>1, <1>3, <3>1, <4>4, OwnGiven, RideTypes DEF RideOK, GivenOK
      <4>. QED BY <4>3, <4>4
    <3>. QED BY <2>1, <2>2, <3>2, Asked
  <2>5. BackOK(p)'
    BY <1>1, <1>3, <1>4, <2>3, Zenon DEF RideOK, BackOK, Last
  <2>. QED BY <1>1, <1>6, <2>1, <2>3, <2>4, <2>5, Zenon DEF RideOK, GivenOK, RiddenOK, AsksOK, SeatOK
<1>. QED BY <1>5, <1>6

\* The host's player gets on: the horse is the host's at once (HostCharacters::OnMount).
LEMMA HostMounts ==
    ASSUME RideInv, OnMountEvent(Host), ~brief', NEW q \in In
    PROVE  RideOK(q)'
<1>. DEFINE n == Notice("mount", Host)
<1>1. /\ ~saddle[Host] /\ ~loading[Host] /\ owner' = Host /\ down[Host] = <<>> /\ ~brief
      /\ ~shared' => ~saddle[q]
      /\ saddle' = [saddle EXCEPT ![Host] = TRUE] /\ ridden' = [ridden EXCEPT ![Host] = TRUE]
      /\ party' = [party EXCEPT ![Host] = TRUE] /\ loading' = loading /\ up' = up
      /\ OnMount(Host)
  BY RideTypes DEF OnMountEvent, SendRequest, Handle, OnMount
<1>2. /\ n \in Notices /\ n.kind = "mount" /\ (n = Notice("mount", q) => q = Host) /\ q \in Players
      /\ down[q] \in Seq(Notices) /\ down[Host] \in Seq(Notices)
  BY RideTypes DEF Notice
<1>3. \A k \in In : down'[k] = Append(down[k], n) \/ (k = Host /\ down'[k] = down[k])
  BY <1>1, RideTypes DEF OnMount, ToOthers, ToAll
<1>4. HostRides'
  <2>1. TakesNone(down[Host])
    BY <1>1 DEF TakesNone
  <2>2. TakesNone(down'[Host])
    <3>1. TakesNone(Append(down[Host], n))
      BY <1>2, <2>1, Told
    <3>. QED BY <1>3, <2>1, <3>1, RideTypes DEF TakesNone
  <2>3. ridden'[Host]
    BY <1>1, RideTypes DEF Flags
  <2>. QED BY <2>2, <2>3 DEF HostRides, TakesNone
<1>5. RideOK(q)
  BY <1>1 DEF RideInv
<1>6. (q # Host => Same(q)) /\ saddle'[Host]
  BY <1>1, RideTypes DEF Same, Flags
<1>7. GivenOK(q)'
  <2>1. Gives(down'[q], q) => Gives(down[q], q) \/ q = Host
    <3>1. Gives(Append(down[q], n), q) => Gives(down[q], q) \/ q = Host
      BY <1>2, Told
    <3>. QED BY <1>3, <3>1, Zenon DEF Gives, Notice
  <2>. QED BY <1>5, <1>6, <2>1 DEF RideOK, GivenOK, Same, Gives, Notice
<1>8. RiddenOK(q)' /\ BackOK(q)'
  BY <1>1, <1>4, <1>5, <1>6, Zenon DEF RideOK, RiddenOK, BackOK, Same
<1>9. q \in Guests => AsksOK(q)' /\ OwnOK(q)'
  <2>. SUFFICES ASSUME q \in Guests PROVE AsksOK(q)' /\ OwnOK(q)'
    OBVIOUS
  <2>1. q # Host
    BY RideTypes
  <2>. QED BY <1>1, <1>5, <1>6, <2>1, Zenon DEF RideOK, AsksOK, AsksMount, AsksDismount, OwnOK, Same
<1>10. ~shared' => SeatOK(q)'
  BY <1>1, <1>4, <1>6, Zenon DEF SeatOK, Same
<1>. QED BY <1>7, <1>8, <1>9, <1>10, Zenon DEF RideOK

\* The host's player is off: a horse of the host's is given back at once (HostCharacters::OnDismount).
LEMMA HostGetsOff ==
    ASSUME RideInv, ~brief, TellDismount(Host), ~saddle'[Host], ~Gives(down[Host], Host), NEW q \in In,
           \A k \in In \ {Host} : saddle'[k] = saddle[k] /\ loading'[k] = loading[k],
           party' = party, ~shared' => ~shared
    PROVE  RideOK(q)'
<1>. DEFINE n == Notice("dismount", Host)
<1>1. up' = up /\ ridden' = [ridden EXCEPT ![Host] = FALSE]
  BY DEF TellDismount, SendRequest
<1>2. ~ridden'[Host] /\ ~HostRides' /\ (q # Host => Same(q)) /\ RideOK(q)
  BY <1>1, RideTypes DEF HostRides, Same, Flags, RideInv
<1>3. /\ n \in Notices /\ n.kind = "dismount" /\ n # Notice("mount", q) /\ q \in Players /\ down[q] \in Seq(Notices)
      /\ q # Host => q \in Guests
      /\ q \in Guests => q # Host
  BY RideTypes DEF Notice
<1>4. CASE owner = Host /\ ridden[Host]
  <2>1. owner' = Host /\ down'[q] = Append(down[q], n)
    BY <1>3, <1>4, RideTypes DEF TellDismount, SendRequest, Handle, OnDismount, GiveBack, ToAll
  <2>2. /\ down'[q] # <<>> /\ Last(down'[q]) = n
        /\ Gives(down'[q], q) => Gives(down[q], q)
    BY <1>3, <2>1, Told
  <2>3. GivenOK(q)'
    BY <1>2, <2>2, Zenon DEF RideOK, GivenOK, Gives, Notice, Same
  <2>4. RiddenOK(q)'
    BY <1>2, Zenon DEF RideOK, RiddenOK, Same
  <2>5. BackOK(q)'
    BY <1>3, <2>2, Zenon DEF BackOK, Last
  <2>6. q \in Guests => AsksOK(q)' /\ OwnOK(q)'
    BY <1>2, <1>3, <2>1, Zenon DEF RideOK, AsksOK, AsksMount, AsksDismount, OwnOK, Same
  <2>7. ~shared' => SeatOK(q)'
    BY <1>2, <1>3, <1>4, Zenon DEF RideOK, SeatOK, AsksMount, Same
  <2>. QED BY <2>3, <2>4, <2>5, <2>6, <2>7, Zenon DEF RideOK
<1>5. CASE ~(owner = Host /\ ridden[Host])
  <2>1. owner' = owner /\ down' = down
    BY <1>5 DEF TellDismount, SendRequest, Handle, OnDismount
  <2>2. GivenOK(q)'
    BY <1>2, <2>1 DEF RideOK, GivenOK, Gives, Notice, Same
  <2>3. RiddenOK(q)'
    BY <1>2, Zenon DEF RideOK, RiddenOK, Same
  <2>4. BackOK(q)'
    <3>. SUFFICES ASSUME owner = Host
                  PROVE  IF down[q] = <<>> THEN party[q] => q \in Guests /\ AsksMount(q)' ELSE Last(down[q]).kind = "dismount"
      BY <2>1, Zenon DEF BackOK, Last
    <3>1. ~HostRides
      BY <1>5, Zenon DEF HostRides
    <3>. QED BY <1>2, <1>3, <3>1, Zenon DEF RideOK, BackOK, AsksMount, Same
  <2>5. q \in Guests => AsksOK(q)' /\ OwnOK(q)'
    BY <1>2, <1>3, <2>1, Zenon DEF RideOK, AsksOK, AsksMount, AsksDismount, OwnOK, Same
  <2>6. ~shared' => SeatOK(q)'
    BY <1>2, <1>3, <2>1, Zenon DEF RideOK, SeatOK, AsksMount, Same
  <2>. QED BY <2>2, <2>3, <2>4, <2>5, <2>6, Zenon DEF RideOK
<1>. QED BY <1>4, <1>5

\* A guest that gets off with all read gives the horse back if it had it (CharacterService::OnDismountEvent).
LEMMA GuestDismounts ==
    ASSUME RideInv, NEW p \in Guests, OnDismountEvent(p), ~brief', NEW q \in In
    PROVE  RideOK(q)'
<1>1. /\ p \in In /\ saddle[p] /\ owner' = owner /\ down' = down /\ ~brief /\ shared' = shared /\ p # Host
      /\ down[p] = <<>> /\ up[p] = <<>>
      /\ saddle' = [saddle EXCEPT ![p] = FALSE] /\ ridden' = [ridden EXCEPT ![p] = FALSE]
      /\ party' = party /\ loading' = loading
      /\ up' = IF ridden[p] THEN [up EXCEPT ![p] = Append(@, "dismount")] ELSE up
  BY RideTypes DEF OnDismountEvent, TellDismount, SendRequest, Lags
<1>2. RideOK(p) /\ RideOK(q)
  BY <1>1 DEF RideInv
<1>3. HostRides' <=> HostRides
  BY <1>1, RideTypes DEF HostRides, TakesNone, Flags
<1>4. CASE q # p
  <2>1. Same(q)
    BY <1>1, <1>4, RideTypes DEF Same, Flags
  <2>. QED BY <1>1, <1>2, <1>3, <2>1, SameRide
<1>5. CASE q = p
  <2>1. ~saddle'[p] /\ ~ridden'[p] /\ party'[p] = party[p] /\ up'[p] = IF ridden[p] THEN <<"dismount">> ELSE <<>>
    BY <1>1, RideTypes, Asked DEF Flags
  <2>2. GivenOK(p)'
    <3>1. DOMAIN down[p] = {}
      BY <1>1
    <3>. QED BY <1>1, <3>1, Zenon DEF GivenOK, Gives
  <2>3. BackOK(p)'
    BY <1>1, <1>2, <1>3, <2>1, Asked, Zenon DEF RideOK, BackOK, AsksMount
  <2>4. AsksOK(p)'
    BY <2>1, Zenon DEF AsksOK, AsksDismount
  <2>5. OwnOK(p)'
    BY <1>1, <1>2, <2>1, Asked, Zenon DEF RideOK, OwnOK
  <2>. QED BY <1>5, <2>1, <2>2, <2>3, <2>4, <2>5, Zenon DEF RideOK, RiddenOK, SeatOK
<1>. QED BY <1>4, <1>5

\* A player is moved by the engine with all read; on the horse or off it.
LEMMA Moves ==
    ASSUME RideInv, NEW p \in Players, MoveTo(p), ~brief', NEW q \in In
    PROVE  RideOK(q)'
<1>1. /\ p \in In /\ saddle[p] /\ owner' = owner /\ down' = down /\ up' = up /\ ~brief /\ shared' = shared
      /\ down[p] = <<>> /\ (p \in Guests => up[p] = <<>>) /\ (\E on \in BOOLEAN : saddle' = [saddle EXCEPT ![p] = on])
      /\ loading' = [loading EXCEPT ![p] = TRUE] /\ ridden' = ridden /\ party' = party
  BY DEF MoveTo, Lags, books
<1>2. RideOK(p) /\ RideOK(q)
  BY <1>1 DEF RideInv
<1>3. HostRides' <=> HostRides
  BY <1>1 DEF HostRides, TakesNone
<1>4. CASE q # p
  <2>1. Same(q)
    BY <1>1, <1>4, RideTypes DEF Same, Flags
  <2>. QED BY <1>1, <1>2, <1>3, <2>1, SameRide
<1>5. CASE q = p
  <2>1. loading'[p]
    BY <1>1, RideTypes DEF Flags
  <2>2. GivenOK(p)'
    <3>1. DOMAIN down[p] = {}
      BY <1>1
    <3>. QED BY <1>1, <3>1, Zenon DEF GivenOK, Gives
  <2>3. ~(p \in Guests /\ AsksMount(p))
    BY <1>1, Asked, Zenon DEF AsksMount
  <2>4. BackOK(p)'
    BY <1>1, <1>2, <1>3, <2>3, Zenon DEF RideOK, BackOK
  <2>5. p \in Guests => AsksOK(p)' /\ OwnOK(p)'
    BY <1>1, <1>2, Zenon DEF RideOK, AsksOK, OwnOK
  <2>6. ~shared' => SeatOK(p)'
    <3>1. p # Host => p \in Guests
      BY RideTypes
    <3>. QED BY <1>1, <1>2, <1>3, <2>3, <3>1, Zenon DEF RideOK, SeatOK
  <2>. QED BY <1>5, <2>1, <2>2, <2>4, <2>5, <2>6, Zenon DEF RideOK, RiddenOK
<1>. QED BY <1>4, <1>5

\* A player arrives on the horse: nothing is sent (CharacterService::OnPlayerArrived).
LEMMA ArrivesRiding ==
    ASSUME RideInv, NEW p \in Players, OnPlayerArrived(p), saddle[p], ~brief', NEW q \in In
    PROVE  RideOK(q)'
<1>1. /\ p \in In /\ loading[p] /\ owner' = owner /\ down' = down /\ up' = up /\ ~brief /\ shared' = shared
      /\ saddle' = saddle /\ loading' = [loading EXCEPT ![p] = FALSE] /\ ridden' = ridden /\ party' = party
  BY DEF OnPlayerArrived
<1>2. RideOK(p) /\ RideOK(q)
  BY <1>1 DEF RideInv
<1>3. HostRides' <=> HostRides
  BY <1>1 DEF HostRides, TakesNone
<1>4. CASE q # p
  <2>1. Same(q)
    BY <1>1, <1>4, RideTypes DEF Same, Flags
  <2>. QED BY <1>1, <1>2, <1>3, <2>1, SameRide
<1>5. CASE q = p
  <2>1. ~loading'[p]
    BY <1>1, RideTypes DEF Flags
  <2>2. GivenOK(p)' /\ RiddenOK(p)'
    BY <1>1, <1>2 DEF RideOK, GivenOK, RiddenOK, Gives, Notice
  <2>3. p \in Guests => up[p] = <<>> /\ ~AsksMount(p)
    BY <1>1, <1>2, Zenon DEF RideOK, AsksOK, AsksMount, AsksDismount
  <2>4. BackOK(p)'
    BY <1>1, <1>2, <1>3, <2>3, Zenon DEF RideOK, BackOK, Last
  <2>5. p \in Guests => AsksOK(p)' /\ OwnOK(p)'
    BY <1>1, <1>2, <2>3, Zenon DEF RideOK, AsksOK, OwnOK
  <2>6. ~shared' => SeatOK(p)'
    <3>1. p # Host => p \in Guests
      BY RideTypes
    <3>. QED BY <1>1, <1>2, <1>3, <2>3, <3>1, Zenon DEF RideOK, SeatOK
  <2>. QED BY <1>5, <2>2, <2>4, <2>5, <2>6, Zenon DEF RideOK
<1>. QED BY <1>4, <1>5

\* A guest arrives that the engine took off the horse: it gives it back, whatever was told meanwhile.
LEMMA GuestArrives ==
    ASSUME RideInv, NEW p \in Guests, OnPlayerArrived(p), ~saddle[p], ~brief', NEW q \in In
    PROVE  RideOK(q)'
<1>1. /\ p \in In /\ p \in here /\ loading[p] /\ owner' = owner /\ down' = down /\ ~brief /\ shared' = shared /\ p # Host
      /\ saddle' = saddle /\ loading' = [loading EXCEPT ![p] = FALSE] /\ ridden' = [ridden EXCEPT ![p] = FALSE]
      /\ party' = party
      /\ up' = IF ridden[p] THEN [up EXCEPT ![p] = Append(@, "dismount")] ELSE up
  BY RideTypes DEF OnPlayerArrived, TellDismount, SendRequest
<1>2. RideOK(p) /\ RideOK(q)
  BY <1>1 DEF RideInv
<1>3. HostRides' <=> HostRides
  BY <1>1, RideTypes DEF HostRides, TakesNone, Flags
<1>4. CASE q # p
  <2>1. Same(q)
    BY <1>1, <1>4, RideTypes DEF Same, Flags
  <2>. QED BY <1>1, <1>2, <1>3, <2>1, SameRide
<1>5. CASE q = p
  <2>1. ~loading'[p] /\ ~ridden'[p] /\ ~saddle'[p]
    BY <1>1, RideTypes DEF Flags
  <2>2. IF ridden[p] THEN up[p] = <<>> /\ up'[p] = <<"dismount">> ELSE up'[p] = up[p]
    <3>1. ridden[p] => up[p] = <<>>
      BY <1>2, Zenon DEF RideOK, AsksOK, AsksMount, AsksDismount
    <3>. QED BY <1>1, <3>1, RideTypes, Asked
  <2>3. GivenOK(p)'
    BY <1>1, <1>2 DEF RideOK, GivenOK, Gives, Notice
  <2>4. BackOK(p)'
    BY <1>1, <1>2, <1>3, Zenon DEF RideOK, BackOK, AsksMount, Last
  <2>5. AsksOK(p)'
    BY <1>2, <2>1, <2>2, Zenon DEF RideOK, AsksOK, AsksMount, AsksDismount
  <2>6. OwnOK(p)'
    <3>1. CASE ridden[p]
      BY <2>2, <3>1, Asked, Zenon DEF OwnOK
    <3>2. CASE ~ridden[p]
      <4>1. owner = p /\ down[p] # <<>> => FALSE
        BY <1>1, <1>2, OwnGiven, RideTypes DEF RideOK, GivenOK
      <4>. QED BY <1>1, <1>2, <2>2, <3>2, <4>1, Zenon DEF RideOK, OwnOK
    <3>. QED BY <3>1, <3>2
  <2>. QED BY <1>5, <2>1, <2>3, <2>4, <2>5, <2>6, Zenon DEF RideOK, RiddenOK, SeatOK
<1>. QED BY <1>4, <1>5

\* A game reads a notice: one that gives its player the horse finds it in the saddle.
LEMMA ReadingRides ==
    ASSUME RideInv, NEW p \in Players, GameReads(p), ~brief', NEW q \in In
    PROVE  RideOK(q)'
<1>. DEFINE n == Head(down[p])
            t == Tail(down[p])
<1>1. /\ p \in In /\ down[p] # <<>> /\ owner' = owner /\ up' = up /\ ~brief /\ shared' = shared
      /\ saddle' = saddle /\ loading' = loading /\ down' = [down EXCEPT ![p] = t]
      /\ IF n.kind = "mount" THEN OnNotifyMount(p, n.rider) ELSE OnNotifyDismount(p)
  BY DEF GameReads
<1>2. /\ RideOK(p) /\ RideOK(q) /\ Announced(p) /\ down[p] \in Seq(Notices) /\ down'[p] = t
      /\ p # Host => p \in Guests
  BY <1>1, RideTypes DEF RideInv, AccompanyInv
<1>3. /\ n \in Notices
      /\ IF t = <<>> THEN n = Last(down[p]) ELSE Last(t) = Last(down[p])
      /\ Gives(t, p) \/ n = Notice("mount", p) => Gives(down[p], p)
      /\ TakesNone(down[p]) <=> TakesNone(t) /\ n.kind = "mount"
  BY <1>1, <1>2, Heard
<1>4. n = Notice(n.kind, n.rider)
  BY <1>3 DEF Notices, Notice
<1>5. /\ \A k \in Players \ {p} : ridden'[k] = ridden[k] /\ party'[k] = party[k] /\ down'[k] = down[k]
      /\ party'[p] <=> n.kind = "mount"
      /\ n.kind = "mount" => (ridden'[p] <=> ridden[p] \/ (p = n.rider /\ ~simulates[p]))
      /\ n.kind # "mount" => ~ridden'[p]
  <2>1. \A k \in Players \ {p} : down'[k] = down[k]
    BY <1>1, RideTypes
  <2>. HIDE DEF n, t
  <2>2. CASE n.kind = "mount"
    <3>1. OnNotifyMount(p, n.rider)
      BY <1>1, <2>2
    <3>. QED BY <2>1, <2>2, <3>1, RideTypes DEF OnNotifyMount, Flags
  <2>3. CASE n.kind # "mount"
    <3>1. OnNotifyDismount(p)
      BY <1>1, <2>3
    <3>. QED BY <2>1, <2>3, <3>1, RideTypes DEF OnNotifyDismount, Flags
  <2>. QED BY <2>2, <2>3
<1>. HIDE DEF n, t
<1>6. HostRides => HostRides'
  <2>1. SUFFICES ASSUME p = Host, HostRides PROVE HostRides'
    BY <1>5, RideTypes DEF HostRides, TakesNone
  <2>2. TakesNone(t) /\ n.kind = "mount" /\ ridden[p]
    BY <1>3, <2>1, Zenon DEF HostRides
  <2>3. ridden'[p]
    BY <1>5, <2>2, Zenon
  <2>4. TakesNone(down[Host])'
    BY <1>2, <2>1, <2>2 DEF TakesNone
  <2>. QED BY <2>1, <2>3, <2>4, Zenon DEF HostRides
<1>7. CASE q # p
  <2>1. Same(q) /\ down'[q] = down[q]
    BY <1>1, <1>5, <1>7, RideTypes DEF Same
  <2>. QED BY <1>1, <1>2, <1>6, <2>1, SameRide
<1>8. CASE q = p
  <2>1. GivenOK(p)'
    <3>1. Gives(down[p], p)' => Gives(t, p)
      BY <1>2 DEF Gives, Notice
    <3>. QED BY <1>1, <1>2, <1>3, <3>1, Zenon DEF RideOK, GivenOK
  <2>2. ridden'[p] => ridden[p] \/ saddle[p]
    <3>1. SUFFICES ASSUME n.kind = "mount", p = n.rider PROVE saddle[p]
      BY <1>5, Zenon
    <3>. QED BY <1>2, <1>3, <1>4, <3>1, Zenon DEF RideOK, GivenOK
  <2>3. RiddenOK(p)'
    BY <1>1, <1>2, <2>2, Zenon DEF RideOK, RiddenOK
  <2>4. BackOK(p)'
    <3>1. SUFFICES ASSUME owner = Host, ~HostRides
                   PROVE  IF t = <<>> THEN ~party'[p] ELSE Last(t).kind = "dismount"
      BY <1>1, <1>2, <1>6, Zenon DEF BackOK, Last
    <3>2. Last(down[p]).kind = "dismount"
      BY <1>1, <1>2, <3>1, Zenon DEF RideOK, BackOK
    <3>3. "dismount" # "mount"
      OBVIOUS
    <3>. QED BY <1>3, <1>5, <3>2, <3>3, Zenon
  <2>5. p \in Guests => AsksOK(p)'
    BY <1>1, <1>2, <2>2, Zenon DEF RideOK, AsksOK, AsksMount, AsksDismount
  <2>6. p \in Guests => OwnOK(p)'
    <3>1. SUFFICES ASSUME p \in Guests, owner = p, up[p] = <<>>, t = <<>> PROVE ridden'[p]
      BY <1>1, <1>2, Zenon DEF RideOK, OwnOK
    <3>2. p \in here
      BY <1>1, <3>1, RideTypes
    <3>3. n = Notice("mount", p)
      BY <1>1, <1>3, <3>1, <3>2, OwnGiven, RideTypes
    <3>4. n.kind = "mount" /\ n.rider = p
      BY <3>3 DEF Notice
    <3>5. 1 \in DOMAIN down[p] /\ down[p][1] = n
      BY <1>1, <1>2, ReadAt DEF n
    <3>6. ~simulates[p]
      BY <1>2, <3>3, <3>5 DEF Announced
    <3>. QED BY <1>5, <3>4, <3>6, Zenon
  <2>7. ~shared' => SeatOK(p)'
    BY <1>1, <1>2, <1>6, Zenon DEF RideOK, SeatOK, AsksMount
  <2>. QED BY <1>8, <2>1, <2>3, <2>4, <2>5, <2>6, <2>7, Zenon DEF RideOK
<1>. QED BY <1>7, <1>8

\* The host reads that a guest got on: it still sits there and did not have the horse, so it is told
\* (HostCharacters::OnMount).
LEMMA HostReadsMount ==
    ASSUME RideInv, NEW g \in Guests, HostReads(g), Head(up[g]) = "mount", ~brief', NEW q \in In
    PROVE  RideOK(q)'
<1>. DEFINE n == Notice("mount", g)
<1>1. /\ g \in In /\ up[g] # <<>> /\ up' = [up EXCEPT ![g] = Tail(@)] /\ OnMount(g) /\ ~brief /\ shared' = shared
      /\ saddle' = saddle /\ loading' = loading /\ ridden' = ridden /\ party' = party /\ g # Host
  BY RideTypes DEF HostReads, Handle, books
<1>2. /\ RideOK(g) /\ RideOK(q) /\ n \in Notices /\ q \in Players /\ down[q] \in Seq(Notices)
      /\ (n = Notice("mount", q) => q = g) /\ (q # Host => q \in Guests) /\ (~shared => Alone)
  BY <1>1, RideTypes DEF RideInv, Notice
<1>3. saddle[g] /\ up[g] = <<"mount">> /\ up'[g] = <<>> /\ owner # g
  <2>1. "mount" # "dismount"
    OBVIOUS
  <2>2. AsksMount(g) /\ up[g] = <<"mount">> /\ owner # g
    BY <1>1, <1>2, <2>1, Asked, Zenon DEF RideOK, AsksOK, AsksMount, AsksDismount, OwnOK
  <2>. QED BY <1>1, <2>2, RideTypes, Asked DEF AsksMount
<1>4. owner' = g /\ down'[q] = Append(down[q], n)
  BY <1>1, <1>2, <1>3, RideTypes DEF OnMount, ToAll
<1>5. down'[q] # <<>> /\ (Gives(down'[q], q) => Gives(down[q], q) \/ q = g)
  BY <1>2, <1>4, Told
<1>6. GivenOK(q)'
  BY <1>1, <1>2, <1>3, <1>5, Zenon DEF RideOK, GivenOK, Gives, Notice
<1>7. RiddenOK(q)' /\ BackOK(q)'
  BY <1>1, <1>2, <1>4, Zenon DEF RideOK, RiddenOK, BackOK
<1>8. q \in Guests => AsksOK(q)' /\ OwnOK(q)'
  <2>1. CASE q = g
    BY <1>3, <1>5, <2>1, Zenon DEF AsksOK, OwnOK
  <2>2. CASE q # g
    <3>1. q \in Guests => up'[q] = up[q]
      BY <1>1, <2>2, RideTypes
    <3>. QED BY <1>1, <1>2, <1>4, <2>2, <3>1, Zenon DEF RideOK, AsksOK, AsksMount, AsksDismount, OwnOK
  <2>. QED BY <2>1, <2>2
<1>9. ~shared' => SeatOK(q)'
  BY <1>1, <1>2, <1>3, <1>4, Zenon DEF SeatOK, Alone
<1>. QED BY <1>6, <1>7, <1>8, <1>9, Zenon DEF RideOK

\* The host reads that a guest got off (HostCharacters::OnDismount); the guest may be on the horse again.
LEMMA HostReadsDismount ==
    ASSUME RideInv, NEW g \in Guests, HostReads(g), Head(up[g]) = "dismount", ~brief', NEW q \in In
    PROVE  RideOK(q)'
<1>. DEFINE n == Notice("dismount", g)
<1>1. /\ g \in In /\ up[g] # <<>> /\ up' = [up EXCEPT ![g] = Tail(@)] /\ OnDismount(g) /\ ~brief /\ shared' = shared
      /\ saddle' = saddle /\ loading' = loading /\ ridden' = ridden /\ party' = party /\ g # Host
  BY RideTypes DEF HostReads, Handle, books
<1>2. /\ RideOK(g) /\ RideOK(q) /\ n \in Notices /\ q \in Players /\ down[q] \in Seq(Notices)
      /\ n # Notice("mount", q) /\ n.kind = "dismount" /\ (q # Host => q \in Guests)
  BY <1>1, RideTypes DEF RideInv, Notice
<1>3. \/ up[g] = <<"dismount">> /\ up'[g] = <<>> /\ ~saddle[g]
      \/ AsksMount(g) /\ AsksMount(g)'
  <2>1. "mount" # "dismount"
    OBVIOUS
  <2>2. \/ up[g] = <<"dismount">> /\ ~saddle[g]
        \/ AsksMount(g) /\ up[g] = <<"dismount", "mount">>
    BY <1>1, <1>2, <2>1, Asked, Zenon DEF RideOK, AsksOK, AsksMount, AsksDismount
  <2>3. up'[g] = Tail(up[g])
    BY <1>1, RideTypes
  <2>. QED BY <1>1, <2>2, <2>3, Asked, Zenon DEF AsksMount
<1>4. q \in Guests => AsksOK(q)' /\ (AsksMount(q) => AsksMount(q)')
  <2>1. CASE q = g
    BY <1>3, <2>1, Asked, Zenon DEF AsksOK, AsksMount
  <2>2. CASE q # g
    <3>1. q \in Guests => up'[q] = up[q]
      BY <1>1, <2>2, RideTypes
    <3>. QED BY <1>1, <1>2, <3>1, Zenon DEF RideOK, AsksOK, AsksMount, AsksDismount
  <2>. QED BY <2>1, <2>2
<1>5. saddle[q] => q = Host \/ owner # g \/ q # g \/ AsksMount(q)
  BY <1>3, Zenon
<1>6. CASE owner = g
  <2>1. owner' = Host /\ down'[q] = Append(down[q], n)
    BY <1>1, <1>2, <1>6, RideTypes DEF OnDismount, GiveBack, ToAll
  <2>2. down'[q] # <<>> /\ Last(down'[q]) = n /\ (Gives(down'[q], q) => Gives(down[q], q))
    BY <1>2, <2>1, Told
  <2>3. GivenOK(q)'
    BY <1>1, <1>2, <2>2, Zenon DEF RideOK, GivenOK, Gives, Notice
  <2>4. RiddenOK(q)' /\ BackOK(q)'
    BY <1>1, <1>2, <2>2, Zenon DEF RideOK, RiddenOK, BackOK, Last
  <2>5. q \in Guests => OwnOK(q)'
    <3>1. q \in Guests => q # Host
      BY RideTypes
    <3>. QED BY <2>1, <3>1, Zenon DEF OwnOK
  <2>6. ~shared' => SeatOK(q)'
    BY <1>1, <1>2, <1>4, <1>5, <1>6, Zenon DEF RideOK, SeatOK
  <2>. QED BY <1>4, <2>3, <2>4, <2>5, <2>6, Zenon DEF RideOK
<1>7. CASE owner # g
  <2>1. owner' = owner /\ down' = down
    BY <1>1, <1>7 DEF OnDismount
  <2>2. GivenOK(q)' /\ RiddenOK(q)'
    BY <1>1, <1>2, <2>1 DEF RideOK, GivenOK, RiddenOK, Gives, Notice
  <2>3. HostRides' <=> HostRides
    BY <1>1, <2>1 DEF HostRides, TakesNone
  <2>4. BackOK(q)'
    <3>1. SUFFICES ASSUME owner = Host, ~HostRides
                   PROVE  IF down[q] = <<>> THEN party[q] => q \in Guests /\ AsksMount(q)' ELSE Last(down[q]).kind = "dismount"
      BY <1>1, <2>1, <2>3, Zenon DEF BackOK, Last
    <3>. QED BY <1>2, <1>4, <3>1, Zenon DEF RideOK, BackOK
  <2>5. q \in Guests => OwnOK(q)'
    <3>1. q \in Guests /\ q # g => up'[q] = up[q]
      BY <1>1, RideTypes
    <3>. QED BY <1>1, <1>2, <1>7, <2>1, <3>1, Zenon DEF RideOK, OwnOK
  <2>6. ~shared' => SeatOK(q)'
    BY <1>1, <1>2, <1>4, <2>1, <2>3, Zenon DEF RideOK, SeatOK
  <2>. QED BY <1>4, <2>2, <2>4, <2>5, <2>6, Zenon DEF RideOK
<1>. QED BY <1>6, <1>7

\* A leaver's horse is given back by the host (HostCharacters::OnPlayerLeft).
LEMMA LeaveRides ==
    ASSUME RideInv, NEW g \in Guests, Leave(g), ~brief', NEW q \in In'
    PROVE  RideOK(q)'
<1>. DEFINE n == Notice("dismount", g)
<1>1. /\ q \in In /\ q # g /\ q \in Players /\ ~brief /\ shared' = shared /\ g # Host
      /\ up' = [up EXCEPT ![g] = <<>>] /\ saddle' = [saddle EXCEPT ![g] = FALSE]
      /\ loading' = [loading EXCEPT ![g] = FALSE] /\ ridden' = ridden /\ party' = party
  BY RideTypes DEF Leave, books, In
<1>2. /\ RideOK(q) /\ n \in Notices /\ down[q] \in Seq(Notices)
      /\ n # Notice("mount", q) /\ n.kind = "dismount" /\ (q # Host => q \in Guests)
  BY <1>1, RideTypes DEF RideInv, Notice
<1>3. Same(q)
  BY <1>1, RideTypes DEF Same, Flags
<1>4. CASE owner = g
  <2>1. owner' = Host /\ down'[q] = Append(down[q], n)
    BY <1>1, <1>4, RideTypes DEF Leave
  <2>2. down'[q] # <<>> /\ Last(down'[q]) = n /\ (Gives(down'[q], q) => Gives(down[q], q))
    BY <1>2, <2>1, Told
  <2>3. GivenOK(q)'
    BY <1>2, <1>3, <2>2, Zenon DEF RideOK, GivenOK, Gives, Notice, Same
  <2>4. RiddenOK(q)' /\ BackOK(q)'
    BY <1>2, <1>3, <2>2, Zenon DEF RideOK, RiddenOK, BackOK, Last, Same
  <2>5. q \in Guests => AsksOK(q)' /\ OwnOK(q)'
    <3>1. q \in Guests => q # Host
      BY RideTypes
    <3>. QED BY <1>2, <1>3, <2>1, <3>1, Zenon DEF RideOK, AsksOK, AsksMount, AsksDismount, OwnOK, Same
  <2>6. ~shared' => SeatOK(q)'
    BY <1>1, <1>2, <1>3, <1>4, Zenon DEF RideOK, SeatOK, AsksMount, Same
  <2>. QED BY <2>3, <2>4, <2>5, <2>6, Zenon DEF RideOK
<1>5. CASE owner # g
  <2>1. owner' = owner /\ down'[q] = down[q] /\ down'[Host] = down[Host]
    BY <1>1, <1>5, RideTypes DEF Leave
  <2>2. HostRides => HostRides'
    BY <1>1, <2>1 DEF HostRides, TakesNone
  <2>. QED BY <1>1, <1>2, <1>3, <2>1, <2>2, SameRide
<1>. QED BY <1>4, <1>5

\* Every step keeps the invariant of the ride.
LEMMA RideStays ==
    ASSUME RideInv, [Next]_vars
    PROVE  RideInv'
<1>1. AccompanyInv' /\ BooksOK' /\ (~shared' => Alone')
  BY AccompanyStays, BooksStay, AloneStays DEF RideInv
<1>. DEFINE Good == ~brief' => \A q \in In' : RideOK(q)'
<1>2. ASSUME NEW p \in Players, OnMountEvent(p) PROVE Good
  <2>1. In' = In /\ (p = Host \/ p \in Guests)
    BY <1>2, RideTypes DEF OnMountEvent, In
  <2>. QED BY <1>2, <2>1, GuestMounts, HostMounts
<1>3. ASSUME NEW p \in Players, OnDismountEvent(p) PROVE Good
  <2>1. In' = In /\ (p = Host \/ p \in Guests)
    BY <1>3, RideTypes DEF OnDismountEvent, In
  <2>2. CASE p = Host
    <3>1. /\ ~brief' => ~brief /\ down[Host] = <<>>
          /\ TellDismount(Host) /\ ~saddle'[Host] /\ party' = party /\ shared' = shared
          /\ \A k \in In \ {Host} : saddle'[k] = saddle[k] /\ loading'[k] = loading[k]
      BY <1>3, <2>2, RideTypes DEF OnDismountEvent, Lags, Flags
    <3>2. down[Host] = <<>> => ~Gives(down[Host], Host)
      BY DEF Gives
    <3>. QED BY <2>1, <3>1, <3>2, HostGetsOff
  <2>. QED BY <1>3, <2>1, <2>2, GuestDismounts
<1>4. ASSUME NEW p \in Players, MoveTo(p) PROVE Good
  <2>1. In' = In
    BY <1>4 DEF MoveTo, In
  <2>. QED BY <1>4, <2>1, Moves
<1>5. ASSUME NEW p \in Players, OnPlayerArrived(p) PROVE Good
  <2>1. In' = In /\ (p = Host \/ p \in Guests) /\ brief' = brief
    BY <1>5, RideTypes DEF OnPlayerArrived, In
  <2>2. CASE p = Host /\ ~saddle[p]
    <3>1. /\ TellDismount(Host) /\ ~saddle'[Host] /\ party' = party /\ shared' = shared
          /\ \A k \in In \ {Host} : saddle'[k] = saddle[k] /\ loading'[k] = loading[k]
      BY <1>5, <2>2, RideTypes DEF OnPlayerArrived, Flags
    <3>2. ~brief => ~Gives(down[Host], Host)
      BY <2>2, RideTypes DEF RideInv, RideOK, GivenOK
    <3>. QED BY <2>1, <3>1, <3>2, HostGetsOff
  <2>. QED BY <1>5, <2>1, <2>2, GuestArrives, ArrivesRiding
<1>6. ASSUME NEW p \in Players, GameReads(p) PROVE Good
  <2>1. In' = In
    BY <1>6 DEF GameReads, In
  <2>. QED BY <1>6, <2>1, ReadingRides
<1>7. ASSUME NEW g \in Guests, HostReads(g) PROVE Good
  <2>1. In' = In /\ Head(up[g]) \in {"mount", "dismount"}
    BY <1>7, RideTypes, NoticeTypes DEF HostReads, In, Requests
  <2>. QED BY <1>7, <2>1, HostReadsMount, HostReadsDismount
<1>8. ASSUME NEW g \in Guests, Leave(g) PROVE Good
  BY <1>8, LeaveRides
<1>9. ASSUME UNCHANGED vars PROVE Good
  <2>1. /\ In' = In /\ owner' = owner /\ down' = down /\ brief' = brief /\ shared' = shared
        /\ \A q \in In : Same(q)
    BY <1>9 DEF vars, books, In, Same
  <2>2. HostRides' <=> HostRides
    BY <1>9 DEF vars, books, HostRides, TakesNone
  <2>. QED BY <2>1, <2>2, SameRide DEF RideInv
<1>10. Good
  BY <1>2, <1>3, <1>4, <1>5, <1>6, <1>7, <1>8, <1>9, Zenon DEF Next
<1>. QED BY <1>1, <1>10 DEF RideInv

\* At first nobody rides.
LEMMA RideInit ==
    ASSUME AccompanyInv, BooksOK, Init
    PROVE  RideInv /\ NotedInv
<1>1. NotedInv
  <2>1. Native # "none"
    BY MountsAssumption DEF Lifetimes
  <2>. QED BY <2>1 DEF Init, NotedInv, NotedOK
<1>2. Alone
  BY InPlayers DEF Init, Alone, AccompanyInv, HorseInv
<1>3. ASSUME NEW q \in In PROVE RideOK(q)
  <2>1. /\ down[q] = <<>> /\ ~saddle[q] /\ ~ridden[q] /\ ~party[q] /\ owner = Host /\ Host \notin Guests
        /\ q \in Guests => up[q] = <<>>
    BY InPlayers, MountsAssumption DEF Init, AccompanyInv, HorseInv, Players
  <2>2. ~Gives(down[q], q)
    BY <2>1 DEF Gives
  <2>. QED BY <2>1, <2>2, Zenon DEF RideOK, GivenOK, RiddenOK, BackOK, AsksOK, OwnOK, SeatOK
<1>. QED BY <1>1, <1>2, <1>3 DEF RideInv

\* Every reachable state has the invariant of the ride, and the notes.
LEMMA RideInvariant == Spec => [](RideInv /\ NotedInv)
<1>1. Init => RideInv /\ NotedInv
  BY AccompanyInit, RideInit
<1>2. RideInv /\ NotedInv /\ [Next]_vars => (RideInv /\ NotedInv)'
  <2>. SUFFICES ASSUME RideInv, NotedInv, [Next]_vars PROVE (RideInv /\ NotedInv)'
    OBVIOUS
  <2>. QED BY RideStays, NotesStay DEF RideInv
<1>. QED BY <1>1, <1>2, PTL DEF Spec

\* For any number of guests and rides: once all is read, a guest's game has the horse only if its player
\* sits on it, and the game of a player alone on it has it and knows it, whatever crossed on the way
\* (CharacterService::OnDismountEvent, OnPlayerArrived, OnNotifyDismount).
THEOREM RiderHasTheHorse == Spec => []RiderHasIt
<1>1. RideInv => RiderHasIt
  <2>. SUFFICES ASSUME RideInv, Quiet, ~brief
                PROVE  /\ owner \in Guests => saddle[owner]
                       /\ ~shared => \A p \in In : saddle[p] => owner = p /\ ridden[p]
    BY DEF RiderHasIt
  <2>1. ASSUME NEW p \in In
        PROVE  RideOK(p) /\ down[p] = <<>> /\ ~loading[p] /\ (p \in Guests => up[p] = <<>> /\ ~AsksMount(p))
    BY Asked DEF RideInv, Quiet, Lags, AsksMount
  <2>2. owner \in In /\ \A p \in In : p # Host => p \in Guests
    BY RideTypes DEF HorseInv, ChannelsOK
  <2>3. owner \in Guests => saddle[owner]
    BY <2>1, <2>2, Zenon DEF RideOK, OwnOK, RiddenOK
  <2>4. ASSUME ~shared, NEW p \in In, saddle[p] PROVE owner = p /\ ridden[p]
    BY <2>1, <2>2, <2>4, Zenon DEF RideOK, SeatOK, HostRides, OwnOK
  <2>. QED BY <2>3, <2>4
<1>. QED BY <1>1, RideInvariant, PTL

\* For any number of guests and rides: when nobody rides the horse any more and all is read, it is in every
\* game as persistent as it was before the first ride (CharacterService::KeepMount, ReleaseMount).
THEOREM HorseIsRestored == Spec => []Restored
<1>1. RideInv /\ NotedInv => Restored
  <2>. SUFFICES ASSUME RideInv, NotedInv, Quiet, ~brief, \A p \in In : ~saddle[p], NEW q \in In
                PROVE  ~party[q] /\ lifetime[q] = Native
    BY DEF Restored
  <2>1. ASSUME NEW p \in In
        PROVE  RideOK(p) /\ down[p] = <<>> /\ ~loading[p] /\ ~AsksMount(p) /\ (p \in Guests => up[p] = <<>>)
    BY DEF RideInv, Quiet, Lags, AsksMount
  <2>2. owner \in In /\ Host \in In /\ q \in Players /\ \A p \in In : p # Host => p \in Guests
    BY RideTypes DEF HorseInv, ChannelsOK
  <2>3. owner = Host
    BY <2>1, <2>2, Zenon DEF RideOK, OwnOK, RiddenOK
  <2>4. ~HostRides
    BY <2>1, <2>2, Zenon DEF RideOK, RiddenOK, HostRides
  <2>5. ~party[q]
    BY <2>1, <2>3, <2>4, Zenon DEF RideOK, BackOK
  <2>6. NotedOK(q)
    BY <2>2 DEF NotedInv
  <2>. QED BY <2>5, <2>6, Zenon DEF NotedOK
<1>. QED BY <1>1, RideInvariant, PTL
=============================================================================
