-------------------------- MODULE PartyTravelProofs --------------------------
(***************************************************************************)
(* Proofs about PartyTravel for every party, every map of places and any   *)
(* number of travels, with joins and travels at the same time or not: type *)
(* correctness, and that no game keeps a copy of a player that left.       *)
(***************************************************************************)
EXTENDS PartyTravel, ChannelFacts

-----------------------------------------------------------------------------
\* Types.

Request ==
    [type: {"announce"}, where: Places] \cup [type: {"queued"}, to: Places]
    \cup [type: {"enter"}, where: Places, how: {"own", "tether", "beforeJoining"}]
SpawnNotice == {Spawns(f) : f \in UNION {[S -> Places \cup {Nowhere}] : S \in SUBSET Players}}
Notice ==
    [type: {"accepted"}] \cup [type: {"travel"}, to: Places] \cup SpawnNotice
    \cup [type: {"actors"}, where: Places] \cup [type: {"actorsGone"}, where: Places]
    \cup [type: {"removed"}, who: Players]

GameTypes ==
    /\ conn \in [Players -> {"none", "open", "closed"}]
    /\ online \in [Players -> BOOLEAN]
    /\ at \in [Players -> Places]
    /\ queued \in [Players -> Places \cup {Nowhere}]
    /\ targets \in [Players -> Seq(Places)]
    /\ copies \in [Players -> SUBSET Players]
    /\ npcs \in [Players -> Places \cup {Nowhere}]
    /\ trips \in 0 .. MaxTrips
RequestTypes == requests \in [Players -> Seq(Request)]
NoticeTypes == notices \in [Players -> Seq(Notice)]
HostTypes ==
    /\ bodies \subseteq Members /\ ahead \subseteq Members \ {Host} /\ brought \subseteq Members \ {Host}
    /\ place \in [Players -> Places \cup {Nowhere}] /\ place[Host] \in Places
    /\ partyTravel \in Places \cup {Nowhere} /\ actors \in Places

\* The host's own game never joins, and one that is not connected has sent and is sent nothing.
Outside ==
    /\ conn[Host] = "open" /\ requests[Host] = <<>>
    /\ \A n \in Sent(notices[Host]) : n.type # "accepted"
    /\ \A p \in Players \ Members : requests[p] = <<>> /\ notices[p] = <<>> /\ copies[p] = {}
AllTypes == GameTypes /\ RequestTypes /\ NoticeTypes /\ HostTypes /\ Outside

\* A game that reads this does not have the host's actors at w.
Spoils(n, w) == (n.type = "actors" /\ n.where # w) \/ (n.type = "actorsGone" /\ n.where = w)

\* What the host may tell a game that is not joining, with the characters B and the actors it
\* has announced.
Posts(B) == {n \in Notice : /\ n.type # "accepted" /\ ~Spoils(n, actors')
                            /\ n.type = "spawns" => DOMAIN n.placeOf \subseteq B}

\* An arrival is told of: by an announcement, or as such.
Tells(m) == m.type \in {"announce", "enter"}

\* The messages of the tether, each way (RequestTravel, NotifyPartyTravel, SpawnData...).
LEMMA MessageTypes ==
    /\ Accepted \in Notice
    /\ \A a \in Places : /\ Announce(a) \in Request /\ Queued(a) \in Request
                         /\ \A how \in {"own", "tether", "beforeJoining"} : EnterCell(a, how) \in Request
    /\ \A m \in Request : /\ m.type \in {"announce", "queued", "enter"}
                          /\ m.type \in {"announce", "enter"} => m.where \in Places
                          /\ m.type = "queued" => m.to \in Places
    /\ \A B : \A a \in Places : Travel(a) \in Posts(B)
    /\ \A B : \A a \in Places \cap {actors'} : Actors(a) \in Posts(B)
    /\ \A B : \A a \in Places \ {actors'} : ActorsGone(a) \in Posts(B)
    /\ \A B : \A p \in Players : Removed(p) \in Posts(B)
    /\ \A n \in Notice : /\ n.type = "travel" => n.to \in Places
                         /\ n.type \in {"actors", "actorsGone"} => n.where \in Places
                         /\ n.type = "spawns" => DOMAIN n.placeOf \subseteq Players
                         /\ n.type = "removed" => n = Removed(n.who) /\ n.who \in Players
<1>1. Accepted \in Notice
  BY DEF Accepted, Notice
<1>2. \A a \in Places : Announce(a) \in Request /\ Queued(a) \in Request
  BY DEF Announce, Queued, Request
<1>3. \A a \in Places, how \in {"own", "tether", "beforeJoining"} : EnterCell(a, how) \in Request
  BY DEF EnterCell, Request
<1>4. \A m \in Request : /\ m.type \in {"announce", "queued", "enter"}
                         /\ m.type \in {"announce", "enter"} => m.where \in Places
                         /\ m.type = "queued" => m.to \in Places
  BY DEF Request
<1>5. /\ \A B : \A a \in Places : Travel(a) \in Posts(B)
      /\ \A B : \A a \in Places \cap {actors'} : Actors(a) \in Posts(B)
      /\ \A B : \A a \in Places \ {actors'} : ActorsGone(a) \in Posts(B)
  BY DEF Travel, Actors, ActorsGone, Posts, Notice, Spoils
<1>6. \A B : \A p \in Players : Removed(p) \in Posts(B)
  BY DEF Removed, Posts, Notice, Spoils
<1>7. \A n \in SpawnNotice : n.type = "spawns" /\ DOMAIN n.placeOf \subseteq Players
  <2>1. ASSUME NEW S \in SUBSET Players, NEW f \in [S -> Places \cup {Nowhere}]
        PROVE  Spawns(f).type = "spawns" /\ DOMAIN Spawns(f).placeOf \subseteq Players
    BY DEF Spawns
  <2>. QED BY <2>1 DEF SpawnNotice
<1>8. \A n \in Notice : /\ n.type = "travel" => n.to \in Places
                        /\ n.type \in {"actors", "actorsGone"} => n.where \in Places
                        /\ n.type = "spawns" => DOMAIN n.placeOf \subseteq Players
                        /\ n.type = "removed" => n = Removed(n.who) /\ n.who \in Players
  BY <1>7 DEF Notice, Removed
<1>. QED BY <1>1, <1>2, <1>3, <1>4, <1>5, <1>6, <1>8

\* What is sent on a condition.
LEMMA WhenType ==
    ASSUME NEW S, NEW m, NEW condition, condition => m \in S
    PROVE  When(condition, <<m>>) \in Seq(S)
<1>1. CASE condition
  BY <1>1 DEF When
<1>2. CASE ~condition
  BY <1>2 DEF When
<1>. QED BY <1>1, <1>2

\* Announcements of players' characters that the host has (SpawnData).
LEMMA SpawnsType ==
    ASSUME NEW B \in SUBSET Players, NEW who \in SUBSET B, at[Host] \in Places,
           NEW places \in [Players -> Places \cup {Nowhere}]
    PROVE  SpawnsOf(who, places) \in Seq(Posts(B))
<1>1. PICK f : f = [c \in who |-> IF c = Host THEN at[Host] ELSE places[c]]
  OBVIOUS
<1>2. f \in [who -> Places \cup {Nowhere}] /\ who \in SUBSET Players
  BY <1>1
<1>3. Spawns(f) \in SpawnNotice
  BY <1>2, Zenon DEF SpawnNotice
<1>4. Spawns(f).type = "spawns" /\ Spawns(f).placeOf = f
  BY DEF Spawns
<1>5. Spawns(f) \in Posts(B)
  BY <1>2, <1>3, <1>4 DEF Posts, Notice, Spoils
<1>6. SpawnsOf(who, places) = When(who # {}, <<Spawns(f)>>)
  BY <1>1, Zenon DEF SpawnsOf
<1>. QED BY <1>5, <1>6, WhenType

\* The host's actors, for a game (BuildSpawnRequests).
LEMMA ActorsType ==
    ASSUME actors \in Places, actors' = actors, NEW where, NEW B
    PROVE  HostActors(where) \in Seq(Posts(B)) /\ (actors = where => Actors(actors) \in Sent(HostActors(where)))
<1>1. HostActors(where) \in Seq(Posts(B))
  BY MessageTypes, WhenType DEF HostActors
<1>2. actors = where => HostActors(where) = <<Actors(actors)>>
  BY Zenon DEF HostActors, When
<1>. QED BY <1>1, <1>2, SentFew

\* The tether's places still to come are places (TravelService's targets).
LEMMA TargetsType ==
    ASSUME NEW p \in Players, targets[p] \in Seq(Places), NEW where
    PROVE  TargetsLeft(p, where) \in Seq(Places)
<1>1. PICK s : s = targets[p]
  OBVIOUS
<1>2. PICK reached : reached = {i \in DOMAIN s : Around(s[i], where)}
  OBVIOUS
<1>3. Len(s) \in Nat /\ DOMAIN s = 1 .. Len(s) /\ \A i \in 1 .. Len(s) : s[i] \in Places
  BY <1>1, LenProperties, ElementOfSeq
<1>4. PICK last : last = CHOOSE i \in reached : \A j \in reached : j <= i
  OBVIOUS
<1>5. TargetsLeft(p, where) = IF reached = {} THEN <<>> ELSE SubSeq(s, last + 1, Len(s))
  BY <1>1, <1>2, <1>4 DEF TargetsLeft
<1>6. ASSUME reached # {} PROVE SubSeq(s, last + 1, Len(s)) \in Seq(Places)
  <2>1. reached \in SUBSET (1 .. Len(s))
    BY <1>2, <1>3
  <2>2. last \in reached
    BY <1>3, <1>4, <1>6, <2>1, LastOne
  <2>3. last + 1 \in Int /\ Len(s) \in Int /\ \A i \in last + 1 .. Len(s) : s[i] \in Places
    BY <1>3, <2>1, <2>2
  <2>. QED BY <2>3, SubSeqProperties
<1>. QED BY <1>5, <1>6

\* What each game is sent, as a function (a message to all is one line of the host's log).
Posted(out) == notices' = [q \in Players |-> IF q \in Members THEN notices[q] \o out[q] ELSE notices[q]]

\* Where a join puts together what is sent to one game, in order.
LEMMA InOrder ==
    ASSUME NEW S, NEW s \in Seq(S), NEW t \in Seq(S)
    PROVE  s \o t \in Seq(S)
BY ConcatProperties

\* The answer to an announcement (PlayerEntered, BringToParty, SendToOthersWithHost).
LEMMA AnnounceAt ==
    ASSUME AllTypes, NEW p \in Members \ {Host}, NEW where \in Places, OnAnnounce(p, where), conn' = conn
    PROVE  /\ HostTypes' /\ bodies' = bodies \cup {p} /\ place' = [place EXCEPT ![p] = where] /\ actors' = actors
           /\ \E out \in [Players -> Seq(Posts(bodies'))] :
                Posted(out) /\ (actors = at[Host] => Actors(actors) \in Sent(out[p]))
<1>. DEFINE places == [place EXCEPT ![p] = where]
            away == ~WithHost(p, places) \/ (Outdoors(place[Host]) /\ ~Around(where, place[Host]))
            Out(q) == IF q = p
                      THEN HostActors(at[Host]) \o SpawnsOf(Existing(p), places) \o When(away, <<Travel(place[Host])>>)
                      ELSE When(WithHost(q, places), SpawnsOf({p}, places))
<1>1. /\ bodies' = bodies \cup {p} /\ place' = places
      /\ brought' = IF away THEN brought \cup {p} ELSE brought
      /\ notices' = [q \in Players |-> IF q \in Members THEN notices[q] \o Out(q) ELSE notices[q]]
      /\ ahead' = ahead /\ partyTravel' = partyTravel /\ actors' = actors
  BY Zenon DEF OnAnnounce, Post
<1>2. /\ Members \subseteq Players /\ Host \in Players /\ at[Host] \in Places /\ place[Host] \in Places /\ actors \in Places
      /\ places \in [Players -> Places \cup {Nowhere}] /\ places[Host] = place[Host]
      /\ bodies \subseteq Members
  BY PlayersAssumption DEF AllTypes, GameTypes, HostTypes, Members
<1>3. Members' = Members
  BY DEF Members
<1>. HIDE DEF places, away
<1>4. HostTypes'
  <2>1. bodies' \subseteq Members' /\ ahead' \subseteq Members' \ {Host} /\ brought' \subseteq Members' \ {Host}
    BY <1>1, <1>2, <1>3 DEF AllTypes, HostTypes
  <2>2. /\ place' \in [Players -> Places \cup {Nowhere}] /\ place'[Host] \in Places
        /\ partyTravel' \in Places \cup {Nowhere} /\ actors' \in Places
    BY <1>1, <1>2 DEF AllTypes, HostTypes
  <2>. QED BY <2>1, <2>2 DEF HostTypes
<1>5. ASSUME NEW q \in Players
      PROVE  Out(q) \in Seq(Posts(bodies')) /\ (actors = at[Host] /\ q = p => Actors(actors) \in Sent(Out(q)))
  <2>1. bodies' \in SUBSET Players /\ Existing(p) \in SUBSET bodies' /\ {p} \in SUBSET bodies'
    BY <1>1, <1>2 DEF Existing
  <2>2. SpawnsOf(Existing(p), places) \in Seq(Posts(bodies')) /\ SpawnsOf({p}, places) \in Seq(Posts(bodies'))
    BY <1>2, <2>1, SpawnsType
  <2>3. HostActors(at[Host]) \in Seq(Posts(bodies'))
    BY <1>1, <1>2, ActorsType
  <2>4. When(away, <<Travel(place[Host])>>) \in Seq(Posts(bodies'))
    BY <1>2, MessageTypes, WhenType
  <2>5. HostActors(at[Host]) \o SpawnsOf(Existing(p), places) \in Seq(Posts(bodies'))
    BY <2>2, <2>3, InOrder
  <2>6. HostActors(at[Host]) \o SpawnsOf(Existing(p), places) \o When(away, <<Travel(place[Host])>>) \in Seq(Posts(bodies'))
    BY <2>4, <2>5, InOrder
  <2>7. When(WithHost(q, places), SpawnsOf({p}, places)) \in Seq(Posts(bodies'))
    <3>1. <<>> \in Seq(Posts(bodies'))
      OBVIOUS
    <3>. QED BY <2>2, <3>1, Zenon DEF When
  <2>8. actors = at[Host] /\ q = p => Actors(actors) \in Sent(Out(q))
    <3>1. Sent(HostActors(at[Host]) \o SpawnsOf(Existing(p), places) \o When(away, <<Travel(place[Host])>>))
            = Sent(HostActors(at[Host]) \o SpawnsOf(Existing(p), places)) \cup Sent(When(away, <<Travel(place[Host])>>))
      BY <2>4, <2>5, SentJoin
    <3>2. Sent(HostActors(at[Host]) \o SpawnsOf(Existing(p), places))
            = Sent(HostActors(at[Host])) \cup Sent(SpawnsOf(Existing(p), places))
      BY <2>2, <2>3, SentJoin
    <3>3. actors = at[Host] => Actors(actors) \in Sent(HostActors(at[Host]))
      BY <1>1, <1>2, ActorsType
    <3>4. actors = at[Host] =>
            Actors(actors) \in Sent(HostActors(at[Host]) \o SpawnsOf(Existing(p), places) \o When(away, <<Travel(place[Host])>>))
      BY <3>1, <3>2, <3>3
    <3>. QED BY <3>4, Zenon
  <2>. QED BY <2>6, <2>7, <2>8, Zenon
<1>. HIDE DEF Out
<1>6. PICK out : out = [q \in Players |-> Out(q)]
  OBVIOUS
<1>7. out \in [Players -> Seq(Posts(bodies'))] /\ \A q \in Players : out[q] = Out(q)
  BY <1>5, <1>6
<1>8. Posted(out)
  BY <1>1, <1>7, Zenon DEF Posted
<1>9. actors = at[Host] => Actors(actors) \in Sent(out[p])
  BY <1>2, <1>5, <1>7
<1>10. place' = [place EXCEPT ![p] = where]
  BY <1>1 DEF places
<1>. QED BY <1>1, <1>4, <1>7, <1>8, <1>9, <1>10

\* The answer to a queued travel (OnTravelQueued).
LEMMA QueuedAt ==
    ASSUME AllTypes, NEW p \in Members, NEW to \in Places, OnTravelQueued(p, to), conn' = conn
    PROVE  /\ HostTypes' /\ UNCHANGED <<bodies, place, actors>>
           /\ \E out \in [Players -> Seq(Posts(bodies'))] : Posted(out)
<1>. DEFINE Out(q) == When(p \in bodies /\ q # p, <<Travel(to)>>)
<1>1. /\ bodies' = bodies /\ place' = place /\ ahead' = ahead /\ brought' = brought /\ actors' = actors
      /\ partyTravel' = IF p \in bodies THEN to ELSE partyTravel
      /\ notices' = [q \in Players |-> IF q \in Members THEN notices[q] \o Out(q) ELSE notices[q]]
  BY Zenon DEF OnTravelQueued, Post
<1>2. HostTypes'
  <2>1. Members' = Members
    BY DEF Members
  <2>. QED BY <1>1, <2>1 DEF AllTypes, HostTypes
<1>3. ASSUME NEW q \in Players PROVE Out(q) \in Seq(Posts(bodies'))
  BY MessageTypes, WhenType
<1>. HIDE DEF Out
<1>4. PICK out : out = [q \in Players |-> Out(q)]
  OBVIOUS
<1>5. out \in [Players -> Seq(Posts(bodies'))] /\ \A q \in Players : out[q] = Out(q)
  BY <1>3, <1>4
<1>6. Posted(out)
  BY <1>1, <1>5, Zenon DEF Posted
<1>. QED BY <1>1, <1>2, <1>5, <1>6

\* Whom an arrival takes along, and who is sent on, in the host's answer.
LEMMA ArrivalTypes ==
    ASSUME NEW where \in Places, partyTravel \in Places \cup {Nowhere}, NEW p, NEW how, NEW q, NEW B
    PROVE  Led(p, where, how, q) \in Seq(Posts(B)) /\ SentOn(p, where, how, q) \in Seq(Posts(B))
<1>1. Led(p, where, how, q) \in Seq(Posts(B))
  BY MessageTypes, WhenType DEF Led
<1>2. partyTravel # Nowhere => Travel(partyTravel) \in Posts(B)
  BY MessageTypes
<1>3. SentOn(p, where, how, q) \in Seq(Posts(B))
  BY <1>2, WhenType DEF SentOn
<1>. QED BY <1>1, <1>3

\* A guest's arrival (OnEnterCell: the actors for it, and the characters each way).
LEMMA GuestArrivedAt ==
    ASSUME AllTypes, NEW p \in Members \ {Host}, NEW where \in Places, NEW how, GuestArrived(p, where, how),
           conn' = conn, UNCHANGED <<bodies, actors>>, partyTravel' = IF how = "own" THEN where ELSE partyTravel
    PROVE  /\ HostTypes' /\ place' = [place EXCEPT ![p] = where]
           /\ \E out \in [Players -> Seq(Posts(bodies'))] :
                Posted(out) /\ (actors = at[Host] /\ WithHost(p, place') => Actors(actors) \in Sent(out[p]))
<1>. DEFINE places == [place EXCEPT ![p] = where]
            here == WithHost(p, places)
            met == here /\ ReachedParty(p, how)
            Met(q) == IF q = p THEN SpawnsOf({c \in bodies \ {p} : WithHost(c, places)}, places)
                      ELSE When(WithHost(q, places), SpawnsOf({p} \intersect bodies, places))
            Out(q) == Led(p, where, how, q) \o SentOn(p, where, how, q)
                      \o When(here /\ q = p, HostActors(at[Host])) \o When(met, Met(q))
<1>1. /\ place' = places
      /\ ahead' = IF here THEN ahead \ {p} ELSE ahead \union {p}
      /\ brought' = IF met THEN brought \ {p} ELSE brought
      /\ notices' = [q \in Players |-> IF q \in Members THEN notices[q] \o Out(q) ELSE notices[q]]
  BY Zenon DEF GuestArrived, Post
<1>2. /\ Members \subseteq Players /\ Host \in Players /\ at[Host] \in Places /\ place[Host] \in Places /\ actors \in Places
      /\ places \in [Players -> Places \cup {Nowhere}] /\ places[Host] = place[Host]
      /\ bodies \in SUBSET Players /\ partyTravel \in Places \cup {Nowhere}
  BY PlayersAssumption DEF AllTypes, GameTypes, HostTypes, Members
<1>3. Members' = Members /\ (here <=> WithHost(p, place')) /\ place' = [place EXCEPT ![p] = where]
  BY <1>1 DEF Members
<1>. HIDE DEF places, here, met
<1>4. HostTypes'
  <2>1. bodies' \subseteq Members' /\ ahead' \subseteq Members' \ {Host} /\ brought' \subseteq Members' \ {Host}
    BY <1>1, <1>2, <1>3 DEF AllTypes, HostTypes
  <2>2. /\ place' \in [Players -> Places \cup {Nowhere}] /\ place'[Host] \in Places
        /\ partyTravel' \in Places \cup {Nowhere} /\ actors' \in Places
    BY <1>1, <1>2 DEF AllTypes, HostTypes
  <2>. QED BY <2>1, <2>2 DEF HostTypes
<1>5. ASSUME NEW q \in Players
      PROVE  Out(q) \in Seq(Posts(bodies')) /\ (actors = at[Host] /\ here /\ q = p => Actors(actors) \in Sent(Out(q)))
  <2>1. <<>> \in Seq(Posts(bodies'))
    OBVIOUS
  <2>2. Led(p, where, how, q) \in Seq(Posts(bodies')) /\ SentOn(p, where, how, q) \in Seq(Posts(bodies'))
    BY <1>2, ArrivalTypes
  <2>3. When(here /\ q = p, HostActors(at[Host])) \in Seq(Posts(bodies'))
    <3>1. HostActors(at[Host]) \in Seq(Posts(bodies'))
      BY <1>2, ActorsType
    <3>. QED BY <2>1, <3>1, Zenon DEF When
  <2>4. When(met, Met(q)) \in Seq(Posts(bodies'))
    <3>1. bodies' \in SUBSET Players /\ {c \in bodies \ {p} : WithHost(c, places)} \in SUBSET bodies'
          /\ {p} \cap bodies \in SUBSET bodies'
      BY <1>2
    <3>2. SpawnsOf({c \in bodies \ {p} : WithHost(c, places)}, places) \in Seq(Posts(bodies'))
          /\ SpawnsOf({p} \cap bodies, places) \in Seq(Posts(bodies'))
      BY <1>2, <3>1, SpawnsType
    <3>3. When(WithHost(q, places), SpawnsOf({p} \cap bodies, places)) \in Seq(Posts(bodies'))
      BY <2>1, <3>2, Zenon DEF When
    <3>4. Met(q) \in Seq(Posts(bodies'))
      BY <3>2, <3>3, Zenon
    <3>. QED BY <2>1, <3>4, Zenon DEF When
  <2>5. Led(p, where, how, q) \o SentOn(p, where, how, q) \in Seq(Posts(bodies'))
    BY <2>2, InOrder
  <2>6. Led(p, where, how, q) \o SentOn(p, where, how, q) \o When(here /\ q = p, HostActors(at[Host]))
          \in Seq(Posts(bodies'))
    BY <2>3, <2>5, InOrder
  <2>. HIDE DEF Met
  <2>7. Led(p, where, how, q) \o SentOn(p, where, how, q) \o When(here /\ q = p, HostActors(at[Host])) \o When(met, Met(q))
          \in Seq(Posts(bodies'))
    BY <2>4, <2>6, InOrder
  <2>8. actors = at[Host] /\ here /\ q = p => Actors(actors) \in Sent(Out(q))
    <3>1. PICK a, b, c : /\ a = Led(p, where, how, q) \o SentOn(p, where, how, q)
                         /\ b = When(here /\ q = p, HostActors(at[Host])) /\ c = When(met, Met(q))
      OBVIOUS
    <3>2. /\ a \in Seq(Posts(bodies')) /\ b \in Seq(Posts(bodies')) /\ c \in Seq(Posts(bodies'))
          /\ a \o b \in Seq(Posts(bodies')) /\ Out(q) = a \o b \o c
      BY <2>3, <2>4, <2>5, <2>6, <3>1, Zenon
    <3>3. Sent(a \o b \o c) = Sent(a \o b) \cup Sent(c)
      <4>1. PICK ab : ab = a \o b
        OBVIOUS
      <4>2. Sent(ab \o c) = Sent(ab) \cup Sent(c)
        <5>1. ab \in Seq(Posts(bodies')) /\ c \in Seq(Posts(bodies'))
          BY <3>2, <4>1, Zenon
        <5>. QED BY <5>1, SentJoin
      <4>. QED BY <4>1, <4>2, Zenon
    <3>6. Sent(a \o b) = Sent(a) \cup Sent(b)
      BY <3>2, SentJoin
    <3>4. actors = at[Host] /\ here /\ q = p => b = HostActors(at[Host])
      BY <3>1, Zenon DEF When
    <3>5. actors = at[Host] => Actors(actors) \in Sent(HostActors(at[Host]))
      BY <1>2, ActorsType
    <3>. HIDE DEF Out
    <3>. QED BY <3>2, <3>3, <3>4, <3>5, <3>6
  <2>. QED BY <2>7, <2>8, Zenon
<1>. HIDE DEF Out
<1>6. PICK out : out = [q \in Players |-> Out(q)]
  OBVIOUS
<1>7. out \in [Players -> Seq(Posts(bodies'))] /\ \A q \in Players : out[q] = Out(q)
  BY <1>5, <1>6
<1>8. Posted(out)
  BY <1>1, <1>7, Zenon DEF Posted
<1>9. actors = at[Host] /\ here => Actors(actors) \in Sent(out[p])
  BY <1>2, <1>5, <1>7
<1>. QED BY <1>3, <1>4, <1>7, <1>8, <1>9

\* The host's own arrival (OnEnterCell: those ahead of it get its actors).
LEMMA HostArrivedAt ==
    ASSUME AllTypes, NEW where \in Places, NEW how, HostArrived(where, how),
           conn' = conn, UNCHANGED <<bodies, actors>>, partyTravel' = IF how = "own" THEN where ELSE partyTravel
    PROVE  /\ HostTypes' /\ place' = [place EXCEPT ![Host] = where]
           /\ \E out \in [Players -> Seq(Posts(bodies'))] : Posted(out)
<1>. DEFINE places == [place EXCEPT ![Host] = where]
            arrived == {p \in ahead : WithHost(p, places)}
            Out(q) == Led(Host, where, how, q) \o SentOn(Host, where, how, q)
                      \o When(q \in arrived, HostActors(where))
<1>1. /\ place' = places /\ ahead' = ahead \ arrived /\ brought' = brought
      /\ notices' = [q \in Players |-> IF q \in Members THEN notices[q] \o Out(q) ELSE notices[q]]
  BY Zenon DEF HostArrived, Post
<1>2. /\ Host \in Players /\ actors \in Places /\ places \in [Players -> Places \cup {Nowhere}] /\ places[Host] = where
      /\ partyTravel \in Places \cup {Nowhere}
  BY PlayersAssumption DEF AllTypes, HostTypes
<1>3. Members' = Members /\ place' = [place EXCEPT ![Host] = where]
  BY <1>1 DEF Members
<1>. HIDE DEF places, arrived
<1>4. HostTypes'
  BY <1>1, <1>2, <1>3 DEF AllTypes, HostTypes
<1>5. ASSUME NEW q \in Players PROVE Out(q) \in Seq(Posts(bodies'))
  <2>1. <<>> \in Seq(Posts(bodies'))
    OBVIOUS
  <2>2. Led(Host, where, how, q) \in Seq(Posts(bodies')) /\ SentOn(Host, where, how, q) \in Seq(Posts(bodies'))
    BY <1>2, ArrivalTypes
  <2>3. When(q \in arrived, HostActors(where)) \in Seq(Posts(bodies'))
    <3>1. HostActors(where) \in Seq(Posts(bodies'))
      BY <1>2, ActorsType
    <3>. QED BY <2>1, <3>1, Zenon DEF When
  <2>4. Led(Host, where, how, q) \o SentOn(Host, where, how, q) \in Seq(Posts(bodies'))
    BY <2>2, InOrder
  <2>5. Led(Host, where, how, q) \o SentOn(Host, where, how, q) \o When(q \in arrived, HostActors(where))
          \in Seq(Posts(bodies'))
    BY <2>3, <2>4, InOrder
  <2>. QED BY <2>5, Zenon
<1>. HIDE DEF Out
<1>6. PICK out : out = [q \in Players |-> Out(q)]
  OBVIOUS
<1>7. out \in [Players -> Seq(Posts(bodies'))] /\ \A q \in Players : out[q] = Out(q)
  BY <1>5, <1>6
<1>8. Posted(out)
  BY <1>1, <1>7, Zenon DEF Posted
<1>. QED BY <1>3, <1>4, <1>7, <1>8

\* Every request the host handles: its characters stay, it tells of none but those it has, and
\* one that arrived with it is answered with its actors.
LEMMA HandleAt ==
    ASSUME AllTypes, NEW p \in Members, NEW m \in Request, p = Host => m.type # "announce", Handle(p, m), conn' = conn
    PROVE  /\ HostTypes' /\ bodies \subseteq bodies' /\ bodies' \subseteq bodies \cup {p} /\ actors' = actors
           /\ m.type # "announce" => bodies' = bodies
           /\ place' = IF Tells(m) THEN [place EXCEPT ![p] = m.where] ELSE place
           /\ \E out \in [Players -> Seq(Posts(bodies'))] :
                /\ Posted(out)
                /\ p # Host /\ Tells(m) /\ actors = at[Host] /\ WithHost(p, place') => Actors(actors) \in Sent(out[p])
<1>1. CASE m.type = "announce" /\ OnAnnounce(p, m.where)
  <2>1. m.where \in Places /\ Tells(m)
    BY <1>1, MessageTypes DEF Tells
  <2>. QED BY <1>1, <2>1, AnnounceAt
<1>2. CASE m.type = "queued" /\ OnTravelQueued(p, m.to)
  <2>1. m.to \in Places /\ ~Tells(m)
    BY <1>2, MessageTypes DEF Tells
  <2>. QED BY <1>2, <2>1, QueuedAt
<1>3. CASE m.type = "enter" /\ OnEnterCell(p, m.where, m.how)
  <2>1. /\ m.where \in Places /\ UNCHANGED <<bodies, actors>> /\ Tells(m)
        /\ partyTravel' = IF m.how = "own" THEN m.where ELSE partyTravel
    BY <1>3, MessageTypes DEF OnEnterCell, Tells
  <2>2. CASE p # Host /\ GuestArrived(p, m.where, m.how)
    BY <1>3, <2>1, <2>2, GuestArrivedAt
  <2>3. CASE p = Host /\ HostArrived(m.where, m.how)
    BY <1>3, <2>1, <2>3, HostArrivedAt
  <2>. QED BY <1>3, <2>2, <2>3 DEF OnEnterCell
<1>. QED BY <1>1, <1>2, <1>3 DEF Handle

-----------------------------------------------------------------------------
\* Steps in which the host tells the games something.

\* Nobody's channel loses anything, and what is put into it names none but the characters B.
Told(B) ==
    /\ NoticeTypes'
    /\ \A q \in Players \ Members : notices'[q] = notices[q]
    /\ \A q \in Members : \E t : Joined(notices[q], t, notices'[q]) /\ Sent(t) \subseteq Posts(B)

\* A game is told of the host's actors, as they are announced by then.
Reaches(p) ==
    \E t : Joined(notices[p], t, notices'[p]) /\ Sent(t) \subseteq Posts(Players) /\ Actors(actors') \in Sent(t)

\* Nothing put into a channel leaves it as it is.
LEMMA JoinNothing ==
    ASSUME NEW S, NEW s \in Seq(S)
    PROVE  Joined(s, <<>>, s) /\ Sent(<<>>) = {}
<1>1. Len(s) \in Nat /\ DOMAIN s = 1 .. Len(s)
  BY LenProperties
<1>2. DOMAIN (<<>>) = {}
  OBVIOUS
<1>3. \A i \in DOMAIN s : i \in DOMAIN s /\ s[i] = s[i] /\ i \in Nat
  BY <1>1
<1>4. DOMAIN s \subseteq Nat
  BY <1>1
<1>. QED BY <1>1, <1>2, <1>3, <1>4, SentFew, Zenon DEF Joined

\* A message to all is told to each (HostNetwork::SendToAll, SendToOthers).
LEMMA PostedAt ==
    ASSUME AllTypes, NEW B, NEW out \in [Players -> Seq(Posts(B))], Posted(out)
    PROVE  /\ Told(B)
           /\ \A q \in Members : Joined(notices[q], out[q], notices'[q]) /\ Sent(out[q]) \subseteq Posts(B)
<1>1. /\ notices \in [Players -> Seq(Notice)] /\ Members \subseteq Players
      /\ notices' = [q \in Players |-> IF q \in Members THEN notices[q] \o out[q] ELSE notices[q]]
  BY DEF AllTypes, NoticeTypes, Posted, Members
<1>2. Posts(B) \subseteq Notice
  BY DEF Posts
<1>3. ASSUME NEW q \in Members
      PROVE  /\ notices'[q] \in Seq(Notice)
             /\ Joined(notices[q], out[q], notices'[q]) /\ Sent(out[q]) \subseteq Posts(B)
  <2>0. notices[q] \in Seq(Notice) /\ out[q] \in Seq(Notice)
    <3>1. out[q] \in Seq(Posts(B)) /\ notices[q] \in Seq(Notice)
      BY <1>1
    <3>. QED BY <1>2, <3>1
  <2>1. PICK s, t, r : s \in Seq(Notice) /\ t \in Seq(Notice) /\ s = notices[q] /\ t = out[q] /\ r = s \o t
    BY <2>0, Zenon
  <2>2. Joined(s, t, r) /\ r \in Seq(Notice)
    BY <2>1, JoinFacts, Zenon
  <2>3. notices'[q] = r
    BY <1>1, <2>1, Zenon
  <2>4. Sent(out[q]) \subseteq Posts(B)
    BY <1>1, SentFew
  <2>. QED BY <2>1, <2>2, <2>3, <2>4, Zenon
<1>4. \A q \in Players \ Members : notices'[q] = notices[q]
  BY <1>1, Zenon
<1>5. NoticeTypes'
  <2>1. \A q \in Players : notices'[q] \in Seq(Notice)
    BY <1>1, <1>3, <1>4
  <2>2. notices' = [q \in Players |-> notices'[q]]
    BY <1>1, Zenon
  <2>. QED BY <2>1, <2>2, Zenon DEF NoticeTypes
<1>. QED BY <1>3, <1>4, <1>5, Zenon DEF Told

\* When nothing is sent, nothing is told.
LEMMA NothingTold ==
    ASSUME AllTypes, notices' = notices, NEW B
    PROVE  Told(B)
<1>1. notices \in [Players -> Seq(Notice)] /\ Members \subseteq Players
  BY DEF AllTypes, NoticeTypes, Members
<1>2. ASSUME NEW q \in Members PROVE Joined(notices[q], <<>>, notices'[q]) /\ Sent(<<>>) \subseteq Posts(B)
  <2>1. Joined(notices[q], <<>>, notices[q]) /\ Sent(<<>>) = {}
    BY <1>1, JoinNothing
  <2>. QED BY <2>1
<1>3. NoticeTypes'
  BY <1>1 DEF NoticeTypes
<1>. QED BY <1>2, <1>3, Zenon DEF Told

\* What the host tells keeps the types, whatever else the step does.
LEMMA ToldTypes ==
    ASSUME AllTypes, GameTypes', RequestTypes', HostTypes', UNCHANGED <<conn, copies>>, NEW B, Told(B),
           requests'[Host] = <<>>, \A p \in Players \ Members : requests'[p] = <<>>
    PROVE  AllTypes'
<1>1. Members' = Members
  BY DEF Members
<1>2. Host \in Members
  BY PlayersAssumption DEF AllTypes, Outside, Members
<1>3. \A n \in Sent(notices'[Host]) : n.type # "accepted"
  <2>1. PICK t : Joined(notices[Host], t, notices'[Host]) /\ Sent(t) \subseteq Posts(B)
    BY <1>2 DEF Told
  <2>2. Sent(notices'[Host]) = Sent(notices[Host]) \cup Sent(t)
    BY <2>1, JoinedSent
  <2>3. \A n \in Sent(t) : n.type # "accepted"
    BY <2>1 DEF Posts
  <2>. QED BY <2>2, <2>3 DEF AllTypes, Outside
<1>4. \A p \in Players \ Members : notices'[p] = <<>> /\ copies'[p] = {}
  BY DEF Told, AllTypes, Outside
<1>5. Outside'
  BY <1>1, <1>3, <1>4 DEF AllTypes, Outside
<1>. QED BY <1>5 DEF AllTypes, Told

\* The host reads a request (HostNetwork's dispatch to HostCharacters).
LEMMA HostReadsAt ==
    ASSUME AllTypes, NEW p \in Players, HostReads(p)
    PROVE  /\ AllTypes' /\ Told(bodies') /\ bodies \subseteq bodies' /\ UNCHANGED <<conn, copies>>
           /\ p \in Members \ {Host} /\ bodies' \subseteq bodies \cup {p} /\ UNCHANGED <<actors, at, npcs>>
           /\ requests[p] # <<>> /\ requests' = [requests EXCEPT ![p] = Tail(requests[p])]
           /\ Head(requests[p]).type # "announce" => bodies' = bodies
           /\ place' = IF Tells(Head(requests[p])) THEN [place EXCEPT ![p] = Head(requests[p]).where] ELSE place
           /\ Tells(Head(requests[p])) /\ actors = at[Host] /\ WithHost(p, place') => Reaches(p)
<1>1. /\ p # Host /\ requests[p] # <<>> /\ Handle(p, Head(requests[p]))
      /\ requests' = [requests EXCEPT ![p] = Tail(requests[p])]
      /\ UNCHANGED gameVars
  BY Zenon DEF HostReads
<1>2. conn' = conn /\ copies' = copies
  BY <1>1, Zenon DEF gameVars
<1>3. requests \in [Players -> Seq(Request)]
  BY DEF AllTypes, RequestTypes
<1>4. p \in Members
  BY <1>1 DEF AllTypes, Outside
<1>5. Head(requests[p]) \in Request /\ Tail(requests[p]) \in Seq(Request)
  <2>1. requests[p] \in Seq(Request) /\ requests[p] # <<>>
    BY <1>1, <1>3
  <2>. QED BY <2>1, ReadFacts, Zenon
<1>6. PICK m : m = Head(requests[p])
  OBVIOUS
<1>7. /\ HostTypes' /\ Told(bodies') /\ bodies \subseteq bodies' /\ bodies' \subseteq bodies \cup {p} /\ actors' = actors
      /\ m.type # "announce" => bodies' = bodies
      /\ place' = IF Tells(m) THEN [place EXCEPT ![p] = m.where] ELSE place
      /\ Tells(m) /\ actors = at[Host] /\ WithHost(p, place') => Reaches(p)
  <2>1. m \in Request /\ Handle(p, m)
    BY <1>1, <1>5, <1>6, Zenon
  <2>2. /\ HostTypes' /\ bodies \subseteq bodies' /\ bodies' \subseteq bodies \cup {p} /\ actors' = actors
        /\ m.type # "announce" => bodies' = bodies
        /\ place' = IF Tells(m) THEN [place EXCEPT ![p] = m.where] ELSE place
    BY <1>1, <1>2, <1>4, <2>1, HandleAt
  <2>3. PICK out \in [Players -> Seq(Posts(bodies'))] :
          /\ Posted(out)
          /\ p # Host /\ Tells(m) /\ actors = at[Host] /\ WithHost(p, place') => Actors(actors) \in Sent(out[p])
    BY <1>1, <1>2, <1>4, <2>1, HandleAt
  <2>4. Told(bodies') /\ Joined(notices[p], out[p], notices'[p]) /\ Sent(out[p]) \subseteq Posts(bodies')
    BY <1>4, <2>3, PostedAt
  <2>5. Sent(out[p]) \subseteq Posts(Players)
    BY <2>4, MessageTypes DEF Posts
  <2>6. Tells(m) /\ actors = at[Host] /\ WithHost(p, place') => Reaches(p)
    BY <1>1, <2>2, <2>3, <2>4, <2>5 DEF Reaches
  <2>. QED BY <2>2, <2>4, <2>6
<1>8. RequestTypes' /\ requests'[Host] = <<>> /\ \A q \in Players \ Members : requests'[q] = <<>>
  <2>1. \A q \in Players : q # p => requests'[q] = requests[q]
    BY <1>1, <1>3, Zenon
  <2>2. requests' \in [Players -> Seq(Request)]
    BY <1>1, <1>3, <1>5, Zenon
  <2>. QED BY <1>1, <1>4, <2>1, <2>2, PlayersAssumption, Zenon DEF RequestTypes, AllTypes, Outside
<1>9. GameTypes' /\ UNCHANGED <<at, npcs>>
  BY <1>1, Zenon DEF gameVars, GameTypes, AllTypes
<1>10. AllTypes'
  BY <1>2, <1>7, <1>8, <1>9, ToldTypes, Zenon
<1>. QED BY <1>1, <1>2, <1>4, <1>6, <1>7, <1>9, <1>10

\* A game's request on its way to the host, or the host's own, handled at once.
LEMMA SendAt ==
    ASSUME AllTypes, NEW p \in Members, NEW m \in Request, m.type # "announce", Send(p, m), conn' = conn
    PROVE  /\ HostTypes' /\ RequestTypes' /\ Told(bodies') /\ UNCHANGED <<bodies, actors>>
           /\ requests'[Host] = <<>> /\ \A q \in Players \ Members : requests'[q] = <<>>
           /\ p = Host => requests' = requests /\ place' = IF Tells(m) THEN [place EXCEPT ![p] = m.where] ELSE place
           /\ p # Host => place' = place /\ requests' = [requests EXCEPT ![p] = Append(requests[p], m)]
<1>1. CASE p = Host /\ Handle(p, m) /\ UNCHANGED requests
  <2>1. /\ HostTypes' /\ bodies' = bodies /\ \E out \in [Players -> Seq(Posts(bodies'))] : Posted(out)
        /\ actors' = actors /\ place' = IF Tells(m) THEN [place EXCEPT ![p] = m.where] ELSE place
    BY <1>1, HandleAt
  <2>2. Told(bodies')
    BY <2>1, PostedAt
  <2>. QED BY <1>1, <2>1, <2>2 DEF RequestTypes, AllTypes, Outside
<1>2. CASE /\ p # Host /\ requests' = [requests EXCEPT ![p] = Append(requests[p], m)]
           /\ UNCHANGED <<notices, hostVars>>
  <2>1. notices' = notices /\ HostTypes' /\ UNCHANGED <<bodies, actors, place>>
    <3>1. Members' = Members
      BY DEF Members
    <3>. QED BY <1>2, <3>1 DEF hostVars, HostTypes, AllTypes
  <2>2. Told(bodies')
    BY <2>1, NothingTold
  <2>3. requests \in [Players -> Seq(Request)] /\ p \in Players
    BY DEF AllTypes, RequestTypes, Members
  <2>4. Append(requests[p], m) \in Seq(Request)
    <3>1. requests[p] \in Seq(Request)
      BY <2>3
    <3>. QED BY <3>1, AppendFacts, Zenon
  <2>5. \A q \in Players : q # p => requests'[q] = requests[q]
    BY <1>2, <2>3, Zenon
  <2>6. requests' \in [Players -> Seq(Request)]
    BY <1>2, <2>3, <2>4, Zenon
  <2>. QED BY <1>2, <2>1, <2>2, <2>5, <2>6, PlayersAssumption, Zenon DEF RequestTypes, AllTypes, Outside
<1>. QED BY <1>1, <1>2, Zenon DEF Send

\* A player's own travel sets out.
LEMMA SetOutAt ==
    ASSUME AllTypes, NEW p \in Players, NEW to \in Places, SetOut(p, to)
    PROVE  /\ AllTypes' /\ Told(bodies') /\ UNCHANGED <<bodies, conn, copies, at, npcs, actors, place>>
           /\ \/ requests' = requests
              \/ p # Host /\ requests' = [requests EXCEPT ![p] = Append(requests[p], Queued(to))]
<1>1. /\ conn[p] = "open" /\ trips < MaxTrips /\ trips' = trips + 1 /\ queued' = [queued EXCEPT ![p] = to]
      /\ UNCHANGED <<conn, online, at, targets, copies, npcs>>
      /\ \/ UNCHANGED <<requests, notices, hostVars>>
         \/ Send(p, Queued(to))
  BY Zenon DEF SetOut
<1>2. p \in Members
  BY <1>1 DEF Members
<1>3. GameTypes'
  <2>1. trips' \in 0 .. MaxTrips
    BY <1>1, BoundsAssumption DEF AllTypes, GameTypes
  <2>2. queued' \in [Players -> Places \cup {Nowhere}]
    BY <1>1 DEF AllTypes, GameTypes
  <2>. QED BY <1>1, <2>1, <2>2 DEF AllTypes, GameTypes
<1>4. CASE UNCHANGED <<requests, notices, hostVars>>
  <2>1. HostTypes' /\ RequestTypes' /\ notices' = notices /\ UNCHANGED <<bodies, actors, place, requests>>
    <3>1. Members' = Members
      BY <1>1 DEF Members
    <3>. QED BY <1>4, <3>1 DEF hostVars, HostTypes, RequestTypes, AllTypes
  <2>2. Told(bodies')
    BY <2>1, NothingTold
  <2>3. requests'[Host] = <<>> /\ \A q \in Players \ Members : requests'[q] = <<>>
    BY <1>4 DEF AllTypes, Outside
  <2>. QED BY <1>1, <1>3, <2>1, <2>2, <2>3, ToldTypes
<1>5. CASE Send(p, Queued(to))
  <2>1. Queued(to) \in Request /\ Queued(to).type # "announce" /\ ~Tells(Queued(to))
    BY MessageTypes DEF Queued, Tells
  <2>2. /\ HostTypes' /\ RequestTypes' /\ Told(bodies') /\ UNCHANGED <<bodies, actors, place>>
        /\ requests'[Host] = <<>> /\ \A q \in Players \ Members : requests'[q] = <<>>
        /\ \/ requests' = requests
           \/ p # Host /\ requests' = [requests EXCEPT ![p] = Append(requests[p], Queued(to))]
    BY <1>1, <1>2, <1>5, <2>1, SendAt
  <2>. QED BY <1>1, <1>3, <2>2, ToldTypes
<1>. QED BY <1>1, <1>4, <1>5

\* A player arrives from a load.
LEMMA ArriveAt ==
    ASSUME AllTypes, NEW p \in Players, Arrive(p)
    PROVE  /\ AllTypes' /\ Told(bodies') /\ UNCHANGED <<bodies, conn, copies, actors>>
           /\ p \in Members /\ at' = [at EXCEPT ![p] = queued[p]] /\ \A q \in Players : q # p => npcs'[q] = npcs[q]
           /\ p = Host => /\ actors = at[Host] /\ UNCHANGED requests
                          /\ place' = [place EXCEPT ![p] = queued[p]]
           /\ p # Host => /\ place' = place
                          /\ requests' = [requests EXCEPT ![p] = Append(requests[p], EnterCell(queued[p], Arrival(p, queued[p])))]
<1>1. PICK where : where = queued[p]
  OBVIOUS
<1>2. /\ conn[p] = "open" /\ where # Nowhere /\ (p = Host => actors = at[Host])
      /\ at' = [at EXCEPT ![p] = where]
      /\ targets' = [targets EXCEPT ![p] = TargetsLeft(p, where)]
      /\ npcs' = [npcs EXCEPT ![p] = IF npcs[p] = where THEN npcs[p] ELSE Nowhere]
      /\ Send(p, EnterCell(where, Arrival(p, where)))
      /\ queued' = [queued EXCEPT ![p] = Nowhere]
      /\ UNCHANGED <<conn, online, copies, trips>>
  BY <1>1, Zenon DEF Arrive
<1>3. p \in Members
  BY <1>2 DEF Members
<1>4. where \in Places
  BY <1>1, <1>2 DEF AllTypes, GameTypes
<1>5. Arrival(p, where) \in {"own", "tether", "beforeJoining"}
  BY Zenon DEF Arrival
<1>6. /\ EnterCell(where, Arrival(p, where)) \in Request /\ EnterCell(where, Arrival(p, where)).type # "announce"
      /\ EnterCell(where, Arrival(p, where)).where = where /\ Tells(EnterCell(where, Arrival(p, where)))
  <2>1. EnterCell(where, Arrival(p, where)) \in Request
    BY <1>4, <1>5, MessageTypes
  <2>2. \A a, how : EnterCell(a, how).type = "enter" /\ EnterCell(a, how).where = a /\ Tells(EnterCell(a, how))
    BY DEF EnterCell, Tells
  <2>. QED BY <2>1, <2>2
<1>7. /\ HostTypes' /\ RequestTypes' /\ Told(bodies') /\ UNCHANGED <<bodies, actors>>
      /\ requests'[Host] = <<>> /\ \A q \in Players \ Members : requests'[q] = <<>>
      /\ p = Host => requests' = requests /\ place' = [place EXCEPT ![p] = where]
      /\ p # Host => /\ place' = place
                     /\ requests' = [requests EXCEPT ![p] = Append(requests[p], EnterCell(where, Arrival(p, where)))]
  <2>1. PICK m : m = EnterCell(where, Arrival(p, where))
    OBVIOUS
  <2>. QED BY <1>2, <1>3, <1>6, <2>1, SendAt
<1>8. GameTypes'
  <2>1. TargetsLeft(p, where) \in Seq(Places)
    BY TargetsType DEF AllTypes, GameTypes
  <2>2. targets' \in [Players -> Seq(Places)]
    BY <1>2, <2>1 DEF AllTypes, GameTypes
  <2>3. /\ at' \in [Players -> Places] /\ npcs' \in [Players -> Places \cup {Nowhere}]
        /\ queued' \in [Players -> Places \cup {Nowhere}]
    BY <1>2, <1>4 DEF AllTypes, GameTypes
  <2>. QED BY <1>2, <2>2, <2>3 DEF AllTypes, GameTypes
<1>9. \A q \in Players : q # p => npcs'[q] = npcs[q]
  BY <1>2 DEF AllTypes, GameTypes
<1>10. AllTypes'
  BY <1>2, <1>7, <1>8, ToldTypes
<1>. QED BY <1>1, <1>2, <1>3, <1>7, <1>9, <1>10

\* The host's game discovers the actors where its player arrived.
LEMMA DiscoversAt ==
    ASSUME AllTypes, HostDiscovers
    PROVE  /\ AllTypes' /\ Told(bodies') /\ UNCHANGED <<bodies, conn, copies, at, npcs, requests, place>>
           /\ actors' = at[Host] /\ \A q \in Members \ {Host} : WithHost(q, place) => Reaches(q)
<1>. DEFINE Out(q) == When(q # Host, <<ActorsGone(actors)>> \o When(WithHost(q, place), <<Actors(at[Host])>>))
<1>1. /\ actors' = at[Host] /\ actors # actors'
      /\ notices' = [q \in Players |-> IF q \in Members THEN notices[q] \o Out(q) ELSE notices[q]]
      /\ UNCHANGED <<gameVars, requests, bodies, place, ahead, brought, partyTravel>>
  BY Zenon DEF HostDiscovers, Post
<1>2. conn' = conn /\ copies' = copies /\ GameTypes'
  BY <1>1 DEF gameVars, GameTypes, AllTypes
<1>3. HostTypes'
  <2>1. Members' = Members
    BY <1>2 DEF Members
  <2>2. at[Host] \in Places
    BY PlayersAssumption DEF AllTypes, GameTypes
  <2>. QED BY <1>1, <2>1, <2>2 DEF AllTypes, HostTypes
<1>4. ASSUME NEW q \in Players
      PROVE  /\ Out(q) \in Seq(Posts(bodies'))
             /\ q # Host /\ WithHost(q, place) => Actors(actors') \in Sent(Out(q))
  <2>1. at[Host] \in Places /\ actors \in Places
    BY PlayersAssumption DEF AllTypes, GameTypes, HostTypes
  <2>2. When(WithHost(q, place), <<Actors(at[Host])>>) \in Seq(Posts(bodies'))
    <3>1. Actors(at[Host]) \in Posts(bodies')
      BY <1>1, <2>1, MessageTypes
    <3>. QED BY <3>1, WhenType
  <2>3. <<ActorsGone(actors)>> \in Seq(Posts(bodies'))
    <3>1. ActorsGone(actors) \in Posts(bodies')
      <4>1. actors \in Places \ {actors'}
        BY <1>1, <2>1
      <4>. QED BY <4>1, MessageTypes
    <3>. QED BY <3>1
  <2>4. <<ActorsGone(actors)>> \o When(WithHost(q, place), <<Actors(at[Host])>>) \in Seq(Posts(bodies'))
    BY <2>2, <2>3, InOrder
  <2>5. <<>> \in Seq(Posts(bodies'))
    OBVIOUS
  <2>6. q # Host /\ WithHost(q, place) => Actors(actors') \in Sent(Out(q))
    <3>1. ASSUME q # Host, WithHost(q, place) PROVE Out(q) = <<ActorsGone(actors)>> \o <<Actors(at[Host])>>
      BY <3>1, Zenon DEF When
    <3>2. ASSUME WithHost(q, place) PROVE <<Actors(at[Host])>> \in Seq(Posts(bodies'))
      BY <2>2, <3>2, Zenon DEF When
    <3>3. ASSUME WithHost(q, place)
          PROVE  Sent(<<ActorsGone(actors)>> \o <<Actors(at[Host])>>) = Sent(<<ActorsGone(actors)>>) \cup Sent(<<Actors(at[Host])>>)
      BY <2>3, <3>2, <3>3, SentJoin
    <3>4. Sent(<<Actors(at[Host])>>) = {Actors(at[Host])}
      BY SentFew
    <3>. HIDE DEF Out
    <3>. QED BY <1>1, <3>1, <3>3, <3>4
  <2>. QED BY <2>4, <2>5, <2>6, Zenon DEF When
<1>. HIDE DEF Out
<1>5. PICK out : out = [q \in Players |-> Out(q)]
  OBVIOUS
<1>6. out \in [Players -> Seq(Posts(bodies'))] /\ \A q \in Players : out[q] = Out(q)
  BY <1>4, <1>5
<1>7. Posted(out)
  BY <1>1, <1>6, Zenon DEF Posted
<1>8. /\ Told(bodies')
      /\ \A q \in Members : Joined(notices[q], out[q], notices'[q]) /\ Sent(out[q]) \subseteq Posts(bodies')
  BY <1>6, <1>7, PostedAt
<1>9. RequestTypes' /\ requests'[Host] = <<>> /\ \A q \in Players \ Members : requests'[q] = <<>>
  BY <1>1 DEF AllTypes, RequestTypes, Outside
<1>10. ASSUME NEW q \in Members \ {Host}, WithHost(q, place) PROVE Reaches(q)
  <2>1. q \in Players /\ Actors(actors') \in Sent(out[q])
    BY <1>4, <1>6, <1>10 DEF Members
  <2>2. Posts(bodies') \subseteq Posts(Players)
    BY MessageTypes DEF Posts
  <2>. QED BY <1>8, <2>1, <2>2 DEF Reaches
<1>11. UNCHANGED <<at, npcs>>
  BY <1>1 DEF gameVars
<1>. QED BY <1>1, <1>2, <1>3, <1>8, <1>9, <1>10, <1>11, ToldTypes

-----------------------------------------------------------------------------
\* The other steps: a game reads, joins or leaves.

\* A game reads what the host sent (the handlers of TravelService and CharacterService).
LEMMA GameReadsTypes ==
    ASSUME AllTypes, NEW p \in Players, GameReads(p)
    PROVE  /\ AllTypes'
           /\ p \in Members /\ notices[p] # <<>> /\ notices' = [notices EXCEPT ![p] = Tail(notices[p])]
           /\ UNCHANGED <<conn, bodies>>
<1>1. PICK m : m = Head(notices[p])
  OBVIOUS
<1>2. /\ conn[p] = "open" /\ notices[p] # <<>> /\ notices' = [notices EXCEPT ![p] = Tail(notices[p])]
      /\ \/ m.type = "accepted" /\ OnAccepted(p)
         \/ m.type = "travel" /\ OnPartyTravel(p, m.to)
         \/ m.type = "spawns" /\ OnSpawns(p, m.placeOf)
         \/ m.type = "actors" /\ OnActors(p, m.where)
         \/ m.type = "actorsGone" /\ OnActorsGone(p, m.where)
         \/ m.type = "removed" /\ OnRemoved(p, m.who)
      /\ UNCHANGED trips
  BY <1>1, Zenon DEF GameReads
<1>3. p \in Members
  BY <1>2 DEF Members
<1>4. /\ notices \in [Players -> Seq(Notice)] /\ notices[p] \in Seq(Notice)
  BY DEF AllTypes, NoticeTypes
<1>5. Tail(notices[p]) \in Seq(Notice) /\ m \in Notice /\ m \in Sent(notices[p]) /\ Sent(Tail(notices[p])) \subseteq Sent(notices[p])
  BY <1>1, <1>2, <1>4, SentRead, Zenon
<1>6. NoticeTypes' /\ \A q \in Players : q # p => notices'[q] = notices[q]
  <2>1. notices' \in [Players -> Seq(Notice)]
    BY <1>2, <1>4, <1>5, Zenon
  <2>2. \A q \in Players : q # p => notices'[q] = notices[q]
    BY <1>2, <1>4, Zenon
  <2>. QED BY <2>1, <2>2 DEF NoticeTypes
<1>7. /\ conn' = conn /\ UNCHANGED hostVars /\ GameTypes' /\ RequestTypes'
      /\ p = Host => requests' = requests
      /\ \A q \in Players : q # p => requests'[q] = requests[q] /\ copies'[q] = copies[q]
  <2>1. CASE m.type = "accepted" /\ OnAccepted(p)
    <3>1. p # Host
      BY <1>5, <2>1 DEF AllTypes, Outside
    <3>2. /\ online' = [online EXCEPT ![p] = TRUE] /\ UNCHANGED <<conn, at, queued, targets, copies, npcs, hostVars>>
      BY <2>1, Zenon DEF OnAccepted
    <3>3. PICK loaded \in BOOLEAN : requests' = [requests EXCEPT ![p] =
             <<Announce(at[p])>> \o When(loaded, <<EnterCell(at[p], "beforeJoining")>>)]
      BY <2>1, Zenon DEF OnAccepted
    <3>4. <<Announce(at[p])>> \o When(loaded, <<EnterCell(at[p], "beforeJoining")>>) \in Seq(Request)
      <4>1. at[p] \in Places
        BY DEF AllTypes, GameTypes
      <4>2. Announce(at[p]) \in Request /\ EnterCell(at[p], "beforeJoining") \in Request
        BY <4>1, MessageTypes
      <4>3. <<Announce(at[p])>> \in Seq(Request) /\ When(loaded, <<EnterCell(at[p], "beforeJoining")>>) \in Seq(Request)
        BY <4>2, WhenType
      <4>. QED BY <4>3, InOrder
    <3>5. requests \in [Players -> Seq(Request)]
      BY DEF AllTypes, RequestTypes
    <3>6. requests' \in [Players -> Seq(Request)] /\ \A q \in Players : q # p => requests'[q] = requests[q]
      BY <3>3, <3>4, <3>5, Zenon
    <3>7. GameTypes'
      BY <1>2, <3>2 DEF AllTypes, GameTypes
    <3>. QED BY <3>1, <3>2, <3>6, <3>7 DEF RequestTypes
  <2>2. CASE m.type = "travel" /\ OnPartyTravel(p, m.to)
    <3>1. /\ \/ UNCHANGED <<targets, queued>>
             \/ targets' = [targets EXCEPT ![p] = Append(targets[p], m.to)] /\ queued' = [queued EXCEPT ![p] = m.to]
          /\ UNCHANGED <<conn, online, at, copies, npcs, requests, hostVars>>
      BY <2>2, Zenon DEF OnPartyTravel
    <3>2. m.to \in Places
      BY <1>5, <2>2, MessageTypes
    <3>3. Append(targets[p], m.to) \in Seq(Places)
      BY <3>2, AppendProperties DEF AllTypes, GameTypes
    <3>4. targets' \in [Players -> Seq(Places)] /\ queued' \in [Players -> Places \cup {Nowhere}]
      BY <3>1, <3>2, <3>3 DEF AllTypes, GameTypes
    <3>5. GameTypes'
      BY <1>2, <3>1, <3>4 DEF AllTypes, GameTypes
    <3>. QED BY <3>1, <3>5 DEF AllTypes, RequestTypes
  <2>3. CASE m.type = "spawns" /\ OnSpawns(p, m.placeOf)
    <3>1. PICK made : made = {c \in DOMAIN m.placeOf : ~Outdoors(at[p]) \/ Around(m.placeOf[c], at[p])}
      OBVIOUS
    <3>2. /\ copies' = [copies EXCEPT ![p] = copies[p] \cup made]
          /\ UNCHANGED <<conn, online, at, queued, targets, npcs, requests, hostVars>>
      BY <2>3, <3>1, Zenon DEF OnSpawns
    <3>3. made \subseteq Players
      BY <1>5, <2>3, <3>1, MessageTypes
    <3>4. copies' \in [Players -> SUBSET Players] /\ \A q \in Players : q # p => copies'[q] = copies[q]
      BY <3>2, <3>3 DEF AllTypes, GameTypes
    <3>. QED BY <1>2, <3>2, <3>4 DEF AllTypes, GameTypes, RequestTypes
  <2>4. CASE m.type = "actors" /\ OnActors(p, m.where)
    <3>1. m.where \in Places
      BY <1>5, <2>4, MessageTypes
    <3>. QED BY <1>2, <2>4, <3>1 DEF OnActors, AllTypes, GameTypes, RequestTypes
  <2>5. CASE m.type = "actorsGone" /\ OnActorsGone(p, m.where)
    BY <1>2, <2>5 DEF OnActorsGone, AllTypes, GameTypes, RequestTypes
  <2>6. CASE m.type = "removed" /\ OnRemoved(p, m.who)
    BY <1>2, <2>6 DEF OnRemoved, AllTypes, GameTypes, RequestTypes
  <2>. QED BY <1>2, <2>1, <2>2, <2>3, <2>4, <2>5, <2>6
<1>8. Members' = Members
  BY <1>7 DEF Members
<1>9. HostTypes' /\ bodies' = bodies
  BY <1>7, <1>8 DEF hostVars, HostTypes, AllTypes
<1>10. Outside'
  <2>1. \A n \in Sent(notices'[Host]) : n.type # "accepted"
    <3>1. CASE p = Host
      <4>1. notices'[p] = Tail(notices[p])
        BY <1>2, <1>4, Zenon
      <4>. QED BY <1>5, <3>1, <4>1, Zenon DEF AllTypes, Outside
    <3>2. CASE p # Host
      BY <1>6, <3>2, PlayersAssumption DEF AllTypes, Outside
    <3>. QED BY <3>1, <3>2
  <2>2. requests'[Host] = <<>>
    BY <1>7, PlayersAssumption DEF AllTypes, Outside
  <2>3. \A q \in Players \ Members : requests'[q] = <<>> /\ notices'[q] = <<>> /\ copies'[q] = {}
    BY <1>3, <1>6, <1>7 DEF AllTypes, Outside
  <2>. QED BY <1>7, <1>8, <2>1, <2>2, <2>3 DEF AllTypes, Outside
<1>. QED BY <1>2, <1>3, <1>6, <1>7, <1>9, <1>10 DEF AllTypes

\* A join is accepted.
LEMMA JoinTypes ==
    ASSUME AllTypes, NEW p \in Players, Join(p)
    PROVE  /\ AllTypes' /\ UNCHANGED <<copies, bodies>> /\ Members' = Members \cup {p} /\ p \notin Members
           /\ notices'[p] = <<Accepted>> /\ \A q \in Players : q # p => notices'[q] = notices[q]
<1>1. /\ conn[p] = "none" /\ conn' = [conn EXCEPT ![p] = "open"]
      /\ notices' = [notices EXCEPT ![p] = <<Accepted>>]
      /\ UNCHANGED <<online, at, queued, targets, copies, npcs, trips, requests, hostVars>>
  BY Zenon DEF Join
<1>2. /\ conn' \in [Players -> {"none", "open", "closed"}] /\ conn'[p] = "open"
      /\ \A q \in Players : q # p => conn'[q] = conn[q]
      /\ p # Host
  BY <1>1 DEF AllTypes, GameTypes, Outside
<1>3. Members' = Members \cup {p} /\ p \notin Members
  BY <1>1, <1>2 DEF Members
<1>4. notices' \in [Players -> Seq(Notice)] /\ notices'[p] = <<Accepted>> /\ \A q \in Players : q # p => notices'[q] = notices[q]
  <2>1. <<Accepted>> \in Seq(Notice)
    BY MessageTypes
  <2>2. notices \in [Players -> Seq(Notice)]
    BY DEF AllTypes, NoticeTypes
  <2>. QED BY <1>1, <2>1, <2>2, Zenon
<1>5. GameTypes' /\ RequestTypes' /\ NoticeTypes'
  BY <1>1, <1>2, <1>4 DEF AllTypes, GameTypes, RequestTypes, NoticeTypes
<1>6. HostTypes' /\ bodies' = bodies
  BY <1>1, <1>3 DEF hostVars, AllTypes, HostTypes
<1>7. Outside'
  BY <1>1, <1>2, <1>3, <1>4, PlayersAssumption DEF AllTypes, Outside
<1>. QED BY <1>1, <1>3, <1>4, <1>5, <1>6, <1>7 DEF AllTypes

\* A guest leaves: every other game is told its character is gone.
LEMMA LeaveTypes ==
    ASSUME AllTypes, NEW p \in Players, Leave(p)
    PROVE  /\ AllTypes' /\ Members' = Members \ {p} /\ p # Host /\ bodies' = bodies \ {p}
           /\ copies'[p] = {} /\ \A q \in Players : q # p => copies'[q] = copies[q]
           /\ \A q \in Members \ {p} :
                \E t : /\ Joined(notices[q], t, notices'[q]) /\ Sent(t) \subseteq {Removed(p)}
                       /\ p \in bodies => Removed(p) \in Sent(t)
<1>1. /\ p \in Leavers /\ conn[p] = "open" /\ conn' = [conn EXCEPT ![p] = "closed"]
      /\ online' = [online EXCEPT ![p] = FALSE] /\ queued' = [queued EXCEPT ![p] = Nowhere]
      /\ targets' = [targets EXCEPT ![p] = <<>>] /\ copies' = [copies EXCEPT ![p] = {}]
      /\ npcs' = [npcs EXCEPT ![p] = Nowhere] /\ requests' = [requests EXCEPT ![p] = <<>>]
      /\ bodies' = bodies \ {p} /\ place' = [place EXCEPT ![p] = Nowhere]
      /\ ahead' = ahead \ {p} /\ brought' = brought \ {p}
      /\ notices' = [q \in Players |->
             IF q = p THEN <<>>
             ELSE notices[q] \o When(p \in bodies /\ q \in ToldOfRemoval(p), <<Removed(p)>>)]
      /\ UNCHANGED <<at, trips, partyTravel, actors>>
  BY Zenon DEF Leave, CharactersLeft
<1>2. p # Host /\ p \in Members
  BY <1>1, BoundsAssumption DEF Members
<1>3. /\ conn' \in [Players -> {"none", "open", "closed"}] /\ conn'[p] = "closed"
      /\ \A q \in Players : q # p => conn'[q] = conn[q]
  BY <1>1 DEF AllTypes, GameTypes
<1>4. Members' = Members \ {p}
  BY <1>3 DEF Members
<1>5. online' \in [Players -> BOOLEAN] /\ queued' \in [Players -> Places \cup {Nowhere}]
      /\ npcs' \in [Players -> Places \cup {Nowhere}]
  BY <1>1 DEF AllTypes, GameTypes
<1>6. /\ copies' \in [Players -> SUBSET Players] /\ copies'[p] = {}
      /\ \A q \in Players : q # p => copies'[q] = copies[q]
  BY <1>1 DEF AllTypes, GameTypes
<1>7. targets' \in [Players -> Seq(Places)]
  <2>1. <<>> \in Seq(Places)
    OBVIOUS
  <2>. QED BY <1>1, <2>1, Zenon DEF AllTypes, GameTypes
<1>8. requests' \in [Players -> Seq(Request)] /\ requests'[p] = <<>> /\ \A q \in Players : q # p => requests'[q] = requests[q]
  <2>1. <<>> \in Seq(Request)
    OBVIOUS
  <2>. QED BY <1>1, <2>1, Zenon DEF AllTypes, RequestTypes
<1>9. ASSUME NEW q \in Players, q # p
      PROVE  /\ notices'[q] \in Seq(Notice)
             /\ q \in Members => \E t : /\ Joined(notices[q], t, notices'[q]) /\ Sent(t) \subseteq {Removed(p)}
                                        /\ p \in bodies => Removed(p) \in Sent(t)
             /\ q \notin Members => notices'[q] = <<>>
  <2>1. PICK s, t, r : s = notices[q] /\ t = When(p \in bodies /\ q \in ToldOfRemoval(p), <<Removed(p)>>) /\ r = s \o t
    OBVIOUS
  <2>2. Removed(p) \in Notice
    BY MessageTypes DEF Posts
  <2>3. s \in Seq(Notice) /\ t \in Seq(Notice)
    BY <2>1, <2>2, WhenType DEF AllTypes, NoticeTypes
  <2>4. Joined(s, t, r) /\ r \in Seq(Notice)
    BY <2>1, <2>3, JoinFacts, Zenon
  <2>5. notices'[q] = r
    BY <1>1, <1>9, <2>1, Zenon
  <2>6. Sent(<<Removed(p)>>) = {Removed(p)} /\ Sent(<<>>) = {}
    BY SentFew
  <2>7. Sent(t) \subseteq {Removed(p)}
    BY <2>1, <2>6, Zenon DEF When
  <2>8. q \in Members /\ p \in bodies => Removed(p) \in Sent(t)
    <3>1. ASSUME q \in Members, p \in bodies PROVE t = <<Removed(p)>>
      BY <1>9, <2>1, <3>1, Zenon DEF When, ToldOfRemoval
    <3>. QED BY <2>6, <3>1
  <2>9. q \notin Members => r = <<>>
    <3>1. ASSUME q \notin Members PROVE t = <<>> /\ s = <<>>
      <4>1. q \notin ToldOfRemoval(p)
        BY <3>1 DEF ToldOfRemoval
      <4>2. t = <<>>
        BY <2>1, <4>1, Zenon DEF When
      <4>. QED BY <2>1, <3>1, <4>2 DEF AllTypes, Outside
    <3>2. <<>> \o <<>> = <<>>
      OBVIOUS
    <3>. QED BY <2>1, <3>1, <3>2, Zenon
  <2>. QED BY <2>1, <2>4, <2>5, <2>7, <2>8, <2>9, Zenon
<1>10. NoticeTypes' /\ notices'[p] = <<>>
  <2>1. notices'[p] = <<>>
    BY <1>1, Zenon
  <2>2. \A q \in Players : notices'[q] \in Seq(Notice)
    <3>1. <<>> \in Seq(Notice)
      OBVIOUS
    <3>. QED BY <1>9, <2>1, <3>1
  <2>3. notices' = [q \in Players |-> notices'[q]]
    BY <1>1, Zenon
  <2>. QED BY <2>1, <2>2, <2>3, Zenon DEF NoticeTypes
<1>11. GameTypes' /\ RequestTypes'
  BY <1>1, <1>3, <1>5, <1>6, <1>7, <1>8 DEF AllTypes, GameTypes, RequestTypes
<1>12. HostTypes'
  <2>1. bodies' \subseteq Members' /\ ahead' \subseteq Members' \ {Host} /\ brought' \subseteq Members' \ {Host}
    BY <1>1, <1>4 DEF AllTypes, HostTypes
  <2>2. place' \in [Players -> Places \cup {Nowhere}] /\ place'[Host] \in Places
    BY <1>1, <1>2, PlayersAssumption DEF AllTypes, HostTypes
  <2>. QED BY <1>1, <2>1, <2>2 DEF AllTypes, HostTypes
<1>13. Outside'
  <2>1. conn'[Host] = "open" /\ requests'[Host] = <<>>
    BY <1>2, <1>3, <1>8, PlayersAssumption DEF AllTypes, Outside
  <2>2. \A n \in Sent(notices'[Host]) : n.type # "accepted"
    <3>1. Host \in Members
      BY PlayersAssumption DEF AllTypes, Outside, Members
    <3>2. PICK t : Joined(notices[Host], t, notices'[Host]) /\ Sent(t) \subseteq {Removed(p)}
      BY <1>2, <1>9, <3>1, PlayersAssumption
    <3>3. Sent(notices'[Host]) = Sent(notices[Host]) \cup Sent(t)
      BY <3>2, JoinedSent
    <3>4. Removed(p).type # "accepted"
      BY DEF Removed
    <3>. QED BY <3>2, <3>3, <3>4 DEF AllTypes, Outside
  <2>3. \A q \in Players \ Members' : requests'[q] = <<>> /\ notices'[q] = <<>> /\ copies'[q] = {}
    <3>1. ASSUME NEW q \in Players \ Members', q # p
          PROVE requests'[q] = <<>> /\ notices'[q] = <<>> /\ copies'[q] = {}
      BY <1>4, <1>6, <1>8, <1>9, <3>1 DEF AllTypes, Outside
    <3>. QED BY <1>6, <1>8, <1>10, <3>1
  <2>. QED BY <2>1, <2>2, <2>3 DEF Outside
<1>14. \A q \in Members \ {p} : q \in Players /\ q # p
  BY DEF Members
<1>. QED BY <1>1, <1>2, <1>4, <1>6, <1>9, <1>10, <1>11, <1>12, <1>13, <1>14 DEF AllTypes

\* Each variable has its type, whatever a game does.
LEMMA TypeStep == AllTypes /\ [Next]_vars => AllTypes'
<1>1. ASSUME AllTypes, Next PROVE AllTypes'
  <2>1. ASSUME NEW p \in Players, HostReads(p) PROVE AllTypes'
    BY <1>1, <2>1, HostReadsAt
  <2>2. ASSUME NEW p \in Players, GameReads(p) PROVE AllTypes'
    BY <1>1, <2>2, GameReadsTypes
  <2>3. ASSUME NEW p \in Players, Arrive(p) PROVE AllTypes'
    BY <1>1, <2>3, ArriveAt
  <2>4. ASSUME NEW p \in Players, Join(p) PROVE AllTypes'
    BY <1>1, <2>4, JoinTypes
  <2>5. ASSUME NEW p \in Players, Leave(p) PROVE AllTypes'
    BY <1>1, <2>5, LeaveTypes
  <2>6. ASSUME NEW p \in Players, NEW to \in Places, SetOut(p, to) PROVE AllTypes'
    BY <1>1, <2>6, SetOutAt
  <2>7. ASSUME HostDiscovers PROVE AllTypes'
    BY <1>1, <2>7, DiscoversAt
  <2>. QED BY <1>1, <2>1, <2>2, <2>3, <2>4, <2>5, <2>6, <2>7, Zenon DEF Next
<1>2. ASSUME AllTypes, UNCHANGED vars PROVE AllTypes'
  <2>1. Members' = Members
    BY <1>2 DEF vars, gameVars, Members
  <2>. QED BY <1>2, <2>1 DEF vars, gameVars, hostVars, AllTypes, GameTypes, RequestTypes, NoticeTypes, HostTypes, Outside
<1>. QED BY <1>1, <1>2

\* At the start the host is alone in the session.
LEMMA InitTypes == Init => AllTypes
<1>. SUFFICES ASSUME Init PROVE AllTypes
  OBVIOUS
<1>1. <<>> \in Seq(Places) /\ <<>> \in Seq(Request) /\ <<>> \in Seq(Notice)
  OBVIOUS
<1>2. Members = {Host}
  BY PlayersAssumption DEF Init, Members
<1>3. GameTypes
  <2>1. targets \in [Players -> Seq(Places)]
    BY <1>1, Zenon DEF Init
  <2>2. at \in [Players -> Places]
    BY PlacesAssumption DEF Init
  <2>. QED BY <2>1, <2>2, BoundsAssumption, PlacesAssumption DEF Init, GameTypes
<1>4. RequestTypes /\ NoticeTypes
  BY <1>1, Zenon DEF Init, RequestTypes, NoticeTypes
<1>5. HostTypes
  BY <1>2, PlayersAssumption, PlacesAssumption DEF Init, HostTypes
<1>6. Outside
  <2>1. notices[Host] = <<>> /\ requests[Host] = <<>> /\ conn[Host] = "open"
    BY PlayersAssumption, Zenon DEF Init
  <2>2. \A n \in Sent(notices[Host]) : n.type # "accepted"
    BY <2>1, SentFew
  <2>3. \A q \in Players : requests[q] = <<>> /\ notices[q] = <<>> /\ copies[q] = {}
    BY Zenon DEF Init
  <2>. QED BY <2>1, <2>2, <2>3 DEF Outside
<1>. QED BY <1>3, <1>4, <1>5, <1>6 DEF AllTypes

\* Every variable and every message has its type; the host's game never joins, and a game that
\* is not connected has sent and is sent nothing (HostNetwork's connections).
THEOREM TravelTypes == Spec => []AllTypes
BY InitTypes, TypeStep, PTL DEF Spec

\* The model's own type invariant (of TravelService, CharacterService and HostCharacters).
THEOREM TypeCorrect == Spec => []TypeOK
<1>1. AllTypes => TypeOK
  BY DEF AllTypes, GameTypes, HostTypes, TypeOK
<1>. QED BY <1>1, TravelTypes, PTL

-----------------------------------------------------------------------------
\* No game keeps a copy of a player that left.

\* A character the host announces and no longer has is one whose removal comes after.
Owed(s, B) ==
    \A i \in DOMAIN s : s[i].type = "spawns" =>
        \A c \in DOMAIN s[i].placeOf \ B : \E j \in DOMAIN s : i < j /\ s[j] = Removed(c)

\* Of the characters C it has copies of, those the host no longer has are on their way out.
Gone(s, B, C) == \A c \in C \ B : \E j \in DOMAIN s : s[j] = Removed(c)

\* The inductive invariant: a copy is made by the reading of an announcement, so what is said
\* of the copies must hold of the announcements on their way too.
GhostInv == \A p \in Players : Owed(notices[p], bodies) /\ Gone(notices[p], bodies, copies[p])

\* What the host tells names those it has, and loses no removal.
LEMMA TidyTold ==
    ASSUME NEW B, NEW D, NEW C, NEW s, NEW t, NEW r, B \subseteq D, Owed(s, B), Gone(s, B, C),
           Joined(s, t, r), Sent(t) \subseteq Posts(D)
    PROVE  Owed(r, D) /\ Gone(r, D, C)
<1>1. ASSUME NEW i \in DOMAIN r, r[i].type = "spawns", NEW c \in DOMAIN r[i].placeOf \ D
      PROVE  \E j \in DOMAIN r : i < j /\ r[j] = Removed(c)
  <2>1. CASE i \in DOMAIN s
    <3>1. r[i] = s[i]
      BY <2>1 DEF Joined
    <3>2. PICK j \in DOMAIN s : i < j /\ s[j] = Removed(c)
      BY <1>1, <2>1, <3>1 DEF Owed
    <3>. QED BY <3>2 DEF Joined
  <2>2. CASE i \notin DOMAIN s
    <3>1. r[i] \in Sent(t)
      BY <2>2 DEF Joined, Sent
    <3>. QED BY <1>1, <3>1 DEF Posts
  <2>. QED BY <2>1, <2>2
<1>2. Owed(r, D)
  BY <1>1 DEF Owed
<1>3. Gone(r, D, C)
  BY DEF Gone, Joined
<1>. QED BY <1>2, <1>3

\* A player that leaves is announced as removed to all that may have heard of it.
LEMMA TidyLeft ==
    ASSUME NEW B, NEW p, NEW C, NEW s, NEW t, NEW r, Owed(s, B), Gone(s, B, C),
           Joined(s, t, r), Sent(t) \subseteq {Removed(p)}, p \in B => Removed(p) \in Sent(t)
    PROVE  Owed(r, B \ {p}) /\ Gone(r, B \ {p}, C)
<1>1. p \in B => \E j \in DOMAIN r : r[j] = Removed(p) /\ \A i \in DOMAIN s : i < j
  BY DEF Joined, Sent
<1>2. ASSUME NEW i \in DOMAIN r, r[i].type = "spawns", NEW c \in DOMAIN r[i].placeOf \ (B \ {p})
      PROVE  \E j \in DOMAIN r : i < j /\ r[j] = Removed(c)
  <2>1. i \in DOMAIN s /\ r[i] = s[i]
    <3>1. CASE i \notin DOMAIN s
      <4>1. r[i] \in Sent(t)
        BY <3>1 DEF Joined, Sent
      <4>2. r[i].type = "removed"
        BY <4>1 DEF Removed
      <4>. QED BY <1>2, <4>2
    <3>2. CASE i \in DOMAIN s
      BY <3>2 DEF Joined
    <3>. QED BY <3>1, <3>2
  <2>2. CASE c \in B
    BY <1>1, <2>1, <2>2
  <2>3. CASE c \notin B
    <3>1. PICK j \in DOMAIN s : i < j /\ s[j] = Removed(c)
      BY <1>2, <2>1, <2>3 DEF Owed
    <3>. QED BY <3>1 DEF Joined
  <2>. QED BY <2>2, <2>3
<1>3. ASSUME NEW c \in C \ (B \ {p})
      PROVE  \E j \in DOMAIN r : r[j] = Removed(c)
  <2>1. CASE c \in B
    BY <1>1, <2>1
  <2>2. CASE c \notin B
    <3>1. PICK j \in DOMAIN s : s[j] = Removed(c)
      BY <2>2 DEF Gone
    <3>. QED BY <3>1 DEF Joined
  <2>. QED BY <2>1, <2>2
<1>4. Owed(r, B \ {p})
  BY <1>2 DEF Owed
<1>5. Gone(r, B \ {p}, C)
  BY <1>3 DEF Gone
<1>. QED BY <1>4, <1>5

\* Reading a message leaves the removals that are still owed, unless it is one.
LEMMA TidyRead ==
    ASSUME NEW B, NEW C, NEW s, NEW t, NEW D, Owed(s, B), Gone(s, B, C), FirstTaken(s, t),
           \/ /\ Head(s).type = "spawns" /\ D \subseteq C \cup DOMAIN Head(s).placeOf
           \/ /\ Head(s).type = "removed" /\ Head(s) = Removed(Head(s).who) /\ D \subseteq C \ {Head(s).who}
           \/ /\ Head(s).type \notin {"spawns", "removed"} /\ D \subseteq C
    PROVE  Owed(t, B) /\ Gone(t, B, D)
<1>1. ASSUME NEW i \in DOMAIN s, i # 1 PROVE i \in Nat /\ i - 1 \in DOMAIN t /\ t[i - 1] = s[i]
  BY <1>1 DEF FirstTaken
<1>2. 1 \in DOMAIN s /\ Head(s) = s[1] /\ \A i \in DOMAIN s : i \in Nat /\ 1 <= i
  BY DEF FirstTaken
<1>3. \A c : Removed(c).type = "removed" /\ Removed(c).who = c
  BY DEF Removed
<1>4. ASSUME NEW i \in DOMAIN t, t[i].type = "spawns", NEW c \in DOMAIN t[i].placeOf \ B
      PROVE  \E j \in DOMAIN t : i < j /\ t[j] = Removed(c)
  <2>1. i \in Nat /\ 1 <= i /\ i + 1 \in DOMAIN s /\ t[i] = s[i + 1]
    BY DEF FirstTaken
  <2>2. PICK j \in DOMAIN s : i + 1 < j /\ s[j] = Removed(c)
    BY <1>4, <2>1 DEF Owed
  <2>3. j \in Nat /\ j # 1
    BY <1>2, <2>1, <2>2
  <2>4. j - 1 \in DOMAIN t /\ t[j - 1] = Removed(c) /\ i < j - 1
    BY <1>1, <2>1, <2>2, <2>3
  <2>. QED BY <2>4
<1>5. ASSUME NEW c \in D \ B
      PROVE  \E j \in DOMAIN t : t[j] = Removed(c)
  <2>1. ASSUME NEW j \in DOMAIN s, s[j] = Removed(c), j # 1 PROVE \E k \in DOMAIN t : t[k] = Removed(c)
    BY <1>1, <2>1
  <2>2. CASE Head(s).type = "spawns" /\ D \subseteq C \cup DOMAIN Head(s).placeOf
    <3>1. CASE c \in C
      BY <1>2, <1>3, <2>1, <2>2, <3>1 DEF Gone
    <3>2. CASE c \notin C
      <4>1. c \in DOMAIN s[1].placeOf \ B /\ s[1].type = "spawns"
        BY <1>2, <2>2, <3>2
      <4>2. PICK j \in DOMAIN s : 1 < j /\ s[j] = Removed(c)
        BY <1>2, <4>1 DEF Owed
      <4>. QED BY <1>2, <2>1, <4>2
    <3>. QED BY <3>1, <3>2
  <2>3. CASE Head(s).type = "removed" /\ Head(s) = Removed(Head(s).who) /\ D \subseteq C \ {Head(s).who}
    BY <1>2, <1>3, <2>1, <2>3 DEF Gone
  <2>4. CASE Head(s).type \notin {"spawns", "removed"} /\ D \subseteq C
    BY <1>2, <1>3, <2>1, <2>4 DEF Gone
  <2>. QED BY <2>2, <2>3, <2>4
<1>6. Owed(t, B)
  BY <1>4 DEF Owed
<1>7. Gone(t, B, D)
  BY <1>5 DEF Gone
<1>. QED BY <1>6, <1>7

\* The host telling something, in the channels of all.
LEMMA GhostTold ==
    ASSUME AllTypes, GhostInv, Told(bodies'), bodies \subseteq bodies', UNCHANGED copies
    PROVE  GhostInv'
<1>1. ASSUME NEW q \in Players PROVE Owed(notices'[q], bodies') /\ Gone(notices'[q], bodies', copies'[q])
  <2>1. CASE q \in Members
    <3>1. PICK t : Joined(notices[q], t, notices'[q]) /\ Sent(t) \subseteq Posts(bodies')
      BY <2>1 DEF Told
    <3>. QED BY <3>1, TidyTold DEF GhostInv
  <2>2. CASE q \notin Members
    <3>1. notices'[q] = <<>> /\ copies'[q] = {} /\ DOMAIN (<<>>) = {}
      BY <2>2 DEF Told, AllTypes, Outside
    <3>. QED BY <3>1 DEF Owed, Gone
  <2>. QED BY <2>1, <2>2
<1>. QED BY <1>1 DEF GhostInv

\* A game reading what it was sent.
LEMMA GhostRead ==
    ASSUME AllTypes, GhostInv, NEW p \in Players, GameReads(p)
    PROVE  GhostInv'
<1>1. PICK s, t, m : s = notices[p] /\ t = Tail(s) /\ m = Head(s)
  OBVIOUS
<1>2. /\ s # <<>> /\ notices' = [notices EXCEPT ![p] = t] /\ bodies' = bodies
  BY <1>1, GameReadsTypes, Zenon
<1>3. notices \in [Players -> Seq(Notice)] /\ copies \in [Players -> SUBSET Players]
  BY DEF AllTypes, NoticeTypes, GameTypes
<1>4. FirstTaken(s, t) /\ m \in Notice
  BY <1>1, <1>2, <1>3, ReadFacts, Zenon
<1>5. notices'[p] = t /\ \A q \in Players : q # p => notices'[q] = notices[q]
  BY <1>2, <1>3, Zenon
<1>6. /\ \/ m.type = "accepted" /\ OnAccepted(p)
         \/ m.type = "travel" /\ OnPartyTravel(p, m.to)
         \/ m.type = "spawns" /\ OnSpawns(p, m.placeOf)
         \/ m.type = "actors" /\ OnActors(p, m.where)
         \/ m.type = "actorsGone" /\ OnActorsGone(p, m.where)
         \/ m.type = "removed" /\ OnRemoved(p, m.who)
  BY <1>1, Zenon DEF GameReads
<1>7. /\ \A q \in Players : q # p => copies'[q] = copies[q]
      /\ \/ m.type = "spawns" /\ copies'[p] \subseteq copies[p] \cup DOMAIN m.placeOf
         \/ m.type = "removed" /\ m = Removed(m.who) /\ copies'[p] \subseteq copies[p] \ {m.who}
         \/ m.type \notin {"spawns", "removed"} /\ copies'[p] \subseteq copies[p]
  <2>1. CASE m.type = "accepted" /\ OnAccepted(p)
    BY <2>1, Zenon DEF OnAccepted
  <2>2. CASE m.type = "travel" /\ OnPartyTravel(p, m.to)
    BY <2>2, Zenon DEF OnPartyTravel
  <2>3. CASE m.type = "spawns" /\ OnSpawns(p, m.placeOf)
    <3>1. PICK made : made = {c \in DOMAIN m.placeOf : ~Outdoors(at[p]) \/ Around(m.placeOf[c], at[p])}
      OBVIOUS
    <3>2. copies' = [copies EXCEPT ![p] = copies[p] \cup made]
      BY <2>3, <3>1, Zenon DEF OnSpawns
    <3>. QED BY <1>3, <2>3, <3>1, <3>2
  <2>4. CASE m.type = "actors" /\ OnActors(p, m.where)
    BY <2>4, Zenon DEF OnActors
  <2>5. CASE m.type = "actorsGone" /\ OnActorsGone(p, m.where)
    BY <2>5, Zenon DEF OnActorsGone
  <2>6. CASE m.type = "removed" /\ OnRemoved(p, m.who)
    <3>1. m = Removed(m.who)
      BY <1>4, <2>6, MessageTypes
    <3>2. copies' = [copies EXCEPT ![p] = copies[p] \ {m.who}]
      BY <2>6, Zenon DEF OnRemoved
    <3>. QED BY <1>3, <2>6, <3>1, <3>2
  <2>. QED BY <1>6, <2>1, <2>2, <2>3, <2>4, <2>5, <2>6
<1>8. Owed(t, bodies) /\ Gone(t, bodies, copies'[p])
  <2>1. Owed(s, bodies) /\ Gone(s, bodies, copies[p])
    BY <1>1, Zenon DEF GhostInv
  <2>2. \/ Head(s).type = "spawns" /\ copies'[p] \subseteq copies[p] \cup DOMAIN Head(s).placeOf
        \/ Head(s).type = "removed" /\ Head(s) = Removed(Head(s).who) /\ copies'[p] \subseteq copies[p] \ {Head(s).who}
        \/ Head(s).type \notin {"spawns", "removed"} /\ copies'[p] \subseteq copies[p]
    BY <1>1, <1>7, Zenon
  <2>. QED BY <1>4, <2>1, <2>2, TidyRead, Zenon
<1>. QED BY <1>2, <1>5, <1>7, <1>8 DEF GhostInv

\* Every step keeps the copies' removals coming.
LEMMA GhostStep == AllTypes /\ GhostInv /\ [Next]_vars => GhostInv'
<1>1. ASSUME AllTypes, GhostInv, Next PROVE GhostInv'
  <2>1. ASSUME NEW p \in Players, HostReads(p) PROVE GhostInv'
    BY <1>1, <2>1, HostReadsAt, GhostTold
  <2>2. ASSUME NEW p \in Players, GameReads(p) PROVE GhostInv'
    BY <1>1, <2>2, GhostRead
  <2>3. ASSUME NEW p \in Players, Arrive(p) PROVE GhostInv'
    BY <1>1, <2>3, ArriveAt, GhostTold
  <2>4. ASSUME NEW p \in Players, Join(p) PROVE GhostInv'
    <3>1. /\ UNCHANGED <<copies, bodies>> /\ p \notin Members
          /\ notices'[p] = <<Accepted>> /\ \A q \in Players : q # p => notices'[q] = notices[q]
      BY <1>1, <2>4, JoinTypes
    <3>2. copies[p] = {}
      BY <1>1, <3>1 DEF AllTypes, Outside
    <3>3. Owed(<<Accepted>>, bodies)
      BY DEF Owed, Accepted
    <3>. QED BY <1>1, <3>1, <3>2, <3>3 DEF GhostInv, Gone
  <2>5. ASSUME NEW p \in Players, Leave(p) PROVE GhostInv'
    <3>1. /\ AllTypes' /\ Members' = Members \ {p} /\ bodies' = bodies \ {p}
          /\ \A q \in Players : q # p => copies'[q] = copies[q]
          /\ \A q \in Members \ {p} :
               \E t : /\ Joined(notices[q], t, notices'[q]) /\ Sent(t) \subseteq {Removed(p)}
                      /\ p \in bodies => Removed(p) \in Sent(t)
      BY <1>1, <2>5, LeaveTypes
    <3>2. ASSUME NEW q \in Players PROVE Owed(notices'[q], bodies') /\ Gone(notices'[q], bodies', copies'[q])
      <4>1. CASE q \in Members \ {p}
        <5>1. PICK t : /\ Joined(notices[q], t, notices'[q]) /\ Sent(t) \subseteq {Removed(p)}
                       /\ p \in bodies => Removed(p) \in Sent(t)
          BY <3>1, <4>1
        <5>2. Owed(notices'[q], bodies \ {p}) /\ Gone(notices'[q], bodies \ {p}, copies[q])
          BY <1>1, <5>1, TidyLeft DEF GhostInv
        <5>. QED BY <3>1, <4>1, <5>2
      <4>2. CASE q \notin Members \ {p}
        <5>1. notices'[q] = <<>> /\ copies'[q] = {} /\ DOMAIN (<<>>) = {}
          BY <3>1, <4>2 DEF AllTypes, Outside
        <5>. QED BY <5>1 DEF Owed, Gone
      <4>. QED BY <4>1, <4>2
    <3>. QED BY <3>2 DEF GhostInv
  <2>6. ASSUME NEW p \in Players, NEW to \in Places, SetOut(p, to) PROVE GhostInv'
    BY <1>1, <2>6, SetOutAt, GhostTold
  <2>7. ASSUME HostDiscovers PROVE GhostInv'
    BY <1>1, <2>7, DiscoversAt, GhostTold
  <2>. QED BY <1>1, <2>1, <2>2, <2>3, <2>4, <2>5, <2>6, <2>7, Zenon DEF Next
<1>2. ASSUME GhostInv, UNCHANGED vars PROVE GhostInv'
  BY <1>2 DEF vars, gameVars, hostVars, GhostInv
<1>. QED BY <1>1, <1>2

\* A copy of a player that left is on its way out of every game, however joins, leaves, travels
\* and the reading of messages interleave (HostCharacters::RemoveCharacter).
THEOREM NobodyLingers == Spec => []NoGhosts
<1>1. Init => GhostInv
  <2>1. ASSUME Init PROVE \A p \in Players : notices[p] = <<>> /\ copies[p] = {}
    BY <2>1, Zenon DEF Init
  <2>2. DOMAIN (<<>>) = {}
    OBVIOUS
  <2>. QED BY <2>1, <2>2 DEF GhostInv, Owed, Gone
<1>2. GhostInv => NoGhosts
  BY DEF GhostInv, Gone, NoGhosts, Members
<1>. QED BY <1>1, <1>2, GhostStep, TravelTypes, PTL DEF Spec

-----------------------------------------------------------------------------
\* Once nothing is under way, everyone with the host has copies of the actors there.

\* A game that has copies of the host's actors at n has those at w, once it has read the channel s.
WillHave(s, n, w) ==
    \/ n = w /\ \A m \in Sent(s) : ~Spoils(m, w)
    \/ \E i \in DOMAIN s : s[i] = Actors(w) /\ \A j \in DOMAIN s : i < j => ~Spoils(s[j], w)

\* The last arrival that is told of in the channel s is that at a; and none is.
TellsLast(s, a) == \A i \in DOMAIN s : Tells(s[i]) /\ (\A k \in DOMAIN s : i < k => ~Tells(s[k])) => s[i].where = a
Untold(s) == \A m \in Sent(s) : ~Tells(m)

\* The inductive invariant, of a guest whose arrivals the host has all heard of: it is where the
\* host has it and, if that is with the host, what it has been told gives it the host's actors.
\* The arrivals still on their way end with the one that put it where it is.
GuestInv(p) ==
    p \in Members \ {Host} =>
        /\ TellsLast(requests[p], at[p])
        /\ p \in bodies /\ Untold(requests[p]) =>
             /\ place[p] = at[p]
             /\ actors = at[Host] /\ WithHost(p, place) => WillHave(notices[p], npcs[p], actors)
ActorsInv == place[Host] = at[Host] /\ \A p \in Players : GuestInv(p)

\* What the host tells takes its actors from nobody, and gives them if it says so.
LEMMA HaveTold ==
    ASSUME NEW s, NEW t, NEW r, Joined(s, t, r), NEW n, NEW w, \A m \in Sent(t) : ~Spoils(m, w)
    PROVE  WillHave(s, n, w) \/ Actors(w) \in Sent(t) => WillHave(r, n, w)
<1>1. Sent(r) = Sent(s) \cup Sent(t)
  BY JoinedSent
<1>2. ASSUME n = w, \A m \in Sent(s) : ~Spoils(m, w) PROVE WillHave(r, n, w)
  BY <1>1, <1>2 DEF WillHave
<1>3. ASSUME NEW i \in DOMAIN s, s[i] = Actors(w), \A j \in DOMAIN s : i < j => ~Spoils(s[j], w)
      PROVE  WillHave(r, n, w)
  <2>1. i \in DOMAIN r /\ r[i] = Actors(w)
    BY <1>3 DEF Joined
  <2>2. ASSUME NEW j \in DOMAIN r, i < j PROVE ~Spoils(r[j], w)
    <3>1. CASE j \in DOMAIN s
      BY <1>3, <2>2, <3>1 DEF Joined
    <3>2. CASE j \notin DOMAIN s
      BY <3>2 DEF Joined, Sent
    <3>. QED BY <3>1, <3>2
  <2>. QED BY <2>1, <2>2 DEF WillHave
<1>4. ASSUME Actors(w) \in Sent(t) PROVE WillHave(r, n, w)
  <2>1. PICK k \in DOMAIN t : t[k] = Actors(w)
    BY <1>4 DEF Sent
  <2>2. PICK i : i = Len(s) + k /\ i \in DOMAIN r /\ r[i] = Actors(w) /\ \A j \in DOMAIN s : j < i
    BY <2>1 DEF Joined
  <2>3. ASSUME NEW j \in DOMAIN r, i < j PROVE ~Spoils(r[j], w)
    <3>1. j \notin DOMAIN s
      BY <2>2, <2>3 DEF Joined
    <3>. QED BY <3>1 DEF Joined, Sent
  <2>. QED BY <2>2, <2>3 DEF WillHave
<1>. QED BY <1>2, <1>3, <1>4 DEF WillHave

\* Reading what the host tells brings a game closer to the actors it will have.
LEMMA HaveRead ==
    ASSUME NEW s, NEW t, FirstTaken(s, t), NEW n, NEW w, WillHave(s, n, w), NEW k,
           \/ Head(s).type = "actors" /\ k = Head(s).where
           \/ Head(s).type = "actorsGone" /\ k = IF n = Head(s).where THEN Nowhere ELSE n
           \/ Head(s).type \notin {"actors", "actorsGone"} /\ k = n
    PROVE  WillHave(t, k, w)
<1>1. Head(s) \in Sent(s) /\ Sent(t) \subseteq Sent(s)
  BY ReadSent
<1>2. CASE n = w /\ \A m \in Sent(s) : ~Spoils(m, w)
  <2>1. k = w
    BY <1>1, <1>2 DEF Spoils
  <2>. QED BY <1>1, <1>2, <2>1 DEF WillHave
<1>3. CASE \E i \in DOMAIN s : s[i] = Actors(w) /\ \A j \in DOMAIN s : i < j => ~Spoils(s[j], w)
  <2>1. PICK i \in DOMAIN s : s[i] = Actors(w) /\ \A j \in DOMAIN s : i < j => ~Spoils(s[j], w)
    BY <1>3
  <2>2. ASSUME NEW j \in DOMAIN t, i < j + 1 PROVE ~Spoils(t[j], w)
    BY <2>1, <2>2 DEF FirstTaken
  <2>3. CASE i = 1
    <3>1. k = w
      BY <2>1, <2>3 DEF FirstTaken, Actors
    <3>2. ASSUME NEW m \in Sent(t) PROVE ~Spoils(m, w)
      <4>1. PICK j \in DOMAIN t : m = t[j]
        BY DEF Sent
      <4>. QED BY <2>2, <2>3, <4>1 DEF FirstTaken
    <3>. QED BY <3>1, <3>2 DEF WillHave
  <2>4. CASE i # 1
    <3>1. i - 1 \in DOMAIN t /\ t[i - 1] = Actors(w) /\ i \in Nat
      BY <2>1, <2>4 DEF FirstTaken
    <3>2. ASSUME NEW j \in DOMAIN t, i - 1 < j PROVE ~Spoils(t[j], w)
      BY <2>2, <3>1, <3>2 DEF FirstTaken
    <3>. QED BY <3>1, <3>2 DEF WillHave
  <2>. QED BY <2>3, <2>4
<1>. QED BY <1>2, <1>3 DEF WillHave

\* A guest's request on its way: an arrival is the last one told of.
LEMMA TellsSent ==
    ASSUME NEW s \in Seq(Request), NEW m \in Request, NEW a, NEW r, r = Append(s, m)
    PROVE  /\ ~Tells(m) /\ TellsLast(s, a) => TellsLast(r, a) /\ (Untold(r) => Untold(s))
           /\ Tells(m) /\ m.where = a => TellsLast(r, a) /\ ~Untold(r)
<1>1. PICK t : t = <<m>> /\ Joined(s, t, r) /\ Sent(t) = {m} /\ DOMAIN t = {1} /\ t[1] = m
  <2>1. Joined(s, <<m>>, Append(s, m)) /\ Sent(<<m>>) = {m}
    BY AppendFacts, SentFew, Zenon
  <2>2. DOMAIN <<m>> = {1} /\ <<m>>[1] = m
    OBVIOUS
  <2>. QED BY <2>1, <2>2, Zenon
<1>2. Sent(r) = Sent(s) \cup {m}
  BY <1>1, JoinedSent
<1>3. PICK l : l = Len(s) + 1 /\ l \in DOMAIN r /\ r[l] = m /\ \A i \in DOMAIN s : i \in DOMAIN r /\ r[i] = s[i] /\ i < l
  BY <1>1 DEF Joined
<1>4. \A i \in DOMAIN r : i \in DOMAIN s \/ i = l
  BY <1>1, <1>3 DEF Joined
<1>5. ASSUME ~Tells(m), TellsLast(s, a) PROVE TellsLast(r, a)
  BY <1>3, <1>4, <1>5 DEF TellsLast
<1>6. ASSUME Tells(m), m.where = a PROVE TellsLast(r, a)
  BY <1>3, <1>4, <1>6 DEF TellsLast
<1>. QED BY <1>2, <1>5, <1>6 DEF Untold

\* The host's reading of it: the last one it reads is where the guest is.
LEMMA TellsRead ==
    ASSUME NEW s, NEW t, FirstTaken(s, t), NEW a, TellsLast(s, a)
    PROVE  /\ TellsLast(t, a)
           /\ Untold(t) /\ Tells(Head(s)) => Head(s).where = a
           /\ Untold(t) /\ ~Tells(Head(s)) => Untold(s)
<1>1. Sent(s) \subseteq Sent(t) \cup {Head(s)}
  BY ReadSent
<1>2. ASSUME NEW i \in DOMAIN t, Tells(t[i]), \A k \in DOMAIN t : i < k => ~Tells(t[k]) PROVE t[i].where = a
  <2>1. i \in Nat /\ 1 <= i /\ i + 1 \in DOMAIN s /\ t[i] = s[i + 1]
    BY DEF FirstTaken
  <2>2. ASSUME NEW k \in DOMAIN s, i + 1 < k PROVE ~Tells(s[k])
    <3>1. k \in Nat /\ k # 1 /\ k - 1 \in DOMAIN t /\ t[k - 1] = s[k]
      BY <2>1, <2>2 DEF FirstTaken
    <3>. QED BY <1>2, <2>1, <2>2, <3>1
  <2>. QED BY <1>2, <2>1, <2>2 DEF TellsLast
<1>3. ASSUME Untold(t), Tells(Head(s)) PROVE Head(s).where = a
  <2>1. 1 \in DOMAIN s /\ s[1] = Head(s)
    BY DEF FirstTaken
  <2>2. ASSUME NEW k \in DOMAIN s, 1 < k PROVE ~Tells(s[k])
    <3>1. k - 1 \in DOMAIN t /\ t[k - 1] = s[k]
      BY <2>2 DEF FirstTaken
    <3>. QED BY <1>3, <3>1 DEF Untold, Sent
  <2>. QED BY <1>3, <2>1, <2>2 DEF TellsLast
<1>. QED BY <1>1, <1>2, <1>3 DEF TellsLast, Untold

\* A step of others: a guest is told something, and nobody comes to the host's actors by it.
LEMMA GuestKeeps ==
    ASSUME ActorsInv, NEW q \in Players, q \in Members' \ {Host} => q \in Members, bodies' \cap {q} \subseteq bodies,
           requests'[q] = requests[q], at'[q] = at[q], npcs'[q] = npcs[q], place'[q] = place[q],
           q \in Members' => \E t : Joined(notices[q], t, notices'[q]) /\ \A m \in Sent(t) : ~Spoils(m, actors'),
           actors' = actors, actors' = at'[Host] => at'[Host] = at[Host] /\ place'[Host] = place[Host]
    PROVE  GuestInv(q)'
<1>. SUFFICES ASSUME q \in Members' \ {Host} PROVE /\ TellsLast(requests'[q], at'[q])
                                                   /\ q \in bodies' /\ Untold(requests'[q]) =>
                                                        /\ place'[q] = at'[q]
                                                        /\ actors' = at'[Host] /\ WithHost(q, place') =>
                                                             WillHave(notices'[q], npcs'[q], actors')
  BY DEF GuestInv
<1>1. /\ TellsLast(requests[q], at[q])
      /\ q \in bodies /\ Untold(requests[q]) =>
           /\ place[q] = at[q]
           /\ actors = at[Host] /\ WithHost(q, place) => WillHave(notices[q], npcs[q], actors)
  BY DEF ActorsInv, GuestInv
<1>2. ASSUME q \in bodies', Untold(requests'[q]), actors' = at'[Host], WithHost(q, place')
      PROVE  WillHave(notices'[q], npcs'[q], actors')
  <2>1. WithHost(q, place)
    BY <1>2 DEF WithHost
  <2>2. WillHave(notices[q], npcs[q], actors)
    BY <1>1, <1>2, <2>1
  <2>3. PICK t : Joined(notices[q], t, notices'[q]) /\ \A m \in Sent(t) : ~Spoils(m, actors')
    OBVIOUS
  <2>. QED BY <2>2, <2>3, HaveTold
<1>. QED BY <1>1, <1>2

\* The same, of what a step tells the games.
LEMMA GuestTold ==
    ASSUME AllTypes, ActorsInv, NEW q \in Players, NEW B, Told(B), UNCHANGED <<conn, actors>>, bodies' \cap {q} \subseteq bodies,
           requests'[q] = requests[q], at'[q] = at[q], npcs'[q] = npcs[q], place'[q] = place[q],
           actors' = at'[Host] => at'[Host] = at[Host] /\ place'[Host] = place[Host]
    PROVE  GuestInv(q)'
<1>1. Members' = Members
  BY DEF Members
<1>2. q \in Members => \E t : Joined(notices[q], t, notices'[q]) /\ \A m \in Sent(t) : ~Spoils(m, actors')
  BY DEF Told, Posts
<1>. QED BY <1>1, <1>2, GuestKeeps

\* The host reads a guest's request.
LEMMA ActorsHostReads ==
    ASSUME AllTypes, ActorsInv, NEW p \in Players, HostReads(p)
    PROVE  ActorsInv'
<1>1. PICK s, t, m : s = requests[p] /\ t = Tail(s) /\ m = Head(s)
  OBVIOUS
<1>2. /\ AllTypes' /\ Told(bodies') /\ UNCHANGED <<conn, actors, at, npcs>>
      /\ p \in Members \ {Host} /\ bodies' \subseteq bodies \cup {p}
      /\ s # <<>> /\ requests' = [requests EXCEPT ![p] = t]
      /\ m.type # "announce" => bodies' = bodies
      /\ place' = IF Tells(m) THEN [place EXCEPT ![p] = m.where] ELSE place
      /\ Tells(m) /\ actors = at[Host] /\ WithHost(p, place') => Reaches(p)
  BY <1>1, HostReadsAt
<1>3. Host \in Players /\ place \in [Players -> Places \cup {Nowhere}] /\ requests \in [Players -> Seq(Request)]
  BY PlayersAssumption DEF AllTypes, HostTypes, RequestTypes
<1>4. requests'[p] = t /\ \A q \in Players : q # p => requests'[q] = requests[q] /\ place'[q] = place[q]
  BY <1>2, <1>3
<1>5. place'[Host] = place[Host] /\ (Tells(m) => place'[p] = m.where) /\ (~Tells(m) => place'[p] = place[p])
  BY <1>2, <1>3, <1>4
<1>6. FirstTaken(s, t)
  <2>1. s \in Seq(Request)
    BY <1>1, <1>3
  <2>. QED BY <1>1, <1>2, <2>1, ReadFacts, Zenon
<1>7. GuestInv(p)'
  <2>1. Members' = Members /\ at'[p] = at[p] /\ npcs'[p] = npcs[p] /\ at'[Host] = at[Host]
    BY <1>2 DEF Members
  <2>2. /\ TellsLast(s, at[p])
        /\ p \in bodies /\ Untold(s) =>
             /\ place[p] = at[p]
             /\ actors = at[Host] /\ WithHost(p, place) => WillHave(notices[p], npcs[p], actors)
    BY <1>1, <1>2 DEF ActorsInv, GuestInv
  <2>3. /\ TellsLast(t, at[p])
        /\ Untold(t) /\ Tells(m) => m.where = at[p]
        /\ Untold(t) /\ ~Tells(m) => Untold(s)
    BY <1>1, <1>6, <2>2, TellsRead
  <2>4. CASE Tells(m)
    <3>1. ASSUME actors = at[Host], WithHost(p, place') PROVE WillHave(notices'[p], npcs'[p], actors')
      <4>1. PICK u : Joined(notices[p], u, notices'[p]) /\ Sent(u) \subseteq Posts(Players) /\ Actors(actors') \in Sent(u)
        BY <1>2, <2>4, <3>1 DEF Reaches
      <4>2. \A n \in Sent(u) : ~Spoils(n, actors')
        BY <4>1 DEF Posts
      <4>. QED BY <4>1, <4>2, HaveTold
    <3>. QED BY <1>2, <1>4, <1>5, <2>1, <2>3, <2>4, <3>1 DEF GuestInv
  <2>5. CASE ~Tells(m)
    <3>1. bodies' = bodies /\ place' = place
      BY <1>2, <2>5 DEF Tells
    <3>2. PICK u : Joined(notices[p], u, notices'[p]) /\ \A n \in Sent(u) : ~Spoils(n, actors')
      BY <1>2 DEF Told, Posts
    <3>3. ASSUME WillHave(notices[p], npcs[p], actors) PROVE WillHave(notices'[p], npcs'[p], actors')
      BY <1>2, <2>1, <3>2, <3>3, HaveTold
    <3>. QED BY <1>2, <1>4, <2>1, <2>2, <2>3, <2>5, <3>1, <3>3 DEF GuestInv
  <2>. QED BY <2>4, <2>5
<1>8. ASSUME NEW q \in Players, q # p PROVE GuestInv(q)'
  BY <1>2, <1>4, <1>5, <1>8, GuestTold
<1>. QED BY <1>2, <1>5, <1>7, <1>8 DEF ActorsInv

\* A game reads what it was told.
LEMMA ActorsGameReads ==
    ASSUME AllTypes, ActorsInv, NEW p \in Players, GameReads(p)
    PROVE  ActorsInv'
<1>1. PICK s, t, m : s = notices[p] /\ t = Tail(s) /\ m = Head(s)
  OBVIOUS
<1>2. /\ s # <<>> /\ notices' = [notices EXCEPT ![p] = t] /\ UNCHANGED <<conn, bodies>>
  BY <1>1, GameReadsTypes, Zenon
<1>3. /\ notices \in [Players -> Seq(Notice)] /\ npcs \in [Players -> Places \cup {Nowhere}]
      /\ requests \in [Players -> Seq(Request)]
  BY DEF AllTypes, NoticeTypes, GameTypes, RequestTypes
<1>4. FirstTaken(s, t)
  BY <1>1, <1>2, <1>3, ReadFacts, Zenon
<1>5. notices'[p] = t /\ \A q \in Players : q # p => notices'[q] = notices[q]
  BY <1>2, <1>3, Zenon
<1>6. /\ \/ m.type = "accepted" /\ OnAccepted(p)
         \/ m.type = "travel" /\ OnPartyTravel(p, m.to)
         \/ m.type = "spawns" /\ OnSpawns(p, m.placeOf)
         \/ m.type = "actors" /\ OnActors(p, m.where)
         \/ m.type = "actorsGone" /\ OnActorsGone(p, m.where)
         \/ m.type = "removed" /\ OnRemoved(p, m.who)
  BY <1>1, Zenon DEF GameReads
<1>7. /\ UNCHANGED <<at, place, actors>>
      /\ \A q \in Players : q # p => requests'[q] = requests[q] /\ npcs'[q] = npcs[q]
      /\ \/ TellsLast(requests'[p], at[p]) /\ ~Untold(requests'[p])
         \/ /\ requests'[p] = requests[p]
            /\ \/ m.type = "actors" /\ npcs'[p] = m.where
               \/ m.type = "actorsGone" /\ npcs'[p] = IF npcs[p] = m.where THEN Nowhere ELSE npcs[p]
               \/ m.type \notin {"actors", "actorsGone"} /\ npcs'[p] = npcs[p]
  <2>1. CASE m.type = "accepted" /\ OnAccepted(p)
    <3>1. UNCHANGED <<at, npcs, place, actors>>
      BY <2>1, Zenon DEF OnAccepted, hostVars
    <3>2. PICK loaded \in BOOLEAN : requests' = [requests EXCEPT ![p] =
             <<Announce(at[p])>> \o When(loaded, <<EnterCell(at[p], "beforeJoining")>>)]
      BY <2>1, Zenon DEF OnAccepted
    <3>3. PICK u, v : u = <<Announce(at[p])>> /\ v = When(loaded, <<EnterCell(at[p], "beforeJoining")>>)
      OBVIOUS
    <3>4. /\ requests'[p] = u \o v /\ \A q \in Players : q # p => requests'[q] = requests[q]
      BY <1>3, <3>2, <3>3, Zenon
    <3>5. Announce(at[p]) \in Request /\ EnterCell(at[p], "beforeJoining") \in Request
      <4>1. at[p] \in Places
        BY DEF AllTypes, GameTypes
      <4>. QED BY <4>1, MessageTypes
    <3>6. u \in Seq(Request) /\ v \in Seq(Request) /\ Sent(u) = {Announce(at[p])}
      BY <3>3, <3>5, WhenType, SentFew
    <3>7. Sent(v) \subseteq {EnterCell(at[p], "beforeJoining")}
      BY <3>3, SentFew, Zenon DEF When
    <3>8. Sent(u \o v) = Sent(u) \cup Sent(v)
      BY <3>6, SentJoin
    <3>9. \A n \in Sent(u \o v) : Tells(n) /\ n.where = at[p]
      BY <3>6, <3>7, <3>8 DEF Tells, Announce, EnterCell
    <3>10. TellsLast(u \o v, at[p]) /\ ~Untold(u \o v)
      BY <3>6, <3>8, <3>9 DEF TellsLast, Untold, Sent
    <3>. QED BY <3>1, <3>4, <3>10
  <2>2. CASE m.type = "travel" /\ OnPartyTravel(p, m.to)
    BY <2>2, Zenon DEF OnPartyTravel, hostVars
  <2>3. CASE m.type = "spawns" /\ OnSpawns(p, m.placeOf)
    BY <2>3, Zenon DEF OnSpawns, hostVars
  <2>4. CASE m.type = "actors" /\ OnActors(p, m.where)
    BY <1>3, <2>4 DEF OnActors, hostVars
  <2>5. CASE m.type = "actorsGone" /\ OnActorsGone(p, m.where)
    BY <1>3, <2>5 DEF OnActorsGone, hostVars
  <2>6. CASE m.type = "removed" /\ OnRemoved(p, m.who)
    BY <2>6, Zenon DEF OnRemoved, hostVars
  <2>. QED BY <1>6, <2>1, <2>2, <2>3, <2>4, <2>5, <2>6
<1>8. Members' = Members
  BY <1>2 DEF Members
<1>9. GuestInv(p)'
  <2>1. \A w : WillHave(s, npcs[p], w) /\ requests'[p] = requests[p] /\ ~(TellsLast(requests'[p], at[p]) /\ ~Untold(requests'[p]))
               => WillHave(t, npcs'[p], w)
    BY <1>1, <1>4, <1>7, HaveRead
  <2>2. p \in Members \ {Host} =>
          /\ TellsLast(requests[p], at[p])
          /\ p \in bodies /\ Untold(requests[p]) =>
               /\ place[p] = at[p]
               /\ actors = at[Host] /\ WithHost(p, place) => WillHave(s, npcs[p], actors)
    BY <1>1 DEF ActorsInv, GuestInv
  <2>. QED BY <1>2, <1>5, <1>7, <1>8, <2>1, <2>2 DEF GuestInv
<1>10. ASSUME NEW q \in Players, q # p PROVE GuestInv(q)'
  BY <1>2, <1>5, <1>7, <1>8, <1>10 DEF ActorsInv, GuestInv
<1>. QED BY <1>7, <1>9, <1>10 DEF ActorsInv

\* A player arrives from a load.
LEMMA ActorsArrive ==
    ASSUME AllTypes, ActorsInv, NEW p \in Players, Arrive(p)
    PROVE  ActorsInv'
<1>1. PICK where, m : where = queued[p] /\ m = EnterCell(where, Arrival(p, where))
  OBVIOUS
<1>2. /\ AllTypes' /\ Told(bodies') /\ UNCHANGED <<bodies, conn, actors>>
      /\ p \in Members /\ at' = [at EXCEPT ![p] = where] /\ \A q \in Players : q # p => npcs'[q] = npcs[q]
      /\ p = Host => actors = at[Host] /\ UNCHANGED requests /\ place' = [place EXCEPT ![p] = where]
      /\ p # Host => place' = place /\ requests' = [requests EXCEPT ![p] = Append(requests[p], m)]
  BY <1>1, ArriveAt
<1>3. /\ Host \in Players /\ place \in [Players -> Places \cup {Nowhere}] /\ requests \in [Players -> Seq(Request)]
      /\ at \in [Players -> Places]
  BY PlayersAssumption DEF AllTypes, HostTypes, RequestTypes, GameTypes
<1>4. place[Host] = at[Host] /\ place'[Host] = at'[Host]
  BY <1>2, <1>3 DEF ActorsInv
<1>5. ASSUME NEW q \in Players, q # p PROVE GuestInv(q)'
  <2>1. requests'[q] = requests[q] /\ at'[q] = at[q] /\ npcs'[q] = npcs[q] /\ place'[q] = place[q]
    BY <1>2, <1>3, <1>5
  <2>2. actors' = at'[Host] => at'[Host] = at[Host] /\ place'[Host] = place[Host]
    BY <1>2, <1>3, <1>4
  <2>. QED BY <1>2, <2>1, <2>2, GuestTold
<1>6. GuestInv(p)'
  <2>1. CASE p = Host
    BY <2>1 DEF GuestInv
  <2>2. CASE p # Host
    <3>1. m.where = where /\ Tells(m)
      BY <1>1 DEF EnterCell, Tells
    <3>2. requests'[p] = Append(requests[p], m) /\ at'[p] = where
      BY <1>2, <1>3, <2>2
    <3>3. requests[p] \in Seq(Request) /\ m \in Request
      <4>1. where \in Places
        BY <1>2, <1>3, <3>2 DEF AllTypes, GameTypes
      <4>2. Arrival(p, where) \in {"own", "tether", "beforeJoining"}
        BY Zenon DEF Arrival
      <4>. QED BY <1>1, <1>3, <4>1, <4>2, MessageTypes
    <3>4. TellsLast(requests'[p], at'[p]) /\ ~Untold(requests'[p])
      BY <3>1, <3>2, <3>3, TellsSent
    <3>. QED BY <3>4 DEF GuestInv
  <2>. QED BY <2>1, <2>2
<1>. QED BY <1>4, <1>5, <1>6 DEF ActorsInv

\* A player's own travel sets out: of that a guest's game tells the host, but of no arrival.
LEMMA ActorsSetOut ==
    ASSUME AllTypes, ActorsInv, NEW p \in Players, NEW to \in Places, SetOut(p, to)
    PROVE  ActorsInv'
<1>1. /\ AllTypes' /\ Told(bodies') /\ UNCHANGED <<bodies, conn, copies, at, npcs, actors, place>>
      /\ \/ requests' = requests
         \/ p # Host /\ requests' = [requests EXCEPT ![p] = Append(requests[p], Queued(to))]
  BY SetOutAt
<1>2. requests \in [Players -> Seq(Request)] /\ Members' = Members
  BY <1>1 DEF AllTypes, RequestTypes, Members
<1>3. ASSUME NEW q \in Players, requests'[q] = requests[q] PROVE GuestInv(q)'
  BY <1>1, <1>3, GuestTold
<1>4. ASSUME requests' = [requests EXCEPT ![p] = Append(requests[p], Queued(to))] PROVE GuestInv(p)'
  <2>1. SUFFICES ASSUME p \in Members \ {Host} PROVE GuestInv(p)'
    BY <1>2 DEF GuestInv
  <2>2. Queued(to) \in Request /\ ~Tells(Queued(to))
    BY MessageTypes DEF Queued, Tells
  <2>3. requests'[p] = Append(requests[p], Queued(to)) /\ requests[p] \in Seq(Request)
    BY <1>2, <1>4
  <2>4. /\ TellsLast(requests[p], at[p])
        /\ p \in bodies /\ Untold(requests[p]) =>
             /\ place[p] = at[p]
             /\ actors = at[Host] /\ WithHost(p, place) => WillHave(notices[p], npcs[p], actors)
    BY <2>1 DEF ActorsInv, GuestInv
  <2>5. TellsLast(requests'[p], at[p]) /\ (Untold(requests'[p]) => Untold(requests[p]))
    BY <2>2, <2>3, <2>4, TellsSent
  <2>6. PICK t : Joined(notices[p], t, notices'[p]) /\ \A n \in Sent(t) : ~Spoils(n, actors')
    BY <1>1, <2>1 DEF Told, Posts
  <2>7. WillHave(notices[p], npcs[p], actors) => WillHave(notices'[p], npcs'[p], actors')
    BY <1>1, <2>6, HaveTold
  <2>. QED BY <1>1, <1>2, <2>4, <2>5, <2>7 DEF GuestInv
<1>5. ASSUME NEW q \in Players PROVE GuestInv(q)'
  <2>1. requests'[q] = requests[q] \/ (q = p /\ requests' = [requests EXCEPT ![p] = Append(requests[p], Queued(to))])
    BY <1>1, <1>2, Zenon
  <2>. QED BY <1>3, <1>4, <2>1
<1>. QED BY <1>1, <1>5 DEF ActorsInv

\* The host's game discovers the actors where its player arrived: those with the host get them.
LEMMA ActorsDiscovered ==
    ASSUME AllTypes, ActorsInv, HostDiscovers
    PROVE  ActorsInv'
<1>1. /\ AllTypes' /\ UNCHANGED <<bodies, conn, copies, at, npcs, requests, place>>
      /\ actors' = at[Host] /\ \A q \in Members \ {Host} : WithHost(q, place) => Reaches(q)
  BY DiscoversAt
<1>2. Members' = Members
  BY <1>1 DEF Members
<1>3. ASSUME NEW q \in Members \ {Host}, WithHost(q, place) PROVE WillHave(notices'[q], npcs'[q], actors')
  <2>1. PICK t : Joined(notices[q], t, notices'[q]) /\ Sent(t) \subseteq Posts(Players) /\ Actors(actors') \in Sent(t)
    BY <1>1, <1>3 DEF Reaches
  <2>2. \A n \in Sent(t) : ~Spoils(n, actors')
    BY <2>1 DEF Posts
  <2>. QED BY <2>1, <2>2, HaveTold
<1>4. ASSUME NEW q \in Players PROVE GuestInv(q)'
  BY <1>1, <1>2, <1>3 DEF ActorsInv, GuestInv
<1>. QED BY <1>1, <1>4 DEF ActorsInv

\* A guest leaves.
LEMMA ActorsLeave ==
    ASSUME AllTypes, ActorsInv, NEW p \in Players, Leave(p)
    PROVE  ActorsInv'
<1>1. /\ AllTypes' /\ Members' = Members \ {p} /\ p # Host /\ bodies' = bodies \ {p}
      /\ \A q \in Members \ {p} : \E t : Joined(notices[q], t, notices'[q]) /\ Sent(t) \subseteq {Removed(p)}
  BY LeaveTypes
<1>2. /\ npcs' = [npcs EXCEPT ![p] = Nowhere] /\ requests' = [requests EXCEPT ![p] = <<>>]
      /\ place' = [place EXCEPT ![p] = Nowhere] /\ UNCHANGED <<at, actors>>
  BY Zenon DEF Leave
<1>3. /\ Host \in Players /\ place \in [Players -> Places \cup {Nowhere}] /\ requests \in [Players -> Seq(Request)]
      /\ npcs \in [Players -> Places \cup {Nowhere}]
  BY PlayersAssumption DEF AllTypes, HostTypes, RequestTypes, GameTypes
<1>4. place'[Host] = place[Host]
  BY <1>1, <1>2, <1>3
<1>5. ASSUME NEW q \in Players, q # p PROVE GuestInv(q)'
  <2>1. requests'[q] = requests[q] /\ npcs'[q] = npcs[q] /\ place'[q] = place[q]
    BY <1>2, <1>3, <1>5
  <2>2. ~Spoils(Removed(p), actors')
    BY DEF Removed, Spoils
  <2>3. q \in Members' => \E t : Joined(notices[q], t, notices'[q]) /\ \A m \in Sent(t) : ~Spoils(m, actors')
    BY <1>1, <2>2
  <2>. QED BY <1>1, <1>2, <1>4, <2>1, <2>3, GuestKeeps
<1>6. GuestInv(p)'
  BY <1>1 DEF GuestInv
<1>. QED BY <1>2, <1>4, <1>5, <1>6 DEF ActorsInv

\* A join is accepted: its player has no character until it is announced.
LEMMA ActorsJoin ==
    ASSUME AllTypes, ActorsInv, NEW p \in Players, Join(p)
    PROVE  ActorsInv'
<1>1. /\ AllTypes' /\ UNCHANGED <<copies, bodies>> /\ Members' = Members \cup {p} /\ p \notin Members
      /\ \A q \in Players : q # p => notices'[q] = notices[q]
  BY JoinTypes
<1>2. UNCHANGED <<at, npcs, requests, place, actors>>
  BY Zenon DEF Join, hostVars
<1>3. requests'[p] = <<>> /\ p \notin bodies'
  BY <1>1, <1>2 DEF AllTypes, Outside, HostTypes
<1>4. TellsLast(<<>>, at[p])
  BY DEF TellsLast
<1>5. GuestInv(p)'
  BY <1>2, <1>3, <1>4 DEF GuestInv
<1>6. ASSUME NEW q \in Players, q # p PROVE GuestInv(q)'
  BY <1>1, <1>2, <1>6 DEF ActorsInv, GuestInv
<1>. QED BY <1>2, <1>5, <1>6 DEF ActorsInv

\* Every step keeps what the guests will have.
LEMMA ActorsStep == AllTypes /\ ActorsInv /\ [Next]_vars => ActorsInv'
<1>1. ASSUME AllTypes, ActorsInv, Next PROVE ActorsInv'
  <2>1. ASSUME NEW p \in Players, HostReads(p) PROVE ActorsInv'
    BY <1>1, <2>1, ActorsHostReads
  <2>2. ASSUME NEW p \in Players, GameReads(p) PROVE ActorsInv'
    BY <1>1, <2>2, ActorsGameReads
  <2>3. ASSUME NEW p \in Players, Arrive(p) PROVE ActorsInv'
    BY <1>1, <2>3, ActorsArrive
  <2>4. ASSUME NEW p \in Players, Join(p) PROVE ActorsInv'
    BY <1>1, <2>4, ActorsJoin
  <2>5. ASSUME NEW p \in Players, Leave(p) PROVE ActorsInv'
    BY <1>1, <2>5, ActorsLeave
  <2>6. ASSUME NEW p \in Players, NEW to \in Places, SetOut(p, to) PROVE ActorsInv'
    BY <1>1, <2>6, ActorsSetOut
  <2>7. ASSUME HostDiscovers PROVE ActorsInv'
    BY <1>1, <2>7, ActorsDiscovered
  <2>. QED BY <1>1, <2>1, <2>2, <2>3, <2>4, <2>5, <2>6, <2>7, Zenon DEF Next
<1>2. ASSUME ActorsInv, UNCHANGED vars PROVE ActorsInv'
  BY <1>2 DEF vars, gameVars, hostVars, ActorsInv, GuestInv, Members
<1>. QED BY <1>1, <1>2

\* Everyone that is with the host once nothing is under way has copies of the actors there and of
\* no others, in parties that travel, join and leave at the same time, by doors of their own or
\* not (HostCharacters::OnEnterCell, PlayerEntered; CharacterService's discovery).
THEOREM ActorsAreSeen == Spec => []EveryoneSeesTheActors
<1>1. Init => ActorsInv
  <2>1. ASSUME Init PROVE Host \in Players /\ place[Host] = at[Host] /\ \A p \in Players : p \notin Members \ {Host}
    BY <2>1, PlayersAssumption DEF Init, Members
  <2>. QED BY <2>1 DEF ActorsInv, GuestInv
<1>2. AllTypes /\ ActorsInv => EveryoneSeesTheActors
  <2>1. SUFFICES ASSUME AllTypes, ActorsInv, Quiet, actors = at[Host], NEW p \in InTheParty \ {Host}, Around(at[p], at[Host])
                 PROVE  npcs[p] = at[Host]
    BY DEF EveryoneSeesTheActors
  <2>2. p \in Members \ {Host} /\ p \in Players /\ p \in bodies /\ requests[p] = <<>> /\ notices[p] = <<>>
    BY <2>1 DEF InTheParty, Quiet, Still, Members
  <2>3. Sent(<<>>) = {} /\ DOMAIN <<>> = {}
    BY SentFew
  <2>4. place[p] = at[p] /\ place[Host] = at[Host] /\ (WithHost(p, place) => WillHave(<<>>, npcs[p], actors))
    BY <2>1, <2>2, <2>3 DEF ActorsInv, GuestInv, Untold
  <2>5. WithHost(p, place)
    BY <2>1, <2>4 DEF WithHost, SamePlace, Around
  <2>. QED BY <2>1, <2>3, <2>4, <2>5 DEF WillHave
<1>. QED BY <1>1, <1>2, ActorsStep, TravelTypes, PTL DEF Spec
=============================================================================
