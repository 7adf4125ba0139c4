---------------------------- MODULE PartyTravel ----------------------------
(***************************************************************************)
(* The party tether: whoever travels by itself takes everyone along.  The  *)
(* host's rules (HostCharacters, and HostSession's accepted join), every   *)
(* game's own player (TravelService) and its copies of the others          *)
(* (CharacterService), joined by one ordered reliable channel each way.    *)
(* The host's game is in the host's process: its requests are handled at   *)
(* once, and what it is sent waits for its next update.                    *)
(*                                                                         *)
(* Places are interior cells and the cells of one worldspace, in a line.   *)
(* A game in its load is blocked: from its departure to the end of the     *)
(* update that tells of its arrival it reads nothing, so a load is one     *)
(* step.  A MoveTo is queued between the frames, in the order of the       *)
(* messages asking for it: with their reading.  Walking, headings,         *)
(* positions in a cell, a record's looks and the arrival stack are left    *)
(* out.  Of NPCs there are the host's actors where its player is, one      *)
(* group per place.                                                        *)
(***************************************************************************)
EXTENDS Integers, Sequences, SequencesExt

CONSTANTS
    Players,       \* session ids of the players' characters
    Host,          \* the host's player
    Places,        \* where a player can be
    Interiors,     \* those of them that are interior cells
    GridReach,     \* how far the loaded grid reaches, in cells
    Start,         \* where the host is
    JoinPlaces,    \* where a joining player's save left it
    Leavers,       \* bound: the players that may leave
    Leaders,       \* bound: the players that travel by themselves
    MaxTrips,      \* bound: their travels
    MeetingJoins,  \* TRUE: no join is under way while the party travels
    PatientGuests  \* TRUE: a player being taken along uses no door of its own

ASSUME PlayersAssumption == Host \in Players
ASSUME PlacesAssumption == /\ Places \subseteq Int /\ JoinPlaces \subseteq Places
                           /\ Interiors \subseteq Places /\ Start \in Places /\ GridReach \in Nat
ASSUME BoundsAssumption == /\ Leavers \subseteq Players \ {Host} /\ MaxTrips \in Nat
                           /\ Leaders \subseteq Players
                           /\ MeetingJoins \in BOOLEAN /\ PatientGuests \in BOOLEAN

CONSTANT Nowhere
ASSUME NowhereAssumption == Nowhere \notin Places

Outdoors(a) == a \notin Interiors

\* IsAroundPlayer, SamePlace: the same interior cell, or outdoors within the loaded grid.
Around(a, b) ==
    \/ a = b
    \/ Outdoors(a) /\ Outdoors(b) /\ a - b \in -GridReach .. GridReach

\* HostCharacters::PlaceOf: outdoors the worldspace is the place.
SamePlace(a, b) == a = b \/ (Outdoors(a) /\ Outdoors(b))

Accepted == [type |-> "accepted"]
Travel(to) == [type |-> "travel", to |-> to]
Spawns(placeOf) == [type |-> "spawns", placeOf |-> placeOf]
Actors(where) == [type |-> "actors", where |-> where]
ActorsGone(where) == [type |-> "actorsGone", where |-> where]
Removed(p) == [type |-> "removed", who |-> p]

Announce(where) == [type |-> "announce", where |-> where]
Queued(to) == [type |-> "queued", to |-> to]
EnterCell(where, how) == [type |-> "enter", where |-> where, how |-> how]

VARIABLES
    \* the games
    conn,          \* "none", "open" (the host has accepted it), "closed"
    online,        \* it has read that it was accepted
    at,            \* where its player is
    queued,        \* the engine's queued move of its player: only the latest is kept
    targets,       \* m_tetherTargets
    copies,        \* the players of whom it has a copy
    npcs,          \* where the host's actors it has copies of are
    trips,         \* bound: travels of the players' own so far
    \* the channels
    requests,      \* each guest's requests the host has not read
    notices,       \* what each game has not read of the host's
    \* HostCharacters
    bodies,        \* the players' characters in m_characters
    place,         \* m_places
    ahead,         \* m_aheadOfHost
    brought,       \* m_broughtToParty
    partyTravel,   \* m_partyTravel
    actors         \* where the host's game's own actors are that it has announced

gameVars == <<conn, online, at, queued, targets, copies, npcs, trips>>
hostVars == <<bodies, place, ahead, brought, partyTravel, actors>>
vars == <<gameVars, requests, notices, hostVars>>

Members == {p \in Players : conn[p] = "open"}   \* HostPlayers

TypeOK ==
    /\ conn \in [Players -> {"none", "open", "closed"}]
    /\ online \in [Players -> BOOLEAN]
    /\ at \in [Players -> Places]
    /\ queued \in [Players -> Places \union {Nowhere}]
    /\ \A p \in Players : targets[p] \in Seq(Places)
    /\ copies \in [Players -> SUBSET Players]
    /\ npcs \in [Players -> Places \union {Nowhere}]
    /\ trips \in 0 .. MaxTrips
    /\ bodies \subseteq Members
    /\ place \in [Players -> Places \union {Nowhere}]
    /\ ahead \subseteq Members \ {Host}
    /\ brought \subseteq Members \ {Host}
    /\ partyTravel \in Places \union {Nowhere}
    /\ actors \in Places \union {Nowhere}

Init ==
    /\ conn = [p \in Players |-> IF p = Host THEN "open" ELSE "none"]
    /\ online = [p \in Players |-> p = Host]
    /\ at \in {a \in [Players -> JoinPlaces \union {Start}] : a[Host] = Start}
    /\ queued = [p \in Players |-> Nowhere]
    /\ targets = [p \in Players |-> <<>>]
    /\ copies = [p \in Players |-> {}]
    /\ npcs = [p \in Players |-> Nowhere]
    /\ trips = 0
    /\ requests = [p \in Players |-> <<>>]
    /\ notices = [p \in Players |-> <<>>]
    /\ bodies = {Host}
    /\ place = [p \in Players |-> IF p = Host THEN Start ELSE Nowhere]
    /\ ahead = {}
    /\ brought = {}
    /\ partyTravel = Nowhere
    /\ actors = Start

-----------------------------------------------------------------------------
\* The host's rules (HostCharacters).

\* A player that has not announced itself yet is joining, where the host is.
WithHost(p, places) ==
    places[p] = Nowhere \/ places[Host] = Nowhere \/ SamePlace(places[p], places[Host])

\* Each game gets the messages Out gives it.
Post(Out(_)) == notices' = [q \in Players |-> IF q \in Members THEN notices[q] \o Out(q) ELSE notices[q]]

When(condition, messages) == IF condition THEN messages ELSE <<>>

\* Mutant: only discovery announces the actors, an arrival is not answered.
HostActorsNone(where) == <<>>

\* The host's game's actors (BuildSpawnRequests): of its announced ones those with 3D, with
\* its player there.
HostActors(where) == When(actors = where, <<Actors(actors)>>)

\* A spawn of each: where its record has it, the host's own where its engine has it.
SpawnsOf(who, places) ==
    When(who # {}, <<Spawns([c \in who |-> IF c = Host THEN at[Host] ELSE places[c]])>>)

\* Mutant: the host's own character is left out.
ExistingGuests(p) == {c \in bodies \ {p} : c # Host /\ WithHost(c, place)}

\* The players' characters one is told of as it enters (SendExistingCharacters).
Existing(p) == {c \in bodies \ {p} : c = Host \/ WithHost(c, place)}

\* A player's announcement: PlayerEntered, BringToParty and SendToOthersWithHost.
OnAnnounce(p, where) ==
    LET places == [place EXCEPT ![p] = where]
        away == ~WithHost(p, places) \/ (Outdoors(place[Host]) /\ ~Around(where, place[Host]))
        Out(q) == IF q = p
                  THEN HostActors(at[Host]) \o SpawnsOf(Existing(p), places) \o When(away, <<Travel(place[Host])>>)
                  ELSE When(WithHost(q, places), SpawnsOf({p}, places))
    IN /\ bodies' = bodies \union {p}
       /\ place' = places
       /\ brought' = IF away THEN brought \union {p} ELSE brought
       /\ Post(Out)
       /\ UNCHANGED <<ahead, partyTravel, actors>>

OnTravelQueued(p, to) ==
    /\ partyTravel' = IF p \in bodies THEN to ELSE partyTravel
    /\ LET Out(q) == When(p \in bodies /\ q # p, <<Travel(to)>>) IN Post(Out)
    /\ UNCHANGED <<bodies, place, ahead, brought, actors>>

\* The leader's arrival takes everyone along; a follower that arrived where the party is not
\* is sent on.
Led(p, where, how, q) == When(how = "own" /\ q # p, <<Travel(where)>>)

\* Mutant: a follower stays wherever it followed to.
SentOnNever(p, where, how, q) == <<>>

SentOn(p, where, how, q) ==
    When(/\ how = "tether" /\ q = p
         /\ partyTravel # Nowhere /\ ~Around(where, partyTravel), <<Travel(partyTravel)>>)

\* Mutant: an arrival from before its join counts.
AnyArrival(p, how) == p \in brought

\* It was brought to the party, and that is the arrival.
ReachedParty(p, how) == how = "tether" /\ p \in brought

\* With the host, a player gets its actors; one brought to the party, the players' characters
\* each way.
GuestArrived(p, where, how) ==
    LET places == [place EXCEPT ![p] = where]
        here == WithHost(p, places)
        met == here /\ ReachedParty(p, how)
        Met(q) == IF q = p THEN SpawnsOf({c \in bodies \ {p} : WithHost(c, places)}, places)
                  ELSE When(WithHost(q, places), SpawnsOf({p} \intersect bodies, places))
        Out(q) == Led(p, where, how, q) \o SentOn(p, where, how, q)
                  \o When(here /\ q = p, HostActors(at[Host])) \o When(met, Met(q))
    IN /\ place' = places
       /\ ahead' = IF here THEN ahead \ {p} ELSE ahead \union {p}
       /\ brought' = IF met THEN brought \ {p} ELSE brought
       /\ Post(Out)

\* The host arrived: those ahead of it that are with it now get its actors.
HostArrived(where, how) ==
    LET places == [place EXCEPT ![Host] = where]
        arrived == {p \in ahead : WithHost(p, places)}
        Out(q) == Led(Host, where, how, q) \o SentOn(Host, where, how, q)
                  \o When(q \in arrived, HostActors(where))
    IN /\ place' = places
       /\ ahead' = ahead \ arrived
       /\ brought' = brought
       /\ Post(Out)

OnEnterCell(p, where, how) ==
    /\ \/ p # Host /\ GuestArrived(p, where, how)
       \/ p = Host /\ HostArrived(where, how)
    /\ partyTravel' = IF how = "own" THEN where ELSE partyTravel
    /\ UNCHANGED <<bodies, actors>>

Handle(p, m) ==
    \/ m.type = "announce" /\ OnAnnounce(p, m.where)
    \/ m.type = "queued" /\ OnTravelQueued(p, m.to)
    \/ m.type = "enter" /\ OnEnterCell(p, m.where, m.how)

HostReads(p) ==
    /\ p # Host /\ requests[p] # <<>>
    /\ Handle(p, Head(requests[p]))
    /\ requests' = [requests EXCEPT ![p] = Tail(@)]
    /\ UNCHANGED gameVars

\* A game sends a request: the host's own is handled at once.
Send(p, m) ==
    \/ /\ p = Host
       /\ Handle(p, m)
       /\ UNCHANGED requests
    \/ /\ p # Host
       /\ requests' = [requests EXCEPT ![p] = Append(@, m)]
       /\ UNCHANGED <<notices, hostVars>>

-----------------------------------------------------------------------------
\* A game and its own player (TravelService).

Still(p) == queued[p] = Nowhere /\ requests[p] = <<>> /\ notices[p] = <<>>
Joining(p) == conn[p] = "open" /\ p \notin bodies
JoinUnderWay ==
    \E q \in Members :
        Joining(q) \/ q \in brought \/ \E i \in DOMAIN notices[q] : notices[q][i].type = "spawns"
Settled == /\ \A p \in Members : Still(p) /\ ~Joining(p)
           /\ brought = {} /\ actors = at[Host]

\* The player's own travel: its destination is announced as the engine takes it, before the
\* load (unless the tether sends it there already), and supersedes a queued move.
SetOut(p, to) ==
    /\ p \in Leaders /\ conn[p] = "open" /\ online[p] /\ trips < MaxTrips
    /\ ~Around(to, at[p])
    /\ MeetingJoins => ~JoinUnderWay
    /\ PatientGuests => targets[p] = <<>>
    /\ trips' = trips + 1
    /\ queued' = [queued EXCEPT ![p] = to]
    /\ \/ /\ \E i \in DOMAIN targets[p] : Around(to, targets[p][i])
          /\ UNCHANGED <<requests, notices, hostVars>>
       \/ /\ ~ \E i \in DOMAIN targets[p] : Around(to, targets[p][i])
          /\ Send(p, Queued(to))
    /\ UNCHANGED <<conn, online, at, targets, copies, npcs>>

\* The tether's places still to come, after the last one it reached; none if it reached none.
TargetsLeft(p, where) ==
    LET reached == {i \in DOMAIN targets[p] : Around(targets[p][i], where)}
        last == CHOOSE i \in reached : \A j \in reached : j <= i
    IN IF reached = {} THEN <<>> ELSE SubSeq(targets[p], last + 1, Len(targets[p]))

\* Mutant: every arrival leads.
ArrivalOwn(p, where) == "own"

\* Arriving where the tether sent it, it follows; anywhere else it leads.
Arrival(p, where) == IF \E i \in DOMAIN targets[p] : Around(targets[p][i], where) THEN "tether" ELSE "own"

\* The load: the player arrives, and the update after it tells the host.  Copies of the host's
\* actors left behind go; the players' copies travel with the party.  A queued move waits for
\* an update before it is loaded (HookProcessQueuedTravel): the host's game has discovered by then.
Arrive(p) ==
    /\ conn[p] = "open" /\ queued[p] # Nowhere
    /\ p = Host => actors = at[Host]
    /\ LET where == queued[p]
       IN /\ at' = [at EXCEPT ![p] = where]
          /\ targets' = [targets EXCEPT ![p] = TargetsLeft(p, where)]
          /\ npcs' = [npcs EXCEPT ![p] = IF @ = where THEN @ ELSE Nowhere]
          /\ Send(p, EnterCell(where, Arrival(p, where)))
    /\ queued' = [queued EXCEPT ![p] = Nowhere]
    /\ UNCHANGED <<conn, online, copies, trips>>

\* Already there, with no move of the tether's to come; or on its way there already.
Stays(p, to) == targets[p] = <<>> /\ Around(to, at[p])
OnItsWay(p, to) == targets[p] # <<>> /\ Around(to, Last(targets[p]))

OnPartyTravel(p, to) ==
    /\ \/ /\ Stays(p, to) \/ OnItsWay(p, to)
          /\ UNCHANGED <<targets, queued>>
       \/ /\ ~Stays(p, to) /\ ~OnItsWay(p, to)
          /\ targets' = [targets EXCEPT ![p] = Append(@, to)]
          /\ queued' = [queued EXCEPT ![p] = to]
    /\ UNCHANGED <<conn, online, at, copies, npcs, requests, hostVars>>

\* A player's copy is made in the reader's cell: indoors it stays, outdoors it stays if it is
\* in the loaded grid, else the engine deletes it.
OnSpawns(p, placeOf) ==
    /\ copies' = [copies EXCEPT ![p] =
           @ \union {c \in DOMAIN placeOf : ~Outdoors(at[p]) \/ Around(placeOf[c], at[p])}]
    /\ UNCHANGED <<conn, online, at, queued, targets, npcs, requests, hostVars>>

OnActors(p, where) ==
    /\ npcs' = [npcs EXCEPT ![p] = where]
    /\ UNCHANGED <<conn, online, at, queued, targets, copies, requests, hostVars>>

OnActorsGone(p, where) ==
    /\ npcs' = [npcs EXCEPT ![p] = IF @ = where THEN Nowhere ELSE @]
    /\ UNCHANGED <<conn, online, at, queued, targets, copies, requests, hostVars>>

OnRemoved(p, who) ==
    /\ copies' = [copies EXCEPT ![p] = @ \ {who}]
    /\ UNCHANGED <<conn, online, at, queued, targets, npcs, requests, hostVars>>

\* The join is accepted: its player is announced, and a travel from before joining, if its
\* game made one, leads nobody.
OnAccepted(p) ==
    /\ online' = [online EXCEPT ![p] = TRUE]
    /\ \E loaded \in BOOLEAN :
         requests' = [requests EXCEPT ![p] =
             <<Announce(at[p])>> \o When(loaded, <<EnterCell(at[p], "beforeJoining")>>)]
    /\ UNCHANGED <<conn, at, queued, targets, copies, npcs, hostVars>>

GameReads(p) ==
    /\ conn[p] = "open" /\ notices[p] # <<>>
    /\ notices' = [notices EXCEPT ![p] = Tail(@)]
    /\ LET m == Head(notices[p]) IN
       \/ m.type = "accepted" /\ OnAccepted(p)
       \/ m.type = "travel" /\ OnPartyTravel(p, m.to)
       \/ m.type = "spawns" /\ OnSpawns(p, m.placeOf)
       \/ m.type = "actors" /\ OnActors(p, m.where)
       \/ m.type = "actorsGone" /\ OnActorsGone(p, m.where)
       \/ m.type = "removed" /\ OnRemoved(p, m.who)
    /\ UNCHANGED trips

\* The host's game's discovery after an arrival: the actors left behind are removed for every
\* other game, those here announced to the ones with the host.
HostDiscovers ==
    /\ actors # at[Host]
    /\ actors' = at[Host]
    /\ LET Out(q) == When(q # Host, <<ActorsGone(actors)>>
                                    \o When(WithHost(q, place), <<Actors(at[Host])>>)) IN Post(Out)
    /\ UNCHANGED <<gameVars, requests, bodies, place, ahead, brought, partyTravel>>

\* HostSession::OnAuthentication accepts.
Join(p) ==
    /\ conn[p] = "none"
    /\ MeetingJoins => Settled
    /\ conn' = [conn EXCEPT ![p] = "open"]
    /\ notices' = [notices EXCEPT ![p] = <<Accepted>>]
    /\ UNCHANGED <<online, at, queued, targets, copies, npcs, trips, requests, hostVars>>

\* Mutant: the character of a player that left stays.
CharactersLeftAll(p) == bodies

CharactersLeft(p) == bodies \ {p}

\* Mutant: only those with the host hear that a character is gone.
LeaveTellsThoseWithHost(p) == {q \in Members \ {p} : WithHost(q, place)}

\* RemoveCharacter: every other game hears of it.
ToldOfRemoval(p) == Members \ {p}

\* A guest's connection closes (HostCharacters::OnPlayerLeft, HostPlayers::Remove).
Leave(p) ==
    /\ p \in Leavers /\ conn[p] = "open"
    /\ conn' = [conn EXCEPT ![p] = "closed"]
    /\ online' = [online EXCEPT ![p] = FALSE]
    /\ queued' = [queued EXCEPT ![p] = Nowhere]
    /\ targets' = [targets EXCEPT ![p] = <<>>]
    /\ copies' = [copies EXCEPT ![p] = {}]
    /\ npcs' = [npcs EXCEPT ![p] = Nowhere]
    /\ requests' = [requests EXCEPT ![p] = <<>>]
    /\ bodies' = CharactersLeft(p)
    /\ place' = [place EXCEPT ![p] = Nowhere]
    /\ ahead' = ahead \ {p}
    /\ brought' = brought \ {p}
    /\ notices' = [q \in Players |->
           IF q = p THEN <<>>
           ELSE notices[q] \o When(p \in bodies /\ q \in ToldOfRemoval(p), <<Removed(p)>>)]
    /\ UNCHANGED <<at, trips, partyTravel, actors>>

Next ==
    \/ \E p \in Players : \/ HostReads(p) \/ GameReads(p) \/ Arrive(p)
                          \/ Join(p) \/ Leave(p)
    \/ \E p \in Players, to \in Places : SetOut(p, to)
    \/ HostDiscovers

Spec == Init /\ [][Next]_vars

\* Both sides read what arrived in every update, and a queued move is loaded.
Fairness ==
    /\ \A p \in Players : WF_vars(HostReads(p)) /\ WF_vars(GameReads(p)) /\ WF_vars(Arrive(p))
    /\ WF_vars(HostDiscovers)

FairSpec == Spec /\ Fairness

-----------------------------------------------------------------------------
\* Properties.

InTheParty == {p \in Members : p \in bodies}
Quiet == \A p \in Members : Still(p)

\* Once nothing is under way, everyone is where the host is (HostCharacters.h: "Under the party
\* tether everyone is where the host is, or on the way there").
EveryoneIsWithTheHost == Quiet => \A p \in InTheParty : Around(at[p], at[Host])

\* Once nothing is under way, each player has a copy of every other (docs/design/copy-contract.md:
\* "a copy of another player lives as long as that player is in the session").
EveryoneSeesEveryone == Quiet => \A p \in InTheParty : InTheParty \ {p} \subseteq copies[p]

\* Once nothing is under way, everyone with the host has copies of the actors there, and of no
\* others (HostCharacters.h: "Once it is with the host, it gets everyone with the host").
EveryoneSeesTheActors ==
    Quiet /\ actors = at[Host] =>
        \A p \in InTheParty \ {Host} : Around(at[p], at[Host]) => npcs[p] = at[Host]

\* A copy of a player that left is on its way out: the removal is in the reader's channel.
NoGhosts ==
    \A p \in Members : \A c \in copies[p] \ bodies :
        \E i \in DOMAIN notices[p] : notices[p][i] = Removed(c)

\* The players' own travels being over, the party comes together and stays so: no follower
\* takes it along again, and two that led at once do not pull each other to and fro.
PartyComesTogether == <>[](\A p \in InTheParty : Around(at[p], at[Host]))
=============================================================================
