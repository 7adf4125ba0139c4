----------------------------- MODULE PartyDeath -----------------------------
(***************************************************************************)
(* The party going down and coming back: the host's rules (HostDeath) and  *)
(* every game's own player (DeathService), joined by one ordered reliable  *)
(* channel each way.                                                       *)
(*                                                                         *)
(* A player is named by the session id its join reserved for its           *)
(* character, which is never reused: a player that comes back is another   *)
(* member of Players.  The host's player never leaves its own session.     *)
(*                                                                         *)
(* Abstractions.  m_recoveryAt - m_now is the number of ticks left.  Of    *)
(* NotifyPartyDeath only Wiped steers a game, so only that is sent.  The   *)
(* spectator camera, who is named in the chat line and where beside the    *)
(* anchor a player appears are presentation.  CellAt finds the anchor's    *)
(* cell: every game has the host's load order (HostSession).               *)
(***************************************************************************)
EXTENDS Integers, Sequences

CONSTANTS
    Players,          \* session ids of the players' characters
    Host,             \* the host's player
    Npcs,             \* session ids the host's game may give to its NPCs
    Removable,        \* the NPCs the host's game may stop simulating
    FightTargets,     \* whom a character may fight: players, or 0 for anything else
    Fighters,         \* bound: the players whose own combat changes
    RecoveryTicks,    \* kRecoverySeconds, in ticks
    MaxFalls,         \* bound: falls of one player
    MaxInFlight       \* bound: unread messages of one player on which it still acts

ASSUME PlayersAssumption == Players \subseteq Nat \ {0} /\ Host \in Players
ASSUME NpcsAssumption == /\ Npcs \subseteq Nat \ {0} /\ Npcs \cap Players = {}
                         /\ Removable \subseteq Npcs
ASSUME FightAssumption == FightTargets \subseteq Players \union {0} /\ Fighters \subseteq Players
ASSUME BoundsAssumption == RecoveryTicks \in Nat \ {0} /\ MaxFalls \in Nat /\ MaxInFlight \in Nat

Characters == Players \union Npcs
NoTimer == -1

\* A character's fight as its owner reports it (ActorAiState: Combat, CombatTarget).
Peace == [combat |-> FALSE, target |-> 0]
AiState == {Peace} \union [combat: {TRUE}, target: FightTargets \union {0}]
PlayerAi(p) == IF p \in Fighters THEN AiState ELSE {Peace}
Unsent == [combat |-> FALSE, target |-> -1]

Announcement(ai) == [type |-> "announce", ai |-> ai]
AiReport(ai) == [type |-> "ai", ai |-> ai]
DeathReport(g, d) == [type |-> "death", gen |-> g, down |-> d]
Request == [type: {"announce", "ai"}, ai: AiState] \union [type: {"death"}, gen: Nat, down: BOOLEAN]

RespawnNotice(g) == [type |-> "respawn", gen |-> g]
WipeNotice == [type |-> "wiped", gen |-> 0]
Notice == [type: {"respawn", "wiped"}, gen: Nat]

VARIABLES
    conn,        \* each player's connection: "none", "open", "closed"
    \* each game's DeathService
    spawned,     \* its character has its session id (the announcement is sent)
    announced,   \* m_announced: its death state was sent once
    down,        \* m_down
    gen,         \* m_generation
    sentAi,      \* its player's entry in AiStateService::m_sent
    respawn,     \* m_respawn holds the host's respawn, being travelled to
    toldWiped,   \* m_party.Wiped
    \* the channels
    requests,    \* each player's requests the host has not read
    notices,     \* the host's notices each player has not read
    \* the host's HostDeath
    party,       \* the keys of m_party
    body,        \* m_party's Body: the fall's generation, down or not
    known,       \* m_party's Known
    respawning,  \* m_party's Respawning
    ai,          \* m_ai (Peace where it has no entry)
    targets,     \* m_targets
    present,     \* the NPCs the host's game owns (HostCharacters::OwnerOf)
    gone,        \* the NPCs it owned: their ids are never given again
    recovery,    \* ticks until m_recoveryAt, or NoTimer
    combat,      \* m_combat
    wiped        \* m_wiped

gameVars == <<spawned, announced, down, gen, sentAi, respawn, toldWiped>>
timerVars == <<recovery, combat, wiped>>
partyVars == <<party, body, known, respawning>>
aiVars == <<ai, targets, present, gone>>
vars == <<conn, gameVars, requests, notices, partyVars, aiVars, timerVars>>

Body == [gen: Nat, down: BOOLEAN]
NobodysBody == [gen |-> 0, down |-> FALSE]

\* The games and their connections.
GamesOK ==
    /\ conn \in [Players -> {"none", "open", "closed"}]
    /\ spawned \in [Players -> BOOLEAN]
    /\ announced \in [Players -> BOOLEAN]
    /\ down \in [Players -> BOOLEAN]
    /\ gen \in [Players -> Nat]
    /\ sentAi \in [Players -> AiState \union {Unsent}]
    /\ respawn \in [Players -> BOOLEAN]
    /\ toldWiped \in [Players -> BOOLEAN]

ChannelsOK ==
    /\ requests \in [Players -> Seq(Request)]
    /\ notices \in [Players -> Seq(Notice)]

\* What HostDeath keeps.
PartyOK ==
    /\ party \in SUBSET Players
    /\ body \in [Players -> Body]
    /\ known \in [Players -> BOOLEAN]
    /\ respawning \in [Players -> BOOLEAN]

FightsOK ==
    /\ ai \in [Characters -> AiState]
    /\ targets \in [Characters -> SUBSET Players]
    /\ present \in SUBSET Npcs
    /\ gone \in SUBSET Npcs

TimerOK ==
    /\ recovery \in 0 .. RecoveryTicks \union {NoTimer}
    /\ combat \in BOOLEAN
    /\ wiped \in BOOLEAN

TypeOK == GamesOK /\ ChannelsOK /\ PartyOK /\ FightsOK /\ TimerOK

Init ==
    /\ conn = [p \in Players |-> IF p = Host THEN "open" ELSE "none"]
    /\ spawned = [p \in Players |-> FALSE]
    /\ announced = [p \in Players |-> FALSE]
    /\ down = [p \in Players |-> FALSE]
    /\ gen = [p \in Players |-> 0]
    /\ sentAi = [p \in Players |-> Unsent]
    /\ respawn = [p \in Players |-> FALSE]
    /\ toldWiped = [p \in Players |-> FALSE]
    /\ requests = [p \in Players |-> <<>>]
    /\ notices = [p \in Players |-> <<>>]
    /\ party = {}
    /\ body = [p \in Players |-> NobodysBody]
    /\ known = [p \in Players |-> FALSE]
    /\ respawning = [p \in Players |-> FALSE]
    /\ ai = [c \in Characters |-> Peace]
    /\ targets = [c \in Characters |-> {}]
    /\ present = {}
    /\ gone = {}
    /\ recovery = NoTimer
    /\ combat = FALSE
    /\ wiped = FALSE

-----------------------------------------------------------------------------
\* The host's rules (HostDeath).

Standing == {p \in party : ~body[p].down}
SomeoneDown == \E p \in party : body[p].down
AllKnown == party # {} /\ \A p \in party : known[p]

\* OwnerOf(c) == m_players.Host(): its NPCs, and its own player's character.
HostOwns(c) == c \in present \/ (c = Host /\ Host \in party)

StandingPlayerFights ==
    \E c \in Characters :
        /\ ai[c].combat
        /\ \/ c \in Standing
           \/ HostOwns(c) /\ (ai[c].target \in Standing \/ targets[c] \cap Standing # {})

\* Mutant: a player whose state is not known yet counts for nothing.
AllDownUnknownIgnored ==
    SomeoneDown /\ \A p \in party : known[p] => body[p].down

AllDown == AllKnown /\ SomeoneDown /\ Standing = {}
TimerMayRun == AllKnown /\ SomeoneDown /\ ~StandingPlayerFights

\* Mutant: a fight does not start the timer over.
ReconsiderKeepsTimer ==
    /\ wiped' = (wiped \/ AllDown')
    /\ combat' = StandingPlayerFights'
    /\ recovery' = IF recovery = NoTimer /\ ~wiped' /\ TimerMayRun' THEN RecoveryTicks ELSE recovery
    /\ notices' = [p \in Players |-> IF conn'[p] = "open" THEN notices[p] ELSE <<>>]

\* After every change the rules decide a wipe, the recovery timer, or neither.
\* A fight starts the timer over: it is reset, and set again only from nothing.
Reconsider ==
    \/ /\ wiped
       /\ notices' = [p \in Players |-> IF conn'[p] = "open" THEN notices[p] ELSE <<>>]
       /\ UNCHANGED timerVars
    \/ /\ ~wiped /\ AllDown'
       /\ wiped' = TRUE
       /\ recovery' = NoTimer
       /\ combat' = combat
       /\ notices' = [p \in Players |->
              IF conn'[p] = "open" THEN Append(notices[p], WipeNotice) ELSE <<>>]
    \/ /\ ~wiped /\ ~AllDown'
       /\ wiped' = FALSE
       /\ combat' = StandingPlayerFights'
       /\ recovery' = IF ~TimerMayRun' THEN NoTimer
                      ELSE IF recovery = NoTimer THEN RecoveryTicks ELSE recovery
       /\ notices' = [p \in Players |-> IF conn'[p] = "open" THEN notices[p] ELSE <<>>]

\* HostCharacters::OnAnnounceCharacter's two calls: Entered, then InitialAi.
\* Their two Reconsiders differ only between the calls, where nothing reads them:
\* a player just entered is not known, so the first one stops the timer.
OnAnnounce(p) ==
    /\ requests[p] # <<>> /\ Head(requests[p]).type = "announce"
    /\ ~wiped
    /\ requests' = [requests EXCEPT ![p] = Tail(@)]
    /\ party' = party \union {p}
    /\ ai' = [ai EXCEPT ![p] = Head(requests[p]).ai]
    /\ UNCHANGED <<conn, gameVars, body, known, respawning, targets, present, gone>>
    /\ Reconsider

\* Mutant: a repeat of the same fall is taken as a fall.
NewFallRepeated(p, m) == m.down /\ m.gen # 0

\* Only a fall newer than the last, or the first word of this player.
NewFall(p, m) == m.down /\ m.gen # 0 /\ (m.gen = body[p].gen => ~known[p])
\* Up again only for the fall the host respawned it from (or it was never down).
StoodUp(p, m) == ~m.down /\ (body[p].down => respawning[p] /\ m.gen = body[p].gen)

\* Mutant: an equal generation counts as an older one.
DeathAcceptedNewerOnly(p, m) ==
    /\ p \in party
    /\ m.gen > body[p].gen
    /\ NewFall(p, m) \/ StoodUp(p, m)

DeathAccepted(p, m) ==
    /\ p \in party
    /\ m.gen >= body[p].gen
    /\ NewFall(p, m) \/ StoodUp(p, m)

OnDeath(p) ==
    /\ requests[p] # <<>> /\ Head(requests[p]).type = "death"
    /\ ~wiped
    /\ requests' = [requests EXCEPT ![p] = Tail(@)]
    /\ UNCHANGED <<conn, gameVars, party, aiVars>>
    /\ LET m == Head(requests[p]) IN
       \/ /\ DeathAccepted(p, m)
          /\ body' = [body EXCEPT ![p] = [gen |-> m.gen, down |-> m.down]]
          /\ known' = [known EXCEPT ![p] = TRUE]
          /\ respawning' = [respawning EXCEPT ![p] = FALSE]
          /\ Reconsider
       \/ /\ ~DeathAccepted(p, m)
          /\ UNCHANGED <<body, known, respawning, notices, timerVars>>

\* Mutant: a fight with nobody's session id is kept as a target.
KeepAiAnyTarget(c, state) ==
    /\ ai' = [ai EXCEPT ![c] = state]
    /\ targets' = [targets EXCEPT ![c] = IF ~state.combat THEN {} ELSE @ \union {state.target}]

\* A character's combat, from its owner; its targets are kept while the fight lasts.
KeepAi(c, state) ==
    /\ ai' = [ai EXCEPT ![c] = state]
    /\ targets' = [targets EXCEPT ![c] =
           IF ~state.combat THEN {} ELSE @ \union ({state.target} \ {0})]

OnAiState(p) ==
    /\ requests[p] # <<>> /\ Head(requests[p]).type = "ai"
    /\ ~wiped
    /\ requests' = [requests EXCEPT ![p] = Tail(@)]
    /\ UNCHANGED <<conn, gameVars, partyVars, present, gone>>
    /\ \/ /\ p \in party
          /\ KeepAi(p, Head(requests[p]).ai)
          /\ Reconsider
       \/ /\ p \notin party
          /\ UNCHANGED <<ai, targets, notices, timerVars>>

\* A wiped host drops every request (HostAuthority::Handle).
DropRequest(p) ==
    /\ wiped /\ requests[p] # <<>>
    /\ requests' = [requests EXCEPT ![p] = Tail(@)]
    /\ UNCHANGED <<conn, gameVars, notices, partyVars, aiVars, timerVars>>

\* The host's game's own actors are in its process: their requests are handled at once.
NpcAnnounced(n) ==
    /\ ~wiped
    /\ n \notin present \union gone
    /\ present' = present \union {n}
    /\ \E state \in AiState : ai' = [ai EXCEPT ![n] = state]
    /\ UNCHANGED <<conn, gameVars, requests, partyVars, targets, gone>>
    /\ Reconsider

NpcAiState(n) ==
    /\ ~wiped
    /\ n \in present
    /\ \E state \in AiState : state # ai[n] /\ KeepAi(n, state)
    /\ UNCHANGED <<conn, gameVars, requests, partyVars, present, gone>>
    /\ Reconsider

\* HostCharacters::OnRemoveCharacter: HostDeath does not hear of it.
NpcRemoved(n) ==
    /\ ~wiped
    /\ n \in present \intersect Removable
    /\ present' = present \ {n}
    /\ gone' = gone \union {n}
    /\ UNCHANGED <<conn, gameVars, requests, notices, partyVars, ai, targets, timerVars>>

\* Beside a standing player the host can place: a guest's record always can be, its own
\* player only while its engine has it.
Anchors(hostPlaced) == {p \in Standing : known[p] /\ (p = Host => hostPlaced)}
Respawned == {p \in party : body[p].down /\ ~respawning[p]}

\* Mutant: a recovery with nobody to appear beside is not tried again.
RespawnOnce(hostPlaced) ==
    /\ recovery' = NoTimer
    /\ respawning' = [p \in Players |->
           respawning[p] \/ (p \in Respawned /\ Anchors(hostPlaced) # {})]
    /\ notices' = [p \in Players |->
           IF p \in Respawned /\ Anchors(hostPlaced) # {}
           THEN Append(notices[p], RespawnNotice(body[p].gen)) ELSE notices[p]]
    /\ UNCHANGED <<combat, wiped>>

Respawn(hostPlaced) ==
    \/ /\ Anchors(hostPlaced) # {}
       /\ recovery' = NoTimer
       /\ respawning' = [p \in Players |-> respawning[p] \/ p \in Respawned]
       /\ notices' = [p \in Players |->
              IF p \in Respawned THEN Append(notices[p], RespawnNotice(body[p].gen)) ELSE notices[p]]
       /\ UNCHANGED <<combat, wiped>>
    \/ /\ Anchors(hostPlaced) = {}
       \* Reconsider after the reset: nothing else changed, so the timer starts over.
       /\ recovery' = IF TimerMayRun THEN RecoveryTicks ELSE NoTimer
       /\ combat' = StandingPlayerFights
       /\ UNCHANGED <<respawning, notices, wiped>>

Update(hostPlaced) ==
    /\ ~wiped /\ recovery # NoTimer
    /\ \/ /\ recovery > 1
          /\ recovery' = recovery - 1
          /\ UNCHANGED <<respawning, notices, combat, wiped>>
       \/ /\ recovery <= 1
          /\ Respawn(hostPlaced)
    /\ UNCHANGED <<conn, gameVars, requests, party, body, known, aiVars>>

\* A guest's connection closes, at either end: what it sent and did not arrive is lost,
\* its game's state is reset (OnDisconnected) and the host's party is without it (Left).
Left(p) ==
    /\ p # Host /\ conn[p] = "open"
    /\ conn' = [conn EXCEPT ![p] = "closed"]
    /\ spawned' = [spawned EXCEPT ![p] = FALSE]
    /\ announced' = [announced EXCEPT ![p] = FALSE]
    /\ down' = [down EXCEPT ![p] = FALSE]
    /\ gen' = [gen EXCEPT ![p] = 0]
    /\ sentAi' = [sentAi EXCEPT ![p] = Unsent]
    /\ respawn' = [respawn EXCEPT ![p] = FALSE]
    /\ toldWiped' = [toldWiped EXCEPT ![p] = FALSE]
    /\ requests' = [requests EXCEPT ![p] = <<>>]
    /\ party' = party \ {p}
    /\ body' = [body EXCEPT ![p] = NobodysBody]
    /\ known' = [known EXCEPT ![p] = FALSE]
    /\ respawning' = [respawning EXCEPT ![p] = FALSE]
    /\ ai' = [ai EXCEPT ![p] = IF p \in party THEN Peace ELSE @]
    /\ UNCHANGED <<targets, present, gone>>
    /\ Reconsider

-----------------------------------------------------------------------------
\* A game and its own player (DeathService).

\* Bound: a game acts while its unread requests leave room.
HasRoom(p) == Len(requests[p]) < MaxInFlight

SendAll(p, messages) == requests' = [requests EXCEPT ![p] = @ \o messages]

\* The join is accepted (ConnectedEvent).
Connected(p) ==
    /\ conn[p] = "none" /\ ~wiped
    /\ conn' = [conn EXCEPT ![p] = "open"]
    /\ UNCHANGED <<gameVars, requests, notices, partyVars, aiVars, timerVars>>

\* AiStateService::SendOwned: only what changed since it was last sent.
ChangedAi(p, state) == IF state = sentAi[p] THEN <<>> ELSE <<AiReport(state)>>

\* CharacterService announces its player's character, which has its session id from here.
AnnounceCharacter(p) ==
    /\ conn[p] = "open" /\ ~spawned[p] /\ HasRoom(p)
    /\ spawned' = [spawned EXCEPT ![p] = TRUE]
    /\ \E state \in PlayerAi(p) : SendAll(p, <<Announcement(state)>>)
    /\ UNCHANGED <<conn, announced, down, gen, sentAi, respawn, toldWiped, notices, partyVars, aiVars, timerVars>>

\* The first update with a session id: the death state and the combat state are sent, and a
\* player dead since before the join goes down here too.
OnUpdate(p, dead) ==
    /\ conn[p] = "open" /\ spawned[p] /\ ~announced[p]
    /\ announced' = [announced EXCEPT ![p] = TRUE]
    /\ \E state \in PlayerAi(p) :
         LET report == <<DeathReport(gen[p], down[p])>> \o ChangedAi(p, state) IN
         /\ sentAi' = [sentAi EXCEPT ![p] = state]
         /\ \/ /\ dead /\ ~down[p] /\ ~toldWiped[p] /\ gen[p] < MaxFalls
               /\ down' = [down EXCEPT ![p] = TRUE]
               /\ gen' = [gen EXCEPT ![p] = @ + 1]
               /\ SendAll(p, Append(report, DeathReport(gen[p] + 1, TRUE)))
            \/ /\ ~dead \/ down[p] \/ toldWiped[p]
               /\ SendAll(p, report)
               /\ UNCHANGED <<down, gen>>
    /\ UNCHANGED <<conn, spawned, respawn, toldWiped, notices, partyVars, aiVars, timerVars>>

GoDown(p) ==
    /\ conn[p] = "open" /\ ~down[p] /\ ~toldWiped[p]
    /\ gen[p] < MaxFalls /\ HasRoom(p)
    /\ down' = [down EXCEPT ![p] = TRUE]
    /\ gen' = [gen EXCEPT ![p] = @ + 1]
    /\ SendAll(p, <<DeathReport(gen[p] + 1, TRUE)>>)
    /\ UNCHANGED <<conn, spawned, announced, sentAi, respawn, toldWiped, notices, partyVars, aiVars, timerVars>>

\* AiStateService::OnAiStateChange: its player's combat changed.
SendAi(p) ==
    /\ conn[p] = "open" /\ spawned[p] /\ HasRoom(p)
    /\ \E state \in PlayerAi(p) \ {sentAi[p]} :
         /\ sentAi' = [sentAi EXCEPT ![p] = state]
         /\ SendAll(p, <<AiReport(state)>>)
    /\ UNCHANGED <<conn, spawned, announced, down, gen, respawn, toldWiped, notices, partyVars, aiVars, timerVars>>

\* The host's respawn: followed only for this fall, and never after a wipe.
OnRespawn(p) ==
    /\ notices[p] # <<>> /\ Head(notices[p]).type = "respawn"
    /\ notices' = [notices EXCEPT ![p] = Tail(@)]
    /\ respawn' = [respawn EXCEPT ![p] =
           @ \/ (down[p] /\ ~toldWiped[p] /\ Head(notices[p]).gen = gen[p])]
    /\ UNCHANGED <<conn, spawned, announced, down, gen, sentAi, toldWiped, requests, partyVars, aiVars, timerVars>>

\* It arrived beside the party (where the party is by now: OnPartyTravel): revived there.
OnRespawnArrival(p) ==
    /\ down[p] /\ respawn[p] /\ ~toldWiped[p] /\ HasRoom(p)
    /\ respawn' = [respawn EXCEPT ![p] = FALSE]
    /\ down' = [down EXCEPT ![p] = FALSE]
    /\ SendAll(p, <<DeathReport(gen[p], FALSE)>>)
    /\ UNCHANGED <<conn, spawned, announced, gen, sentAi, toldWiped, notices, partyVars, aiVars, timerVars>>

OnPartyDeath(p) ==
    /\ notices[p] # <<>> /\ Head(notices[p]).type = "wiped"
    /\ notices' = [notices EXCEPT ![p] = Tail(@)]
    /\ toldWiped' = [toldWiped EXCEPT ![p] = TRUE]
    /\ UNCHANGED <<conn, spawned, announced, down, gen, sentAi, respawn, requests, partyVars, aiVars, timerVars>>

-----------------------------------------------------------------------------
HostReads(p) == OnAnnounce(p) \/ OnDeath(p) \/ OnAiState(p) \/ DropRequest(p)
GameReads(p) == OnRespawn(p) \/ OnPartyDeath(p)
GameActs(p) ==
    \/ Connected(p)
    \/ AnnounceCharacter(p)
    \/ \E dead \in BOOLEAN : OnUpdate(p, dead)
    \/ GoDown(p)
    \/ SendAi(p)
    \/ OnRespawnArrival(p)

Next ==
    \/ \E p \in Players : HostReads(p) \/ GameReads(p) \/ GameActs(p) \/ Left(p)
    \/ \E n \in Npcs : NpcAnnounced(n) \/ NpcAiState(n) \/ NpcRemoved(n)
    \/ \E hostPlaced \in BOOLEAN : Update(hostPlaced)

Spec == Init /\ [][Next]_vars

\* The host runs its rules every frame and reads what arrived; a game reads its notices
\* and reports at the next update; a player sent to the party arrives.  The host's engine
\* has its own player's body except while it loads, so it cannot fail to place it for ever.
Fairness ==
    /\ \A p \in Players :
         /\ WF_vars(HostReads(p))
         /\ WF_vars(GameReads(p))
         /\ WF_vars(\E dead \in BOOLEAN : OnUpdate(p, dead))
         /\ WF_vars(OnRespawnArrival(p))
    /\ WF_vars(\E hostPlaced \in BOOLEAN : Update(hostPlaced))
    /\ SF_vars(recovery <= 1 /\ Update(TRUE))

FairSpec == Spec /\ Fairness

-----------------------------------------------------------------------------
\* Properties.

Unread(p, type) == {i \in DOMAIN requests[p] : requests[p][i].type = type}

\* The recovery timer never runs through a fight: while it is set, everyone's state is
\* known, someone is down and no standing player is fought, by what the owners last said
\* of every character (HostDeath::Reconsider after each change).
TimerOnlyInCalm == recovery # NoTimer => ~wiped /\ TimerMayRun

\* Once the host has read what a game said of its player, it believes the truth: no late,
\* repeated or refused message leaves it with another fall or another posture.
BelievesTheGame ==
    \A p \in party :
        (announced[p] /\ ~wiped /\ Unread(p, "death") = {}) =>
            known[p] /\ body[p] = [gen |-> gen[p], down |-> down[p]]

\* A game travels to a respawn only while the host holds its player down in that very
\* fall and has respawned it from it: a respawn for an older fall never takes hold.
RespawnIsForThisFall ==
    \A p \in Players :
        respawn[p] => /\ p \in party /\ down[p]
                      /\ body[p] = [gen |-> gen[p], down |-> TRUE]
                      /\ respawning[p]

\* A wipe is never decided with a player standing: in its own game each player of the
\* party is down, or its word that it stands again is still on its way.
WipeIsEveryonesFall ==
    [][~wiped /\ wiped' =>
        /\ party' # {}
        /\ \A p \in party' :
             /\ known'[p] /\ body'[p].down
             /\ \/ down'[p]
                \/ \E i \in DOMAIN requests'[p] :
                     requests'[p][i] = DeathReport(body'[p].gen, FALSE)]_vars

\* No party waits for ever with a player down, another standing and nobody fighting
\* (docs/design/death.md: "After 10 continuous seconds (game time) without such a fight,
\* each dead player respawns alive").
RecoveryIsNotStalled ==
    \A p \in Players :
        ~ <>[] /\ p \in party /\ body[p].down /\ ~wiped
               /\ AllKnown /\ Standing # {} /\ ~StandingPlayerFights

\* A player that joined is known in the end: it cannot hold the timer for ever.
JoinerBecomesKnown ==
    \A p \in Players : p \in party ~> known[p] \/ wiped \/ conn[p] = "closed"
=============================================================================
