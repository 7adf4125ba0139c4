---------------------------- MODULE SharedDialogue ----------------------------
(***************************************************************************)
(* The party's one conversation: the host's rules (HostDialogue), every    *)
(* game's DialogueService, and its role: the host's game, whose engine     *)
(* runs the conversation (HostConversation), or a guest's, whose menu on   *)
(* its copy of the NPC is a screen (GuestDialogue).                        *)
(*                                                                         *)
(* Abstractions.  A step's list is there or not: its options and their     *)
(* merge are left out, and a pick is of an option of the picker's own or   *)
(* is not.  The highlight, skipping a line, bartering, chat lines and      *)
(* greetings' lines are left out.  Every NPC is the host's and has a copy  *)
(* in every game.  A list rebuilt without a pick is not sent again.  The   *)
(* host's own menu always comes.  The engine ends a conversation, or       *)
(* closes a menu, at once; a player opens or closes its menu no faster     *)
(* than its game's updates see it.  A call of the host's own game is       *)
(* handled before anything else; its notices queue.                        *)
(***************************************************************************)
EXTENDS Integers, Sequences

CONSTANTS
    Players,        \* the players that ever join
    Host,           \* the host's player
    Npcs,           \* session ids of the host's NPCs
    None,           \* no NPC, no player
    Joiners,        \* bound: the guests that join late
    Leavers,        \* bound: the guests that may leave
    Calm,           \* talks begin one at a time and end only once the host's game knows their id,
                    \* and nobody leaves or joins the session while one begins
    MaxTalks,       \* bound: talks to an NPC, by anyone
    MaxSteps,       \* bound: steps of a conversation
    MaxInFlight     \* bound: unread messages of a player that still acts

ASSUME PlayersAssumption == Host \in Players /\ None \notin Players \union Npcs
ASSUME BoundsAssumption ==
    /\ Joiners \subseteq Players \ {Host} /\ Leavers \subseteq Players \ {Host}
    /\ Calm \in BOOLEAN /\ MaxTalks \in Nat /\ MaxSteps \in Nat \ {0} /\ MaxInFlight \in Nat

\* Requests (Start, Opened, Options, Pick, Close, Join, StartFailed), and the host's notices.
\* One shape for all: the conversation, the NPC, the step, and a flag: everyone is in it, the
\* host's engine ended it, the option picked is the picker's own.
Msg(type, c, n, s, flag) == [type |-> type, conv |-> c, npc |-> n, step |-> s, flag |-> flag]
Request == [type: {"start", "opened", "options", "pick", "close", "join", "failed"},
            conv: Nat, npc: Npcs \union {None}, step: Nat, flag: BOOLEAN]
Notice == [type: {"start", "open", "list", "picked", "closed", "refused"},
           conv: Nat, npc: Npcs \union {None}, step: Nat, flag: BOOLEAN]

VARIABLES
    conn,        \* each player: "none", "open", "closed"
    talks,       \* talks to an NPC so far
    \* each game's DialogueService
    conv,        \* m_conversation
    npc,         \* m_npcSessionId
    step,        \* m_step
    joined,      \* m_joined
    opening,     \* m_opening
    listStep,    \* m_listStep
    shownStep,   \* m_shownStep
    asked,       \* GuestDialogue::m_asked
    \* its engine
    speaker,     \* MenuTopicManager's speaker
    menu,        \* the dialogue menu: "closed", "coming", "open"
    shows,       \* what the menu has to pick from: nothing (a pick, or no list yet), its
                 \* engine's own list, the party's
    \* the host's game
    heard,       \* HostConversation::m_speaker
    greeter,     \* m_greeter
    awaiting,    \* m_awaitingList
    menuEnds,    \* the bridge's SetMenuCloseEnds: closing the menu ends the engine's conversation
    \* the channels
    requests, notices,
    \* the host's HostDialogue
    talk,        \* m_conversation
    lastTalk,    \* m_lastId
    hostAsked    \* m_asked

screenVars == <<listStep, shownStep, shows>>
serviceVars == <<conv, npc, step, joined, opening>>
engineVars == <<speaker, menu>>
hostGameVars == <<heard, greeter, awaiting, menuEnds>>
gameVars == <<talks, serviceVars, screenVars, asked, engineVars, hostGameVars>>
ruleVars == <<talk, lastTalk, hostAsked>>
vars == <<conn, gameVars, requests, notices, ruleVars>>

NoTalk == [id |-> 0, npc |-> None, step |-> 0, players |-> {}, listed |-> FALSE]
NotAsked == [player |-> None, npc |-> None]
Members == {p \in Players : conn[p] = "open"}
Guests == Players \ {Host}

TypeOK ==
    /\ conn \in [Players -> {"none", "open", "closed"}] /\ talks \in 0 .. MaxTalks
    /\ conv \in [Players -> Nat] /\ npc \in [Players -> Npcs \union {None}]
    /\ step \in [Players -> 0 .. MaxSteps]
    /\ joined \in [Players -> BOOLEAN] /\ opening \in [Players -> BOOLEAN]
    /\ listStep \in [Players -> 0 .. MaxSteps] /\ shownStep \in [Players -> 0 .. MaxSteps]
    /\ asked \in [Players -> Npcs \union {None}]
    /\ shows \in [Players -> {"nothing", "engine", "party"}]
    /\ speaker \in [Players -> Npcs \union {None}]
    /\ menu \in [Players -> {"closed", "coming", "open"}]
    /\ heard \in Npcs \union {None} /\ greeter \in Npcs \union {None}
    /\ awaiting \in BOOLEAN /\ menuEnds \in BOOLEAN
    /\ requests \in [Players -> Seq(Request)] /\ notices \in [Players -> Seq(Notice)]
    /\ talk \in [id: Nat, npc: Npcs \union {None}, step: 0 .. MaxSteps, players: SUBSET Players,
                 listed: BOOLEAN]
    /\ lastTalk \in Nat
    /\ hostAsked \in [player: Players \union {None}, npc: Npcs \union {None}]

Init ==
    /\ conn = [p \in Players |-> IF p \in Joiners THEN "none" ELSE "open"] /\ talks = 0
    /\ conv = [p \in Players |-> 0] /\ npc = [p \in Players |-> None]
    /\ step = [p \in Players |-> 0] /\ joined = [p \in Players |-> FALSE]
    /\ opening = [p \in Players |-> FALSE] /\ shows = [p \in Players |-> "nothing"]
    /\ listStep = [p \in Players |-> 0] /\ shownStep = [p \in Players |-> 0]
    /\ asked = [p \in Players |-> None] /\ speaker = [p \in Players |-> None]
    /\ menu = [p \in Players |-> "closed"]
    /\ heard = None /\ greeter = None /\ awaiting = FALSE /\ menuEnds = TRUE
    /\ requests = [p \in Players |-> <<>>] /\ notices = [p \in Players |-> <<>>]
    /\ talk = NoTalk /\ lastTalk = 0 /\ hostAsked = NotAsked

Sends(p, msgs) == requests' = [requests EXCEPT ![p] = @ \o msgs]
When(condition, msgs) == IF condition THEN msgs ELSE <<>>
\* The host's own game waits for the rules' answer to its calls, and nothing comes between.
HostIdle == requests[Host] = <<>>

-----------------------------------------------------------------------------
\* The host's rules (HostDialogue).

\* Tell: the messages, to those of a set who are in the session.
Tell(who, msgs) == notices' = [q \in Players |-> IF q \in who \intersect Members
                                                 THEN notices[q] \o msgs ELSE notices[q]]
ListNow(t) == Msg("list", t.id, None, t.step, FALSE)
ClosedNow(t) == Msg("closed", t.id, None, 0, FALSE)

\* Mutant: only those in it hear of the end.
EndToldTo(t) == t.players
ToldOfEnd(t) == Players

\* Merge: the step's list once more to everyone in it.
Merge(t) == Tell(t.players, When(t.listed, <<ListNow(t)>>))

OnStart(p, n) ==
    \/ talk # NoTalk /\ talk.npc = n /\ UNCHANGED <<notices, ruleVars>>
    \/ /\ talk # NoTalk /\ talk.npc # n
       /\ Tell({p}, <<Msg("refused", 0, n, 0, FALSE)>>)
       /\ UNCHANGED ruleVars
    \/ /\ talk = NoTalk
       /\ hostAsked' = [player |-> p, npc |-> n]
       /\ Tell({Host}, <<Msg("start", 0, n, 0, FALSE)>>)
       /\ UNCHANGED <<talk, lastTalk>>

\* The host's game has a conversation: it replaces the last; who asked for it is in it, or, the
\* NPC having greeted the party, everyone else.
OnOpened(n, everyone) ==
    /\ lastTalk' = lastTalk + 1
    /\ talk' = [NoTalk EXCEPT !.id = lastTalk + 1, !.npc = n, !.step = 1,
                   !.players = IF everyone THEN Members \ {Host}
                               ELSE {p \in {hostAsked.player} : hostAsked.npc = n}]
    /\ hostAsked' = NotAsked
    /\ notices' = [q \in Players |->
           IF q \in Members
           THEN notices[q] \o When(talk # NoTalk /\ q # Host, <<ClosedNow(talk)>>)
                           \o <<Msg("open", lastTalk + 1, n, 0, everyone)>>
           ELSE notices[q]]

OnOptions(p, m) ==
    IF talk.id # 0 /\ m.conv = talk.id /\ m.step = talk.step /\ p = Host
    THEN /\ talk' = [talk EXCEPT !.listed = TRUE]
         /\ Merge(talk')
         /\ UNCHANGED <<lastTalk, hostAsked>>
    ELSE UNCHANGED <<notices, ruleVars>>

\* Mutant: a list already picked from is picked from again.
SaysStale(p, m) == m.conv = talk.id /\ p \in talk.players /\ m.flag
\* A pick is said at the current step, once its list is there, by a player in it whose it is.
Says(p, m) == m.conv = talk.id /\ m.step = talk.step /\ talk.listed /\ p \in talk.players /\ m.flag

ListBack(p) == p \in talk.players /\ talk.listed

OnPick(p, m) ==
    IF talk # NoTalk /\ Says(p, m)
    THEN /\ talk' = [talk EXCEPT !.step = @ + 1, !.listed = FALSE]
         /\ Tell(Players, <<Msg("picked", talk.id, None, talk.step + 1, FALSE)>>)
         /\ UNCHANGED <<lastTalk, hostAsked>>
    ELSE /\ Tell({p}, When(talk # NoTalk /\ m.conv = talk.id /\ ListBack(p), <<ListNow(talk)>>))
         /\ UNCHANGED ruleVars

\* Mutant: the last one out leaves it open.
LastOutNever(p) == FALSE
LastOut(p) == talk.players = {p}

\* Leave: the conversation ends with its last player; else its options leave the list.
LeaveTalk(p) ==
    CASE p \notin talk.players -> UNCHANGED <<notices, talk>>
      [] LastOut(p) -> talk' = NoTalk /\ Tell(ToldOfEnd(talk), <<ClosedNow(talk)>>)
      [] OTHER -> talk' = [talk EXCEPT !.players = @ \ {p}] /\ Merge(talk')

OnClose(p, m) ==
    /\ CASE talk # NoTalk /\ p = Host /\ m.flag ->
              talk' = NoTalk /\ Tell(ToldOfEnd(talk) \ {Host}, <<ClosedNow(talk)>>)
         [] talk # NoTalk /\ ~(p = Host /\ m.flag) /\ m.conv = talk.id -> LeaveTalk(p)
         [] OTHER -> UNCHANGED <<notices, talk>>
    /\ UNCHANGED <<lastTalk, hostAsked>>

OnJoin(p, m) ==
    IF talk # NoTalk /\ m.conv = talk.id /\ p \notin talk.players
    THEN /\ talk' = [talk EXCEPT !.players = @ \union {p}]
         /\ Merge(talk')
         /\ UNCHANGED <<lastTalk, hostAsked>>
    ELSE UNCHANGED <<notices, ruleVars>>

OnStartFailed(p, n) ==
    IF p = Host /\ hostAsked # NotAsked /\ hostAsked.npc = n
    THEN /\ Tell({hostAsked.player}, <<Msg("refused", 0, n, 0, FALSE)>>)
         /\ hostAsked' = NotAsked
         /\ UNCHANGED <<talk, lastTalk>>
    ELSE UNCHANGED <<notices, ruleVars>>

HostReads(p) ==
    /\ p \in Members /\ requests[p] # <<>>
    /\ HostIdle \/ p = Host
    /\ requests' = [requests EXCEPT ![p] = Tail(@)]
    /\ LET m == Head(requests[p]) IN
       \/ m.type = "start" /\ OnStart(p, m.npc)
       \/ m.type = "opened" /\ OnOpened(m.npc, m.flag)
       \/ m.type = "options" /\ OnOptions(p, m)
       \/ m.type = "pick" /\ OnPick(p, m)
       \/ m.type = "close" /\ OnClose(p, m)
       \/ m.type = "join" /\ OnJoin(p, m)
       \/ m.type = "failed" /\ OnStartFailed(p, m.npc)
    /\ UNCHANGED <<conn, gameVars>>

-----------------------------------------------------------------------------
\* Every game (DialogueService and its role).

Busy(p) == Len(requests[p]) >= MaxInFlight

\* What Update does with the menu a game shows (DialogueService::OnUpdate).
MenuOpen(p) == menu[p] = "open"
InIt(p) == MenuOpen(p) /\ conv[p] # 0 /\ speaker[p] = npc[p]
StillOpening(p) == opening[p] /\ ~MenuOpen(p) /\ speaker[p] = npc[p]
Joins(p) == InIt(p) /\ ~joined[p]
GoesOut(p) == ~MenuOpen(p) /\ ~StillOpening(p) /\ joined[p] /\ conv[p] # 0
StaysJoined(p) == InIt(p) \/ (joined[p] /\ (MenuOpen(p) \/ StillOpening(p)))
ShowsList(p) == MenuOpen(p) /\ StaysJoined(p) /\ listStep[p] # 0 /\ listStep[p] = step[p]
                /\ shownStep[p] # step[p]
SpeakerChanged == speaker[Host] # heard
Unseated(p) == p # Host /\ MenuOpen(p) /\ conv[p] = 0

UpdateDue(p) ==
    \/ Joins(p) \/ GoesOut(p) \/ ShowsList(p) \/ Unseated(p)
    \/ joined[p] # StaysJoined(p) \/ opening[p] # StillOpening(p)
    \/ p = Host /\ (SpeakerChanged \/ menuEnds # (conv[Host] = 0))

\* Nothing of anyone's is under way.
Settled ==
    \A p \in Members : requests[p] = <<>> /\ notices[p] = <<>> /\ ~UpdateDue(p) /\ menu[p] # "coming"
NothingBegun == Settled /\ ~awaiting /\ hostAsked = NotAsked /\ \A p \in Members : asked[p] = None

\* A player talks to an NPC: in the conversation under way its menu opens, else a guest's game
\* asks the host's.
GuestTalks(p, n) ==
    /\ HostIdle /\ p \in Guests \intersect Members /\ ~Busy(p) /\ menu[p] = "closed" /\ ~GoesOut(p)
    /\ talks < MaxTalks /\ talks' = talks + 1
    /\ \/ /\ conv[p] # 0 /\ n = npc[p]
          /\ speaker' = [speaker EXCEPT ![p] = n]
          /\ menu' = [menu EXCEPT ![p] = "coming"]
          /\ UNCHANGED <<asked, requests>>
       \/ /\ ~(conv[p] # 0 /\ n = npc[p])
          /\ Calm => NothingBegun
          /\ asked' = [asked EXCEPT ![p] = n]
          /\ Sends(p, <<Msg("start", 0, n, 0, FALSE)>>)
          /\ UNCHANGED engineVars
    /\ UNCHANGED <<conn, serviceVars, screenVars, hostGameVars, notices, ruleVars>>

\* The host's player talks to an NPC, or an NPC greets it: only while its engine's conversation
\* has no menu and the party is in it does no other start (HostConversation::OnTalk, OnStartAsked).
MayStart(n) == conv[Host] = 0 \/ speaker[Host] = None \/ MenuOpen(Host) \/ n = speaker[Host]

HostTalks(n, greet) ==
    /\ HostIdle /\ (MenuOpen(Host) => greet) /\ ~GoesOut(Host)
    /\ talks < MaxTalks /\ talks' = talks + 1
    /\ \/ /\ ~greet /\ conv[Host] # 0 /\ n = speaker[Host] /\ menu[Host] = "closed"
          /\ menu' = [menu EXCEPT ![Host] = "coming"]
          /\ UNCHANGED <<speaker, greeter>>
       \/ /\ greet \/ conv[Host] = 0 \/ n # speaker[Host]
          /\ MayStart(n) /\ menu[Host] # "coming"
          /\ Calm => NothingBegun
          /\ greeter' = IF greet THEN n ELSE None
          /\ speaker' = [speaker EXCEPT ![Host] = n]
          /\ menu' = [menu EXCEPT ![Host] = IF MenuOpen(Host) THEN @ ELSE "coming"]
    /\ UNCHANGED <<conn, serviceVars, screenVars, asked, heard, awaiting, menuEnds, requests,
                   notices, ruleVars>>

\* A menu asked for is there, or a guest's show was dropped.  The host's starts with its engine's
\* list, a guest's with the party's (OnListBuilt).
PartyList(p) == conv[p] # 0 /\ listStep[p] # 0 /\ listStep[p] = step[p]
FirstList(p) == IF p = Host THEN "engine" ELSE IF PartyList(p) THEN "party" ELSE "nothing"
MenuComes(p) ==
    /\ HostIdle /\ menu[p] = "coming"
    /\ \/ /\ menu' = [menu EXCEPT ![p] = "open"]
          /\ shows' = [shows EXCEPT ![p] = FirstList(p)]
       \/ p # Host /\ menu' = [menu EXCEPT ![p] = "closed"] /\ UNCHANGED shows
    /\ UNCHANGED <<conn, talks, serviceVars, listStep, shownStep, asked, speaker, hostGameVars,
                   requests, notices, ruleVars>>

\* A player closes its menu: its engine's conversation ends with it, but not the host's, once
\* its game's update found the party in it (SetMenuCloseEnds).
MenuCloses(p) ==
    /\ HostIdle /\ MenuOpen(p) /\ ~Busy(p) /\ ~Joins(p) /\ ~(p = Host /\ SpeakerChanged)
    /\ Calm /\ p = Host => conv[Host] # 0
    /\ menu' = [menu EXCEPT ![p] = "closed"]
    /\ speaker' = [speaker EXCEPT ![p] = IF p = Host /\ ~menuEnds THEN @ ELSE None]
    /\ UNCHANGED <<conn, talks, serviceVars, screenVars, asked, hostGameVars, requests, notices, ruleVars>>

EndsHere(p) ==
    /\ speaker' = [speaker EXCEPT ![p] = None]
    /\ menu' = [menu EXCEPT ![p] = "closed"]

\* A goodbye, the NPC walking off, combat.
EngineEnds ==
    /\ HostIdle /\ speaker[Host] # None
    /\ Calm => conv[Host] # 0
    /\ EndsHere(Host)
    /\ UNCHANGED <<conn, talks, serviceVars, screenVars, asked, hostGameVars, requests, notices, ruleVars>>

\* A player picks an option its menu shows; its game keeps it from another player's only once it
\* showed it the step's list.
Picks(p) ==
    /\ HostIdle /\ p \in Members /\ conv[p] # 0 /\ joined[p] /\ MenuOpen(p) /\ shows[p] # "nothing"
    /\ step[p] < MaxSteps
    /\ shows' = [shows EXCEPT ![p] = "nothing"]
    /\ \E own \in BOOLEAN :
         /\ shownStep[p] = step[p] => own
         /\ Sends(p, <<Msg("pick", conv[p], None, step[p], own)>>)
    /\ UNCHANGED <<conn, talks, serviceVars, listStep, shownStep, asked, engineVars, hostGameVars,
                   notices, ruleVars>>

\* The NPC has answered: the host's engine built the next step's list.
Options(c, s) == Msg("options", c, None, s, FALSE)
EngineLists ==
    /\ HostIdle /\ awaiting /\ speaker[Host] # None
    /\ awaiting' = FALSE
    /\ shows' = [shows EXCEPT ![Host] = IF MenuOpen(Host) THEN "engine" ELSE @]
    /\ Sends(Host, When(conv[Host] # 0, <<Options(conv[Host], step[Host])>>))
    /\ UNCHANGED <<conn, talks, serviceVars, listStep, shownStep, asked, engineVars, heard, greeter,
                   menuEnds, notices, ruleVars>>

\* NotifyDialogueStart: the host's game runs it without its menu, or cannot.
OnHostStart(m) ==
    /\ \/ /\ speaker[Host] = None
          /\ speaker' = [speaker EXCEPT ![Host] = m.npc]
          /\ UNCHANGED requests
       \/ /\ Sends(Host, <<Msg("failed", 0, m.npc, 0, FALSE)>>)
          /\ UNCHANGED speaker
    /\ UNCHANGED <<serviceVars, screenVars, asked, menu, heard, greeter, awaiting, menuEnds>>

\* Mutant: the menu that cannot open is not told of.
LeavesWhenItCannotNever(c) == <<>>
LeavesWhenItCannot(c) == <<Msg("close", c, None, 0, FALSE)>>

\* A guest's game: who asked, and everyone an NPC greeted, opens its menu on its copy, or leaves.
OpensHere(p, m) ==
    \/ /\ asked[p] # m.npc /\ ~m.flag
       /\ joined' = [joined EXCEPT ![p] = FALSE] /\ opening' = [opening EXCEPT ![p] = FALSE]
       /\ UNCHANGED <<engineVars, requests>>
    \/ /\ asked[p] = m.npc \/ m.flag
       /\ joined' = [joined EXCEPT ![p] = TRUE] /\ opening' = [opening EXCEPT ![p] = TRUE]
       /\ speaker' = [speaker EXCEPT ![p] = m.npc]
       /\ menu' = [menu EXCEPT ![p] = IF MenuOpen(p) THEN @ ELSE "coming"]
       /\ UNCHANGED requests
    \/ /\ asked[p] = m.npc \/ m.flag
       /\ joined' = [joined EXCEPT ![p] = FALSE] /\ opening' = [opening EXCEPT ![p] = FALSE]
       /\ IF speaker[p] = m.npc THEN EndsHere(p) ELSE UNCHANGED engineVars
       /\ Sends(p, LeavesWhenItCannot(m.conv))

OnOpen(p, m) ==
    /\ conv' = [conv EXCEPT ![p] = m.conv] /\ npc' = [npc EXCEPT ![p] = m.npc]
    /\ step' = [step EXCEPT ![p] = 1]
    /\ listStep' = [listStep EXCEPT ![p] = 0] /\ shownStep' = [shownStep EXCEPT ![p] = 0]
    /\ asked' = [asked EXCEPT ![p] = None]
    /\ IF p = Host
       THEN /\ joined' = [joined EXCEPT ![p] = FALSE] /\ opening' = [opening EXCEPT ![p] = FALSE]
            /\ awaiting' = FALSE
            /\ Sends(p, When(speaker[Host] # None, <<Options(m.conv, 1)>>))
            /\ UNCHANGED engineVars
       ELSE OpensHere(p, m) /\ UNCHANGED awaiting
    /\ UNCHANGED <<shows, heard, greeter, menuEnds>>

\* Mutant: a list its menu showed already is not shown again.
ShownAlready(p) == shownStep[p]
\* The same step again (a pick not said, a player in or out): the menu shows it again.
ShownAgain(p) == 0

OnList(p, m) ==
    /\ m.conv = conv[p]
    /\ listStep' = [listStep EXCEPT ![p] = m.step]
    /\ shownStep' = [shownStep EXCEPT ![p] = ShownAgain(p)]
    /\ UNCHANGED <<serviceVars, shows, asked, engineVars, hostGameVars, requests>>

\* The host's game says the line; if it cannot, its last list is the next step's.
OnPicked(p, m) ==
    /\ m.conv = conv[p]
    /\ step' = [step EXCEPT ![p] = m.step]
    /\ shows' = [shows EXCEPT ![p] = IF MenuOpen(p) /\ joined[p] THEN "nothing" ELSE @]
    /\ \E said \in BOOLEAN :
         LET again == p = Host /\ ~said IN
         /\ again => speaker[Host] # None
         /\ awaiting' = IF p = Host THEN said ELSE awaiting
         /\ Sends(p, When(again, <<Options(conv[p], m.step)>>))
    /\ UNCHANGED <<conv, npc, joined, opening, listStep, shownStep, asked, engineVars, heard, greeter,
                   menuEnds>>

OnClosed(p, m) ==
    /\ m.conv = conv[p]
    /\ conv' = [conv EXCEPT ![p] = 0]
    /\ joined' = [joined EXCEPT ![p] = FALSE] /\ opening' = [opening EXCEPT ![p] = FALSE]
    /\ EndsHere(p)
    /\ menuEnds' = IF p = Host THEN TRUE ELSE menuEnds
    /\ UNCHANGED <<npc, step, screenVars, asked, heard, greeter, awaiting, requests>>

OnRefused(p, m) ==
    /\ asked' = [asked EXCEPT ![p] = IF @ = m.npc THEN None ELSE @]
    /\ UNCHANGED <<serviceVars, screenVars, engineVars, hostGameVars, requests>>

GameReads(p) ==
    /\ HostIdle /\ p \in Members /\ notices[p] # <<>>
    /\ notices' = [notices EXCEPT ![p] = Tail(@)]
    /\ LET m == Head(notices[p]) IN
       \/ m.type = "start" /\ OnHostStart(m)
       \/ m.type = "open" /\ OnOpen(p, m)
       \/ m.type = "list" /\ OnList(p, m)
       \/ m.type = "picked" /\ OnPicked(p, m)
       \/ m.type = "closed" /\ OnClosed(p, m)
       \/ m.type = "refused" /\ OnRefused(p, m)
       \/ /\ m.type \in {"list", "picked", "closed"} /\ m.conv # conv[p]
          /\ UNCHANGED <<serviceVars, screenVars, asked, engineVars, hostGameVars, requests>>
    /\ UNCHANGED <<conn, talks, ruleVars>>

\* DialogueService::OnUpdate, then the role's.  The host's game reports that its engine's
\* conversation began, or turned to another NPC, or ended.
JoinOrLeave(p) ==
    When(Joins(p), <<Msg("join", conv[p], None, 0, FALSE)>>)
    \o When(GoesOut(p), <<Msg("close", conv[p], None, 0, FALSE)>>)

ShowsNow(p) ==
    /\ shownStep' = [shownStep EXCEPT ![p] = IF ShowsList(p) THEN step[p] ELSE @]
    /\ shows' = [shows EXCEPT ![p] = IF ShowsList(p) THEN "party" ELSE @]
    /\ UNCHANGED listStep

HostUpdate ==
    LET began == SpeakerChanged /\ speaker[Host] # None
        ended == SpeakerChanged /\ speaker[Host] = None /\ conv[Host] # 0
    IN
    /\ HostIdle /\ UpdateDue(Host)
    /\ opening' = [opening EXCEPT ![Host] = StillOpening(Host)]
    /\ joined' = [joined EXCEPT ![Host] = StaysJoined(Host) /\ ~began /\ ~ended]
    /\ conv' = [conv EXCEPT ![Host] = IF began \/ ended THEN 0 ELSE @]
    /\ Sends(Host, JoinOrLeave(Host)
          \o When(began, <<Msg("opened", 0, speaker[Host], 0, speaker[Host] = greeter)>>)
          \o When(ended, <<Msg("close", conv[Host], None, 0, TRUE)>>))
    /\ heard' = speaker[Host]
    /\ menuEnds' = (conv'[Host] = 0)
    /\ IF began \/ ended THEN UNCHANGED screenVars ELSE ShowsNow(Host)
    /\ UNCHANGED <<conn, talks, npc, step, asked, engineVars, greeter, awaiting, notices, ruleVars>>

GuestUpdate(p) ==
    /\ HostIdle /\ p \in Guests \intersect Members /\ UpdateDue(p)
    /\ opening' = [opening EXCEPT ![p] = StillOpening(p)]
    /\ joined' = [joined EXCEPT ![p] = StaysJoined(p)]
    /\ Sends(p, JoinOrLeave(p))
    /\ ShowsNow(p)
    /\ IF Unseated(p) THEN EndsHere(p) ELSE UNCHANGED engineVars
    /\ UNCHANGED <<conn, talks, conv, npc, step, asked, hostGameVars, notices, ruleVars>>

\* A menu the UI never opened: after 60 updates this game leaves.
OpeningLate(p) ==
    /\ HostIdle /\ StillOpening(p) /\ menu[p] = "closed"
    /\ EndsHere(p)
    /\ UNCHANGED <<conn, talks, serviceVars, screenVars, asked, hostGameVars, requests, notices, ruleVars>>

\* A join after the start, and a guest that leaves (HostDialogue::OnPlayerLeft).
Join(p) ==
    /\ HostIdle /\ conn[p] = "none"
    /\ Calm => NothingBegun /\ talk = NoTalk
    /\ conn' = [conn EXCEPT ![p] = "open"]
    /\ UNCHANGED <<gameVars, requests, notices, ruleVars>>

Leave(p) ==
    /\ HostIdle /\ p \in Leavers /\ conn[p] = "open"
    /\ Calm => asked[p] = None
    /\ conn' = [conn EXCEPT ![p] = "closed"]
    /\ requests' = [requests EXCEPT ![p] = <<>>]
    /\ conv' = [conv EXCEPT ![p] = 0] /\ npc' = [npc EXCEPT ![p] = None] /\ step' = [step EXCEPT ![p] = 0]
    /\ joined' = [joined EXCEPT ![p] = FALSE] /\ opening' = [opening EXCEPT ![p] = FALSE]
    /\ listStep' = [listStep EXCEPT ![p] = 0] /\ shownStep' = [shownStep EXCEPT ![p] = 0]
    /\ asked' = [asked EXCEPT ![p] = None] /\ shows' = [shows EXCEPT ![p] = "nothing"]
    /\ EndsHere(p)
    /\ hostAsked' = IF hostAsked.player = p THEN NotAsked ELSE hostAsked
    /\ LeaveTalk(p)
    /\ UNCHANGED <<talks, hostGameVars, lastTalk>>

Next ==
    \/ \E p \in Players : \/ HostReads(p) \/ GameReads(p) \/ GuestUpdate(p)
                          \/ MenuComes(p) \/ MenuCloses(p) \/ Picks(p) \/ OpeningLate(p)
                          \/ Join(p) \/ Leave(p)
    \/ \E p \in Players, n \in Npcs : GuestTalks(p, n)
    \/ \E n \in Npcs, greet \in BOOLEAN : HostTalks(n, greet)
    \/ EngineEnds \/ EngineLists \/ HostUpdate

Spec == Init /\ [][Next]_vars

-----------------------------------------------------------------------------
\* Properties.

\* Once nothing is under way, the players the rules have in the conversation are those whose
\* game takes itself to be in it (docs/design/shared-dialogue.md: "HostDialogue keeps the
\* players in it; when the last one leaves it ends the conversation").
SeatsAgree ==
    Settled => talk.players = {p \in Members : joined[p] /\ conv[p] # 0}

\* Once nothing is under way, everyone in it is at the same step and, when the step has its
\* list, every menu shows it: none is left on a pick that was not said, or on its engine's own.
MenusShowTheList ==
    Settled => \A p \in talk.players :
        /\ conv[p] = talk.id /\ step[p] = talk.step
        /\ talk.listed /\ MenuOpen(p) => shows[p] = "party"

\* No game stays in a conversation that is over: its end, or a newer one, is on its way.
EndIsHeard ==
    \A p \in Members : conv[p] # 0 /\ conv[p] # talk.id =>
        \E i \in DOMAIN notices[p] : LET m == notices[p][i] IN
            \/ m.type = "closed" /\ m.conv = conv[p]
            \/ m.type = "open" /\ m.conv > conv[p]

\* Once nothing is under way, a conversation is one the host's engine runs and someone is in;
\* else nobody could talk to anyone (docs/design/shared-dialogue.md: "The conversation ends only
\* when the last player in it leaves, or when the host's engine ends it").
TalkIsRun ==
    Settled /\ talk # NoTalk => speaker[Host] = talk.npc /\ talk.players # {}
=============================================================================
