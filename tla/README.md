# SkyrimCoop in TLA+

SkyrimCoop (`Code/` of the repository) puts a party of players into one game of Skyrim: the *host's* game runs the
world, every other player's game (a *guest's*) shows copies of what the host's game runs and reports what its own
player does. The host decides; the decisions are made in `Code/client/Services/Host/*`, one class per rule, out of
requests each game sends, and come back as notices. This directory holds specifications of those protocols, their
model-checking runs, and proofs.

All paths below are relative to `Code/client/Services/` unless they start otherwise. `PROJECT.json` maps every
definition that models code to its lines.

## 1. The system

### How a session works

* One game is the host. `Host/HostNetwork` listens; every guest has one reliable, **ordered** connection to it
  (ENet). The host's own game is in the host's process: `TransportService::ConnectLocal` makes its requests reach the
  rules at once, before anything else happens, while notices to it wait for its next update like anyone's.
* `Host/HostAuthority` is the front door: it drops what a connection that is not a player sends, and everything once
  the party is wiped, and dispatches the rest to the rules. When a connection closes it tells each rule, in a fixed
  order.
* Each game reads what arrived in its update, once a frame. Between two updates its engine moves on: loads, fights,
  menus and deaths happen there and the services only see their result.
* There are no threads to speak of in the modelled parts: the hazards are **asynchrony** (two sides deciding on what
  they last heard), **order** (a message of an earlier fall, wait, conversation or place arriving in a later one) and
  **players coming and going** in the middle of something.

### Components

| Component | State it keeps | Operations | What makes it right | Here |
|---|---|---|---|---|
| Party death (`HostDeath`, `DeathService`) | each player's fall number and posture as the host believes; every character's fight; the recovery timer; "wiped". Each game: its player's fall and posture | death reports, AI states, arrivals, leaves, ticks; respawns, the wipe | no respawn during a fight or for an older fall; no wipe with a player standing; a recovery happens in the end | `PartyDeath` |
| Party tether (`HostCharacters`, `TravelService`, `CharacterService`) | where each player was last, who is ahead, the party's travel; each game: its queued move, its tether targets, its copies | announcements, arrivals, travels, follows, sending on, joins, leaves, discovery | everyone ends up with the host, with a copy of everyone and of the actors there, and no copy of those gone | `PartyTravel` |
| Shared wait and sleep (`HostWait`, `WaitService`, `GuestWait`, `WaitBridge`) | the wait, its id, who is ready, hours left; each game: its part of it, its menu, its own rest | ask, ready, progress, cancel, fail; load, join, leave; two timeouts; rows of the world afterwards | nobody rests alone, or stays in a paused menu; every rest is completed | `PartyWait` |
| Shared dialogue (`HostDialogue`, `HostConversation`, `DialogueService`, `GuestDialogue`) | the one conversation, its step, list and players; the asker; each game: conversation, step, menu | start, refuse, open, list, pick, join, close, end | the rules and the games agree on who is in it; no menu without a list; ends and refusals are heard | `SharedDialogue` |
| Sessions (`HostSession`, `HostPlayers`) | the players | join, refuse, leave | a newcomer gets everyone, everyone gets it | `PartyTravel`, `JoinFlow` |
| AI state (`AiStateService`) | last state sent of each actor | report on change | - | combat part, in `PartyDeath` |
| Mount ownership (`HostCharacters`, `CharacterService`) | who owns the horse; each game: whether it simulates it, thinks that its player rides it, keeps it for the party and loaded | get on, get off, moved away, hand back, leave | one game simulates it, its rider's; it is kept while ridden and goes back as it was | `Mounts` |
| Dropped items (`HostItems`, `HostWorldState`, `GuestWorldState`, the two engines) | waiting drops, drops made; the host's references, what the guests were told of; each game: what it shows, its own drops, its twins | drop, make, adopt, pick up, grant, create, delete, a cell's state, leave | an item is in one place and has one taker; no game shows one that is gone; an asked-for object is settled | `DroppedItems`, `PartyItems`; containers not |
| Held objects | holder and tick of each object | take, move, release | late unreliable frames take nothing back | planned |
| Joins, save transfer, reloads (`JoinService`, `SessionService`, `HostSession`, `HostSaveTransfer`, `HostServiceReload`) | each game's join step and world; the receivers and their blocks, the checkpoint, requests kept during a reload | join, ask, blocks, load, place, retry, reconnect, time out, quit; the host's load, its checkpoint, its failure | who plays is in the host's world and both sides agree who plays; each join is answered and ends; a load comes | `JoinFlow` |
| Natives on a player, slowed time, followers' trades | open calls; wanted and told scale; trade locks | call/answer/leave; set/leave; open/close | each call answered once; scale = the slowest; no lock outlives its menu | planned |
| Crime, aggro, purse, world state, clock, weather, story, relayed actor values, magic, equipment | values | relay | the last value wins | not planned: one writer, few decisions |
| Network, wire encoding | connections and their slots | connect, lose, notice | ordered reliable delivery; round trips | the listener's slots in `JoinFlow`; delivery is assumed, the encodings have unit tests |
| Engine layer (`Code/client/Games`, `Bridges`, `Hooks`), launcher, loader, UI, tools | - | - | - | not modelled: pure input/output and patches of the engine; what the modelled services need of a bridge is an action of the environment |

`PROJECT.json` lists them all with their sources, and under `hazards` where each can go wrong.

### What is hard here

1. A message of an earlier **fall**, **wait**, **conversation** or **place** is read in a later one. The code guards with
   generations and ids; the models let every channel hold such messages.
2. Two players act at once: two leaders travel, both cancel, both pick.
3. A player joins or leaves while others are between two states (in a load, in a countdown, asking for a talk).
4. Something must still happen in the end: a recovery, being together, getting one's menu back, the host's load, a join's
   end, an answer about an object.
5. A game's own engine contradicts the protocol: its player uses a door while being taken along, its menu is not
   shown, it dies before it is known, a load takes its player off a horse.
6. The two ends of a connection notice its end at different times, and the slot it had is used again.

## 2. The modules

Every module has one action per handler and per thing the environment does. Its channels are one sequence per player
each way (`requests`, `notices`), and a handler reads the head. `HostIdle` (`PartyWait`, `SharedDialogue`) is the local
connection: while the host's game has a request to be handled, nothing else happens.

### PartyDeath
`HostDeath` (`party`, `body`, `known`, `respawning`, `ai`, `targets`, `recovery`, `combat`, `wiped`) and each game's
`DeathService` (`down`, `gen`, `respawn`) with its announcement and AI reports. `Reconsider` is the decision made after
every change and is part of each of the handlers that call it. `OnDeath`, `OnAiState`, `OnAnnounce`, `Update`, `Left` are
the host's handlers; `GoDown`, `OnUpdate`, `SendAi`, `OnRespawn`, `OnRespawnArrival`, `OnPartyDeath` the games'.
`DropRequest` is the front door after the wipe. Left out: the camera, chat lines, the kill's author, where beside the
anchor a player appears, and the host's reload after the wipe. A recovery's seconds are ticks.

### PartyTravel
`HostCharacters` (`bodies`, `place`, `ahead`, `brought`, `partyTravel`, `actors`), `TravelService` (`at`, `queued`,
`targets`) and `CharacterService`'s copies (`copies`, `npcs`). Places are interiors and cells on a line with a grid
reach, so that "around" is a relation and not equality. Four facts of the code are built in:
the host discovers its actors before its next load (the hook holds each load for an update); `TravelService` hears of
an update before `CharacterService` (`World.cpp` connects them in this order); a game makes no copy out of its grid
(it deletes it at creation); an announcement always precedes the player's arrival request. Walking, repositioning by
presence, re-announcement, looks, headings and mounts are left out. NPCs are one group per place.

### PartyWait
`HostWait` (`wait`, `lastId`, `completed`), `WaitService` and `WaitBridge` of each game (`id`, `left`, `steps`,
`pending`, `cancelling`, `ready`, `running`, `finished`; `menu`, `begun`, `rest`), `GuestWait` (`worldId`, `worldDue`,
`owed`). A connection lost is noticed on each end by itself (`HostLosesGuest`, `GameLosesHost`). A late joiner is a
member before its character has entered. Hours stand for seconds; both timeouts may fire at any time, so no property
depends on their length. Left out: who sleeps, the calendar, `Refused` (the hook asks for 1 to 24 hours only), rows held
for a placement, and the suspension of the stall timer during a wipe's reload.

### SharedDialogue, MCSharedDialogue
`HostDialogue` (`talk`, `lastTalk`, `hostAsked`), `DialogueService` of each game (`conv`, `npc`, `step`, `joined`,
`opening`, `listStep`, `shownStep`), `HostConversation` (`heard`, `greeter`, `awaiting`, `menuEnds`), `GuestDialogue`
(`asked`), and the engine's conversation and menu of each game (`speaker`, `menu`, `shows`). A step's list is there or
not; a pick is of an option of the picker's own or not. Left out: what a list holds and the merge, the highlight, skipping,
bartering, chat lines, greetings' lines. `MCSharedDialogue` adds the
symmetry of the NPCs (and of the guests) for TLC.

### JoinFlow, MCJoinFlow
A guest's game from its own world to the host's and back: `JoinService`'s steps (`kConnecting` to `kPlaced`),
`TransportService`'s connection and `SessionService`'s end of a session are one record per guest (`game`); the host's
listener is a set of slots (`peer`, `alive`) taken first free first, so that a new connection may get the slot of one whose end
the host has not read. The gate (`HostSession::OnAuthentication`) refuses a player without a character, everything else
about it being right. The save travels as `Blocks` blocks with the world it is of, and `Assembly::Add` starts over when a
block of another save comes. `HostServiceReload` is `HostLoads`, the checkpoint, `WriteAndLoad` and its outcome, with the
requests it keeps. A **world** is a number: 0 a game's own, and each load of the host's makes the next, so "rolls back"
is an equation. `excused` and `Ghosts` are history for the divergences of section 4. `MCJoinFlow` adds the guests' symmetry.
Left out: packing and the block cache, the character's file, Steam's lobby and tunnel, the window of the transfer, chat.

### DroppedItems, PartyItems, MCDroppedItems
`DroppedItems` has the host's game (`world`, `deleted`, the engine's `log` of creations, `out`: `m_created`, what the
guests were told of), `HostItems` (`pending`, `made`), `HostWorldState`'s waiting cell requests (`cells`), and of each guest
what it shows, its unanswered drops (`own`), its twins (`created`), `taken`, and the main loop tasks object changes
wait in. `Update` keeps the order of `HostAuthority::Update`: `HostWorldState` before `HostItems`, so a drop made in an update is
told in the next. A pickup on the host's side is its engine's own, gated by `HookPickUpObject`'s look at `IsDeleted`.
`PartyItems` is what it promises: an item is with one player, or loose, or lost; who takes a loose one has it. `OneTaker`
is the refinement, `at` being computed from everything that holds an item or is on its way to a holder. `MCDroppedItems` gives
the starts: a guest's sword and an item of a mod the host lacks, or a quest's item. Left out: counts, extra data, containers,
moves of what rests, the reuse of a form id; more cells than one.

### Mounts
The host's rule (`owner`) and each game's books (`simulates`, `ridden`, `party`, `kept`, `lifetime`), with the engine's truth
(`saddle`). A horse every game knows; actors that are no players also ride, their horses stay the host's, and they are left
out, as are the horse's placement at a dismount, a player who joins while another rides (party-travel.md names that as open), and a mount the
engine refuses after its hook has told of it (`Actor.cpp`). A player that leaves is gone on both ends at once, here and in `PartyDeath` and `PartyTravel`;
`JoinFlow` and `PartyWait` have the two ends apart.

### The proof modules
`PartyDeathProofs`, `MountsProofs`, `PartyWaitProofs`, `PartyTravelProofs`,
`DroppedItemsProofs`, `JoinFlowProofs` and `SharedDialogueProofs` extend the module they are about; section 5 says what they prove.
`ChannelFacts` holds the lemmas on channels the later ones share: what is in one after a message is put in or the oldest is taken,
and that the first and last message of a kind exist; for `SharedDialogue` also what a game comes to by reading all of a channel.

## 3. The runs

Bounds are constants or guards named "bound" where they are declared. All runs switch deadlock checking off: a bounded
session ends when its bounds are used up.

| Run | Instance | Shows |
|---|---|---|
| `PartyDeath` | host, one guest that may leave, one NPC that fights the guest and may be removed, the host's own fights; two falls each, one unread message before a player acts again | types; the timer never runs through a fight; once read, the host believes the truth; a respawn is for this very fall; a wipe only with everyone down |
| `PartyDeathLive` | the same with one fall and no removal, fair | a recovery nobody hinders happens; a joiner becomes known |
| `PartyTravel` | three players, host and a guest lead, two guests join anywhere and one may leave; an interior and a place outdoors, two travels | with nothing under way all are with the host, with copies of everyone and of the actors there; no ghost copies |
| `PartyTravelLive` | two players, four places (two interiors, two stretches of the outdoors out of each other's grid), two travels, the guest free to use its doors, fair | the travels over, the party comes together for good; its players see each other, though a copy made out of its cell is gone |
| `PartyWait` | host and a guest that may leave and load, two waits of two hours, a cancel, both timeouts, fair | a rest runs only when all are ready for it; rows owed are on their way; each rest is completed; every menu comes back |
| `SharedDialogue` | host, a guest that joins late and may leave, two NPCs, two talks begun one after another, two steps | seats agree, menus show the list, ends are heard, a conversation is run and has someone in it |
| `JoinFlow` | two guests, two slots, joins, breaks, retries and quits, and the host's load of an older save | who plays is in the host's world; both sides agree who plays; who waits has something coming |
| `JoinFlowLive` | one guest with two tries to reconnect, the host's session may end, fair | the host's load comes; each join ends |
| `JoinFlowRollback` | one guest | **violated**, section 4 |
| `DroppedItems` | host, two guests (one may leave), a sword, an item the host lacks or a quest's, two drops, one waiting at most, the cell loaded or not | types, one place, nothing gone is shown; `PartyItems` is implemented |
| `DroppedItemsLive` | the sword, one drop, a second guest that joins late, fair | an asked-for object is settled |
| `Mounts` | host, two guests (one may leave), three rides, players moved away in between | one game simulates the horse, its rider's; every game keeps it while a guest rides; it goes back as it was |

**Why these bounds.** The protocols compare a message with the *current* fall, wait, conversation or place: the
interesting cases need one earlier one of each, hence two falls, waits, talks, travels, drops, rides and saves. The
host and one guest are the two roles of every rule; a third player is there where two guests can disagree about each
other (the tether) or want the same thing (an item, a horse, a slot). One unread message before a player acts again still leaves any number in the other channels and one
stale message in its own. With one talk more `SharedDialogue` was run once (8.5 million states), with the same result;
with two guests and one NPC the first 17 million states showed no violation, but they are not all of its states, so the
case of two guests in one conversation is explored and not exhausted.
Every property of a passing run also has a mutant of the code it must catch (`PROJECT.json`, `mutants`): a generation compared the wrong way, a
list not sent back, a removal not told, a reset forgotten. The mutants stand beside the definitions they change.

**What separates a regime.** A property that fails in the code in one rare regime is still worth checking in
the rest. `MeetingJoins` (no join while the party travels), `PatientGuests` (no own door while being taken along),
`Removable` and `Calm` (talks begin one at a time and are not cut off before they have an id) are constants; a newer wait that overtakes
a step (`RestIsComplete`), `excused` and `Ghosts` (`JoinFlow`), `brief` and `shared` (`Mounts`) are said in the properties. Each is
a divergence of section 4, and the model still has the behaviour unless a constant takes it out. A passing run says nothing of what its
constants take out: section 4 gives the instance that has the behaviour and refutes the property.

**Fairness.** The host runs its rules and reads in every frame, a game reads and updates in every frame, a queued move
is loaded, a closed connection is noticed, and a timeout in the code fires: weak fairness of each. `PartyDeath` also has
strong fairness of a recovery with the host's own player placed: it fails while the host loads, and a load ends. `JoinFlow` has a timeout's end
of every step that waits, the host's load and its outcome; `DroppedItems` the host's update, both sides' reading, and a guest's main
loop tasks; nothing is assumed of the host's game ever coming back to the cell.
Nothing is assumed of players, fights, menus becoming ready, or native steps.

## 4. Divergences

**A joining guest can miss the rollback** (run `JoinFlowRollback`, `HostServiceReload.cpp:76`). The checkpoint goes to the players and
to joins that still receive the save. A guest that has the whole older save, and loads, places or asks, or that is
reconnecting, is neither. It asks plainly, its request is kept in `m_reloadJoins`, and `OnGameLoaded` takes it into the new session with the
old world, though `docs/design/host-loads.md` says that a load "rolls back every game to that save". A guest that reconnects and gives
the try up before it has read that it was taken in comes to the same (`MissesRollback`): it is dropped with the checkpoint unread, and tries
again with the world it has.

The others have no run of their own; each was found as a counterexample, and the constant or the clause named here is all that
keeps it out of a passing run.

1. **A second ask hides the first** (`Host/HostDialogue.cpp:98`; `SharedDialogue` with `Calm = FALSE`, three players, two NPCs, one step).
   `HostDialogue` keeps one ask. When a second guest's start for another NPC is read before the host's game has taken up the first, and the
   host's game cannot make the first, `OnStartFailed` finds another NPC in `m_asked` and tells nobody: a "failed" on its way to the
   host names what `asked` says of a player and `hostAsked` does not. `docs/design/shared-dialogue.md` says "Every refusal reaches the
   asker as `NotifyDialogueRefused`". The asker's game goes on thinking it asked until a conversation opens; if that is with the NPC it
   asked for, its menu opens though someone else began it.
2. **A follower's own door leaves a tether target behind** (`Generic/TravelService.cpp:124`; `PartyTravel` with
   `PatientGuests = FALSE`, two players, three travels: `EveryoneIsWithTheHost`). A guest that the tether sends to A and then to B, and
   that takes its own door to A, arrives as a follower. B stays in `m_tetherTargets` with no move that leads there, so every further
   travel to B looks under way: the host sends it on, and it stays at A. `HostCharacters.h` says "everyone is where the host is, or on the way
   there". It takes three travels; `PartyTravelLive` leaves the guest its doors because with two it always comes back.
3. **A join between a guest's arrival and the host's** (`Host/HostCharacters.cpp:344`; `PartyTravel` with
   `MeetingJoins = FALSE`, one travel: `EveryoneSeesEveryone`). A guest leads and has arrived, the host is still to load, and a third
   player joins where the host is: it is with the host and the guest is not, so neither is told of the other; the host's arrival is a
   follower's, which takes nobody along. Guest and joiner have no copies of each other, though `docs/design/copy-contract.md` says that such
   a copy "lives as long as that player is in the session", and the joiner stays behind until the next travel.
4. **A wait begun at once drops the last step of the one before** (`Generic/WaitService.cpp:109`; `RestIsComplete` with
   `id'[p] # id[p]` for `id'[p] = 0` and `0 \in {rest[p], rest'[p]}`). A guest's last step and the end wait for its game's update; the host's game asks again, and
   `OnState` takes the new wait at once and clears both. The guest's player has not completed its rest, though
   `docs/design/shared-wait-sleep.md` says "Every game starts and completes its own native wait/sleep".
5. **A removed NPC's fight holds up the recovery** (`Host/HostCharacters.cpp:136`; `PartyDeathLive` with `Removable = {11}`). `OnRemoveCharacter`
   does not tell `HostDeath`; its `Reconsider` waits for the next report of anyone. `docs/design/death.md` promises the recovery ten seconds
   after the last fight.
6. **The greeter is never forgotten** (`Host/HostConversation.cpp:160`). After an NPC has greeted the party, a guest's ask for
   the same NPC opens everyone's menu: `m_greeter` "until it opens" outlives the opening, and a guest's start does not
   pass the filter that would replace it.
7. **Joins** (`excused` in `SameWorld` and `Answered`, `Ghosts` in `ReloadComes`). `JoinService::Fail` closes a connection only if it is
   open, so a dial that outlives its step connects later, at step idle, and is taken in with its own world
   (`JoinService.cpp:145`). `SessionService::m_finished` is reset by `OnConnected` only, so quitting to the menu during a later join does nothing.
   `m_reloadJoins` keeps requests of connections that ended, and a slot is used again: an old request is answered to
   another connection, whose refusal for want of a character disconnects it while its own request, read after, makes it a player nobody is
   behind. A load that fails with `kNoSave` leaves requests kept in that frame unanswered.
8. **Horses** (`brief` and `shared` in `RiderHasIt`, `Restored`). A player that gets off, on and off again before the first getting off is
   answered reports the last one to nobody: `OnNotifyDismount` has cleared `m_riddenMount`. The host has the horse down as that player's until the
   next ride or arrival. Getting on and off takes the engine seconds, a round trip a fraction of one.
9. **Items.** A drop forgotten past `kMaxPending` still shows in its dropper's game, which can no longer take it (`OnePlace` lets it
   be lost). A grant on its way to a guest that leaves is lost with it. A grant read before the task that makes its twin leaves a twin until the
   deletion is read. If the host's player could reach for a reference in the frame that made it, the dropper would keep a second
   one; the model takes that frame out.

With `Calm` off, `SharedDialogue` shows more narrow windows: a conversation the engine ends before the host's game has
seen it begin is told to nobody, its asker included; a guest whose
ask crosses the host's own talk with that NPC takes itself to be in a conversation that ended (`SeatsAgree`);
a conversation whose engine ends it before the host's game knows its id stays open in the rules, though
`HostDialogue::OnClose` says such an end is sent (`TalkIsRun`); and after two turns of the host in
that window a game may be in an older one for a while (`EndIsHeard`). An asker that leaves before its conversation opens
leaves one nobody is in.

What the runs confirm is as useful: the send-on in `HostCharacters::OnArrival`, commented "Not seen or reproduced yet",
is needed. Without it `EveryoneIsWithTheHost` fails in a few steps (its mutant).

## 5. Proofs

Each theorem below is about `Spec` and holds for every value of the constants the module's assumptions admit. Three
ideas recur. **A channel is read by its meaning**: an invariant says of the messages on their way what the reader will
make of them. **A handler's effect is stated once**: a lemma says what a handler changes, of whom, and the invariant's
parts are then proved from that lemma and not from the handler. **Notices go to a set of players**: a lemma per kind of telling
says what each channel holds after it.

### PartyDeath
`PartyDeathProofs`:

* `TypeCorrect`: `[]TypeOK`, which is inductive as it stands; one step per action, and
  lemmas on channels (`SendAllType`, `ReadType`, `NoticeReadType`) and on the two decisions several handlers share
  (`ReconsiderType`, `RespawnType`).
* `TimerRunsInCalm`: `[]TimerOnlyInCalm`. The recovery timer is set only while everybody is known, someone
  is down, and no standing player fights, by the owners' last word. `TypeOK /\ TimerOnlyInCalm` is inductive: every handler
  that changes what the timer waits for ends in `Reconsider`, whose outcome satisfies the property whatever held before
  (`ReconsiderCalm`); a step that leaves party and fights alone keeps it (`CalmStays`); the one change without a
  `Reconsider`, an NPC removed, only ends fights (`RemovalCalms`), which is also why that omission is a matter of
  liveness (divergence 5) and not of safety.

For the falls, a fall and its rising are counted by one number, the `Rank` of (generation, posture). `FallsInv` says that the
reports in a channel come in the order of their ranks, between the host's belief and the game's truth, which are one fall apart at most
(`BodyOK`, `ReportsOK`); that up to the wipe none is missing (`Complete`: every rank between the two is in the channel); and that a respawn
on its way is for the fall the host holds, unless that one is over, and one being followed for exactly that one (`NoticesOK`, `RespawnOK`).
The two halves need each other: a game rises only by a respawn, so its rank runs ahead of the host's only as
far as the host let it. From it:

* `HostBelievesTheGame`: `[]BelievesTheGame`.
* `RespawnFollowsItsFall`: `[]RespawnIsForThisFall`.
* `WipeFindsEveryoneDown`: the action property `WipeIsEveryonesFall`.

### Mounts
`MountsProofs`:

* `OneGameSimulates`: `[]OneSimulates`. The property speaks of quiet states only, so it is not inductive. `HorseInv` is:
  it says of each game what the *last* notice on its way will make of it (`WillSimulate`, or the game's present state if none is
  on its way), and that this holds for the owner's game and no other (`Settles`). The host's handlers keep it because every notice goes to
  everybody whose game it changes (`HandleSettles`, `LeaveSettles`), reading because only the last notice counts
  (`ReadingSettles`, from `LastOfTail`), and a guest's own requests because they change nothing until the host reads them.
* `RiddenHorseIsKept`: `[]Accompanied`. `AccompanyInv` adds to `HorseInv` the same for the books a game keeps a horse
  by: while the owner is a guest, a game keeps the horse or the last notice on its way to it is of a mount (`Keeps`); and before a notice
  that gives a player the horse its game does not have it (`Announced`), so that reading that one takes the branch that keeps it.
* `RiderHasTheHorse`: `[]RiderHasIt`, and `HorseIsRestored`: `[]Restored`. `RideInv` says how far a request or a notice can lag
  behind a player while `brief` is false. A player the horse is being given to sits on it (`GivenOK`), and one whose game takes it for
  riding sits on it or was moved off (`RiddenOK`). A guest has at most a giving back and an asking on their way, in that order (`AsksOK`),
  and if the horse is its by the rule, it gives it back or its game will know that it rides (`OwnOK`). The last word on a horse
  that is the host's and that the host does not ride is a dismount, or the reader has just got on (`BackOK`). `NotedInv` is about the
  lifetime a game notes: it is the one of the game's own data.
* `TypeCorrect`: `[]TypeOK`. The horse's owner is always in the session; the proof is split into the channels (`ChannelsOK`)
  and the games' books (`BooksOK`).

### PartyWait
`PartyWaitProofs` proves the types first (`AllTypes`, with the messages a channel may hold), then `WaitInv`: `HostOK` for the rule and
`PlayerOK` for each game. Its parts say which ids may be where (`IdsOK`, `OrderOK`: none is past `lastId`, and new waits come in
order, each after the one the game is in and what it has said), what a game's own flags have to do with each other (`ServiceOK`, `RestFollows`, `RunningOK`),
what a readiness the host counts rests on (`WordOK`: the game holds to it or its stop is on its way), that the latest word of the rule is
on its way to a game that has an older one (`LastIsComing`), and where a waiting guest's rows are (`RowsOK`). From it:

* `TypeCorrect`: `[]TypeOK`; `RestIsShared`: `[]RunsTogether`; `RowsAreNeverForgotten`: `[]RowsAreOnTheirWay`.
* `EveryoneRests`: the action property `RestIsComplete`.

### PartyTravel
`PartyTravelProofs`:

* `TypeCorrect`: `[]TypeOK`, from `AllTypes`: the host's books hold members only, whoever leaves while its
  requests are unread.
* `NobodyLingers`: `[]NoGhosts`. `GhostInv` adds where the removal is: a player that a game has a copy of and
  that is gone has its removal on its way (`Gone`), and so has one that an announcement on its way still names, *after* that
  announcement (`Owed`). The second is needed because the first alone is broken by reading the announcement.
* `ActorsAreSeen`: `[]EveryoneSeesTheActors`, for any map and party, with joins during travels and guests' own doors. The property speaks of quiet
  states; `ActorsInv` says of each guest what its channels will come to. The last arrival it still has to tell of is the one that put it
  where it is (`TellsLast`). Once it has told of all (`Untold`), the host has it where it is; and if that is with the host, whose actors
  are announced there, what it has yet to read leaves it with those actors (`WillHave`): it has them and nothing on its way takes them, or
  they are on their way with nothing behind them that does. The host keeps this because an arrival is answered with the actors if they are there
  already, and the discovery after its own arrival tells everyone with it otherwise.

### DroppedItems
`DroppedItemsProofs`:

* `TypeCorrect`: `[]TypeOK`, with the rule's queue within `kMaxPending`.
* `ItemsAreOnce`: `[]OnePlace`. `ItemsInv` is `AllTypes`, `Ownership` and `OneAt` of every item. `Ownership` says whose a
  reference is on each stage of its way: a reference the host knows was made by a drop there was (`KnownHost`); what waits belongs to a guest that
  still holds it as its own (`WaitsOwned`); of each guest, its drops are asked once, an answer comes when nothing else of that drop is under
  way, what the host's game lacks is granted to its dropper alone, and what it shows is its own drop or named as the host's (`GuestInv`); two
  guests' drops are apart until the host's game has made them (`Apart`). The places an item can be at are one set, and every action moves at most one item from one
  place to another or to none (`OneMoves`).
* `ItemsArePromised`: the refinement. Each action is a pickup from the world, a drop, a loss, or leaves `at` alone, so
  the rule and the games implement `PartyItems` (`OneTaker`).
* `ShownIsThere`: `[]ShownIsReal`, from `ItemsInv` and `RealInv`, which says of a busy game what `ShownIsReal` says of a quiet one.
  The host's game knows what is there once, by its log or as told (`HostKeeps`). What a game has as the host's was told to guests, or is
  its own drop made since the last update, or its deletion or its grant is under way (`MineReal`); until guests are told only the dropper has
  it (`Logged`), and what guests were told of is with a game, on its way to it, or in the cell's state it waits for (`AllTold`, `NewsOut`).
  The hard part is order. A deletion must not be followed by a creation or an answer that names the same reference, on the wire or in
  the main loop's tasks (`InOrder`): this needs that a reference a game was told of has its drop made and answered (`Past`, `PublicInv`), so
  that what a later step creates or answers is none of those. And a deletion, or a grant that names an object, must not meet the drop it is of, still
  unanswered (`Unowned`), or it would leave the dropper's own reference shown.

`std::erase_if` on a queue needs the kept positions counted in order (`Counted`); that is an induction over data, which is out of
the prover's reach, and is done instead by taking a smallest counterexample in a well-founded order. `ChannelFacts` finds first and
last messages in the same way.

### JoinFlow
`JoinFlowProofs`:

* `TypeCorrect`: `[]TypeOK`. `BothSidesAgree`: `[]PlayersAgree`. `JoinInv` is types of listener, reload and games, plus `Seats`: a slot has at
  most one game; a slot that is free has no row in the host's books and nothing on its way to it (`Free`); and of a slot its game still takes for its own
  (`Seated`), a player's game counts itself in or its "accepted" is on its way, and a game that is no player is out of the session with none
  coming, or has its "kicked" on its way. `Shape` ties a game's connection to its step: no connection, no slot and no session. That a slot is empty before it is used
  again is what makes the property survive the reuse that divergence 7 is about.
* `EveryoneInTheHostsWorld`: `[]SameWorld`. `WorldInv` says where everyone goes: once a load that is asked for has its save (`Settled`), to
  that save's world, otherwise to the host's (`Goal`). What the host sends is that save (`SendsGoal`); a game that loads, or that is to ask to join
  as it is (`Plainly`: after loading, or to reconnect), goes there or is there (`Heads`). Of the connection a game still holds (`Row`): a request not
  answered yet is all there is of it, and asks plainly exactly if the game is where it goes (`Requests`); a game that asked plainly hears
  "accepted" first, or that the load failed (`Hears`); only a reload sends a player a save (`Reloads`). The heart is `Carries`: a block of a save
  still on its way is of the right one unless a reload comes after it (`Overtaken`), and no overtaken block is a save's last, so no game ever
  has all of an old save. That is why the reload must go to those being sent a save too, not only to the players. While the host loads
  nobody plays and nothing is sent (`LoadHolds`), which is what lets every request kept meanwhile be answered in the new world.
  What it leaves to the excuses is listed in section 4: with them the theorem holds for every number of tries, while a run with a single try never
  reaches the retry after a timeout in which a reload is missed (`MissesRollback` in `Timeout`). Looking for the invariant found that case.

* `NobodyWaitsForNothing`: `[]Answered`. `RepliesInv` says what comes to a game the host knows (`Replied`): one that checks or receives has its
  request under way, or it is `Busy`: blocks are left to send, or what settles its request is on its way; while it checks and nothing of its
  request is left, what it reads next is the start of the save or a refusal, so that no block is taken as an answer; one that
  asked plainly hears something. That something must not be a block of a save meant for an earlier wait: it has no block on its way
  that is not behind a `reload` (`AfterReload`), and behind a reload it is busy again (`Reloading`), which is what carries a player through the host's load.
  `ReachedInv` is the rest: a game that holds a slot is heard by the host or the word of its end is on its way, and no two games hold
  one. It is what the property needs after the host has left, when there is no rule any more to answer.

A first attempt failed for a reason worth keeping: several CASEs of `JoinFlow` had overlapping guards. TLC takes the first that is true,
TLA+ promises any, so the theorem was not about what TLC checked. The guards now exclude each other, in the order of the code's `if`s.

### SharedDialogue
`SharedDialogueProofs`:

* `TypeCorrect`: `[]TypeOK`, strengthened by what is sent (`Asks`, `Tells`): a pick leaves room for the step after it, and the host's
  game names an NPC when its engine's conversation began.
* `GuestsHearTheEnd`, of the guests' games and with no hypothesis: `EndInv` says of each conversation a game is in, *or is yet to open*, that
  it is the current one or that its end, or a newer one, is behind it in what the game has to read (`ComesTo`); without the
  second half, reading an "open" that is over already breaks the property. A handler of the rules does one of four things (`HandlerDoes`): nothing new, it opens the next
  conversation and tells everyone in the session of both, or it ends it and tells everyone, or everyone but the host.
* `EverybodyHearsTheEnd`: `[]EndIsHeard`, the host's game included, while talks begin one at a time (`Calm`). The fourth outcome is why `Calm`
  is needed: the host is not told of its own engine's end, so its game must be out of the conversation already, and nothing may be opening.
  `HostInv` says so: one opens at a time, meanwhile the host's game is in none and its engine stays with the NPC, and while the word of
  its engine's end is on its way nothing opens. With two talks at once an end crosses an opening and this fails, as section 4 says.
* `TheTalkIsRun`: `[]TalkIsRun`, with `Calm`, from `TalkInv`. Its parts: whose game
  asked has its ask on its way, in the host's hands, or the answer on its way (`AskInv`); an ask the rules keep is one the host's game is to
  read, cannot do, has turned its engine to or has said is open, and while one waits the engine is free for that NPC and nothing
  opens (`StartInv`), so it ends in one conversation or one refusal; what is still to read before it is neither (`PendInv`). Every
  game is in the conversation under way or is to read of it, or is the host's and is saying that its engine left (`KnowInv`), and
  the host's is in one with the NPC it heard its engine is with (`RunInv`). A conversation nobody is in is one the host's own menu is
  about to join, or its game is about to say is over (`EmptyInv`): last out is not the only way to be empty, an opened one is before its
  host joins. Each is checked by TLC before; `PendInv` was found by the proof, where reading an old answer would have lost the ask.

* `TheSeatsAgree`: `[]SeatsAgree`, and `TheMenusShowTheList`: `[]MenusShowTheList`, both with `Calm`, for any players, late joins and leaves. They speak of quiet
  states, so the invariants say what a game and its whole channel will come to:
  * `FreshInv`: no answer is behind an ask while a conversation begins, and an ask has one answer.
  * `SeatInv`: once the rules have read all a player says, they have it in the conversation as its game takes itself to be
    (`Tallies`). A game that is yet to read the opening has said nothing of it, and is in it exactly if it asked or all were greeted.
  * `StepInv`: each game comes to the rules' step. The last opening or pick it has to read is of that step (`StepsTo`), and no list of an
    earlier step is read at it (`Fresh`): a menu is never filled with the answers to a question already left.
  * `ListInv`: once a step's list is there, whoever is in the conversation and has joined the session is out or saying so, has the list on its way
    behind the step, has asked for something after which the list comes again, or has it, shown or shown at its next update
    (`Lists`). The host's own menu gets it from the engine's options instead (`HostComes`).

  What a tail, an append or a broadcast does to `Tallies`, `StepsTo` and `Fresh` is proved once, for any channel, in `ChannelFacts`.

### What is assumed, and what is not proved
The assumptions are named in the modules that declare the constants and evaluated by TLC in the runs:
`PartyDeath` (ids are positive, NPCs are no players, the host is one, the bounds are naturals), `PartyTravel` (the host is a player and does not
leave, interiors, starts and joins are places, `Nowhere` is none), `PartyWait` (the host is a player and does not leave, `Hours` is of the 1 to 24 the menu
offers), `DroppedItems` (the host is no guest, latecomers do not leave, an item starts with somebody whose game has it), `Mounts` (the host is no guest),
`SharedDialogue` (the host is a player, neither joins late nor leaves; `None` is no player and no NPC; the bounds are naturals, with one step at least) and
`JoinFlow` (slots are positive, 0 being none; a save has a block and a reconnect a try; `Nobody` is no guest).
None says how many players, items, slots or waits there are, or that they are finitely many.

Only model-checked:

* All liveness: the prover has no rule for fairness, and `ENABLED` is out of its reach.
* `PartyTravel`: `EveryoneIsWithTheHost` and `EveryoneSeesEveryone`. They need a meaning for whole channels of travels, arrivals and
  announcements of several players at once, and hold only with patient guests and no joins under way (section 4).

## 6. Not modelled, and the plan

Proofs next: **PartyTravel**'s two other properties of a quiet party, from what a whole channel of travels and announcements
makes of its reader.

Still to model: held objects (`HostHands`, `BodyService`: unreliable frames against a reliable release), natives on a player
(each call answered once), followers' trades, slowed time. They are small rules beside the ones here. Container transfers are one
request with one answer each.

Not to be modelled: the bulk of the repository is the engine's layout, its hooks and bridges (`Games`, `Bridges`, `Hooks`), launcher, tools,
interface and tests. It has no protocol state: what the services see of it is an action of the environment here. Crime,
purse, weather, clock, globals, quests and the relayed actor values have one writer each, and the last value read wins.
