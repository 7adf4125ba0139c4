---------------------------- MODULE DroppedItems ----------------------------
(***************************************************************************)
(* The party's loose items: a player's drop, the host's rule (HostItems)   *)
(* and its game (HostEngine, HostWorldState), and a guest's game           *)
(* (GuestWorldState, GuestEngine, the hooks of PlayerCharacter).           *)
(*                                                                         *)
(* Abstractions.  One cell, which every guest has loaded from when it      *)
(* joins and the host's game loads and leaves.  Counts, extra data and     *)
(* placements are left out.  A reference, in the dropper's game its tag    *)
(* and in the host's its object, is the item with the number of its drop:  *)
(* form ids are not used again.  A player does not reach for a reference   *)
(* of the host's game in the frame that made it.                           *)
(***************************************************************************)
EXTENDS Integers, FiniteSets, SequencesExt

CONSTANTS
    Guests,         \* the guests
    Host,           \* the host's player
    Late,           \* bound: the guests that join late
    Leavers,        \* bound: the guests that may leave
    Items,          \* what can be dropped
    Quest,          \* items of a quest, which the host's game dropped
    Foreign,        \* items the host's game lacks
    Starts,         \* which items are in play, and the player that holds each at first
    Elsewhere,      \* the host's game may leave the cell
    kMaxPending,    \* HostItems::kMaxPending
    MaxDrops,       \* bound: drops
    MaxWire         \* bound: unread requests of a guest that still acts

Players == Guests \union {Host}

ASSUME PlayersAssumption ==
    Host \notin Guests /\ Late \subseteq Guests /\ Leavers \subseteq Guests \ Late
ASSUME ItemsAssumption ==
    /\ Quest \union Foreign \subseteq Items /\ Quest \intersect Foreign = {}
    /\ \A s \in Starts : /\ DOMAIN s \subseteq Items
                         /\ \A i \in DOMAIN s : s[i] \in IF i \in Quest THEN {Host}
                                                         ELSE IF i \in Foreign THEN Guests ELSE Players
ASSUME BoundsAssumption ==
    /\ Elsewhere \in BOOLEAN /\ kMaxPending \in Nat \ {0} /\ MaxDrops \in Nat /\ MaxWire \in Nat

References == Items \X (1..MaxDrops)

\* The item of a reference.
Of(r) == r[1]

\* A guest's own references: the one its player's drop made, and the one it made for the host's.
Own(r) == <<r, "drop">>
Twin(r) == <<r, "create">>
Handles == References \X {"drop", "create"}

VARIABLES
    here,       \* the guests the host's rules know (HostPlayers)
    inv,        \* each player's inventory
    drops,      \* drops so far
    \* the host's game
    loaded,     \* it has the cell
    world,      \* its references in the cell
    deleted,    \* those deleted by TakeItem, still in the engine's hands
    log,        \* made since the last update (EngineLog::Created)
    out,        \* the created references the guests were told of (HostEngine::m_created)
    \* the host's rule
    pending,    \* m_pending: drops that wait for the cell, oldest first
    made,       \* m_made: the guests' drops made here, by dropper
    cells,      \* HostWorldState::m_pendingCells: guests that wait for the cell's state
    \* a guest's game
    shown,      \* its handles in the cell
    own,        \* m_ownDrops: dropped here, not answered yet
    created,    \* m_created: the handles that are the host's references here
    taken,      \* m_taken: twins picked up before the host's deletion came
    tasks,      \* object changes for its main loop
    \* the wire
    up,         \* each guest's unread requests
    down,       \* the unread notices to each guest
    \* history
    forgotten,  \* references whose drop the host forgot
    start       \* the items in play, and who held each

host == <<loaded, world, deleted, log, out>>
rule == <<pending, made, cells>>
history == <<forgotten, start>>
game == <<shown, own, created, taken, tasks>>
vars == <<here, inv, drops, host, rule, game, up, down, history>>

\* A PickUpRequest names the tag or the object; a DropItemRequest its tag; a CellStateRequest nothing here.
Request(type, r, tagged) == [type |-> type, ref |-> r, tagged |-> tagged]
NoReference == <<>>
Requests == [type: {"drop", "take", "cell"}, ref: References \union {NoReference}, tagged: BOOLEAN]

\* A message's rows: the references deleted, then those created, no matter in which order.
Rows(gone, new) == [gone |-> gone, new |-> new]
NoRows == Rows({}, {})

\* NotifyItemDropped (object: the host made it), NotifyPickUp (object, tagged: what it names),
\* NotifyObjectChanges (rows: deletions and creations).
Dropped(r, object) == [type |-> "dropped", ref |-> r, object |-> object, tagged |-> TRUE, rows |-> NoRows]
PickUp(r, object, tagged) == [type |-> "pickup", ref |-> r, object |-> object, tagged |-> tagged, rows |-> NoRows]
Changes(rows) == [type |-> "changes", ref |-> NoReference, object |-> FALSE, tagged |-> FALSE, rows |-> rows]

TellsHere(rows) == [g \in Guests |-> IF g \in here THEN Append(down[g], Changes(rows)) ELSE down[g]]

\* Those of s that satisfy a test (are in S), in their order: SelectSeq, without recursion.
Only(s, S) ==
    LET kept == {n \in DOMAIN s : s[n] \in S}
        order == CHOOSE f \in [1 .. Cardinality(kept) -> kept] :
                     \A a, b \in DOMAIN f : a < b => f[a] < f[b]
    IN  [n \in 1 .. Cardinality(kept) |-> s[order[n]]]

Init ==
    /\ here = Guests \ Late
    /\ start \in Starts
    /\ inv = [p \in Players |-> {i \in DOMAIN start : start[i] = p}]
    /\ drops = 0
    /\ loaded = TRUE /\ world = {} /\ deleted = {} /\ log = {} /\ out = {}
    /\ pending = <<>> /\ made = {} /\ cells = {} /\ forgotten = {}
    /\ shown = [g \in Guests |-> {}]
    /\ own = shown /\ created = shown /\ taken = shown
    /\ tasks = [g \in Guests |-> <<>>]
    /\ up = tasks /\ down = tasks
-----------------------------------------------------------------------------
(* The host's game. *)

\* The host's player drops an item: the engine's creation hook logs its reference.
HostDrops(i) ==
    /\ loaded /\ i \in inv[Host] /\ drops < MaxDrops
    /\ LET r == <<i, drops + 1>> IN
        /\ world' = world \union {r}
        /\ log' = log \union {r}
    /\ inv' = [inv EXCEPT ![Host] = @ \ {i}]
    /\ drops' = drops + 1
    /\ UNCHANGED <<here, loaded, deleted, out, rule, game, up, down, history>>

\* HookPickUpObject refuses a reference deleted already: the engine would hand it out again.
MayPickUpAny(r) == TRUE      \* a deleted reference is picked up too
MayPickUp(r) == r \notin deleted

\* The host's player picks one up: its engine's own pickup.
HostPicksUp(r) ==
    /\ loaded /\ r \in world \ log /\ MayPickUp(r)
    /\ world' = world \ {r}
    /\ inv' = [inv EXCEPT ![Host] = @ \union {Of(r)}]
    /\ UNCHANGED <<here, drops, loaded, deleted, log, out, rule, game, up, down, history>>

\* The host's game loads the cell, or leaves it.
CellLoads ==
    /\ Elsewhere
    /\ loaded' = ~loaded
    /\ UNCHANGED <<here, inv, drops, world, deleted, log, out, rule, game, up, down, history>>

Alive == world \ deleted

\* HostWorldState::SendCellState: the loose references the guests know of, as creations.
CellState == Changes(Rows({}, Alive \intersect out))

(* HostAuthority::Update: HostWorldState sends what the engine's log and m_created say was made   *)
(* and deleted, the deletions first, then the cells' states that waited; then HostItems makes the *)
(* waiting drops of a cell that is loaded.                                                       *)
RemovedPickedUp == out \ world      \* TakeItem's deletion is not told
Removed == out \ Alive
Made == log \intersect Alive
Update ==
    LET rows == Rows(Removed, Made)
        told == IF rows = NoRows THEN down ELSE TellsHere(rows)
        \* the cell's state is read after the log is taken
        state == Changes(Rows({}, Alive \intersect ((out \ Removed) \union Made)))
        celled == [g \in Guests |-> IF loaded /\ g \in cells THEN Append(told[g], state) ELSE told[g]]
        makes == IF loaded THEN pending ELSE <<>>
        answers(g) == Only(makes, {d \in ToSet(makes) : d.player = g})
        refs == {d.ref : d \in {e \in ToSet(makes) : Of(e.ref) \notin Foreign}}
    IN  /\ out' = (out \ Removed) \union Made
        /\ cells' = IF loaded THEN {} ELSE cells
        /\ pending' = IF loaded THEN <<>> ELSE pending
        /\ world' = world \union refs
        /\ log' = refs
        /\ made' = made \union {<<d.player, d.ref>> : d \in {e \in ToSet(makes) : e.ref \in refs}}
        /\ down' = [g \in Guests |-> celled[g] \o
                        [n \in DOMAIN answers(g) |-> Dropped(answers(g)[n].ref, answers(g)[n].ref \in refs)]]

UpdateIsDue == log # {} \/ Removed # {} \/ (loaded /\ (cells # {} \/ pending # <<>>))

HostUpdate ==
    /\ UpdateIsDue
    /\ Update
    /\ UNCHANGED <<here, inv, drops, loaded, deleted, game, up, history>>
-----------------------------------------------------------------------------
(* The host's rule, on a guest's request. *)

\* HostItems::OnDrop: made at once, or it waits for its cell; past kMaxPending the oldest is forgotten.
KeptAll == pending      \* no limit
Kept == IF Len(pending) < kMaxPending THEN pending ELSE Tail(pending)
OnDrop(g, r) ==
    IF loaded
    THEN LET made1 == Of(r) \notin Foreign IN
         /\ world' = IF made1 THEN world \union {r} ELSE world
         /\ log' = IF made1 THEN log \union {r} ELSE log
         /\ made' = IF made1 THEN made \union {<<g, r>>} ELSE made
         /\ down' = [down EXCEPT ![g] = Append(@, Dropped(r, made1))]
         /\ UNCHANGED <<pending, forgotten>>
    ELSE /\ pending' = Append(Kept, [player |-> g, ref |-> r])
         /\ forgotten' = forgotten \union ({d.ref : d \in ToSet(pending)} \ {d.ref : d \in ToSet(Kept)})
         /\ UNCHANGED <<world, log, made, down>>

\* The reference a request is about: its object, or the one made of the asker's own drop.
Asked(g, m) == ~m.tagged \/ <<g, m.ref>> \in made

\* HostItems::OnPickUp: a waiting drop goes back to its dropper, an object of the host's game to
\* whoever asks first; a quest's goes to the host's player.
GivesBackToo(g, m) ==      \* the drop still waits
    /\ m.tagged /\ [player |-> g, ref |-> m.ref] \in ToSet(pending)
    /\ down' = [down EXCEPT ![g] = Append(@, PickUp(m.ref, FALSE, TRUE))]
    /\ UNCHANGED <<inv, world, deleted, made, pending>>
GivesBack(g, m) ==
    /\ m.tagged /\ [player |-> g, ref |-> m.ref] \in ToSet(pending)
    /\ pending' = Only(pending, {d \in ToSet(pending) : ~(d.player = g /\ d.ref = m.ref)})
    /\ down' = [down EXCEPT ![g] = Append(@, PickUp(m.ref, FALSE, TRUE))]
    /\ UNCHANGED <<inv, world, deleted, made>>

TakesItem(g, m) ==
    /\ ~(m.tagged /\ [player |-> g, ref |-> m.ref] \in ToSet(pending))
    /\ made' = IF Asked(g, m) THEN {d \in made : d[2] # m.ref} ELSE made
    /\ LET there == Asked(g, m) /\ m.ref \in Alive
           quest == there /\ Of(m.ref) \in Quest
       IN  /\ world' = IF quest THEN world \ {m.ref} ELSE world
           /\ inv' = IF quest THEN [inv EXCEPT ![Host] = @ \union {Of(m.ref)}] ELSE inv
           /\ deleted' = IF there /\ ~quest THEN deleted \union {m.ref} ELSE deleted
           /\ down' = IF there /\ ~quest
                      THEN [down EXCEPT ![g] = Append(@, PickUp(m.ref, TRUE, m.tagged))] ELSE down
    /\ UNCHANGED pending

OnPickUp(g, m) == GivesBack(g, m) \/ TakesItem(g, m)

\* HostWorldState::OnCellState: the cell's state, or the request waits until the cell is loaded.
OnCellState(g) ==
    /\ cells' = IF loaded THEN cells \ {g} ELSE cells \union {g}
    /\ down' = IF loaded THEN [down EXCEPT ![g] = Append(@, CellState)] ELSE down

HostReads(g) ==
    /\ up[g] # <<>>
    /\ LET m == Head(up[g]) IN
        \/ /\ m.type = "drop" /\ OnDrop(g, m.ref)
           /\ UNCHANGED <<inv, deleted, cells>>
        \/ /\ m.type = "take" /\ OnPickUp(g, m)
           /\ UNCHANGED <<log, cells, forgotten>>
        \/ /\ m.type = "cell" /\ OnCellState(g)
           /\ UNCHANGED <<inv, world, deleted, log, pending, made, forgotten>>
    /\ up' = [up EXCEPT ![g] = Tail(@)]
    /\ UNCHANGED <<here, drops, loaded, out, game, start>>
-----------------------------------------------------------------------------
(* A guest's game. *)

Asks(g, m) == up' = [up EXCEPT ![g] = Append(@, m)]
MaySend(g) == g \in here /\ Len(up[g]) < MaxWire

\* HookDropObject and GuestWorldState::OnItemDropped: its reference shows at once, and the host is
\* asked to make the party's (GuestEngine::ReadDrop).
GuestDrops(g, i) ==
    /\ MaySend(g) /\ i \in inv[g] /\ drops < MaxDrops
    /\ LET r == <<i, drops + 1>> IN
        /\ shown' = [shown EXCEPT ![g] = @ \union {Own(r)}]
        /\ own' = [own EXCEPT ![g] = @ \union {r}]
        /\ Asks(g, Request("drop", r, TRUE))
    /\ inv' = [inv EXCEPT ![g] = @ \ {i}]
    /\ drops' = drops + 1
    /\ UNCHANGED <<here, host, rule, created, taken, tasks, down, history>>

\* GuestEngine::IsPartyItem: the pickup gate.
IsOwn(g, h) == h[1] \in own[g] /\ h[2] = "drop"
IsPartyItem(g, h) == IsOwn(g, h) \/ h \in created[g]

\* HookPickUpObject, a party item: nothing is taken yet, the host is asked, by the tag of a drop it
\* has not answered, else by the object (GuestEngine::ReadPickUp).
GuestAsks(g, h) ==
    /\ MaySend(g) /\ h \in shown[g] /\ IsPartyItem(g, h)
    /\ Asks(g, Request("take", h[1], IsOwn(g, h)))
    /\ UNCHANGED <<here, inv, drops, host, rule, game, down, history>>

\* One its game alone has: picked up as any.
GuestPicksUp(g, h) ==
    /\ g \in here /\ h \in shown[g] /\ ~IsPartyItem(g, h)
    /\ shown' = [shown EXCEPT ![g] = @ \ {h}]
    /\ inv' = [inv EXCEPT ![g] = @ \union {Of(h[1])}]
    /\ UNCHANGED <<here, drops, host, rule, own, created, taken, tasks, up, down, history>>

\* m_created[a handle's object] = the handle, for each of some handles.
Naming(names, handles) == {k \in names : \A h \in handles : k[1] # h[1]} \union handles

\* GuestEngine::AdoptDrop: the dropper's own reference becomes the object's twin; not made: it is this
\* game's alone.
AdoptDropUnnamed(g, m) ==      \* not the object's twin: the creation makes another
    /\ own' = [own EXCEPT ![g] = @ \ {m.ref}]
    /\ UNCHANGED <<created, inv, shown, taken, tasks>>
AdoptDrop(g, m) ==
    /\ own' = [own EXCEPT ![g] = @ \ {m.ref}]
    /\ created' = IF m.object /\ m.ref \in own[g] /\ Own(m.ref) \in shown[g]
                  THEN [created EXCEPT ![g] = Naming(@, {Own(m.ref)})] ELSE created
    /\ UNCHANGED <<inv, shown, taken, tasks>>

\* GuestEngine::PickUp: its twin or its own drop is picked up past the gate; gone or not made here
\* yet, the item itself.
Granted(g, m) ==
    LET twin == {h \in created[g] : m.object /\ h[1] = m.ref}
        drop == {Own(r) : r \in {q \in own[g] : m.tagged /\ q = m.ref}}
        handle == IF drop # {} THEN drop ELSE twin
    IN  /\ created' = [created EXCEPT ![g] = @ \ twin]
        /\ taken' = [taken EXCEPT ![g] = @ \union {h[1] : h \in twin}]
        /\ own' = [own EXCEPT ![g] = @ \ {h[1] : h \in drop}]
        /\ shown' = [shown EXCEPT ![g] = @ \ handle]
        /\ inv' = [inv EXCEPT ![g] = @ \union {Of(m.ref)}]
        /\ UNCHANGED tasks

GuestReads(g) ==
    /\ down[g] # <<>>
    /\ LET m == Head(down[g]) IN
        \/ m.type = "dropped" /\ AdoptDrop(g, m)
        \/ m.type = "pickup" /\ Granted(g, m)
        \/ /\ m.type = "changes"
           /\ tasks' = [tasks EXCEPT ![g] = Append(@, m.rows)]
           /\ UNCHANGED <<inv, shown, own, created, taken>>
    /\ down' = [down EXCEPT ![g] = Tail(@)]
    /\ UNCHANGED <<here, drops, host, rule, up, history>>

\* A main loop task of GuestWorldState::OnObjectChanges: one notice's changes, the deletions first
\* (GuestEngine::ApplyObjectChange), on what this game has of the party's references
\* (FindReference: a live one m_created names).
GuestTask(g) ==
    /\ tasks[g] # <<>>
    /\ LET rows == Head(tasks[g])
           has == created[g] \intersect shown[g]
           gone == {h \in has : h[1] \in rows.gone}
           new == {Twin(r) : r \in {q \in rows.new : \A h \in has \ gone : h[1] # q}}
       IN  /\ shown' = [shown EXCEPT ![g] = (@ \ gone) \union new]
           /\ created' = [created EXCEPT ![g] = Naming(@, new)]
           /\ taken' = [taken EXCEPT ![g] = @ \ {r \in rows.gone : \A h \in has : h[1] # r}]
    /\ tasks' = [tasks EXCEPT ![g] = Tail(@)]
    /\ UNCHANGED <<here, inv, drops, host, rule, own, up, down, history>>

\* A guest joins: its game has the host's saved world, without what was made since, and asks for the
\* cell's state (GuestWorldState::AskCellState).
Join(g) ==
    /\ g \in Late \ here
    /\ here' = here \union {g}
    /\ Asks(g, Request("cell", NoReference, FALSE))
    /\ UNCHANGED <<inv, drops, host, rule, game, down, history>>

\* A guest's connection ends: the host's rules forget it (HostItems::OnPlayerLeft,
\* HostWorldState::OnPlayerLeft), what was under way is lost, and it does not come back.
Leave(g) ==
    /\ g \in Leavers \intersect here
    /\ here' = here \ {g}
    /\ pending' = Only(pending, {d \in ToSet(pending) : d.player # g})
    /\ made' = {d \in made : d[1] # g}
    /\ cells' = cells \ {g}
    /\ inv' = [inv EXCEPT ![g] = {}]
    /\ shown' = [shown EXCEPT ![g] = {}] /\ own' = [own EXCEPT ![g] = {}]
    /\ created' = [created EXCEPT ![g] = {}] /\ taken' = [taken EXCEPT ![g] = {}]
    /\ tasks' = [tasks EXCEPT ![g] = <<>>]
    /\ up' = [up EXCEPT ![g] = <<>>] /\ down' = [down EXCEPT ![g] = <<>>]
    /\ UNCHANGED <<drops, host, history>>
-----------------------------------------------------------------------------
Next ==
    \/ \E i \in Items : HostDrops(i) \/ \E g \in Guests : GuestDrops(g, i)
    \/ \E r \in References : HostPicksUp(r)
    \/ CellLoads
    \/ HostUpdate
    \/ \E g \in Guests :
        \/ HostReads(g) \/ GuestReads(g) \/ GuestTask(g)
        \/ \E h \in shown[g] : GuestAsks(g, h) \/ GuestPicksUp(g, h)
        \/ Join(g) \/ Leave(g)

(* Every game's main loop runs: the host's and each guest's network and tasks are updated every  *)
(* frame, and messages arrive (reliable, in order, while connected).  Nothing makes a player act *)
(* or the host's game come back to a cell.                                                       *)
Fairness ==
    /\ WF_vars(HostUpdate)
    /\ \A g \in Guests : WF_vars(HostReads(g)) /\ WF_vars(GuestReads(g)) /\ WF_vars(GuestTask(g))

Spec == Init /\ [][Next]_vars /\ Fairness
-----------------------------------------------------------------------------
(* Types. *)

RowsOf == [gone: SUBSET References, new: SUBSET References]
Notice == [type: {"dropped", "pickup", "changes"}, ref: References \union {NoReference},
           object: BOOLEAN, tagged: BOOLEAN, rows: RowsOf]

(* Every state the program reaches is of these types: the rule keeps only drops of guests that are *)
(* here (HostItems::OnPlayerLeft), at most kMaxPending of them, and each reference a guest's game  *)
(* names as the host's has one handle (GuestEngine::m_created).                                    *)
TypeOK ==
    /\ here \subseteq Guests /\ inv \in [Players -> SUBSET Items] /\ drops \in 0..MaxDrops
    /\ loaded \in BOOLEAN /\ world \subseteq References /\ log \union out \union deleted \subseteq References
    /\ Len(pending) <= kMaxPending
    /\ \A d \in ToSet(pending) : d.player \in here /\ d.ref \in References
    /\ made \subseteq here \X References /\ cells \subseteq here /\ forgotten \subseteq References
    /\ \A g \in Guests :
        /\ shown[g] \union created[g] \subseteq Handles /\ own[g] \union taken[g] \subseteq References
        /\ \A h, k \in created[g] : h[1] = k[1] => h = k
        /\ tasks[g] \in Seq(RowsOf) /\ up[g] \in Seq(Requests) /\ down[g] \in Seq(Notice)
-----------------------------------------------------------------------------
(* Properties. *)

\* The references of a drop under way to the host, of one that waits there, and of one granted.
Unanswered(g) == {m.ref : m \in {k \in ToSet(up[g]) : k.type = "drop"}}
Waits == {d.ref : d \in ToSet(pending)}
Grants(g) == {m.ref : m \in {k \in ToSet(down[g]) : k.type = "pickup"}}

\* Those its dropper's game alone has, which the host's answered it cannot make.
Alone(g) == {r \in {h[1] : h \in shown[g]} : Of(r) \in Foreign} \ (Unanswered(g) \union Grants(g) \union Waits \union forgotten)

\* Where an item is: with a player, granted to one, in a drop under way or waiting, in the host's
\* world, or in the dropper's game alone.
Places(i) ==
    LET Its(refs) == {r \in refs : Of(r) = i}
    IN  {<<"with", p>> : p \in {q \in Players : i \in inv[q]}}
        \union (UNION {{<<"granted", g, r>> : r \in Its(Grants(g))} : g \in Guests})
        \union {<<"dropped", r>> : r \in Its(UNION {Unanswered(g) \union Alone(g) : g \in Guests})}
        \union {<<"waits", r>> : r \in Its(Waits)}
        \union {<<"loose", r>> : r \in Its(Alive)}

MayBeLost(i) == i \notin DOMAIN start \/ (Leavers \ here) # {} \/ \E r \in forgotten : Of(r) = i

(* An item is never in two places and never in none: no pickup race, retried ask, waiting drop or  *)
(* late answer duplicates or loses it.  Only a player that left, and a drop forgotten because      *)
(* kMaxPending others wait, may take one with it (HostItems::OnDrop, OnPickUp, Make).              *)
OnePlace ==
    \A i \in Items : Cardinality(Places(i)) = 1 \/ (Places(i) = {} /\ MayBeLost(i))

\* Nothing is under way between the host and a guest.
Quiet(g) ==
    /\ g \in here /\ ~UpdateIsDue /\ g \notin cells
    /\ up[g] = <<>> /\ down[g] = <<>> /\ tasks[g] = <<>>

Waiting(g) == {d.ref : d \in {k \in ToSet(pending) : k.player = g}}

(* Once nothing is under way for a guest it shows the host's loose items, each once, and besides   *)
(* only its own drops that wait, were forgotten or cannot be made: no item the party lost, none    *)
(* doubled by its twin (GuestEngine::Create, AdoptDrop, PickUp, HostEngine::TakeDeletedCreated).   *)
ShownIsReal ==
    \A g \in Guests : Quiet(g) =>
        /\ \A r \in Alive : Cardinality({h \in shown[g] : h[1] = r}) = 1
        /\ \A h \in shown[g] : \/ h[1] \in Alive /\ h \in created[g]
                               \/ h[1] \in Waiting(g) \union forgotten /\ IsOwn(g, h)
                               \/ Of(h[1]) \in Foreign /\ ~IsPartyItem(g, h)

\* What PartyItems is promised, of this state.
At(i) ==
    LET places == Places(i)
        with == {pl \in places : pl[1] \in {"with", "granted"}}
    IN  IF with # {} THEN (CHOOSE pl \in with : TRUE)[2] ELSE IF places # {} THEN "loose" ELSE "lost"

Promise == INSTANCE PartyItems WITH at <- [i \in Items |-> At(i)], Loose <- "loose", Lost <- "lost"

(* The host's rule and the games implement PartyItems: a pickup is granted from the world, never   *)
(* from a player that has it, and whatever else happens, each step moves one item                  *)
(* (docs/design/dropped-items.md, "whoever picks it up gets it and it is gone for everyone").      *)
OneTaker == Promise!Spec

(* What a player reaches for does not stay as it is: the host's answer or deletion comes, so it is *)
(* taken, gone, or its game's alone to pick up (GuestEngine::ReadPickUp, HostItems::OnPickUp); but *)
(* a forgotten drop stays, asked for in vain.                                                      *)
Reaches(g, h) ==
    /\ h \in shown[g] /\ IsPartyItem(g, h) /\ h[1] \notin forgotten
    /\ \E n \in DOMAIN up[g] : up[g][n].type = "take" /\ up[g][n].ref = h[1]
AskIsSettled ==
    \A g \in Guests, h \in Handles :
        Reaches(g, h) ~> (h \notin shown[g] \/ ~IsPartyItem(g, h) \/ h[1] \in forgotten)
=============================================================================
