------------------------------ MODULE PartyWait ------------------------------
(***************************************************************************)
(* The party's shared wait: the host's rules (HostWait), every game's      *)
(* WaitService with its native Sleep/Wait menu (WaitBridge), and a guest's *)
(* request for the host's world rows afterwards (GuestWait).               *)
(*                                                                         *)
(* Abstractions.  Seconds are hours.  The two timeouts may come at any     *)
(* time (Stall, AnswerLate).  The engine drains its menu messages between  *)
(* two updates, so a show or a hide is done at once, and a menu that is up *)
(* becomes ready whenever it likes.  One cell stands for the attached      *)
(* cells, one message for its rows.  Who sleeps, and the calendar, are     *)
(* left out, as are kRecord rows held for a placement.  Refused is not     *)
(* modelled: HookOkay asks for 1 to 24 hours only.  A call of the host's   *)
(* own game is handled before anything else happens; its notices queue.    *)
(***************************************************************************)
EXTENDS Integers, Sequences

CONSTANTS
    Players,        \* the players that ever join
    Host,           \* the host's player
    Hours,          \* the hours a player may choose
    Leavers,        \* bound: the guests that may leave
    Loaders,        \* bound: the players whose game may load
    MaxAsks,        \* bound: requests for a wait
    MaxCancels      \* bound: cancels of a wait already known

ASSUME PlayersAssumption == Host \in Players
ASSUME HoursAssumption == Hours \subseteq 1 .. 24 /\ Hours # {}
ASSUME BoundsAssumption ==
    /\ Leavers \subseteq Players \ {Host} /\ Loaders \subseteq Players
    /\ MaxAsks \in Nat /\ MaxCancels \in Nat

Start(h) == [type |-> "start", id |-> 0, left |-> h]
Ready(i) == [type |-> "ready", id |-> i, left |-> 0]
Step(i, v) == [type |-> "progress", id |-> i, left |-> v]
Stop(i) == [type |-> "stop", id |-> i, left |-> 0]        \* Cancel or Failed: the host does the same
AskWorld(i) == [type |-> "world", id |-> i, left |-> 0]
Request == [type: {"start", "ready", "progress", "stop", "world"}, id: Nat, left: 0 .. 24]

Phase(phase, i, v) == [phase |-> phase, id |-> i, left |-> v]
Notice == [phase: {"preparing", "running", "progress", "finished", "world"}, id: Nat, left: 0 .. 24]

VARIABLES
    conn,        \* each player: "none", "open", "lost" (its game has left, the host has not
                 \* noticed), "dropped" (the other way round), "closed"
    entered,     \* the players whose character was announced
    asks,        \* requests for a wait so far
    cancels,     \* cancels so far
    \* each game's WaitService
    id,          \* m_id
    left,        \* m_remainingSeconds
    steps,       \* m_steps
    pending,     \* m_pending
    cancelling,  \* m_cancelPending
    ready,       \* m_ready
    running,     \* m_running
    finished,    \* m_finished
    \* its engine
    menu,        \* the Sleep/Wait menu is up
    begun,       \* s_running
    rest,        \* the player's own sleepSeconds
    \* a guest's GuestWait
    worldId,     \* m_id
    worldDue,    \* m_finished
    owed,        \* m_cells is not empty
    \* the channels
    requests, notices,
    \* the host's HostWait
    wait,        \* m_wait
    lastId,      \* m_lastId
    completed    \* m_completedId

serviceVars == <<id, left, steps, pending, cancelling, ready, running, finished>>
engineVars == <<menu, begun, rest>>
worldVars == <<worldId, worldDue, owed>>
gameVars == <<asks, cancels, serviceVars, engineVars, worldVars>>
hostVars == <<wait, lastId, completed>>
connVars == <<conn, entered>>
vars == <<connVars, gameVars, requests, notices, hostVars>>

NoWait == [id |-> 0, left |-> 0, pending |-> {}, running |-> FALSE]
Members == {p \in Players : conn[p] \in {"open", "lost"}}    \* HostPlayers::Connections
Online(p) == conn[p] = "open"

TypeOK ==
    /\ conn \in [Players -> {"none", "open", "lost", "dropped", "closed"}]
    /\ entered \in SUBSET Players
    /\ asks \in 0 .. MaxAsks /\ cancels \in 0 .. MaxCancels
    /\ id \in [Players -> Nat] /\ left \in [Players -> 0 .. 24]
    /\ steps \in [Players -> Seq(0 .. 24)]
    /\ pending \in [Players -> BOOLEAN] /\ cancelling \in [Players -> BOOLEAN]
    /\ ready \in [Players -> BOOLEAN] /\ running \in [Players -> BOOLEAN]
    /\ finished \in [Players -> BOOLEAN]
    /\ menu \in [Players -> BOOLEAN] /\ begun \in [Players -> BOOLEAN]
    /\ rest \in [Players -> 0 .. 24]
    /\ worldId \in [Players -> Nat] /\ worldDue \in [Players -> BOOLEAN]
    /\ owed \in [Players -> BOOLEAN]
    /\ requests \in [Players -> Seq(Request)] /\ notices \in [Players -> Seq(Notice)]
    /\ wait \in [id: Nat, left: 0 .. 24, pending: SUBSET Players, running: BOOLEAN]
    /\ lastId \in Nat /\ completed \in 0 .. lastId

Init ==
    /\ conn = [p \in Players |-> IF p = Host THEN "open" ELSE "none"]
    /\ entered = {} /\ asks = 0 /\ cancels = 0
    /\ id = [p \in Players |-> 0] /\ left = [p \in Players |-> 0]
    /\ steps = [p \in Players |-> <<>>]
    /\ pending = [p \in Players |-> FALSE] /\ cancelling = [p \in Players |-> FALSE]
    /\ ready = [p \in Players |-> FALSE] /\ running = [p \in Players |-> FALSE]
    /\ finished = [p \in Players |-> FALSE]
    /\ menu = [p \in Players |-> FALSE] /\ begun = [p \in Players |-> FALSE]
    /\ rest = [p \in Players |-> 0]
    /\ worldId = [p \in Players |-> 0] /\ worldDue = [p \in Players |-> FALSE]
    /\ owed = [p \in Players |-> FALSE]
    /\ requests = [p \in Players |-> <<>>] /\ notices = [p \in Players |-> <<>>]
    /\ wait = NoWait /\ lastId = 0 /\ completed = 0

-----------------------------------------------------------------------------
\* The host's rules (HostWait).

\* Tell: the phases, in order, to every connection (what goes to a game that has left is lost).
Tell(phases) == notices' = [q \in Players |-> IF Online(q) THEN notices[q] \o phases ELSE notices[q]]

End ==
    IF wait = NoWait THEN UNCHANGED <<notices, wait, completed>>
    ELSE /\ completed' = wait.id
         /\ Tell(<<Phase("finished", wait.id, wait.left)>>)
         /\ wait' = NoWait

OnStart(m) ==
    /\ wait = NoWait
    /\ lastId' = lastId + 1
    /\ wait' = [id |-> lastId + 1, left |-> m.left, pending |-> Members, running |-> FALSE]
    /\ Tell(<<Phase("preparing", lastId + 1, m.left)>>)
    /\ UNCHANGED completed

\* Mutant: a request for any wait counts for this one.
ForThisWaitAny(m) == wait # NoWait
ForThisWait(m) == wait # NoWait /\ m.id = wait.id

LastAsked(p) == wait.pending = {p}

\* The last of those asked starts the rest for everyone.
OnReady(p) ==
    /\ ~wait.running /\ p \in wait.pending
    /\ wait' = [wait EXCEPT !.pending = @ \ {p}, !.running = LastAsked(p)]
    /\ IF LastAsked(p) THEN Tell(<<Phase("running", wait.id, wait.left)>>) ELSE UNCHANGED notices
    /\ UNCHANGED <<lastId, completed>>

OnProgress(p, v) ==
    /\ p = Host /\ wait.running /\ v < wait.left
    /\ LET told == <<Phase("progress", wait.id, v)>> IN
       IF v # 0 THEN wait' = [wait EXCEPT !.left = v] /\ Tell(told) /\ UNCHANGED completed
       ELSE /\ wait' = NoWait
            /\ completed' = wait.id
            /\ Tell(Append(told, Phase("finished", wait.id, 0)))
    /\ UNCHANGED lastId

\* The host's rows for a cell, as they are after the wait just ended.
OnWorldRequest(p, i) ==
    /\ wait = NoWait /\ completed # 0 /\ i = completed /\ p # Host
    /\ notices' = [notices EXCEPT ![p] = Append(@, Phase("world", i, 0))]
    /\ UNCHANGED hostVars

Acted(p, m) ==
    \/ m.type = "start" /\ OnStart(m)
    \/ m.type = "ready" /\ ForThisWait(m) /\ OnReady(p)
    \/ m.type = "progress" /\ ForThisWait(m) /\ OnProgress(p, m.left)
    \/ m.type = "stop" /\ ForThisWait(m) /\ End /\ UNCHANGED lastId
    \/ m.type = "world" /\ OnWorldRequest(p, m.id)

\* What the rules return early on.
Ignored(p, m) ==
    CASE m.type = "start" -> wait # NoWait
      [] m.type = "ready" -> ~ForThisWait(m) \/ wait.running \/ p \notin wait.pending
      [] m.type = "progress" -> ~ForThisWait(m) \/ p # Host \/ ~wait.running \/ m.left >= wait.left
      [] m.type = "stop" -> ~ForThisWait(m)
      [] m.type = "world" -> wait # NoWait \/ completed = 0 \/ m.id # completed \/ p = Host

HostReads(p) ==
    /\ p \in Members /\ requests[p] # <<>>
    /\ requests[Host] # <<>> => p = Host
    /\ LET m == Head(requests[p]) IN
       /\ requests' = [requests EXCEPT ![p] = Tail(@)]
       /\ \/ Acted(p, m)
          \/ Ignored(p, m) /\ UNCHANGED <<notices, hostVars>>
    /\ UNCHANGED <<connVars, gameVars>>

\* The host's own game waits for nobody between a call and the rules' answer.
HostIdle == requests[Host] = <<>>

\* 15 seconds without readiness or progress.
Stall ==
    /\ HostIdle /\ wait # NoWait
    /\ End
    /\ UNCHANGED <<connVars, gameVars, requests, lastId>>

\* HostSession::OnAuthentication accepts: a member, whose character comes later.
Join(p) ==
    /\ HostIdle /\ conn[p] = "none"
    /\ conn' = [conn EXCEPT ![p] = "open"]
    /\ UNCHANGED <<entered, gameVars, requests, notices, hostVars>>

\* Mutant: an arrival drops the wait and tells nobody.
ArrivalDrops == wait' = NoWait /\ UNCHANGED <<notices, completed>>
ArrivalEnds == End

\* HostAuthority::PlayerEntered, at the announcement of a player's character.
Enter(p) ==
    /\ HostIdle /\ p \in Members \ entered
    /\ entered' = entered \union {p}
    /\ ArrivalEnds
    /\ UNCHANGED <<conn, gameVars, requests, lastId>>

\* HostAuthority: the rules hear that a connection closed, then the player is removed.
HostLosesGuest(p) ==
    /\ HostIdle /\ p \in Members \intersect Leavers
    /\ conn' = [conn EXCEPT ![p] = IF @ = "open" THEN "dropped" ELSE "closed"]
    /\ entered' = entered \ {p}
    /\ requests' = [requests EXCEPT ![p] = <<>>]
    /\ End
    /\ UNCHANGED <<gameVars, lastId>>

-----------------------------------------------------------------------------
\* Every game (WaitService, WaitBridge, GuestWait).

Driver(p) == p = Host
Sends(p, msgs) == requests' = [requests EXCEPT ![p] = @ \o msgs]
When(condition, msgs) == IF condition THEN msgs ELSE <<>>

\* Reset; its bridge hides the menu, and a guest's menu that closes after a finished wait asks
\* for the host's rows (GuestWait::OnMenu).
Asking(p, due) == menu[p] /\ due
Reset(p) ==
    /\ id' = [id EXCEPT ![p] = 0] /\ left' = [left EXCEPT ![p] = 0]
    /\ steps' = [steps EXCEPT ![p] = <<>>]
    /\ pending' = [pending EXCEPT ![p] = FALSE] /\ cancelling' = [cancelling EXCEPT ![p] = FALSE]
    /\ ready' = [ready EXCEPT ![p] = FALSE] /\ running' = [running EXCEPT ![p] = FALSE]
    /\ finished' = [finished EXCEPT ![p] = FALSE]
    /\ menu' = [menu EXCEPT ![p] = FALSE] /\ begun' = [begun EXCEPT ![p] = FALSE]

MenuCloses(p) ==
    /\ worldDue' = [worldDue EXCEPT ![p] = @ /\ ~menu[p]]
    /\ owed' = [owed EXCEPT ![p] = @ \/ (menu[p] /\ worldDue[p])]
    /\ UNCHANGED worldId

\* A player confirms hours in its native menu (HookOkay, Request).
Ask(p, h) ==
    /\ HostIdle /\ Online(p) /\ asks < MaxAsks
    /\ ~pending[p] /\ id[p] = 0
    /\ asks' = asks + 1
    /\ menu' = [menu EXCEPT ![p] = TRUE]
    /\ pending' = [pending EXCEPT ![p] = TRUE]
    /\ Sends(p, <<Start(h)>>)
    /\ UNCHANGED <<connVars, cancels, id, left, steps, cancelling, ready, running, finished, begun, rest,
                   worldVars, notices, hostVars>>

\* A player closes its menu, or the native menu does when its rest is over (HookCancel,
\* HookProcess): never without the host's word.
Cancel(p) ==
    /\ HostIdle /\ Online(p)
    /\ \/ /\ pending[p] /\ ~cancelling[p]
          /\ cancelling' = [cancelling EXCEPT ![p] = TRUE]
          /\ UNCHANGED <<requests, cancels>>
       \/ /\ ~pending[p] /\ id[p] # 0 /\ cancels < MaxCancels
          /\ cancels' = cancels + 1
          /\ Sends(p, <<Stop(id[p])>>)
          /\ UNCHANGED cancelling
    /\ UNCHANGED <<connVars, asks, id, left, steps, pending, ready, running, finished,
                   engineVars, worldVars, notices, hostVars>>

\* Mutant: a rest that is over goes on.
StepOnce(p) == {rest[p] - 1}

\* What a native step may leave of a rest.
StepTo(p) == 0 .. rest[p] - 1

\* One native step of the host's rest: HookStep, then Stepped.
NativeStep ==
    /\ HostIdle /\ begun[Host]
    /\ \E v \in StepTo(Host) :
         /\ rest' = [rest EXCEPT ![Host] = v]
         /\ LET shared == id[Host] # 0 /\ running[Host] /\ v < left[Host] IN
            /\ left' = [left EXCEPT ![Host] = IF shared THEN v ELSE @]
            /\ Sends(Host, When(shared, <<Step(id[Host], v)>>))
    /\ UNCHANGED <<connVars, asks, cancels, id, steps, pending, cancelling, ready, running, finished,
                   menu, begun, worldVars, notices, hostVars>>

\* Mutant: the cells still owed are kept.
CellsLeftKept(p) == owed[p]
CellsLeft(p) == FALSE

\* A new wait: the service takes its id, and the menu opens unless it cannot, or its player
\* has cancelled meanwhile.
OnPreparing(p, m) ==
    /\ m.id # id[p]
    /\ id' = [id EXCEPT ![p] = m.id]
    /\ pending' = [pending EXCEPT ![p] = FALSE]
    /\ ready' = [ready EXCEPT ![p] = FALSE]
    /\ running' = [running EXCEPT ![p] = FALSE]
    /\ finished' = [finished EXCEPT ![p] = FALSE]
    /\ left' = [left EXCEPT ![p] = m.left]
    /\ steps' = [steps EXCEPT ![p] = <<>>]
    /\ cancelling' = [cancelling EXCEPT ![p] = FALSE]
    /\ \E fit \in BOOLEAN :
         LET prepared == ~cancelling[p] /\ fit IN
         /\ cancelling[p] => fit
         /\ menu' = [menu EXCEPT ![p] = @ \/ prepared]
         /\ begun' = [begun EXCEPT ![p] = @ /\ ~prepared]
         /\ Sends(p, When(~prepared, <<Stop(m.id)>>))
    /\ worldId' = [worldId EXCEPT ![p] = m.id]
    /\ worldDue' = [worldDue EXCEPT ![p] = FALSE]
    /\ owed' = [owed EXCEPT ![p] = CellsLeft(p)]
    /\ UNCHANGED rest

\* The native rest begins, in a menu that is up.
OnRunning(p, m) ==
    /\ id[p] # 0 /\ m.id = id[p] /\ ~running[p]
    /\ running' = [running EXCEPT ![p] = TRUE]
    /\ begun' = [begun EXCEPT ![p] = @ \/ menu[p]]
    /\ rest' = [rest EXCEPT ![p] = IF menu[p] THEN left[p] ELSE @]
    /\ UNCHANGED <<requests, id, left, steps, pending, cancelling, ready, finished, menu, worldVars>>

OnHostProgress(p, m) ==
    /\ id[p] # 0 /\ m.id = id[p] /\ ~Driver(p) /\ running[p] /\ m.left < left[p]
    /\ steps' = [steps EXCEPT ![p] = Append(@, m.left)]
    /\ left' = [left EXCEPT ![p] = m.left]
    /\ UNCHANGED <<requests, id, pending, cancelling, ready, running, finished, engineVars, worldVars>>

\* Both services hear it, each by its own id.
OnFinished(p, m) ==
    /\ finished' = [finished EXCEPT ![p] = @ \/ (id[p] # 0 /\ m.id = id[p])]
    /\ worldDue' = [worldDue EXCEPT ![p] = @ \/ (p # Host /\ worldId[p] # 0 /\ m.id = worldId[p])]
    /\ UNCHANGED <<requests, id, left, steps, pending, cancelling, ready, running, engineVars, worldId, owed>>

OnWorld(p, m) ==
    /\ owed' = [owed EXCEPT ![p] = @ /\ m.id # worldId[p]]
    /\ UNCHANGED <<requests, serviceVars, engineVars, worldId, worldDue>>

GameReads(p) ==
    /\ HostIdle /\ Online(p) /\ notices[p] # <<>>
    /\ notices' = [notices EXCEPT ![p] = Tail(@)]
    /\ LET m == Head(notices[p]) IN
       \/ m.phase = "preparing" /\ OnPreparing(p, m)
       \/ m.phase = "running" /\ OnRunning(p, m)
       \/ m.phase = "progress" /\ OnHostProgress(p, m)
       \/ m.phase = "finished" /\ OnFinished(p, m)
       \/ m.phase = "world" /\ OnWorld(p, m)
       \/ /\ \/ m.phase = "preparing" /\ m.id = id[p]
             \/ m.phase = "running" /\ (m.id # id[p] \/ running[p])
             \/ m.phase = "progress" /\ (m.id # id[p] \/ Driver(p) \/ ~running[p] \/ m.left >= left[p])
          /\ UNCHANGED <<requests, serviceVars, engineVars, worldVars>>
    /\ UNCHANGED <<connVars, asks, cancels, hostVars>>

\* The native steps the update applies, in a menu where the rest has begun.
\* Mutant: the update closes the menu of a finished wait first.
AppliedUnlessFinished(p) == steps[p] # <<>> /\ menu[p] /\ begun[p] /\ ~Driver(p) /\ ~finished[p]
Applied(p) == steps[p] # <<>> /\ menu[p] /\ begun[p] /\ ~Driver(p)

\* WaitService::OnUpdate, with the menu found ready or not.
Update(p, menuReady) ==
    /\ HostIdle /\ Online(p)
    /\ menuReady => id[p] # 0 /\ ~ready[p] /\ menu[p]
    /\ menuReady \/ steps[p] # <<>> \/ finished[p]
    /\ rest' = [rest EXCEPT ![p] = IF Applied(p) /\ steps[p][Len(steps[p])] < @
                                   THEN steps[p][Len(steps[p])] ELSE @]
    /\ IF finished[p]
       THEN /\ Reset(p) /\ MenuCloses(p)
            /\ Sends(p, When(menuReady, <<Ready(id[p])>>)
                          \o When(Asking(p, worldDue[p]), <<AskWorld(worldId[p])>>))
       ELSE /\ ready' = [ready EXCEPT ![p] = @ \/ menuReady]
            /\ steps' = [steps EXCEPT ![p] = <<>>]
            /\ Sends(p, When(menuReady, <<Ready(id[p])>>))
            /\ UNCHANGED <<id, left, pending, cancelling, running, finished, menu, begun, worldVars>>
    /\ UNCHANGED <<connVars, asks, cancels, notices, hostVars>>

\* A request the host never answers gives the menu back.
AnswerLate(p) ==
    /\ HostIdle /\ Online(p) /\ pending[p]
    /\ Reset(p) /\ MenuCloses(p)
    /\ Sends(p, When(Asking(p, worldDue[p]), <<AskWorld(worldId[p])>>))
    /\ UNCHANGED <<connVars, asks, cancels, rest, notices, hostVars>>

\* A load replaces the player and its menus (GameLoadedEvent).
Load(p) ==
    /\ HostIdle /\ Online(p) /\ p \in Loaders
    /\ id[p] # 0 \/ pending[p] \/ owed[p]
    /\ Sends(p, When(id[p] # 0, <<Stop(id[p])>>))
    /\ Reset(p)
    /\ rest' = [rest EXCEPT ![p] = 0]
    /\ worldId' = [worldId EXCEPT ![p] = 0] /\ worldDue' = [worldDue EXCEPT ![p] = FALSE]
    /\ owed' = [owed EXCEPT ![p] = FALSE]
    /\ UNCHANGED <<connVars, asks, cancels, notices, hostVars>>

\* A guest's game loses its connection, or leaves; the guest's rules go with it.
GameLosesHost(p) ==
    /\ HostIdle
    /\ conn[p] = "dropped" \/ (Online(p) /\ p \in Leavers)
    /\ conn' = [conn EXCEPT ![p] = IF @ = "open" THEN "lost" ELSE "closed"]
    /\ notices' = [notices EXCEPT ![p] = <<>>]
    /\ Reset(p)
    /\ rest' = [rest EXCEPT ![p] = 0]
    /\ worldId' = [worldId EXCEPT ![p] = 0] /\ worldDue' = [worldDue EXCEPT ![p] = FALSE]
    /\ owed' = [owed EXCEPT ![p] = FALSE]
    /\ UNCHANGED <<entered, asks, cancels, requests, hostVars>>

Next ==
    \/ \E p \in Players :
          \/ HostReads(p) \/ GameReads(p)
          \/ Join(p) \/ Enter(p) \/ HostLosesGuest(p) \/ GameLosesHost(p)
          \/ Cancel(p) \/ AnswerLate(p) \/ Load(p)
    \/ \E p \in Players, h \in Hours : Ask(p, h)
    \/ \E p \in Players, menuReady \in BOOLEAN : Update(p, menuReady)
    \/ NativeStep
    \/ Stall

Spec == Init /\ [][Next]_vars

\* Both sides read what arrived and run their updates; each timeout comes in the end, and a
\* closed connection is noticed at both ends.  No menu need ever be ready, and no native step
\* need ever be made.
Fairness ==
    /\ \A p \in Players : /\ WF_vars(HostReads(p)) /\ WF_vars(GameReads(p))
                          /\ WF_vars(Update(p, FALSE)) /\ WF_vars(AnswerLate(p))
                          /\ WF_vars(conn[p] = "lost" /\ HostLosesGuest(p))
                          /\ WF_vars(conn[p] = "dropped" /\ GameLosesHost(p))
    /\ WF_vars(Stall)

FairSpec == Spec /\ Fairness

-----------------------------------------------------------------------------
\* Properties.

StopSent(p, i) == \E n \in DOMAIN requests[p] : requests[p][n] = Stop(i)

\* A rest runs only while every character's game has said it is ready for this very wait and
\* holds to it, or has just said that it cannot (docs/design/shared-wait-sleep.md: "Only then
\* does it start the countdown"; "stale readiness, cancellation and progress cannot alter it").
RunsTogether ==
    wait.running =>
        \A p \in entered : Online(p) => (id[p] = wait.id /\ ready[p]) \/ StopSent(p, wait.id)

\* A guest that waits for the host's rows will get them, or a newer wait is on its way to it,
\* after which it asks again: the host answers the last wait's requests only.
RowsAreOnTheirWay ==
    \A p \in Players : Online(p) /\ p \in Members /\ owed[p] =>
        \/ \E n \in DOMAIN requests[p] : requests[p][n] = AskWorld(worldId[p])
        \/ \E n \in DOMAIN notices[p] : \/ notices[p][n].phase = "world" /\ notices[p][n].id = worldId[p]
                                        \/ notices[p][n].phase = "preparing" /\ notices[p][n].id > worldId[p]

\* A game is done with a wait whose countdown it heard run out only with its own player's rest
\* complete (docs/design/shared-wait-sleep.md: "Every game starts and completes its own native
\* wait/sleep"; WaitService.cpp: "apply the final native step before closing the menu").  A newer
\* wait that OnState takes before the update is left out: it drops the step (README, "Divergences").
RestIsComplete ==
    [][\A p \in Players :
        running[p] /\ left[p] = 0 /\ id[p] # 0 /\ id'[p] = 0 /\ Online(p)' => rest'[p] = 0]_vars

\* Every player that asked, and every game a wait took, gets its menu back.
MenusComeBack == \A p \in Players : id[p] # 0 \/ pending[p] ~> id[p] = 0 /\ ~pending[p]
=============================================================================
