------------------------------ MODULE JoinFlow ------------------------------
(***************************************************************************)
(* How a game gets into the host's session and how the whole party goes    *)
(* back to a save: JoinService, SessionService and TransportService of     *)
(* every other game, and the host's listener, gate (HostSession), save     *)
(* transfer (HostSaveTransfer) and reload (HostServiceReload).             *)
(*                                                                         *)
(* A world is a number: 0 is a game's own, 1 the host's first, and every   *)
(* load of the host's makes the next.  A save is the world it is of, and   *)
(* travels as Blocks blocks.  A connection is a peer slot of the host's    *)
(* listener, which takes the first free one.                               *)
(*                                                                         *)
(* Abstractions.  Seconds: a timeout may come at any time.  Builds,        *)
(* plugins and the party's size are right, so the gate refuses only a      *)
(* player without a character.  kConnecting and kChecking differ in the    *)
(* reason of a failure only: kChecking is a connection that is open.       *)
(* Whether the host's save keeps a character is free at each question.     *)
(* Steam's tunnel and the block cache are left out; a game whose dial is   *)
(* still on its way starts no other.                                       *)
(***************************************************************************)
EXTENDS Integers, Sequences, FiniteSets

CONSTANTS
    Guests,      \* the games that join
    Slots,       \* the listener's peers, numbered
    Blocks,      \* blocks in a save
    Tries,       \* kReconnectTries
    MaxSaves,    \* bound: saves the host starts to load
    MaxJoins,    \* bound: joins the guests start
    MaxBreaks,   \* bound: connections that break by themselves
    Ends         \* bound: the host may end the session

ASSUME BoundsAssumption ==
    /\ Slots \subseteq Nat \ {0} /\ Blocks \in Nat \ {0} /\ Tries \in Nat \ {0}
    /\ MaxSaves \in Nat /\ MaxJoins \in Nat /\ MaxBreaks \in Nat /\ Ends \in BOOLEAN

Nobody == "nobody"
ASSUME GuestsAssumption == Nobody \notin Guests
Worlds == 0 .. MaxSaves + 1

\* JoinService::Step; a request to join (its WantsWorld and HasCharacter); what the host tells.
Steps == {"idle", "connecting", "checking", "creating", "receiving", "loading", "placing", "joining",
          "reconnectWait", "reconnecting"}
Asks == {"none", "plain", "world", "bring"}
Told(what) == [what |-> what, of |-> 0, block |-> 0]
Block(world, i) == [what |-> "block", of |-> world, block |-> i]
Notices == [what: {"follows", "accepted", "noCharacter", "failed", "reload", "kicked", "hostLeft", "block"},
            of: Worlds, block: 0 .. Blocks]

VARIABLES
    game,        \* each guest's game, see Games
    joins,       \* joins started so far
    breaks,      \* connections broken so far
    \* the host's listener
    hosting,     \* HostService::IsHosting
    peer,        \* who holds each slot
    alive,       \* Server::m_peers: the slots with a connection
    ask,         \* each slot's request to join, not read yet
    notices,     \* what each slot was sent and has not read
    \* the host's rules
    hostWorld,   \* the world the host's game is in
    players,     \* HostPlayers: the slots that are players
    receivers,   \* HostSaveTransfer::m_receivers: next = 0 for none, of = 0 while no save is made
    saves,       \* worlds so far
    asked,       \* m_reloadRequested
    read,        \* m_readCheckpoint
    loading,     \* m_loadingSave
    checkpoint,  \* m_checkpoint: the world it makes, or 0
    kept,        \* m_reloadJoins
    \* history
    excused      \* the guests the known divergences concern, see MissesRollback and SameWorld

guestVars == <<game, joins, breaks>>
reloadVars == <<saves, asked, read, loading, checkpoint>>
vars == <<game, joins, breaks, hosting, peer, alive, ask, notices, hostWorld, players, receivers,
          saves, asked, read, loading, checkpoint, kept, excused>>

\* link: "none", "dialing" (Client::Connect, no answer yet), "open", "refused" (open, and the transport's
\* status is kRefused).  slot is 0 once the host has dropped an open link.  ending is SessionService's
\* m_ending, with m_pending ("pending") or m_finished ("finished").
NoSave == [of |-> 0, have |-> 0]
Games == [step: Steps, brought: BOOLEAN, tries: 0 .. Tries, link: {"none", "dialing", "open", "refused"},
          slot: Slots \cup {0}, online: BOOLEAN, ending: {"no", "pending", "finished"}, world: Worlds,
          save: [of: Worlds, have: 0 .. Blocks]]
AtHome == [step |-> "idle", brought |-> FALSE, tries |-> 0, link |-> "none", slot |-> 0, online |-> FALSE,
           ending |-> "no", world |-> 0, save |-> NoSave]
NotWanting == [of |-> 0, next |-> 0]

TypeOK ==
    /\ game \in [Guests -> Games] /\ joins \in 0 .. MaxJoins /\ breaks \in 0 .. MaxBreaks
    /\ hosting \in BOOLEAN /\ peer \in [Slots -> Guests \cup {Nobody}]
    /\ alive \subseteq Slots /\ ask \in [Slots -> Asks] /\ notices \in [Slots -> Seq(Notices)]
    /\ hostWorld \in Worlds /\ players \subseteq Slots
    /\ receivers \in [Slots -> [of: Worlds, next: 0 .. Blocks]]
    /\ saves \in Worlds /\ checkpoint \in Worlds /\ asked \in BOOLEAN /\ read \in BOOLEAN /\ loading \in BOOLEAN
    /\ kept \in [Slots -> Asks] /\ excused \subseteq Guests

Init ==
    /\ game = [g \in Guests |-> AtHome] /\ joins = 0 /\ breaks = 0
    /\ hosting = TRUE /\ peer = [s \in Slots |-> Nobody] /\ alive = {}
    /\ ask = [s \in Slots |-> "none"] /\ notices = [s \in Slots |-> <<>>]
    /\ hostWorld = 1 /\ players = {} /\ receivers = [s \in Slots |-> NotWanting]
    /\ saves = 1 /\ asked = FALSE /\ read = FALSE /\ loading = FALSE /\ checkpoint = 0
    /\ kept = [s \in Slots |-> "none"] /\ excused = {}

-----------------------------------------------------------------------------
(* What a game's services do to it: functions from its state to the next.  *)

Gone(r) == [r EXCEPT !.link = "none", !.slot = 0, !.online = FALSE]

\* JoinService::Fail closes a connection that is open; a dial on its way goes on.
Fail(r) ==
    LET idle == [r EXCEPT !.step = "idle", !.save = NoSave]
    IN  IF r.link \in {"open", "refused"} THEN Gone(idle) ELSE idle

\* SessionService::End and Finish (with JoinService::Cancel).
End(r) == IF r.ending = "no" THEN [r EXCEPT !.ending = "pending"] ELSE r
Finish(r) == Gone([r EXCEPT !.ending = "finished", !.step = "idle", !.tries = 0, !.brought = FALSE,
                            !.save = NoSave, !.world = 0])

RetryOnceMore(r) == IF r.tries <= Tries THEN [r EXCEPT !.step = "reconnectWait"] ELSE End([r EXCEPT !.step = "idle"])
Retry(r) == IF r.tries < Tries THEN [r EXCEPT !.step = "reconnectWait"] ELSE End([r EXCEPT !.step = "idle"])

\* JoinService::StartReconnect
StartReconnect(r) == [r EXCEPT !.step = "reconnectWait", !.tries = 0, !.brought = FALSE]

\* A connection, or a dial, is over (DisconnectedEvent): JoinService::OnDisconnected.
Disconnected(r, why) ==
    LET gone == Gone(r)
        waits == r.step \in {"loading", "reconnectWait", "creating"}
        over == CASE waits \/ (r.step = "idle" /\ ~r.online) -> gone
                  [] r.step = "idle" /\ r.online /\ why = "lost" -> StartReconnect(gone)
                  [] r.step = "idle" /\ r.online /\ why # "lost" -> End(gone)
                  [] r.step = "reconnecting" /\ r.link # "refused" -> Retry(gone)
                  [] OTHER -> Fail(gone)
    IN  IF r.ending # "no" THEN gone ELSE over

\* JoinService::JoinSession, Reconnect: the join after the world, or again.
Connect(r, step) == [r EXCEPT !.step = step, !.link = "dialing", !.save = NoSave]

\* TransportService::OnConnected: what a game asks for, by its step.
AskOf(r) ==
    CASE r.step = "connecting" /\ r.brought -> "bring"
      [] r.step = "connecting" /\ ~r.brought -> "world"
      [] OTHER -> "plain"

\* SaveTransfer's Assembly::Add: block 1 starts over, any other continues the save it has (by its offset and total).
Fits(save, block) == block.block = 1 \/ (block.of = save.of /\ block.block = save.have + 1)
Add(save, block) == [of |-> block.of, have |-> block.block]

-----------------------------------------------------------------------------
(* What the host does to a connection's row.                               *)

Outcome(s, what, known) ==
    CASE what = "none" \/ s \in players -> "ignored"
      [] s \notin players /\ what = "world" /\ ~known -> "noCharacter"
      [] s \notin players /\ what = "plain" -> "accepted"
      [] OTHER -> "follows"

Reply(outcome) ==
    CASE outcome = "ignored" -> <<>>
      [] outcome = "noCharacter" -> <<Told("noCharacter"), Told("kicked")>>
      [] OTHER -> <<Told(outcome)>>

\* HostSession::OnAuthentication for the slots that have a request in asks.
Answer(asks) ==
    \E known \in [{s \in Slots : asks[s] = "world"} -> BOOLEAN] :
        LET outcome == [s \in Slots |-> Outcome(s, asks[s], s \in DOMAIN known /\ known[s])]
        IN  /\ players' = players \cup {s \in Slots : outcome[s] = "accepted"}
            /\ alive' = {s \in alive : outcome[s] # "noCharacter"}
            /\ notices' = [s \in Slots |-> notices[s] \o Reply(outcome[s])]
            /\ receivers' = [s \in Slots |-> IF outcome[s] = "follows" THEN [of |-> 0, next |-> 1]
                                             ELSE receivers[s]]

Wanting == {s \in Slots : receivers[s].next # 0}
NoAsks == [s \in Slots |-> "none"]

\* A slot's rows go with its connection; what is kept of its request stays (m_reloadJoins).
DropKeepsPlayer(s) ==
    /\ alive' = alive \ {s} /\ UNCHANGED players
    /\ receivers' = [receivers EXCEPT ![s] = NotWanting]
Drop(s) ==
    /\ alive' = alive \ {s} /\ players' = players \ {s}
    /\ receivers' = [receivers EXCEPT ![s] = NotWanting]

-----------------------------------------------------------------------------
(* A guest's game.                                                         *)

Becomes(g, r) == game' = [game EXCEPT ![g] = r]

hostUntouched == <<hosting, peer, alive, ask, notices, hostWorld, players, receivers, reloadVars, kept>>

Join(g, brought) ==
    LET r == game[g] IN
    /\ r.step = "idle" /\ r.link = "none" /\ joins < MaxJoins
    /\ Becomes(g, Connect([r EXCEPT !.brought = brought], "connecting"))
    /\ joins' = joins + 1
    /\ excused' = excused \ {g}
    /\ UNCHANGED <<breaks, hostUntouched>>

\* ENet takes the connection: the first free slot, and the game asks to join at once.
Dial(g) ==
    LET r == game[g]
        s == CHOOSE t \in Slots : peer[t] = Nobody /\ \A u \in Slots : peer[u] = Nobody => t <= u
        opened == [r EXCEPT !.link = "open", !.slot = s, !.step = IF @ = "connecting" THEN "checking" ELSE @]
    IN
    /\ r.link = "dialing" /\ hosting /\ \E t \in Slots : peer[t] = Nobody
    /\ Becomes(g, opened)
    /\ peer' = [peer EXCEPT ![s] = g] /\ alive' = alive \cup {s}
    /\ ask' = [ask EXCEPT ![s] = AskOf(r)]
    /\ excused' = IF kept[s] # "none" THEN excused \cup {g} ELSE excused
    /\ UNCHANGED <<joins, breaks, hosting, notices, hostWorld, players, receivers, reloadVars, kept>>

\* A game that will rejoin as it is, in a world the host is leaving or has left.
MissesRollback(next) == next.step = "reconnectWait" /\ (asked \/ next.world # hostWorld)

\* A dial that comes to nothing, and a connection the game finds gone.
Lost(g) ==
    LET r == game[g] next == Disconnected(r, "lost") IN
    /\ r.link = "dialing" \/ (r.link # "none" /\ r.slot = 0)
    /\ Becomes(g, next)
    /\ excused' = IF MissesRollback(next) THEN excused \cup {g} ELSE excused
    /\ UNCHANGED <<joins, breaks, hostUntouched>>

\* The line of an open connection goes: each side finds out by itself.
Break(g) ==
    /\ game[g].slot # 0 /\ breaks < MaxBreaks
    /\ Becomes(g, [game[g] EXCEPT !.slot = 0])
    /\ breaks' = breaks + 1
    /\ UNCHANGED <<joins, excused, hostUntouched>>

\* TransportService::HandleAuthenticationResponse and JoinService::OnAuthentication, OnConnected.
Authentication(r, what) ==
    LET joining == r.step \in {"connecting", "checking", "receiving", "joining"}
        refused == IF joining THEN Fail(r) ELSE [r EXCEPT !.link = "refused"]
    IN
    CASE what = "accepted" -> [r EXCEPT !.online = TRUE, !.ending = "no",
                                        !.step = IF @ \in {"joining", "reconnecting"} THEN "idle" ELSE @]
      [] what = "follows" /\ r.step = "joining" -> Fail(r)
      [] what = "follows" /\ r.step # "joining" -> IF joining THEN [r EXCEPT !.step = "receiving"] ELSE r
      [] what = "noCharacter" /\ r.step \in {"connecting", "checking"} /\ ~r.brought ->
            Gone([r EXCEPT !.step = "creating"])
      [] OTHER -> refused

\* JoinService::OnPartyReload: whatever the game is at.
PartyReload(r) == [r EXCEPT !.step = "receiving", !.save = NoSave, !.brought = @ \/ r.online]

\* JoinService::OnSaveChunk; written is WriteAndLoad's answer.
SaveChunk(r, block, written) ==
    LET save == Add(r.save, block) IN
    CASE r.step # "receiving" -> r
      [] r.step = "receiving" /\ ~Fits(r.save, block) -> Fail(r)
      [] r.step = "receiving" /\ Fits(r.save, block) /\ save.have < Blocks -> [r EXCEPT !.save = save]
      [] OTHER -> LET left == Gone([r EXCEPT !.step = "loading", !.save = save])
                  IN  IF written THEN left ELSE Fail(left)

Heard(r, notice, written) ==
    CASE notice.what \in {"kicked", "hostLeft"} -> Disconnected(r, notice.what)
      [] notice.what = "reload" -> PartyReload(r)
      [] notice.what = "block" -> SaveChunk(r, notice, written)
      [] OTHER -> Authentication(r, notice.what)

Read(g) ==
    LET r == game[g] s == r.slot IN
    /\ s # 0 /\ notices[s] # <<>>
    /\ \E written \in BOOLEAN : Becomes(g, Heard(r, Head(notices[s]), written))
    /\ notices' = [notices EXCEPT ![s] = Tail(@)]
    /\ UNCHANGED <<joins, breaks, hosting, peer, alive, ask, hostWorld, players, receivers, reloadVars,
                   kept, excused>>

\* JoinService::FinishCreation, or the creation that fails.
Created(g) ==
    LET r == game[g] IN
    /\ r.step = "creating"
    /\ Becomes(g, Connect([r EXCEPT !.brought = TRUE], "connecting")) \/ Becomes(g, Fail(r))
    /\ UNCHANGED <<joins, breaks, excused, hostUntouched>>

\* JoinService::OnGameLoaded and Arrive: the save keeps this game's character (with its place or not), or
\* it plays the one it brought.
Loaded(g) ==
    LET r == game[g]
        in == [r EXCEPT !.world = r.save.of, !.save = NoSave]
    IN
    /\ r.step = "loading"
    /\ \/ Becomes(g, Connect([in EXCEPT !.brought = FALSE], "joining"))
       \/ Becomes(g, [in EXCEPT !.brought = FALSE, !.step = "placing"])
       \/ ~r.brought /\ Becomes(g, Fail(in))
    /\ UNCHANGED <<joins, breaks, excused, hostUntouched>>

LoadFails(g) ==
    /\ game[g].step = "loading" /\ Becomes(g, Fail(game[g]))
    /\ UNCHANGED <<joins, breaks, excused, hostUntouched>>

Placed(g) ==
    /\ game[g].step = "placing" /\ Becomes(g, Connect(game[g], "joining"))
    /\ UNCHANGED <<joins, breaks, excused, hostUntouched>>

\* JoinService::OnUpdate's limits.
TimedOutNotJoining(r) ==
    CASE r.step \in {"connecting", "checking", "receiving", "loading", "placing"} -> Fail(r)
      [] r.step = "reconnecting" -> Gone(Retry(r))
      [] OTHER -> r
TimedOut(r) ==
    CASE r.step \in {"connecting", "checking", "receiving", "loading", "placing", "joining"} -> Fail(r)
      [] r.step = "reconnecting" -> Gone(Retry(r))

Timeout(g) ==
    LET r == game[g] IN
    /\ r.step \notin {"idle", "creating", "reconnectWait"}
    /\ Becomes(g, TimedOut(r))
    /\ excused' = IF TimedOut(r).link = "dialing" \/ MissesRollback(TimedOut(r)) THEN excused \cup {g} ELSE excused
    /\ UNCHANGED <<joins, breaks, hostUntouched>>

Reconnect(g) ==
    LET r == game[g] IN
    /\ r.step = "reconnectWait"
    /\ Becomes(g, Connect([r EXCEPT !.tries = @ + 1], "reconnecting"))
    /\ UNCHANGED <<joins, breaks, excused, hostUntouched>>

\* SessionService::OnUpdate; OnMenu's QuitToMainMenu, which a session that ended before ignores.
FinishSession(g) ==
    /\ game[g].ending = "pending" /\ Becomes(g, Finish(game[g]))
    /\ UNCHANGED <<joins, breaks, excused, hostUntouched>>

Quit(g) ==
    LET r == game[g] IN
    /\ r.step \notin {"creating", "loading"} /\ (r.step # "idle" \/ r.link \in {"open", "refused"})
    /\ Becomes(g, IF r.ending = "finished" THEN [r EXCEPT !.world = 0] ELSE Finish(r))
    /\ excused' = IF r.ending = "finished" THEN excused \cup {g} ELSE excused
    /\ UNCHANGED <<joins, breaks, hostUntouched>>

-----------------------------------------------------------------------------
(* The host's game.                                                        *)

guestsUntouched == <<game, joins, breaks, peer>>

\* HostService::InstallFrontDoor's front door: the request waits for a load that is asked for, and is
\* refused after one that failed.
HandleAsk(s) ==
    /\ hosting /\ ask[s] # "none"
    /\ ask' = [ask EXCEPT ![s] = "none"]
    /\ CASE asked /\ read /\ checkpoint = 0 ->
                /\ notices' = [notices EXCEPT ![s] = Append(@, Told("failed"))]
                /\ UNCHANGED <<alive, players, receivers, kept>>
         [] asked /\ ~(read /\ checkpoint = 0) ->
                /\ kept' = [kept EXCEPT ![s] = ask[s]]
                /\ UNCHANGED <<alive, players, receivers, notices>>
         [] OTHER -> Answer([NoAsks EXCEPT ![s] = ask[s]]) /\ UNCHANGED kept
    /\ UNCHANGED <<guestsUntouched, hosting, hostWorld, reloadVars, excused>>

\* HostSaveTransfer::Update for one receiver: a save of the host's game is made if it has none, and its
\* next block goes; or none can be made.
SendBlock(s) ==
    LET r == receivers[s]
        world == IF r.of = 0 THEN hostWorld ELSE r.of
    IN
    /\ hosting /\ s \in Wanting
    /\ \/ /\ notices' = [notices EXCEPT ![s] = Append(@, Block(world, r.next))]
          /\ receivers' = [receivers EXCEPT ![s] = IF r.next = Blocks THEN NotWanting
                                                   ELSE [of |-> world, next |-> r.next + 1]]
          /\ UNCHANGED <<alive, players>>
       \/ /\ r.of = 0
          /\ notices' = [notices EXCEPT ![s] = @ \o <<Told("failed"), Told("kicked")>>]
          /\ Drop(s)
    /\ UNCHANGED <<guestsUntouched, hosting, ask, hostWorld, reloadVars, kept, excused>>

\* Server::Update hears that a slot's connection has ended: HostAuthority's disconnection handler.
HostHears(s) ==
    /\ hosting /\ peer[s] # Nobody /\ game[peer[s]].slot # s
    /\ peer' = [peer EXCEPT ![s] = Nobody]
    /\ ask' = [ask EXCEPT ![s] = "none"] /\ notices' = [notices EXCEPT ![s] = <<>>]
    /\ Drop(s)
    /\ UNCHANGED <<game, joins, breaks, hosting, hostWorld, reloadVars, kept, excused>>

\* HostPlayers::Kick
HostKicks(s) ==
    /\ hosting /\ s \in players
    /\ notices' = [notices EXCEPT ![s] = Append(@, Told("kicked"))]
    /\ Drop(s)
    /\ UNCHANGED <<guestsUntouched, hosting, ask, hostWorld, reloadVars, kept, excused>>

\* HostService::LoadSave; game.PartyWipe (HostDeath's wipe).
LoadSave ==
    /\ hosting /\ ~loading /\ checkpoint = 0 /\ saves <= MaxSaves
    /\ saves' = saves + 1 /\ checkpoint' = saves + 1 /\ asked' = TRUE /\ read' = FALSE
    /\ UNCHANGED <<guestsUntouched, hosting, alive, ask, notices, hostWorld, players, receivers, loading, kept, excused>>

Wipe ==
    /\ hosting /\ ~asked /\ saves <= MaxSaves /\ asked' = TRUE
    /\ UNCHANGED <<guestsUntouched, hosting, alive, ask, notices, hostWorld, players, receivers, saves, read,
                   loading, checkpoint, kept, excused>>

\* Who a checkpoint is sent to: every player and everyone being sent another save.
CheckpointToPlayers == players
CheckpointTo == players \cup Wanting

\* The guests it is not sent to though they are past asking for the host's world: all of an older save is
\* on its way to them or here, or they only rejoin.
Asking(s) == s # 0 /\ (ask[s] \in {"world", "bring"} \/ kept[s] \in {"world", "bring"})
Missed ==
    {g \in Guests : /\ game[g].step \notin {"idle", "connecting", "creating"} \/ game[g].online
                    /\ game[g].slot \notin players \cup Wanting /\ ~Asking(game[g].slot)}

\* UpdateReload, its first half (HostAuthority::SendCheckpoint, HostSaveTransfer::Checkpoint).  With
\* no save to read, no connection is told.
SendCheckpoint ==
    /\ hosting /\ asked /\ ~loading /\ ~read
    /\ read' = TRUE
    /\ \/ /\ checkpoint' = IF checkpoint = 0 THEN saves + 1 ELSE checkpoint
          /\ saves' = IF checkpoint = 0 THEN saves + 1 ELSE saves
          /\ saves' <= MaxSaves + 1
          /\ notices' = [s \in Slots |-> IF s \in CheckpointTo THEN Append(notices[s], Told("reload")) ELSE notices[s]]
          /\ receivers' = [s \in Slots |-> IF s \in CheckpointTo THEN [of |-> checkpoint', next |-> 1] ELSE receivers[s]]
          /\ excused' = excused \cup Missed
       \/ /\ checkpoint = 0
          /\ excused' = excused \cup {peer[s] : s \in {t \in Slots : kept[t] # "none" /\ peer[t] # Nobody}}
          /\ UNCHANGED <<checkpoint, saves, notices, receivers>>
    /\ UNCHANGED <<guestsUntouched, hosting, alive, ask, hostWorld, players, asked, loading, kept>>

\* OnGameLoadFailed: those that asked meanwhile are refused.
FailedLoad ==
    /\ loading' = FALSE /\ checkpoint' = 0
    /\ notices' = [s \in Slots |-> IF kept[s] # "none" /\ s \in alive THEN Append(notices[s], Told("failed"))
                                   ELSE notices[s]]
    /\ kept' = NoAsks

\* UpdateReload, its second half: every game the checkpoint was sent to has it all and is gone.
StartLoad ==
    /\ hosting /\ asked /\ ~loading /\ read /\ checkpoint # 0
    /\ Wanting = {} /\ players = {}
    /\ \/ loading' = TRUE /\ UNCHANGED <<checkpoint, notices, kept>>
       \/ FailedLoad
    /\ UNCHANGED <<guestsUntouched, hosting, alive, ask, hostWorld, players, receivers, saves, asked, read, excused>>

HostLoadFails ==
    /\ hosting /\ loading /\ FailedLoad
    /\ UNCHANGED <<guestsUntouched, hosting, alive, ask, hostWorld, players, receivers, saves, asked, read, excused>>

\* OnGameLoaded: new rules on the old listener, and the kept requests whose connection is alive.
HostLoadedForgets ==
    /\ hosting /\ loading
    /\ hostWorld' = checkpoint /\ asked' = FALSE /\ read' = FALSE /\ loading' = FALSE /\ checkpoint' = 0
    /\ kept' = NoAsks
    /\ UNCHANGED <<guestsUntouched, hosting, alive, ask, notices, players, receivers, saves, excused>>
HostLoaded ==
    /\ hosting /\ loading
    /\ hostWorld' = checkpoint /\ asked' = FALSE /\ read' = FALSE /\ loading' = FALSE /\ checkpoint' = 0
    /\ Answer([s \in Slots |-> IF s \in alive THEN kept[s] ELSE "none"]) /\ kept' = NoAsks
    /\ UNCHANGED <<guestsUntouched, hosting, ask, saves, excused>>

\* StopHosting, announced or not (a host that closes its game).
HostEnds ==
    /\ Ends /\ hosting /\ hosting' = FALSE
    /\ \/ /\ notices' = [s \in Slots |-> IF s \in alive THEN <<Told("hostLeft")>> ELSE notices[s]]
          /\ UNCHANGED game
       \/ /\ notices' = [s \in Slots |-> <<>>]
          /\ game' = [g \in Guests |-> [game[g] EXCEPT !.slot = 0]]
    /\ peer' = [s \in Slots |-> Nobody] /\ ask' = NoAsks /\ alive' = {} /\ players' = {}
    /\ receivers' = [s \in Slots |-> NotWanting]
    /\ asked' = FALSE /\ read' = FALSE /\ loading' = FALSE /\ checkpoint' = 0 /\ kept' = NoAsks
    /\ UNCHANGED <<joins, breaks, hostWorld, saves, excused>>

GuestStep(g) ==
    \/ \E brought \in BOOLEAN : Join(g, brought)
    \/ Dial(g) \/ Lost(g) \/ Break(g) \/ Read(g) \/ Created(g) \/ Loaded(g) \/ LoadFails(g) \/ Placed(g)
    \/ Timeout(g) \/ Reconnect(g) \/ FinishSession(g) \/ Quit(g)

HostStep ==
    \/ \E s \in Slots : HandleAsk(s) \/ SendBlock(s) \/ HostHears(s) \/ HostKicks(s)
    \/ LoadSave \/ Wipe \/ SendCheckpoint \/ StartLoad \/ HostLoaded \/ HostLoadFails \/ HostEnds

Next == (\E g \in Guests : GuestStep(g)) \/ HostStep

\* Every frame reads what has come, runs the limits and, on the host, hears, answers, sends and reloads; a
\* dial or a load comes to an end.  Only people start, leave or end things, and finish a character.
Fairness ==
    /\ \A g \in Guests :
        /\ WF_vars(Lost(g)) /\ WF_vars(Read(g)) /\ WF_vars(Loaded(g) \/ LoadFails(g)) /\ WF_vars(Placed(g))
        /\ WF_vars(Timeout(g)) /\ WF_vars(Reconnect(g)) /\ WF_vars(FinishSession(g))
    /\ \A s \in Slots : WF_vars(HandleAsk(s)) /\ WF_vars(SendBlock(s)) /\ WF_vars(HostHears(s))
    /\ WF_vars(SendCheckpoint) /\ WF_vars(StartLoad) /\ WF_vars(HostLoaded \/ HostLoadFails)

Spec == Init /\ [][Next]_vars /\ Fairness

-----------------------------------------------------------------------------
(* Properties.                                                             *)

\* Every game goes back to the save the host loads: no player stays in a world the host has left.  (A game
\* that was loading an older save, or rejoining, while the host reloaded asks plainly and is let in.)
EveryGameRollsBack ==
    \A g \in Guests : game[g].online /\ game[g].slot \in players => game[g].world \notin 1 .. hostWorld - 1

\* A guest in the session is in the host's world, the known divergences apart (excused).
SameWorld == \A g \in Guests \ excused : game[g].online /\ game[g].slot \in players => game[g].world = hostWorld

\* With nothing on its way over a connection, the host counts its game a player exactly when the game
\* counts itself in the session.
Quiet(s) == notices[s] = <<>> /\ peer[s] # Nobody /\ game[peer[s]].slot = s
PlayersAgree == \A s \in Slots : Quiet(s) => (s \in players <=> game[peer[s]].online)

\* A game that waits on an open connection has something coming: its request is on its way or kept, its
\* save is being sent, or an answer is there to read.
Waiting(r) == r.slot # 0 /\ r.step \in {"checking", "receiving", "joining", "reconnecting"} /\ r.link = "open"
Answered ==
    \A g \in Guests \ excused :
        LET s == game[g].slot IN
        Waiting(game[g]) => \/ ask[s] # "none" \/ kept[s] # "none" \/ notices[s] # <<>>
                            \/ receivers[s].next # 0

\* A reload the host has the save for comes to its end, unless a kicked connection became a player.
Ghosts == players \ alive
ReloadComes == checkpoint # 0 ~> checkpoint = 0 \/ Ghosts # {}

\* A join comes to its end: in the session, or back where it was.
JoinEnds == \A g \in Guests : game[g].step \notin {"idle", "creating"} ~> game[g].step \in {"idle", "creating"}

=============================================================================
