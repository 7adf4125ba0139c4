-------------------------- MODULE PartyDeathProofs --------------------------
(***************************************************************************)
(* Proofs about PartyDeath for every party, every set of NPCs and every    *)
(* bound: types, that the recovery timer never runs through a fight, that  *)
(* the host holds what each game said of its player, that a respawn is     *)
(* followed only in the fall it was decided for, and that a wipe is        *)
(* everyone's fall.                                                        *)
(***************************************************************************)
EXTENDS PartyDeath, SequenceTheorems, TLAPS

-----------------------------------------------------------------------------
\* The messages.

\* What the model says of a fight is one (AiStateService::ToState).
LEMMA AiTypes ==
    /\ Peace \in AiState
    /\ \A p : PlayerAi(p) \subseteq AiState
    /\ \A s \in AiState : s.combat \in BOOLEAN /\ s.target \in Players \union {0}
<1>1. Peace \in AiState
  BY DEF AiState
<1>2. ASSUME NEW p PROVE PlayerAi(p) \subseteq AiState
  BY <1>1 DEF PlayerAi
<1>3. ASSUME NEW s \in AiState PROVE s.combat \in BOOLEAN /\ s.target \in Players \union {0}
  <2>1. CASE s = Peace
    BY <2>1 DEF Peace
  <2>2. CASE s \in [combat: {TRUE}, target: FightTargets \union {0}]
    BY <2>2, FightAssumption
  <2>. QED BY <2>1, <2>2 DEF AiState
<1>. QED BY <1>1, <1>2, <1>3

\* Every request a game makes is a request (the messages of HostDeath).
LEMMA RequestTypes ==
    /\ \A s \in AiState : AiReport(s) \in Request /\ Announcement(s) \in Request
    /\ \A m \in Request : m.type = "death" => m.gen \in Nat /\ m.down \in BOOLEAN
    /\ \A m \in Request : m.type # "death" => m.ai \in AiState
BY DEF AiReport, Announcement, Request

\* A channel stays a channel when a message is put into it.
LEMMA AppendType ==
    \A S : \A s \in Seq(S), e \in S : Append(s, e) \in Seq(S)
OBVIOUS

\* Every notice the host's rules send is a notice.
LEMMA NoticeTypes ==
    /\ \A g \in Nat : RespawnNotice(g) \in Notice
    /\ WipeNotice \in Notice
BY DEF RespawnNotice, WipeNotice, Notice

\* Sending keeps the channel's type, and what is read from it is a request.
LEMMA SendAllType ==
    ASSUME ChannelsOK, NEW p \in Players, NEW messages \in Seq(Request), SendAll(p, messages)
    PROVE  requests' \in [Players -> Seq(Request)]
BY DEF ChannelsOK, SendAll

\* What is read from a player's channel is a request, and the rest is a channel.
LEMMA ReadType ==
    ASSUME ChannelsOK, NEW p \in Players, requests[p] # <<>>,
           requests' = [requests EXCEPT ![p] = Tail(@)]
    PROVE  Head(requests[p]) \in Request /\ requests' \in [Players -> Seq(Request)]
BY DEF ChannelsOK

\* What a game reads is a notice, and the rest is a channel.
LEMMA NoticeReadType ==
    ASSUME ChannelsOK, NEW p \in Players, notices[p] # <<>>,
           notices' = [notices EXCEPT ![p] = Tail(@)]
    PROVE  notices' \in [Players -> Seq(Notice)]
BY DEF ChannelsOK

-----------------------------------------------------------------------------
\* What Reconsider leaves behind has the right types.
LEMMA ReconsiderType ==
    ASSUME ChannelsOK, TimerOK, Reconsider
    PROVE  notices' \in [Players -> Seq(Notice)] /\ TimerOK'
<1>1. \A p \in Players : notices[p] \in Seq(Notice) /\ Append(notices[p], WipeNotice) \in Seq(Notice)
  BY NoticeTypes DEF ChannelsOK
<1>2. <<>> \in Seq(Notice)
  OBVIOUS
<1>3. CASE wiped
  BY <1>1, <1>2, <1>3 DEF Reconsider, TimerOK, timerVars
<1>4. CASE ~wiped /\ AllDown'
  BY <1>1, <1>2, <1>4 DEF Reconsider, TimerOK, NoTimer
<1>5. CASE ~wiped /\ ~AllDown'
  <2>1. StandingPlayerFights' \in BOOLEAN
    BY DEF StandingPlayerFights
  <2>2. /\ combat' = StandingPlayerFights'
        /\ wiped' = FALSE
        /\ recovery' = NoTimer \/ recovery' = RecoveryTicks \/ recovery' = recovery
        /\ notices' = [p \in Players |-> IF conn'[p] = "open" THEN notices[p] ELSE <<>>]
    BY <1>5 DEF Reconsider
  <2>3. combat' \in BOOLEAN /\ wiped' \in BOOLEAN
    BY <2>1, <2>2
  <2>4. recovery' \in 0 .. RecoveryTicks \union {NoTimer}
    BY <2>2, BoundsAssumption DEF TimerOK
  <2>5. notices' \in [Players -> Seq(Notice)]
    BY <1>1, <1>2, <2>2
  <2>. QED BY <2>3, <2>4, <2>5 DEF TimerOK
<1>. QED BY <1>3, <1>4, <1>5 DEF TimerOK

\* A respawn leaves the timer, the beliefs and the channels with their types (HostDeath::Respawn).
LEMMA RespawnType ==
    ASSUME TypeOK, NEW hostPlaced, Respawn(hostPlaced)
    PROVE  /\ notices' \in [Players -> Seq(Notice)]
           /\ respawning' \in [Players -> BOOLEAN]
           /\ TimerOK'
<1>1. \A p \in Players : /\ notices[p] \in Seq(Notice)
                         /\ Append(notices[p], RespawnNotice(body[p].gen)) \in Seq(Notice)
  BY NoticeTypes DEF TypeOK, ChannelsOK, PartyOK, Body
<1>2. StandingPlayerFights \in BOOLEAN /\ \A p \in Players : respawning[p] \in BOOLEAN
  BY DEF StandingPlayerFights, TypeOK, PartyOK
<1>3. CASE Anchors(hostPlaced) # {}
  BY <1>1, <1>2, <1>3 DEF Respawn, TypeOK, TimerOK
<1>4. CASE Anchors(hostPlaced) = {}
  <2>1. /\ recovery' = NoTimer \/ recovery' = RecoveryTicks
        /\ combat' = StandingPlayerFights
        /\ UNCHANGED <<respawning, notices, wiped>>
    BY <1>4 DEF Respawn
  <2>. QED BY <1>2, <2>1, BoundsAssumption DEF TypeOK, TimerOK, ChannelsOK, PartyOK
<1>. QED BY <1>3, <1>4

-----------------------------------------------------------------------------
\* Every variable keeps its type (HostDeath and DeathService).
THEOREM TypeCorrect == Spec => []TypeOK
<1>1. Init => TypeOK
  <2> SUFFICES ASSUME Init PROVE TypeOK
    OBVIOUS
  <2>1. GamesOK
    BY DEF Init, GamesOK
  <2>2. ChannelsOK
    BY DEF Init, ChannelsOK
  <2>3. PartyOK
    BY DEF Init, PartyOK, Body, NobodysBody
  <2>4. FightsOK
    BY AiTypes DEF Init, FightsOK
  <2>5. TimerOK
    BY DEF Init, TimerOK
  <2>. QED BY <2>1, <2>2, <2>3, <2>4, <2>5 DEF TypeOK
<1>2. TypeOK /\ [Next]_vars => TypeOK'
  <2> SUFFICES ASSUME TypeOK, [Next]_vars PROVE TypeOK'
    OBVIOUS
  <2>0. GamesOK /\ ChannelsOK /\ PartyOK /\ FightsOK /\ TimerOK
    BY DEF TypeOK
  <2>1. ASSUME NEW p \in Players, OnAnnounce(p) PROVE TypeOK'
    <3>1. Head(requests[p]).ai \in AiState /\ requests' \in [Players -> Seq(Request)]
      BY <2>0, <2>1, ReadType, RequestTypes DEF OnAnnounce
    <3>2. ChannelsOK' /\ TimerOK'
      BY <2>0, <2>1, <3>1, ReconsiderType DEF OnAnnounce, ChannelsOK
    <3>3. GamesOK' /\ PartyOK'
      BY <2>0, <2>1 DEF OnAnnounce, GamesOK, PartyOK, gameVars
    <3>4. FightsOK'
      BY <2>0, <2>1, <3>1 DEF OnAnnounce, FightsOK, Characters
    <3>. QED BY <3>2, <3>3, <3>4 DEF TypeOK
  <2>2. ASSUME NEW p \in Players, OnDeath(p) PROVE TypeOK'
    <3>1. /\ Head(requests[p]).gen \in Nat /\ Head(requests[p]).down \in BOOLEAN
          /\ requests' \in [Players -> Seq(Request)]
      BY <2>0, <2>2, ReadType, RequestTypes DEF OnDeath
    <3>2. GamesOK' /\ FightsOK'
      BY <2>0, <2>2 DEF OnDeath, GamesOK, FightsOK, gameVars, aiVars
    <3>3. CASE DeathAccepted(p, Head(requests[p]))
      <4>1. PartyOK' /\ Reconsider
        <5>1. [gen |-> Head(requests[p]).gen, down |-> Head(requests[p]).down] \in Body
          BY <3>1 DEF Body
        <5>. QED BY <2>0, <2>2, <3>3, <5>1 DEF OnDeath, PartyOK
      <4>. QED BY <2>0, <3>1, <3>2, <4>1, ReconsiderType DEF TypeOK, ChannelsOK
    <3>4. CASE ~DeathAccepted(p, Head(requests[p]))
      BY <2>0, <2>2, <3>1, <3>2, <3>4 DEF OnDeath, TypeOK, ChannelsOK, PartyOK, TimerOK, timerVars
    <3>. QED BY <3>3, <3>4
  <2>3. ASSUME NEW p \in Players, OnAiState(p) PROVE TypeOK'
    <3>1. Head(requests[p]).ai \in AiState /\ requests' \in [Players -> Seq(Request)]
      BY <2>0, <2>3, ReadType, RequestTypes DEF OnAiState
    <3>2. GamesOK' /\ PartyOK'
      BY <2>0, <2>3 DEF OnAiState, GamesOK, PartyOK, gameVars, partyVars
    <3>3. CASE p \in party
      <4>1. FightsOK'
        <5>. DEFINE state == Head(requests[p]).ai
                    kept == IF ~state.combat THEN {} ELSE targets[p] \union ({state.target} \ {0})
        <5>1. p \in Characters /\ kept \in SUBSET Players
          BY <2>0, <3>1, AiTypes DEF FightsOK, Characters
        <5>2. ai' = [ai EXCEPT ![p] = state] /\ targets' = [targets EXCEPT ![p] = kept]
          BY <2>3, <3>3 DEF OnAiState, KeepAi
        <5>. QED BY <2>0, <2>3, <3>1, <5>1, <5>2 DEF OnAiState, FightsOK
      <4>. QED BY <2>0, <2>3, <3>1, <3>2, <3>3, <4>1, ReconsiderType DEF OnAiState, TypeOK, ChannelsOK
    <3>4. CASE p \notin party
      BY <2>0, <2>3, <3>1, <3>2, <3>4 DEF OnAiState, TypeOK, ChannelsOK, FightsOK, TimerOK, timerVars
    <3>. QED BY <3>3, <3>4
  <2>4. ASSUME NEW p \in Players, DropRequest(p) PROVE TypeOK'
    <3>1. ChannelsOK'
      BY <2>0, <2>4, ReadType DEF DropRequest, ChannelsOK
    <3>. QED BY <2>0, <2>4, <3>1 DEF DropRequest, TypeOK, GamesOK, PartyOK, FightsOK, TimerOK,
                gameVars, partyVars, aiVars, timerVars
  <2>5. ASSUME NEW p \in Players, OnRespawn(p) PROVE TypeOK'
    <3>1. ChannelsOK'
      BY <2>0, <2>5, NoticeReadType DEF OnRespawn, ChannelsOK
    <3>2. respawn' \in [Players -> BOOLEAN]
      BY <2>0, <2>5 DEF OnRespawn, GamesOK
    <3>. QED BY <2>0, <2>5, <3>1, <3>2 DEF OnRespawn, TypeOK, GamesOK, PartyOK, FightsOK, TimerOK,
                partyVars, aiVars, timerVars
  <2>6. ASSUME NEW p \in Players, OnPartyDeath(p) PROVE TypeOK'
    <3>1. ChannelsOK'
      BY <2>0, <2>6, NoticeReadType DEF OnPartyDeath, ChannelsOK
    <3>. QED BY <2>0, <2>6, <3>1 DEF OnPartyDeath, TypeOK, GamesOK, PartyOK, FightsOK, TimerOK,
                partyVars, aiVars, timerVars
  <2>7. ASSUME NEW p \in Players, Connected(p) PROVE TypeOK'
    BY <2>0, <2>7 DEF Connected, TypeOK, GamesOK, ChannelsOK, PartyOK, FightsOK, TimerOK,
       gameVars, partyVars, aiVars, timerVars
  <2>8. ASSUME NEW p \in Players, AnnounceCharacter(p) PROVE TypeOK'
    <3>1. PICK state \in PlayerAi(p) : SendAll(p, <<Announcement(state)>>)
      BY <2>8 DEF AnnounceCharacter
    <3>2. <<Announcement(state)>> \in Seq(Request)
      BY AiTypes, RequestTypes
    <3>3. ChannelsOK'
      BY <2>0, <2>8, <3>1, <3>2, SendAllType DEF AnnounceCharacter, ChannelsOK
    <3>. QED BY <2>0, <2>8, <3>3 DEF AnnounceCharacter, TypeOK, GamesOK, PartyOK, FightsOK, TimerOK,
                partyVars, aiVars, timerVars
  <2>9. ASSUME NEW p \in Players, NEW dead \in BOOLEAN, OnUpdate(p, dead) PROVE TypeOK'
    <3>1. PICK state \in PlayerAi(p) :
            /\ sentAi' = [sentAi EXCEPT ![p] = state]
            /\ \/ /\ down' = [down EXCEPT ![p] = TRUE]
                  /\ gen' = [gen EXCEPT ![p] = @ + 1]
                  /\ SendAll(p, Append(<<DeathReport(gen[p], down[p])>> \o ChangedAi(p, state),
                                       DeathReport(gen[p] + 1, TRUE)))
               \/ /\ SendAll(p, <<DeathReport(gen[p], down[p])>> \o ChangedAi(p, state))
                  /\ UNCHANGED <<down, gen>>
      BY <2>9 DEF OnUpdate
    <3>2. state \in AiState /\ gen[p] \in Nat /\ down[p] \in BOOLEAN
      BY <2>0, <3>1, AiTypes DEF GamesOK
    <3>3. ChangedAi(p, state) \in Seq(Request)
      BY <3>2, RequestTypes DEF ChangedAi
    <3>4. /\ DeathReport(gen[p], down[p]) \in Request
          /\ DeathReport(gen[p] + 1, TRUE) \in Request
      <4>1. DeathReport(gen[p], down[p]) \in Request
        BY <2>0 DEF GamesOK, DeathReport, Request
      <4>2. DeathReport(gen[p] + 1, TRUE) \in Request
        BY <3>2 DEF DeathReport, Request
      <4>. QED BY <4>1, <4>2
    <3>5. <<DeathReport(gen[p], down[p])>> \o ChangedAi(p, state) \in Seq(Request)
      BY <3>3, <3>4
    <3>6. Append(<<DeathReport(gen[p], down[p])>> \o ChangedAi(p, state),
                 DeathReport(gen[p] + 1, TRUE)) \in Seq(Request)
      BY <3>4, <3>5, AppendType, Zenon
    <3>7. ChannelsOK'
      BY <2>0, <2>9, <3>1, <3>5, <3>6, SendAllType DEF OnUpdate, ChannelsOK
    <3>8. down' \in [Players -> BOOLEAN] /\ gen' \in [Players -> Nat]
      <4>1. CASE down' = [down EXCEPT ![p] = TRUE] /\ gen' = [gen EXCEPT ![p] = @ + 1]
        BY <2>0, <4>1 DEF GamesOK
      <4>2. CASE UNCHANGED <<down, gen>>
        BY <2>0, <4>2 DEF GamesOK
      <4>. QED BY <3>1, <4>1, <4>2
    <3>9. GamesOK'
      BY <2>0, <2>9, <3>1, <3>2, <3>8 DEF OnUpdate, GamesOK
    <3>. QED BY <2>0, <2>9, <3>7, <3>9 DEF OnUpdate, TypeOK, PartyOK, FightsOK, TimerOK,
                partyVars, aiVars, timerVars
  <2>10. ASSUME NEW p \in Players, GoDown(p) PROVE TypeOK'
    <3>1. gen[p] + 1 \in Nat /\ <<DeathReport(gen[p] + 1, TRUE)>> \in Seq(Request)
      BY <2>0 DEF GamesOK, DeathReport, Request
    <3>2. ChannelsOK'
      BY <2>0, <2>10, <3>1, SendAllType DEF GoDown, ChannelsOK
    <3>3. GamesOK'
      BY <2>0, <2>10, <3>1 DEF GoDown, GamesOK
    <3>. QED BY <2>0, <2>10, <3>2, <3>3 DEF GoDown, TypeOK, PartyOK, FightsOK, TimerOK,
                partyVars, aiVars, timerVars
  <2>11. ASSUME NEW p \in Players, SendAi(p) PROVE TypeOK'
    <3>1. PICK state \in PlayerAi(p) :
            sentAi' = [sentAi EXCEPT ![p] = state] /\ SendAll(p, <<AiReport(state)>>)
      BY <2>11 DEF SendAi
    <3>2. state \in AiState /\ <<AiReport(state)>> \in Seq(Request)
      BY <3>1, AiTypes, RequestTypes
    <3>3. ChannelsOK'
      BY <2>0, <2>11, <3>1, <3>2, SendAllType DEF SendAi, ChannelsOK
    <3>4. GamesOK'
      BY <2>0, <2>11, <3>1, <3>2 DEF SendAi, GamesOK
    <3>. QED BY <2>0, <2>11, <3>3, <3>4 DEF SendAi, TypeOK, PartyOK, FightsOK, TimerOK,
                partyVars, aiVars, timerVars
  <2>12. ASSUME NEW p \in Players, OnRespawnArrival(p) PROVE TypeOK'
    <3>1. <<DeathReport(gen[p], FALSE)>> \in Seq(Request)
      BY <2>0 DEF GamesOK, DeathReport, Request
    <3>2. ChannelsOK'
      BY <2>0, <2>12, <3>1, SendAllType DEF OnRespawnArrival, ChannelsOK
    <3>3. GamesOK'
      BY <2>0, <2>12 DEF OnRespawnArrival, GamesOK
    <3>. QED BY <2>0, <2>12, <3>2, <3>3 DEF OnRespawnArrival, TypeOK, PartyOK, FightsOK, TimerOK,
                partyVars, aiVars, timerVars
  <2>13. ASSUME NEW p \in Players, Left(p) PROVE TypeOK'
    <3>1. GamesOK'
      BY <2>0, <2>13 DEF Left, GamesOK
    <3>2. PartyOK' /\ FightsOK'
      BY <2>0, <2>13, AiTypes DEF Left, PartyOK, FightsOK, Body, NobodysBody, Characters
    <3>3. ChannelsOK' /\ TimerOK'
      BY <2>0, <2>13, ReconsiderType DEF Left, ChannelsOK
    <3>. QED BY <3>1, <3>2, <3>3 DEF TypeOK
  <2>14. ASSUME NEW n \in Npcs, NpcAnnounced(n) PROVE TypeOK'
    <3>1. ChannelsOK' /\ TimerOK'
      BY <2>0, <2>14, ReconsiderType DEF NpcAnnounced, ChannelsOK
    <3>2. FightsOK'
      BY <2>0, <2>14 DEF NpcAnnounced, FightsOK, Characters
    <3>. QED BY <2>0, <2>14, <3>1, <3>2 DEF NpcAnnounced, TypeOK, GamesOK, PartyOK, gameVars, partyVars
  <2>15. ASSUME NEW n \in Npcs, NpcAiState(n) PROVE TypeOK'
    <3>1. ChannelsOK' /\ TimerOK'
      BY <2>0, <2>15, ReconsiderType DEF NpcAiState, ChannelsOK
    <3>2. FightsOK'
      BY <2>0, <2>15, AiTypes DEF NpcAiState, KeepAi, FightsOK, Characters
    <3>. QED BY <2>0, <2>15, <3>1, <3>2 DEF NpcAiState, TypeOK, GamesOK, PartyOK, gameVars, partyVars
  <2>16. ASSUME NEW n \in Npcs, NpcRemoved(n) PROVE TypeOK'
    BY <2>0, <2>16 DEF NpcRemoved, TypeOK, GamesOK, ChannelsOK, PartyOK, FightsOK, TimerOK,
       gameVars, partyVars, timerVars
  <2>17. ASSUME NEW hostPlaced \in BOOLEAN, Update(hostPlaced) PROVE TypeOK'
    <3>1. CASE recovery > 1 /\ recovery' = recovery - 1 /\ UNCHANGED <<respawning, notices, combat, wiped>>
      BY <2>0, <2>17, <3>1, BoundsAssumption DEF Update, TypeOK, GamesOK, ChannelsOK, PartyOK, FightsOK, TimerOK,
         gameVars, aiVars, NoTimer
    <3>2. CASE Respawn(hostPlaced)
      BY <2>0, <2>17, <3>2, RespawnType DEF Update, TypeOK, GamesOK, ChannelsOK, PartyOK, FightsOK, gameVars, aiVars
    <3>. QED BY <2>17, <3>1, <3>2 DEF Update
  <2>18. CASE UNCHANGED vars
    BY <2>0, <2>18 DEF vars, gameVars, partyVars, aiVars, timerVars,
       TypeOK, GamesOK, ChannelsOK, PartyOK, FightsOK, TimerOK
  <2>. QED
    BY <2>1, <2>2, <2>3, <2>4, <2>5, <2>6, <2>7, <2>8, <2>9, <2>10, <2>11, <2>12, <2>13, <2>14,
       <2>15, <2>16, <2>17, <2>18 DEF Next, HostReads, GameReads, GameActs
<1>. QED BY <1>1, <1>2, PTL DEF Spec
-----------------------------------------------------------------------------
\* What the timer waits for is a function of the party and of the fights.
LEMMA CalmStays ==
    ASSUME UNCHANGED <<party, body, known, ai, targets, present>>
    PROVE  TimerMayRun' = TimerMayRun
BY DEF TimerMayRun, AllKnown, SomeoneDown, StandingPlayerFights, Standing, HostOwns

\* An NPC the host's game no longer simulates can only end fights.
LEMMA RemovalCalms ==
    ASSUME NEW n \in Npcs, NpcRemoved(n), TimerMayRun
    PROVE  TimerMayRun'
<1>1. Standing' = Standing /\ (SomeoneDown <=> SomeoneDown') /\ (AllKnown <=> AllKnown')
  BY DEF NpcRemoved, partyVars, Standing, SomeoneDown, AllKnown
<1>2. ASSUME NEW c \in Characters, HostOwns(c)' PROVE HostOwns(c)
  BY <1>2 DEF NpcRemoved, partyVars, HostOwns
<1>3. StandingPlayerFights' => StandingPlayerFights
  BY <1>1, <1>2 DEF NpcRemoved, StandingPlayerFights
<1>. QED BY <1>1, <1>3 DEF TimerMayRun

\* Whatever changed before it, Reconsider leaves no timer running through a fight: after a
\* wipe there was none, and otherwise it sets or keeps one only if it may run.
LEMMA ReconsiderCalm ==
    ASSUME TimerOnlyInCalm, Reconsider
    PROVE  TimerOnlyInCalm'
<1>1. CASE wiped
  BY <1>1 DEF Reconsider, timerVars, TimerOnlyInCalm
<1>2. CASE ~wiped /\ AllDown'
  BY <1>2 DEF Reconsider, TimerOnlyInCalm
<1>3. CASE ~wiped /\ ~AllDown'
  BY <1>3 DEF Reconsider, TimerOnlyInCalm
<1>. QED BY <1>1, <1>2, <1>3

\* The recovery timer never runs through a fight (HostDeath::Reconsider).
THEOREM TimerRunsInCalm == Spec => []TimerOnlyInCalm
<1>1. Init => TimerOnlyInCalm
  BY DEF Init, TimerOnlyInCalm
<1>2. TimerOnlyInCalm /\ [Next]_vars => TimerOnlyInCalm'
  <2> SUFFICES ASSUME TimerOnlyInCalm, [Next]_vars PROVE TimerOnlyInCalm'
    OBVIOUS
  <2>1. ASSUME UNCHANGED <<partyVars, aiVars, timerVars>> PROVE TimerOnlyInCalm'
    BY <2>1, CalmStays DEF TimerOnlyInCalm, partyVars, aiVars, timerVars
  <2>2. ASSUME NEW p \in Players, HostReads(p) PROVE TimerOnlyInCalm'
    <3>1. CASE OnAnnounce(p)
      BY <3>1, ReconsiderCalm DEF OnAnnounce
    <3>2. CASE OnDeath(p)
      <4>1. CASE Reconsider
        BY <4>1, ReconsiderCalm
      <4>2. CASE UNCHANGED <<body, known, respawning, notices, timerVars>>
        BY <2>1, <3>2, <4>2 DEF OnDeath, partyVars, aiVars
      <4>. QED BY <3>2, <4>1, <4>2 DEF OnDeath
    <3>3. CASE OnAiState(p)
      <4>1. CASE Reconsider
        BY <4>1, ReconsiderCalm
      <4>2. CASE UNCHANGED <<ai, targets, notices, timerVars>>
        BY <2>1, <3>3, <4>2 DEF OnAiState, partyVars, aiVars
      <4>. QED BY <3>3, <4>1, <4>2 DEF OnAiState
    <3>4. CASE DropRequest(p)
      BY <2>1, <3>4 DEF DropRequest
    <3>. QED BY <2>2, <3>1, <3>2, <3>3, <3>4 DEF HostReads
  <2>3. ASSUME NEW p \in Players, GameReads(p) PROVE TimerOnlyInCalm'
    BY <2>1, <2>3 DEF GameReads, OnRespawn, OnPartyDeath
  <2>4. ASSUME NEW p \in Players, GameActs(p) PROVE TimerOnlyInCalm'
    BY <2>1, <2>4 DEF GameActs, Connected, AnnounceCharacter, OnUpdate, GoDown, SendAi, OnRespawnArrival
  <2>5. ASSUME NEW p \in Players, Left(p) PROVE TimerOnlyInCalm'
    BY <2>5, ReconsiderCalm DEF Left
  <2>6. ASSUME NEW n \in Npcs, NpcAnnounced(n) \/ NpcAiState(n) PROVE TimerOnlyInCalm'
    BY <2>6, ReconsiderCalm DEF NpcAnnounced, NpcAiState
  <2>7. ASSUME NEW n \in Npcs, NpcRemoved(n) PROVE TimerOnlyInCalm'
    BY <2>7, RemovalCalms DEF NpcRemoved, timerVars, TimerOnlyInCalm
  <2>8. ASSUME NEW hostPlaced \in BOOLEAN, Update(hostPlaced) PROVE TimerOnlyInCalm'
    <3>1. UNCHANGED <<party, body, known, ai, targets, present>> /\ recovery # NoTimer /\ ~wiped
      BY <2>8 DEF Update, aiVars
    <3>2. TimerMayRun' = TimerMayRun /\ TimerMayRun
      BY <3>1, CalmStays DEF TimerOnlyInCalm
    <3>3. wiped' = wiped
      BY <2>8 DEF Update, Respawn
    <3>. QED BY <3>1, <3>2, <3>3 DEF TimerOnlyInCalm
  <2>9. CASE UNCHANGED vars
    BY <2>1, <2>9 DEF vars
  <2>. QED BY <2>2, <2>3, <2>4, <2>5, <2>6, <2>7, <2>8, <2>9 DEF Next
<1>. QED BY <1>1, <1>2, PTL DEF Spec

-----------------------------------------------------------------------------
\* The inductive invariant.

\* A player's falls and risings are counted by one number: it is up at rank 1, down in its first
\* fall at rank 2, up again at rank 3, and so on.
Rank(g, d) == IF d THEN 2 * g ELSE 2 * g + 1
Now(p) == Rank(gen[p], down[p])
Held(p) == Rank(body[p].gen, body[p].down)

IsReport(m) == m.type = "death"
ReportRank(m) == Rank(m.gen, m.down)
Reports(s) == {i \in DOMAIN s : IsReport(s[i])}
Ordered(s) == \A i, j \in Reports(s) : i <= j => ReportRank(s[i]) <= ReportRank(s[j])
Tells(s, k) == \E i \in Reports(s) : ReportRank(s[i]) = k

\* What the host holds of a player lags its game by one fall at most, and by a rising only once
\* it respawned the player.
BodyOK(p) ==
    /\ down[p] => gen[p] >= 1
    /\ body[p].down => known[p] /\ body[p].gen >= 1
    /\ ~known[p] => body[p] = NobodysBody
    /\ p \notin party => ~known[p] /\ ~respawning[p]
    /\ respawning[p] => body[p].down
    /\ Held(p) <= Now(p) /\ Now(p) <= 2 * (body[p].gen + 1)
    /\ body[p].down /\ Held(p) < Now(p) => respawning[p]

\* Its unread reports tell nothing older than what the host holds and nothing newer than its game.
ReportsOK(p) ==
    /\ Ordered(requests[p])
    /\ \A i \in Reports(requests[p]) :
         LET m == requests[p][i] IN
         /\ Held(p) <= ReportRank(m) /\ ReportRank(m) <= Now(p)
         /\ m.down => m.gen >= 1
         /\ ReportRank(m) = 1 => announced[p]

RespawnOf(p, m) ==
    m.type = "respawn" =>
        p \in party /\ m.gen >= 1 /\ Held(p) >= 2 * m.gen /\ (Held(p) = 2 * m.gen => respawning[p])
NoticesOK(p) == \A i \in DOMAIN notices[p] : RespawnOf(p, notices[p][i])

RespawnOK(p) ==
    respawn[p] => /\ p \in party /\ down[p]
                  /\ body[p] = [gen |-> gen[p], down |-> TRUE]
                  /\ respawning[p]

PlayerOK(p) == BodyOK(p) /\ ReportsOK(p) /\ NoticesOK(p) /\ RespawnOK(p)

\* Nothing is missed: every rank the host does not hold yet is in an unread report.
Complete(p) == \A k \in Nat : Held(p) < k /\ k <= Now(p) => Tells(requests[p], k)
HeardOK(p) ==
    /\ announced[p] => spawned[p]
    /\ p \in party /\ (announced[p] \/ Held(p) >= 2) => Complete(p)
    /\ p \in party /\ announced[p] /\ ~known[p] => Reports(requests[p]) # {}
    /\ p \notin party /\ spawned[p] =>
         \E i \in DOMAIN requests[p] :
            /\ requests[p][i].type = "announce"
            /\ announced[p] => \E j \in Reports(requests[p]) : i < j /\ ReportRank(requests[p][j]) = Now(p)

\* All of it; up to the wipe, nothing said is missed.
FallsInv ==
    /\ \A p \in Players : PlayerOK(p)
    /\ ~wiped => \A p \in Players : HeardOK(p)

-----------------------------------------------------------------------------
\* Ranks and sequences of messages.

\* A rank tells the fall and the posture (DeathService's m_generation and m_down).
LEMMA RankTells ==
    ASSUME NEW g \in Nat, NEW d \in BOOLEAN
    PROVE  /\ Rank(g, d) \in Nat /\ Rank(g, d) \in 2 * g .. 2 * g + 1
           /\ Rank(g, TRUE) = 2 * g /\ Rank(g, FALSE) = 2 * g + 1
           /\ \A h \in Nat, e \in BOOLEAN : Rank(g, d) = Rank(h, e) => g = h /\ d = e
           /\ \A h \in Nat, e \in BOOLEAN : Rank(g, d) <= Rank(h, e) => g <= h
BY DEF Rank

\* What is left of a channel once its oldest message is read (OrderedReliable delivery).
LEMMA TailFacts ==
    ASSUME NEW S, NEW s \in Seq(S), s # <<>>
    PROVE  /\ Head(s) = s[1] /\ 1 \in DOMAIN s /\ Tail(s) \in Seq(S)
           /\ \A i \in DOMAIN Tail(s) : i \in Nat /\ i + 1 \in DOMAIN s /\ Tail(s)[i] = s[i + 1]
           /\ \A i \in DOMAIN s : i # 1 => i - 1 \in DOMAIN Tail(s) /\ Tail(s)[i - 1] = s[i]
<1>1. PICK t : t = Tail(s)
  OBVIOUS
<1>2. /\ t \in Seq(S) /\ Len(t) = Len(s) - 1 /\ Len(s) \in Nat /\ Len(s) # 0
      /\ \A i \in 1 .. Len(t) : t[i] = s[i + 1]
  BY <1>1, HeadTailProperties, EmptySeq, LenProperties
<1>3. DOMAIN s = 1 .. Len(s) /\ DOMAIN t = 1 .. Len(t) /\ Head(s) = s[1]
  BY <1>2, LenProperties, HeadTailProperties
<1>4. \A i \in DOMAIN t : i \in Nat /\ i + 1 \in DOMAIN s /\ t[i] = s[i + 1]
  BY <1>2, <1>3
<1>5. \A i \in DOMAIN s : i # 1 => i - 1 \in DOMAIN t /\ t[i - 1] = s[i]
  BY <1>2, <1>3
<1>6. 1 \in DOMAIN s
  BY <1>2, <1>3
<1>. QED BY <1>1, <1>2, <1>3, <1>4, <1>5, <1>6, Zenon

\* The reports left once the oldest message is read.
LEMMA TailReports ==
    ASSUME NEW s \in Seq(Request), s # <<>>
    PROVE  /\ \A i \in Reports(Tail(s)) : i + 1 \in Reports(s) /\ Tail(s)[i] = s[i + 1]
           /\ Ordered(s) => Ordered(Tail(s))
           /\ \A k : Tells(s, k) => Tells(Tail(s), k) \/ (IsReport(Head(s)) /\ ReportRank(Head(s)) = k)
           /\ ~IsReport(Head(s)) /\ Reports(s) # {} => Reports(Tail(s)) # {}
           /\ IsReport(Head(s)) => 1 \in Reports(s) /\ Head(s) = s[1]
<1>1. PICK t : t = Tail(s)
  OBVIOUS
<1>2. /\ Head(s) = s[1] /\ 1 \in DOMAIN s
      /\ \A i \in DOMAIN t : i \in Nat /\ i + 1 \in DOMAIN s /\ t[i] = s[i + 1]
      /\ \A i \in DOMAIN s : i # 1 => i - 1 \in DOMAIN t /\ t[i - 1] = s[i]
  BY <1>1, TailFacts, Zenon
<1>3. \A i \in Reports(t) : i \in Nat /\ i + 1 \in Reports(s) /\ t[i] = s[i + 1]
  BY <1>2 DEF Reports
<1>4. Ordered(s) => Ordered(t)
  <2>. SUFFICES ASSUME Ordered(s), NEW i \in Reports(t), NEW j \in Reports(t), i <= j
                PROVE  ReportRank(t[i]) <= ReportRank(t[j])
    BY DEF Ordered
  <2>1. i + 1 \in Reports(s) /\ j + 1 \in Reports(s) /\ i + 1 <= j + 1 /\ t[i] = s[i + 1] /\ t[j] = s[j + 1]
    BY <1>3
  <2>. QED BY <2>1, Zenon DEF Ordered
<1>5. \A i \in Reports(s) : i # 1 => i - 1 \in Reports(t) /\ t[i - 1] = s[i]
  BY <1>2 DEF Reports
<1>6. \A k : Tells(s, k) => Tells(t, k) \/ (IsReport(Head(s)) /\ ReportRank(Head(s)) = k)
  <2>. SUFFICES ASSUME NEW k, NEW i \in Reports(s), ReportRank(s[i]) = k
                PROVE  Tells(t, k) \/ (IsReport(Head(s)) /\ ReportRank(Head(s)) = k)
    BY DEF Tells
  <2>1. CASE i = 1
    BY <1>2, <2>1 DEF Reports
  <2>2. CASE i # 1
    BY <1>5, <2>2 DEF Tells
  <2>. QED BY <2>1, <2>2
<1>7. ~IsReport(Head(s)) /\ Reports(s) # {} => Reports(t) # {}
  <2>. SUFFICES ASSUME ~IsReport(Head(s)), NEW i \in Reports(s) PROVE Reports(t) # {}
    OBVIOUS
  <2>1. i # 1
    BY <1>2 DEF Reports
  <2>. QED BY <1>5, <2>1
<1>8. IsReport(Head(s)) => 1 \in Reports(s) /\ Head(s) = s[1]
  BY <1>2 DEF Reports
<1>. QED BY <1>1, <1>3, <1>4, <1>6, <1>7, <1>8, Zenon

\* The channel r is s with the messages t put into it.
Joined(s, t, r) ==
    /\ \A i \in DOMAIN s : i \in DOMAIN r /\ r[i] = s[i] /\ i \in Nat
    /\ \A i \in DOMAIN t : Len(s) + i \in DOMAIN r /\ r[Len(s) + i] = t[i] /\ \A j \in DOMAIN s : j < Len(s) + i
    /\ \A i \in DOMAIN r : \/ i \in DOMAIN s
                           \/ i - Len(s) \in DOMAIN t /\ r[i] = t[i - Len(s)]
                              /\ \A j \in DOMAIN s : j < i
    /\ Len(s) \in Nat /\ DOMAIN r \subseteq Nat

\* A game's messages come after those it sent before (TransportService::Send).
LEMMA JoinFacts ==
    ASSUME NEW S, NEW s \in Seq(S), NEW t \in Seq(S)
    PROVE  Joined(s, t, s \o t)
<1>1. PICK r : r = s \o t
  OBVIOUS
<1>2. /\ Len(s) \in Nat /\ Len(t) \in Nat /\ DOMAIN s = 1 .. Len(s) /\ DOMAIN t = 1 .. Len(t)
      /\ DOMAIN r = 1 .. Len(s) + Len(t)
      /\ \A i \in 1 .. Len(s) + Len(t) : r[i] = IF i <= Len(s) THEN s[i] ELSE t[i - Len(s)]
  BY <1>1, LenProperties, ConcatProperties
<1>3. \A i \in DOMAIN s : i \in DOMAIN r /\ r[i] = s[i] /\ i \in Nat
  BY <1>2
<1>4. \A i \in DOMAIN t : Len(s) + i \in DOMAIN r /\ r[Len(s) + i] = t[i] /\ \A j \in DOMAIN s : j < Len(s) + i
  BY <1>2
<1>5. \A i \in DOMAIN r : \/ i \in DOMAIN s
                          \/ i - Len(s) \in DOMAIN t /\ r[i] = t[i - Len(s)]
                             /\ \A j \in DOMAIN s : j < i
  BY <1>2
<1>6. Joined(s, t, r)
  BY <1>2, <1>3, <1>4, <1>5 DEF Joined
<1>. QED BY <1>1, <1>6, Zenon

\* Nothing a channel told is lost when messages are put into it, and what is put in is told.
LEMMA JoinTells ==
    ASSUME NEW s, NEW t, NEW r, Joined(s, t, r), NEW k, Tells(s, k) \/ Tells(t, k)
    PROVE  Tells(r, k)
<1>1. CASE Tells(s, k)
  <2>1. PICK i \in Reports(s) : ReportRank(s[i]) = k
    BY <1>1 DEF Tells
  <2>2. i \in Reports(r) /\ r[i] = s[i]
    BY DEF Joined, Reports
  <2>. QED BY <2>1, <2>2 DEF Tells
<1>2. CASE Tells(t, k)
  <2>1. PICK i \in Reports(t) : ReportRank(t[i]) = k
    BY <1>2 DEF Tells
  <2>2. Len(s) + i \in Reports(r) /\ r[Len(s) + i] = t[i]
    BY DEF Joined, Reports
  <2>. QED BY <2>1, <2>2 DEF Tells
<1>. QED BY <1>1, <1>2

\* Messages that tell nothing older than the channel keep its reports in order.
LEMMA JoinOrdered ==
    ASSUME NEW s, NEW t, NEW r, Joined(s, t, r), Ordered(s), Ordered(t), NEW k \in Nat,
           \A i \in Reports(s) : ReportRank(s[i]) \in Nat /\ ReportRank(s[i]) <= k,
           \A i \in Reports(t) : ReportRank(t[i]) \in Nat /\ k <= ReportRank(t[i])
    PROVE  Ordered(r)
<1>. SUFFICES ASSUME NEW i \in Reports(r), NEW j \in Reports(r), i <= j
              PROVE  ReportRank(r[i]) <= ReportRank(r[j])
  BY DEF Ordered
<1>1. CASE i \in DOMAIN s /\ j \in DOMAIN s
  <2>1. i \in Reports(s) /\ j \in Reports(s) /\ r[i] = s[i] /\ r[j] = s[j]
    BY <1>1 DEF Joined, Reports
  <2>. QED BY <2>1, Zenon DEF Ordered
<1>2. CASE i \in DOMAIN s /\ j \notin DOMAIN s
  <2>1. i \in Reports(s) /\ r[i] = s[i]
    BY <1>2 DEF Joined, Reports
  <2>2. j - Len(s) \in Reports(t) /\ r[j] = t[j - Len(s)]
    BY <1>2 DEF Joined, Reports
  <2>. QED BY <2>1, <2>2
<1>3. CASE i \notin DOMAIN s
  <2>1. i - Len(s) \in Reports(t) /\ r[i] = t[i - Len(s)]
    BY <1>3 DEF Joined, Reports
  <2>2. CASE j \notin DOMAIN s
    <3>1. j - Len(s) \in Reports(t) /\ r[j] = t[j - Len(s)]
      BY <2>2 DEF Joined, Reports
    <3>2. i - Len(s) <= j - Len(s)
      BY DEF Joined, Reports
    <3>. QED BY <2>1, <3>1, <3>2, Zenon DEF Ordered
  <2>3. CASE j \in DOMAIN s
    BY <1>3, <2>3 DEF Joined, Reports
  <2>. QED BY <2>2, <2>3
<1>. QED BY <1>1, <1>2, <1>3

-----------------------------------------------------------------------------
\* Steps that leave a player alone.

\* Nobody is respawned anew by what the host tells a player.
NoNewRespawn(p) ==
    \A i \in DOMAIN notices'[p] :
        notices'[p][i].type = "respawn" => \E j \in DOMAIN notices[p] : notices[p][j] = notices'[p][i]

\* The host's record of a player stays as it is; so does its game.
RecordStays(p) ==
    /\ body'[p] = body[p] /\ known'[p] = known[p] /\ respawning'[p] = respawning[p]
    /\ (p \in party') = (p \in party)
GameStays(p) ==
    /\ spawned'[p] = spawned[p] /\ announced'[p] = announced[p] /\ down'[p] = down[p]
    /\ gen'[p] = gen[p] /\ respawn'[p] = respawn[p]

\* After a change the host's rules tell of a wipe or of nothing (HostDeath::Reconsider).
LEMMA ReconsiderTells ==
    ASSUME TypeOK, Reconsider, NEW p \in Players
    PROVE  NoNewRespawn(p)
<1>1. notices[p] \in Seq(Notice) /\ WipeNotice.type # "respawn"
  BY DEF TypeOK, ChannelsOK, WipeNotice
<1>2. CASE notices'[p] = notices[p]
  BY <1>2 DEF NoNewRespawn
<1>3. CASE notices'[p] = <<>>
  BY <1>3 DEF NoNewRespawn
<1>4. CASE notices'[p] = Append(notices[p], WipeNotice)
  <2>1. \A i \in DOMAIN notices'[p] : notices'[p][i] = WipeNotice \/ (i \in DOMAIN notices[p] /\ notices'[p][i] = notices[p][i])
    BY <1>1, <1>4, AppendProperties, LenProperties
  <2>. QED BY <1>1, <2>1 DEF NoNewRespawn
<1>5. notices'[p] = notices[p] \/ notices'[p] = <<>> \/ notices'[p] = Append(notices[p], WipeNotice)
  BY DEF Reconsider
<1>. QED BY <1>2, <1>3, <1>4, <1>5

\* What has not been told anew keeps a player's notices as they were.
LEMMA NoticesStay ==
    ASSUME NEW p \in Players, NoticesOK(p), NoNewRespawn(p), RecordStays(p)
    PROVE  NoticesOK(p)'
<1>1. \A m : RespawnOf(p, m) => RespawnOf(p, m)'
  BY DEF RespawnOf, RecordStays, Held
<1>. QED BY <1>1 DEF NoticesOK, NoNewRespawn, RespawnOf

\* A player whose game, record and reports stay, and who is not respawned, keeps its invariant.
LEMMA PlayerStays ==
    ASSUME NEW p \in Players, PlayerOK(p), NoNewRespawn(p), RecordStays(p), GameStays(p),
           requests'[p] = requests[p]
    PROVE  PlayerOK(p)' /\ (HeardOK(p) => HeardOK(p)')
<1>1. Held(p)' = Held(p) /\ Now(p)' = Now(p)
  BY DEF Held, Now, RecordStays, GameStays
<1>2. BodyOK(p)'
  BY <1>1, Zenon DEF PlayerOK, BodyOK, RecordStays, GameStays
<1>3. ReportsOK(p)'
  BY <1>1, Zenon DEF PlayerOK, ReportsOK, GameStays
<1>4. NoticesOK(p)'
  BY NoticesStay DEF PlayerOK
<1>5. RespawnOK(p)'
  BY DEF PlayerOK, RespawnOK, RecordStays, GameStays
<1>6. HeardOK(p) => HeardOK(p)'
  BY <1>1, Zenon DEF HeardOK, Complete, RecordStays, GameStays
<1>. QED BY <1>2, <1>3, <1>4, <1>5, <1>6 DEF PlayerOK

-----------------------------------------------------------------------------
\* A game's own steps.

\* A report in a channel has a rank, and so have a player's state and its record.
LEMMA RankTypes ==
    /\ \A s \in Seq(Request) : \A i \in Reports(s) :
         s[i] \in Request /\ s[i].gen \in Nat /\ s[i].down \in BOOLEAN /\ ReportRank(s[i]) \in Nat
    /\ TypeOK => \A p \in Players : Held(p) \in Nat /\ Now(p) \in Nat
    /\ TypeOK' => \A p \in Players : Held(p)' \in Nat /\ Now(p)' \in Nat
<1>1. ASSUME NEW s \in Seq(Request), NEW i \in Reports(s)
      PROVE  s[i] \in Request /\ s[i].gen \in Nat /\ s[i].down \in BOOLEAN /\ ReportRank(s[i]) \in Nat
  <2>1. i \in DOMAIN s /\ s[i].type = "death"
    BY DEF Reports, IsReport
  <2>2. s[i] \in Request
    BY <2>1, ElementOfSeq, LenProperties
  <2>3. s[i].gen \in Nat /\ s[i].down \in BOOLEAN
    BY <2>1, <2>2, RequestTypes
  <2>. QED BY <2>2, <2>3, RankTells DEF ReportRank
<1>2. ASSUME TypeOK, NEW p \in Players PROVE Held(p) \in Nat /\ Now(p) \in Nat
  <2>1. body[p].gen \in Nat /\ body[p].down \in BOOLEAN /\ gen[p] \in Nat /\ down[p] \in BOOLEAN
    BY <1>2 DEF TypeOK, PartyOK, GamesOK, Body
  <2>. QED BY <2>1, RankTells DEF Held, Now
<1>3. ASSUME TypeOK', NEW p \in Players PROVE Held(p)' \in Nat /\ Now(p)' \in Nat
  <2>1. body'[p].gen \in Nat /\ body'[p].down \in BOOLEAN /\ gen'[p] \in Nat /\ down'[p] \in BOOLEAN
    BY <1>3 DEF TypeOK, PartyOK, GamesOK, Body
  <2>. QED BY <2>1, RankTells DEF Held, Now
<1>. QED BY <1>1, <1>2, <1>3

\* What a game sends tells nothing older than its state before and nothing newer than after
\* (DeathService::Report).
SendsNow(p, t) ==
    /\ Ordered(t) /\ Now(p) <= Now(p)'
    /\ announced[p] => announced'[p]
    /\ \A i \in Reports(t) :
         /\ Now(p) <= ReportRank(t[i]) /\ ReportRank(t[i]) <= Now(p)'
         /\ t[i].down => t[i].gen >= 1
         /\ ReportRank(t[i]) = 1 => announced'[p]

\* What a game sends keeps its unread reports in order (DeathService::Report).
LEMMA SendReports ==
    ASSUME TypeOK, TypeOK', NEW p \in Players, PlayerOK(p), RecordStays(p), NEW t \in Seq(Request),
           requests'[p] = requests[p] \o t, SendsNow(p, t)
    PROVE  ReportsOK(p)'
<1>. DEFINE s == requests[p]
            r == requests'[p]
<1>1. s \in Seq(Request) /\ r \in Seq(Request) /\ Held(p)' = Held(p)
  BY DEF TypeOK, ChannelsOK, RecordStays, Held
<1>2. Joined(s, t, r)
  BY <1>1, JoinFacts
<1>3. Held(p) \in Nat /\ Now(p) \in Nat /\ Now(p)' \in Nat
  BY RankTypes, <1>1
<1>4. ReportsOK(p) /\ BodyOK(p)
  BY DEF PlayerOK
<1>5. Ordered(r)
  <2>1. \A i \in Reports(s) : ReportRank(s[i]) \in Nat /\ ReportRank(s[i]) <= Now(p)
    BY <1>1, <1>4, RankTypes DEF ReportsOK
  <2>2. \A i \in Reports(t) : ReportRank(t[i]) \in Nat /\ Now(p) <= ReportRank(t[i])
    BY RankTypes DEF SendsNow
  <2>3. Ordered(s) /\ Ordered(t)
    BY <1>4 DEF ReportsOK, SendsNow
  <2>. QED BY <1>2, <1>3, <2>1, <2>2, <2>3, JoinOrdered
<1>6. ASSUME NEW i \in Reports(r)
      PROVE  /\ Held(p) <= ReportRank(r[i]) /\ ReportRank(r[i]) <= Now(p)'
             /\ r[i].down => r[i].gen >= 1
             /\ ReportRank(r[i]) = 1 => announced'[p]
  <2>1. CASE i \in DOMAIN s
    <3>1. i \in Reports(s) /\ r[i] = s[i] /\ ReportRank(s[i]) \in Nat
      BY <1>1, <1>2, <2>1, RankTypes DEF Joined, Reports
    <3>. QED BY <1>3, <1>4, <3>1 DEF ReportsOK, SendsNow
  <2>2. CASE i \notin DOMAIN s
    <3>1. i - Len(s) \in Reports(t) /\ r[i] = t[i - Len(s)]
      BY <1>2, <2>2 DEF Joined, Reports
    <3>2. ReportRank(r[i]) \in Nat
      BY <3>1, RankTypes
    <3>. QED BY <1>3, <1>4, <3>1, <3>2 DEF BodyOK, SendsNow
  <2>. QED BY <2>1, <2>2
<1>. QED BY <1>1, <1>5, <1>6 DEF ReportsOK

\* It tells every rank it passes through, and once announced the one it is at; its announcement
\* goes ahead of that (CharacterService, DeathService::OnUpdate).
TellsAll(p, t) ==
    /\ \A k \in Nat : Now(p) < k /\ k <= Now(p)' => Tells(t, k)
    /\ announced'[p] /\ ~announced[p] => Tells(t, Now(p))
    /\ announced'[p] => (announced[p] /\ Now(p)' = Now(p)) \/ Tells(t, Now(p)')
    /\ announced'[p] => spawned[p] /\ spawned'[p]
    /\ spawned'[p] => spawned[p] \/ (~announced'[p] /\ \E i \in DOMAIN t : t[i].type = "announce")

\* What a game sends leaves nothing untold (DeathService::OnUpdate, GoDown).
LEMMA SendHeard ==
    ASSUME TypeOK, TypeOK', NEW p \in Players, PlayerOK(p), RecordStays(p), NEW t \in Seq(Request),
           requests'[p] = requests[p] \o t, SendsNow(p, t), TellsAll(p, t), HeardOK(p)
    PROVE  HeardOK(p)'
<1>. DEFINE s == requests[p]
            r == requests'[p]
<1>1. s \in Seq(Request) /\ r \in Seq(Request) /\ Held(p)' = Held(p)
  BY DEF TypeOK, ChannelsOK, RecordStays, Held
<1>2. Joined(s, t, r)
  BY <1>1, JoinFacts
<1>3. Held(p) \in Nat /\ Now(p) \in Nat /\ Now(p)' \in Nat /\ BodyOK(p)
  BY RankTypes, <1>1 DEF PlayerOK
<1>4. \A k : Tells(s, k) \/ Tells(t, k) => Tells(r, k)
  BY <1>2, JoinTells
<1>5. announced'[p] => spawned'[p]
  BY DEF TellsAll
<1>6. ASSUME p \in party', announced'[p] \/ Held(p)' >= 2 PROVE Complete(p)'
  <2>. SUFFICES ASSUME NEW k \in Nat, Held(p) < k, k <= Now(p)' PROVE Tells(r, k)
    BY <1>1 DEF Complete
  <2>1. CASE k > Now(p)
    BY <1>3, <1>4, <2>1 DEF TellsAll
  <2>2. CASE k <= Now(p) /\ (announced[p] \/ Held(p) >= 2)
    <3>1. Complete(p)
      BY <1>6, <2>2 DEF HeardOK, RecordStays
    <3>. QED BY <1>4, <2>2, <3>1 DEF Complete
  <2>3. CASE k <= Now(p) /\ ~announced[p] /\ Held(p) < 2
    <3>1. announced'[p] /\ Tells(t, Now(p))
      BY <1>1, <1>3, <1>6, <2>3 DEF TellsAll
    <3>2. Held(p) >= 1 /\ Now(p) <= 2
      <4>1. /\ body[p].gen \in Nat /\ body[p].down \in BOOLEAN
            /\ Held(p) \in 2 * body[p].gen .. 2 * body[p].gen + 1
            /\ Held(p) = IF body[p].down THEN 2 * body[p].gen ELSE 2 * body[p].gen + 1
        BY RankTells DEF TypeOK, PartyOK, Body, Held, Rank
      <4>2. body[p].gen = 0 /\ ~body[p].down
        BY <1>3, <2>3, <4>1 DEF BodyOK
      <4>. QED BY <1>3, <4>1, <4>2 DEF BodyOK
    <3>. QED BY <1>3, <1>4, <2>3, <3>1, <3>2
  <2>. QED BY <1>3, <2>1, <2>2, <2>3
<1>7. ASSUME p \in party', announced'[p], ~known'[p] PROVE Reports(r) # {}
  <2>1. CASE announced[p]
    <3>1. Reports(s) # {}
      BY <1>7, <2>1 DEF HeardOK, RecordStays
    <3>. QED BY <1>2, <3>1 DEF Joined, Reports
  <2>2. CASE ~announced[p]
    <3>1. Tells(r, Now(p))
      BY <1>4, <1>7, <2>2 DEF TellsAll
    <3>. QED BY <3>1 DEF Tells
  <2>. QED BY <2>1, <2>2
<1>8. ASSUME p \notin party', spawned'[p]
      PROVE  \E i \in DOMAIN r :
                /\ r[i].type = "announce"
                /\ announced'[p] => \E j \in Reports(r) : i < j /\ ReportRank(r[j]) = Now(p)'
  <2>1. CASE spawned[p]
    <3>1. PICK i \in DOMAIN s :
            /\ s[i].type = "announce"
            /\ announced[p] => \E j \in Reports(s) : i < j /\ ReportRank(s[j]) = Now(p)
      BY <1>8, <2>1 DEF HeardOK, RecordStays
    <3>2. i \in DOMAIN r /\ r[i].type = "announce"
      BY <1>2, <3>1 DEF Joined
    <3>3. ASSUME announced'[p] PROVE \E j \in Reports(r) : i < j /\ ReportRank(r[j]) = Now(p)'
      <4>1. CASE announced[p] /\ Now(p)' = Now(p)
        <5>1. PICK j \in Reports(s) : i < j /\ ReportRank(s[j]) = Now(p)
          BY <3>1, <4>1
        <5>2. j \in Reports(r) /\ r[j] = s[j]
          BY <1>2 DEF Joined, Reports
        <5>. QED BY <4>1, <5>1, <5>2
      <4>2. CASE Tells(t, Now(p)')
        <5>1. PICK j \in Reports(t) : ReportRank(t[j]) = Now(p)'
          BY <4>2 DEF Tells
        <5>2. Len(s) + j \in Reports(r) /\ r[Len(s) + j] = t[j] /\ i < Len(s) + j
          BY <1>2 DEF Joined, Reports
        <5>. QED BY <5>1, <5>2
      <4>. QED BY <3>3, <4>1, <4>2 DEF TellsAll
    <3>. QED BY <3>2, <3>3
  <2>2. CASE ~spawned[p]
    <3>1. PICK i \in DOMAIN t : t[i].type = "announce"
      BY <1>8, <2>2 DEF TellsAll
    <3>2. Len(s) + i \in DOMAIN r /\ r[Len(s) + i].type = "announce"
      BY <1>2, <3>1 DEF Joined
    <3>. QED BY <1>8, <2>2, <3>2 DEF TellsAll
  <2>. QED BY <2>1, <2>2
<1>. QED BY <1>5, <1>6, <1>7, <1>8 DEF HeardOK

\* A message on its own.
LEMMA OneMessage ==
    ASSUME NEW m \in Request
    PROVE  /\ <<m>> \in Seq(Request) /\ Ordered(<<m>>)
           /\ \A i \in Reports(<<m>>) : IsReport(m) /\ <<m>>[i] = m
           /\ IsReport(m) => Tells(<<m>>, ReportRank(m))
           /\ 1 \in DOMAIN <<m>> /\ <<m>>[1] = m
<1>1. PICK t : t = <<m>>
  OBVIOUS
<1>2. t \in Seq(Request) /\ DOMAIN t = {1} /\ t[1] = m
  BY <1>1
<1>3. \A i \in Reports(t) : IsReport(m) /\ t[i] = m
  BY <1>2 DEF Reports
<1>4. Ordered(t)
  <2>1. ReportRank(m) <= ReportRank(m) \/ Reports(t) = {}
    BY <1>2, <1>3, RankTypes
  <2>. QED BY <1>3, <2>1 DEF Ordered
<1>5. IsReport(m) => Tells(t, ReportRank(m))
  BY <1>2 DEF Tells, Reports
<1>. QED BY <1>1, <1>2, <1>3, <1>4, <1>5

\* A message on its own says what its sender is now, or nothing of it.
LEMMA OneSends ==
    ASSUME NEW m \in Request, NEW p, Now(p) <= Now(p)', announced[p] => announced'[p],
           IsReport(m) => /\ Now(p) <= ReportRank(m) /\ ReportRank(m) <= Now(p)'
                          /\ m.down => m.gen >= 1
                          /\ ReportRank(m) = 1 => announced'[p]
    PROVE  SendsNow(p, <<m>>)
<1>1. PICK t : t = <<m>>
  OBVIOUS
<1>2. Ordered(t) /\ \A i \in Reports(t) : IsReport(m) /\ t[i] = m
  BY <1>1, OneMessage
<1>3. SendsNow(p, t)
  BY <1>2 DEF SendsNow
<1>. QED BY <1>1, <1>3

\* A report tells the rank of the fall and posture it was made of (DeathService::Report).
LEMMA ReportTells ==
    ASSUME NEW g \in Nat, NEW d \in BOOLEAN
    PROVE  /\ DeathReport(g, d) \in Request /\ IsReport(DeathReport(g, d))
           /\ ReportRank(DeathReport(g, d)) = Rank(g, d)
           /\ DeathReport(g, d).gen = g /\ DeathReport(g, d).down = d
BY DEF DeathReport, Request, IsReport, ReportRank

\* A step of a player's own game, which tells the host and is told nothing.
GameStep(p) ==
    UNCHANGED <<notices, partyVars, timerVars>>
    /\ \A q \in Players \ {p} : GameStays(q) /\ requests'[q] = requests[q]

\* A step that tells all it changes keeps the player's invariant (DeathService).
LEMMA GameStepKeeps ==
    ASSUME TypeOK, TypeOK', NEW p \in Players, PlayerOK(p), NEW t \in Seq(Request),
           GameStep(p), requests'[p] = requests[p] \o t, SendsNow(p, t), HeardOK(p) => TellsAll(p, t),
           BodyOK(p)', RespawnOK(p)'
    PROVE  PlayerOK(p)' /\ (HeardOK(p) => HeardOK(p)')
<1>1. RecordStays(p) /\ NoNewRespawn(p)
  BY DEF GameStep, partyVars, RecordStays, NoNewRespawn
<1>2. ReportsOK(p)'
  BY <1>1, SendReports
<1>3. NoticesOK(p)'
  BY <1>1, NoticesStay DEF PlayerOK
<1>4. HeardOK(p) => HeardOK(p)'
  BY <1>1, SendHeard
<1>. QED BY <1>2, <1>3, <1>4 DEF PlayerOK

\* Such a step leaves the others alone.
LEMMA GameStepOthers ==
    ASSUME NEW p \in Players, GameStep(p), NEW q \in Players \ {p}, PlayerOK(q)
    PROVE  PlayerOK(q)' /\ (HeardOK(q) => HeardOK(q)')
<1>1. RecordStays(q) /\ NoNewRespawn(q) /\ GameStays(q) /\ requests'[q] = requests[q]
  BY DEF GameStep, partyVars, RecordStays, NoNewRespawn
<1>. QED BY <1>1, PlayerStays

\* A player's character is announced, and nothing is told of its falls
\* (CharacterService::RequestServerAssignment).
LEMMA AnnounceCharacterKeeps ==
    ASSUME TypeOK, TypeOK', NEW p \in Players, PlayerOK(p), AnnounceCharacter(p)
    PROVE  PlayerOK(p)' /\ (HeardOK(p) => HeardOK(p)') /\ GameStep(p)
<1>1. PICK state \in PlayerAi(p) : SendAll(p, <<Announcement(state)>>)
  BY DEF AnnounceCharacter
<1>. DEFINE m == Announcement(state)
<1>2. m \in Request /\ m.type = "announce" /\ ~IsReport(m)
  BY AiTypes, RequestTypes DEF Announcement, IsReport
<1>3. requests'[p] = requests[p] \o <<m>> /\ \A q \in Players \ {p} : requests'[q] = requests[q]
  BY <1>1 DEF SendAll, TypeOK, ChannelsOK
<1>4. GameStep(p) /\ ~spawned[p] /\ spawned'[p] /\ announced'[p] = announced[p] /\ respawn'[p] = respawn[p]
      /\ down' = down /\ gen' = gen
  BY <1>3 DEF AnnounceCharacter, GameStep, GameStays, timerVars, TypeOK, GamesOK
<1>5. Now(p)' = Now(p) /\ Held(p)' = Held(p) /\ Now(p) \in Nat
  BY <1>4, RankTypes DEF GameStep, partyVars, Now, Held
<1>6. BodyOK(p)' /\ RespawnOK(p)'
  BY <1>4, <1>5 DEF PlayerOK, BodyOK, RespawnOK, GameStep, partyVars
<1>7. SendsNow(p, <<m>>)
  BY <1>2, <1>4, <1>5, OneSends
<1>8. HeardOK(p) => TellsAll(p, <<m>>)
  <2>. SUFFICES ASSUME HeardOK(p) PROVE TellsAll(p, <<m>>)
    OBVIOUS
  <2>1. ~announced'[p]
    BY <1>4 DEF HeardOK
  <2>. QED BY <1>2, <1>4, <1>5, <2>1, OneMessage DEF TellsAll
<1>. QED BY <1>2, <1>3, <1>4, <1>6, <1>7, <1>8, OneMessage, GameStepKeeps

\* A combat report tells nothing of a player's falls (AiStateService::OnAiStateChange).
LEMMA SendAiKeeps ==
    ASSUME TypeOK, TypeOK', NEW p \in Players, PlayerOK(p), SendAi(p)
    PROVE  PlayerOK(p)' /\ (HeardOK(p) => HeardOK(p)') /\ GameStep(p)
<1>1. PICK state \in PlayerAi(p) : SendAll(p, <<AiReport(state)>>)
  BY DEF SendAi
<1>. DEFINE m == AiReport(state)
<1>2. m \in Request /\ ~IsReport(m)
  BY AiTypes, RequestTypes DEF AiReport, IsReport
<1>3. requests'[p] = requests[p] \o <<m>> /\ \A q \in Players \ {p} : requests'[q] = requests[q]
  BY <1>1 DEF SendAll, TypeOK, ChannelsOK
<1>4. GameStep(p) /\ GameStays(p)
  BY <1>3 DEF SendAi, GameStep, GameStays, timerVars
<1>5. Now(p)' = Now(p) /\ Held(p)' = Held(p) /\ Now(p) \in Nat
  BY <1>4, RankTypes DEF GameStep, GameStays, partyVars, Now, Held
<1>6. BodyOK(p)' /\ RespawnOK(p)'
  BY <1>4, <1>5 DEF PlayerOK, BodyOK, RespawnOK, GameStep, GameStays, partyVars
<1>7. SendsNow(p, <<m>>)
  BY <1>2, <1>4, <1>5, OneSends DEF GameStays
<1>8. HeardOK(p) => TellsAll(p, <<m>>)
  BY <1>4, <1>5 DEF TellsAll, HeardOK, GameStays
<1>. QED BY <1>2, <1>3, <1>4, <1>6, <1>7, <1>8, OneMessage, GameStepKeeps

\* A fall is one rank further: the host's record lags by it, and the fall is told
\* (DeathService::GoDown).
LEMMA FallKeepsBody ==
    ASSUME TypeOK, NEW p \in Players, PlayerOK(p), ~down[p], down'[p], gen'[p] = gen[p] + 1,
           UNCHANGED partyVars, respawn'[p] = respawn[p]
    PROVE  BodyOK(p)' /\ RespawnOK(p)' /\ Now(p)' = Now(p) + 1 /\ gen'[p] \in Nat /\ gen'[p] >= 1
           /\ Now(p)' = Rank(gen[p] + 1, TRUE) /\ Now(p) = Rank(gen[p], FALSE) /\ Now(p) \in Nat
<1>1. body[p].gen \in Nat /\ body[p].down \in BOOLEAN /\ gen[p] \in Nat /\ down[p] \in BOOLEAN
  BY DEF TypeOK, PartyOK, GamesOK, Body
<1>2. Now(p) = 2 * gen[p] + 1 /\ Now(p)' = 2 * gen[p] + 2 /\ Held(p)' = Held(p)
      /\ Held(p) = IF body[p].down THEN 2 * body[p].gen ELSE 2 * body[p].gen + 1
  BY <1>1 DEF Now, Held, Rank, partyVars
<1>3. UNCHANGED <<party, body, known, respawning>> /\ BodyOK(p)
  BY DEF partyVars, PlayerOK
<1>4. Held(p)' <= Now(p)' /\ Now(p)' <= 2 * (body[p].gen + 1) /\ (body[p].down => Held(p) < Now(p))
  BY <1>1, <1>2, <1>3 DEF BodyOK
<1>5. BodyOK(p)'
  BY <1>1, <1>2, <1>3, <1>4 DEF BodyOK
<1>6. RespawnOK(p)'
  BY DEF PlayerOK, RespawnOK
<1>. QED BY <1>1, <1>2, <1>5, <1>6 DEF Rank

\* A fall is told when it happens (DeathService::GoDown).
LEMMA GoDownKeeps ==
    ASSUME TypeOK, TypeOK', NEW p \in Players, PlayerOK(p), GoDown(p)
    PROVE  PlayerOK(p)' /\ (HeardOK(p) => HeardOK(p)') /\ GameStep(p)
<1>. DEFINE m == DeathReport(gen[p] + 1, TRUE)
<1>1. /\ gen[p] \in Nat /\ requests'[p] = requests[p] \o <<m>>
      /\ \A q \in Players \ {p} : requests'[q] = requests[q]
      /\ ~down[p] /\ down'[p] /\ gen'[p] = gen[p] + 1 /\ UNCHANGED <<spawned, announced, respawn>>
  BY DEF GoDown, SendAll, TypeOK, ChannelsOK, GamesOK
<1>2. /\ m \in Request /\ IsReport(m) /\ ReportRank(m) = Rank(gen[p] + 1, TRUE)
      /\ m.gen = gen[p] + 1 /\ m.down
  <2>1. gen[p] + 1 \in Nat /\ TRUE \in BOOLEAN
    BY <1>1
  <2>. QED BY <2>1, ReportTells
<1>. HIDE DEF m
<1>3. GameStep(p)
  BY <1>1 DEF GoDown, GameStep, GameStays, timerVars, TypeOK, GamesOK
<1>4. /\ BodyOK(p)' /\ RespawnOK(p)' /\ Now(p)' = Now(p) + 1 /\ gen'[p] >= 1
      /\ Now(p)' = ReportRank(m) /\ Now(p) = 2 * gen[p] + 1 /\ Now(p) \in Nat
  BY <1>1, <1>2, <1>3, FallKeepsBody DEF GameStep, Rank
<1>5. SendsNow(p, <<m>>)
  <2>1. Now(p) <= Now(p)' /\ Now(p) <= ReportRank(m) /\ ReportRank(m) <= Now(p)' /\ ReportRank(m) # 1
    BY <1>1, <1>4
  <2>2. (m.down => m.gen >= 1) /\ (announced[p] => announced'[p])
    BY <1>1, <1>2
  <2>. QED BY <1>2, <2>1, <2>2, OneSends
<1>6. HeardOK(p) => TellsAll(p, <<m>>)
  <2>1. Tells(<<m>>, Now(p)')
    BY <1>2, <1>4, OneMessage
  <2>2. \A k \in Nat : Now(p) < k /\ k <= Now(p)' => k = Now(p)'
    BY <1>4
  <2>. QED BY <1>1, <2>1, <2>2 DEF TellsAll, HeardOK
<1>. QED BY <1>1, <1>2, <1>3, <1>4, <1>5, <1>6, OneMessage, GameStepKeeps

\* A player revived at the party's place stands in the fall it was respawned from, and says so
\* (DeathService::OnRespawnArrival).
LEMMA OnRespawnArrivalKeeps ==
    ASSUME TypeOK, TypeOK', NEW p \in Players, PlayerOK(p), OnRespawnArrival(p)
    PROVE  PlayerOK(p)' /\ (HeardOK(p) => HeardOK(p)') /\ GameStep(p)
<1>. DEFINE m == DeathReport(gen[p], FALSE)
<1>1. /\ gen[p] \in Nat /\ requests'[p] = requests[p] \o <<m>>
      /\ \A q \in Players \ {p} : requests'[q] = requests[q]
      /\ down[p] /\ ~down'[p] /\ ~respawn'[p] /\ UNCHANGED <<spawned, announced, gen>>
  BY DEF OnRespawnArrival, SendAll, TypeOK, ChannelsOK, GamesOK
<1>2. /\ m \in Request /\ IsReport(m) /\ ReportRank(m) = Rank(gen[p], FALSE)
      /\ m.gen = gen[p] /\ ~m.down
  BY <1>1, ReportTells
<1>. HIDE DEF m
<1>3. GameStep(p)
  BY <1>1 DEF OnRespawnArrival, GameStep, GameStays, timerVars, TypeOK, GamesOK
<1>4. /\ body[p] = [gen |-> gen[p], down |-> TRUE] /\ respawning[p] /\ p \in party
      /\ UNCHANGED <<body, known, respawning, party>> /\ gen[p] >= 1
  BY <1>1, <1>3 DEF OnRespawnArrival, PlayerOK, RespawnOK, BodyOK, GameStep, partyVars
<1>5. Now(p) = 2 * gen[p] /\ Now(p)' = 2 * gen[p] + 1 /\ Held(p)' = 2 * gen[p] /\ ReportRank(m) = Now(p)'
  <2>1. down[p] = TRUE /\ down'[p] = FALSE /\ body'[p].gen = gen[p] /\ body'[p].down = TRUE
    BY <1>1, <1>4 DEF OnRespawnArrival, TypeOK, GamesOK
  <2>. QED BY <1>1, <1>2, <2>1 DEF Now, Held, Rank
<1>6. BodyOK(p)' /\ RespawnOK(p)'
  BY <1>1, <1>4, <1>5 DEF PlayerOK, BodyOK, RespawnOK
<1>7. SendsNow(p, <<m>>)
  <2>1. Now(p) <= Now(p)' /\ Now(p) <= ReportRank(m) /\ ReportRank(m) <= Now(p)' /\ ReportRank(m) # 1
    BY <1>1, <1>4, <1>5
  <2>2. (m.down => m.gen >= 1) /\ (announced[p] => announced'[p])
    BY <1>1, <1>2
  <2>. QED BY <1>2, <2>1, <2>2, OneSends
<1>8. HeardOK(p) => TellsAll(p, <<m>>)
  <2>1. Tells(<<m>>, Now(p)')
    BY <1>2, <1>5, OneMessage
  <2>2. \A k \in Nat : Now(p) < k /\ k <= Now(p)' => k = Now(p)'
    BY <1>1, <1>5
  <2>. QED BY <1>1, <2>1, <2>2 DEF TellsAll, HeardOK
<1>. QED BY <1>1, <1>2, <1>3, <1>6, <1>7, <1>8, OneMessage, GameStepKeeps

\* What the first update sends: the player's state, and its combat when that changed.
LEMMA FirstReport ==
    ASSUME TypeOK, NEW p \in Players, BodyOK(p), NEW state \in PlayerAi(p),
           NEW t, t = <<DeathReport(gen[p], down[p])>> \o ChangedAi(p, state)
    PROVE  /\ t \in Seq(Request) /\ Ordered(t) /\ Tells(t, Now(p))
           /\ \A i \in Reports(t) : ReportRank(t[i]) = Now(p) /\ (t[i].down => t[i].gen >= 1)
<1>. DEFINE m == DeathReport(gen[p], down[p])
            c == ChangedAi(p, state)
<1>1. gen[p] \in Nat /\ down[p] \in BOOLEAN /\ Now(p) \in Nat
  BY RankTypes DEF TypeOK, GamesOK
<1>2. m \in Request /\ IsReport(m) /\ ReportRank(m) = Now(p) /\ (m.down => m.gen >= 1)
  BY <1>1, ReportTells DEF BodyOK, Now
<1>3. c \in Seq(Request) /\ Reports(c) = {}
  <2>1. AiReport(state) \in Request /\ ~IsReport(AiReport(state))
    BY AiTypes, RequestTypes DEF AiReport, IsReport
  <2>. HIDE DEF m
  <2>2. CASE c = <<AiReport(state)>>
    BY <2>1, <2>2, OneMessage DEF Reports
  <2>3. CASE c = <<>>
    BY <2>3 DEF Reports
  <2>. QED BY <2>2, <2>3 DEF ChangedAi
<1>. HIDE DEF m, c
<1>4. <<m>> \in Seq(Request) /\ Ordered(<<m>>) /\ t = <<m>> \o c
  BY <1>2, OneMessage DEF m, c
<1>5. t \in Seq(Request) /\ Joined(<<m>>, c, t)
  BY <1>3, <1>4, ConcatProperties, JoinFacts, Zenon
<1>6. Tells(t, Now(p))
  BY <1>2, <1>5, OneMessage, JoinTells
<1>7. \A i \in Reports(t) : i \in Reports(<<m>>) /\ t[i] = m
  BY <1>2, <1>3, <1>5, OneMessage DEF Joined, Reports
<1>8. Ordered(t)
  <2>1. \A i \in Reports(t) : ReportRank(t[i]) = Now(p)
    BY <1>2, <1>7
  <2>2. Now(p) <= Now(p)
    BY <1>1
  <2>. QED BY <2>1, <2>2, Zenon DEF Ordered
<1>. QED BY <1>2, <1>5, <1>6, <1>7, <1>8

\* The first update tells the state a player joined with, and the fall of one that joined dead
\* (DeathService::OnUpdate).
LEMMA OnUpdateKeeps ==
    ASSUME TypeOK, TypeOK', NEW p \in Players, PlayerOK(p), NEW dead \in BOOLEAN, OnUpdate(p, dead)
    PROVE  PlayerOK(p)' /\ (HeardOK(p) => HeardOK(p)') /\ GameStep(p)
<1>1. PICK state \in PlayerAi(p) :
        LET report == <<DeathReport(gen[p], down[p])>> \o ChangedAi(p, state) IN
        \/ /\ ~down[p] /\ down' = [down EXCEPT ![p] = TRUE] /\ gen' = [gen EXCEPT ![p] = @ + 1]
           /\ SendAll(p, Append(report, DeathReport(gen[p] + 1, TRUE)))
        \/ SendAll(p, report) /\ UNCHANGED <<down, gen>>
  BY DEF OnUpdate
<1>2. PICK t : t = <<DeathReport(gen[p], down[p])>> \o ChangedAi(p, state)
  OBVIOUS
<1>3. /\ t \in Seq(Request) /\ Ordered(t) /\ Tells(t, Now(p))
      /\ \A i \in Reports(t) : ReportRank(t[i]) = Now(p) /\ (t[i].down => t[i].gen >= 1)
  BY <1>2, FirstReport DEF PlayerOK
<1>4. /\ gen[p] \in Nat /\ Now(p) \in Nat /\ requests \in [Players -> Seq(Request)]
      /\ announced'[p] /\ ~announced[p] /\ spawned[p] /\ UNCHANGED <<spawned, respawn, notices, partyVars, timerVars>>
      /\ \A q \in Players \ {p} : announced'[q] = announced[q]
      /\ down \in [Players -> BOOLEAN] /\ gen \in [Players -> Nat]
  BY RankTypes DEF OnUpdate, TypeOK, GamesOK, ChannelsOK
<1>5. CASE SendAll(p, t) /\ UNCHANGED <<down, gen>>
  <2>1. requests'[p] = requests[p] \o t /\ \A q \in Players \ {p} : requests'[q] = requests[q]
    BY <1>4, <1>5 DEF SendAll
  <2>2. GameStep(p)
    BY <1>4, <1>5, <2>1 DEF GameStep, GameStays
  <2>3. Now(p)' = Now(p) /\ Held(p)' = Held(p)
    BY <1>4, <1>5 DEF partyVars, Now, Held
  <2>4. BodyOK(p)' /\ RespawnOK(p)'
    BY <1>4, <1>5, <2>3 DEF PlayerOK, BodyOK, RespawnOK, partyVars
  <2>5. SendsNow(p, t)
    BY <1>3, <1>4, <2>3 DEF SendsNow
  <2>6. TellsAll(p, t)
    <3>1. ~\E k \in Nat : Now(p) < k /\ k <= Now(p)
      BY <1>4
    <3>. QED BY <1>3, <1>4, <2>3, <3>1 DEF TellsAll
  <2>. QED BY <1>3, <2>1, <2>2, <2>4, <2>5, <2>6, GameStepKeeps
<1>6. CASE /\ ~down[p] /\ down' = [down EXCEPT ![p] = TRUE] /\ gen' = [gen EXCEPT ![p] = @ + 1]
           /\ SendAll(p, Append(t, DeathReport(gen[p] + 1, TRUE)))
  <2>. DEFINE m == DeathReport(gen[p] + 1, TRUE)
  <2>1. gen[p] + 1 \in Nat /\ down'[p] /\ gen'[p] = gen[p] + 1 /\ respawn'[p] = respawn[p]
    BY <1>4, <1>6
  <2>2. m \in Request /\ IsReport(m) /\ ReportRank(m) = Rank(gen[p] + 1, TRUE) /\ m.gen = gen[p] + 1 /\ m.down
    BY <2>1, ReportTells
  <2>. HIDE DEF m
  <2>3. BodyOK(p)' /\ RespawnOK(p)' /\ Now(p)' = Now(p) + 1 /\ Now(p)' = ReportRank(m)
    BY <1>4, <1>6, <2>1, <2>2, FallKeepsBody
  <2>4. PICK u : u = t \o <<m>>
    OBVIOUS
  <2>5. u = Append(t, m) /\ u \in Seq(Request) /\ Joined(t, <<m>>, u)
    <3>1. <<m>> \in Seq(Request) /\ m \in Request /\ t \in Seq(Request)
      BY <1>3, <2>2, OneMessage
    <3>2. u = Append(t, m)
      BY <2>4, <3>1, AppendIsConcat
    <3>3. u \in Seq(Request) /\ Joined(t, <<m>>, u)
      BY <2>4, <3>1, ConcatProperties, JoinFacts, Zenon
    <3>. QED BY <3>2, <3>3
  <2>6. requests'[p] = requests[p] \o u /\ \A q \in Players \ {p} : requests'[q] = requests[q]
    BY <1>4, <1>6, <2>5 DEF SendAll, m
  <2>7. GameStep(p)
    BY <1>4, <1>6, <2>6 DEF GameStep, GameStays
  <2>8. \A i \in Reports(u) : \/ ReportRank(u[i]) = Now(p) /\ (u[i].down => u[i].gen >= 1)
                              \/ u[i] = m
    <3>1. \A i \in Reports(u) : \/ i \in Reports(t) /\ u[i] = t[i]
                                \/ i - Len(t) \in Reports(<<m>>) /\ u[i] = <<m>>[i - Len(t)]
      BY <2>5 DEF Joined, Reports
    <3>2. \A i \in Reports(<<m>>) : <<m>>[i] = m
      BY <2>2, OneMessage
    <3>. QED BY <1>3, <3>1, <3>2
  <2>9. Ordered(u)
    <3>1. \A i \in Reports(t) : ReportRank(t[i]) \in Nat /\ ReportRank(t[i]) <= Now(p)
      BY <1>3, <1>4
    <3>2. \A i \in Reports(<<m>>) : ReportRank(<<m>>[i]) \in Nat /\ Now(p) <= ReportRank(<<m>>[i])
      <4>1. ReportRank(m) \in Nat /\ Now(p) <= ReportRank(m)
        BY <1>4, <2>3
      <4>2. \A i \in Reports(<<m>>) : <<m>>[i] = m
        BY <2>2, OneMessage
      <4>. QED BY <4>1, <4>2, Zenon
    <3>. QED BY <1>3, <1>4, <2>2, <2>5, <3>1, <3>2, OneMessage, JoinOrdered
  <2>10. SendsNow(p, u)
    <3>1. \A i \in Reports(u) : /\ Now(p) <= ReportRank(u[i]) /\ ReportRank(u[i]) <= Now(p)'
                                /\ u[i].down => u[i].gen >= 1
      <4>1. /\ Now(p) <= Now(p) /\ Now(p) <= Now(p)' /\ Now(p)' <= Now(p)'
            /\ m.down => m.gen >= 1
        BY <1>4, <2>1, <2>2, <2>3
      <4>. QED BY <2>3, <2>8, <4>1, Zenon
    <3>. QED BY <1>4, <2>3, <2>9, <3>1 DEF SendsNow
  <2>11. TellsAll(p, u)
    <3>1. Tells(u, Now(p)) /\ Tells(u, Now(p)')
      BY <1>3, <2>2, <2>3, <2>5, OneMessage, JoinTells, ZenonT(30)
    <3>2. \A k \in Nat : Now(p) < k /\ k <= Now(p)' => k = Now(p)'
      BY <1>4, <2>3
    <3>. QED BY <1>4, <3>1, <3>2 DEF TellsAll
  <2>. QED BY <2>3, <2>5, <2>6, <2>7, <2>10, <2>11, GameStepKeeps
<1>. QED BY <1>1, <1>2, <1>5, <1>6

-----------------------------------------------------------------------------
\* What a game reads.

\* A respawn is followed only in the fall it names (DeathService::OnRespawn).
LEMMA OnRespawnKeeps ==
    ASSUME TypeOK, TypeOK', NEW p \in Players, PlayerOK(p), OnRespawn(p)
    PROVE  PlayerOK(p)' /\ (HeardOK(p) => HeardOK(p)')
<1>1. /\ notices[p] \in Seq(Notice) /\ notices[p] # <<>> /\ notices'[p] = Tail(notices[p])
      /\ UNCHANGED <<spawned, announced, down, gen, requests, party, body, known, respawning>>
  BY DEF OnRespawn, TypeOK, ChannelsOK, partyVars
<1>2. /\ Head(notices[p]) = notices[p][1] /\ 1 \in DOMAIN notices[p]
      /\ \A i \in DOMAIN notices'[p] : i + 1 \in DOMAIN notices[p] /\ notices'[p][i] = notices[p][i + 1]
  BY <1>1, TailFacts
<1>3. RecordStays(p) /\ NoNewRespawn(p) /\ Now(p)' = Now(p) /\ Held(p)' = Held(p)
  BY <1>1, <1>2 DEF RecordStays, NoNewRespawn, Now, Held
<1>4. NoticesOK(p)'
  BY <1>3, NoticesStay DEF PlayerOK
<1>5. BodyOK(p)' /\ ReportsOK(p)' /\ (HeardOK(p) => HeardOK(p)')
  BY <1>1, <1>3 DEF PlayerOK, BodyOK, ReportsOK, HeardOK, Complete
<1>6. RespawnOK(p)'
  <2>1. CASE respawn'[p] = respawn[p]
    BY <1>1, <2>1 DEF PlayerOK, RespawnOK
  <2>2. CASE down[p] /\ Head(notices[p]).gen = gen[p]
    <3>1. /\ p \in party /\ gen[p] >= 1 /\ Held(p) >= 2 * gen[p]
          /\ (Held(p) = 2 * gen[p] => respawning[p]) /\ Held(p) <= Now(p) /\ (respawning[p] => body[p].down)
      BY <1>2, <2>2 DEF OnRespawn, PlayerOK, NoticesOK, RespawnOf, BodyOK
    <3>2. /\ body[p] \in Body /\ body[p].gen \in Nat /\ body[p].down \in BOOLEAN /\ gen[p] \in Nat
          /\ down[p] = TRUE
      BY <2>2 DEF TypeOK, PartyOK, GamesOK, Body
    <3>3. Held(p) = 2 * gen[p]
      BY <3>1, <3>2, RankTypes DEF Now, Rank
    <3>4. body[p].gen = gen[p] /\ body[p].down = TRUE /\ respawning[p]
      BY <3>1, <3>2, <3>3 DEF Held, Rank
    <3>5. body[p] = [gen |-> gen[p], down |-> TRUE]
      BY <3>2, <3>4 DEF Body
    <3>. QED BY <1>1, <2>2, <3>1, <3>4, <3>5 DEF RespawnOK
  <2>3. respawn'[p] = respawn[p] \/ (down[p] /\ Head(notices[p]).gen = gen[p])
    BY DEF OnRespawn, TypeOK, GamesOK
  <2>. QED BY <2>1, <2>2, <2>3
<1>. QED BY <1>4, <1>5, <1>6 DEF PlayerOK

\* A wipe's notice changes no fall (DeathService::OnPartyDeath).
LEMMA OnPartyDeathKeeps ==
    ASSUME TypeOK, NEW p \in Players, PlayerOK(p), OnPartyDeath(p)
    PROVE  PlayerOK(p)' /\ (HeardOK(p) => HeardOK(p)')
<1>1. /\ notices[p] \in Seq(Notice) /\ notices[p] # <<>> /\ notices'[p] = Tail(notices[p])
      /\ UNCHANGED <<spawned, announced, down, gen, respawn, requests, party, body, known, respawning>>
  BY DEF OnPartyDeath, TypeOK, ChannelsOK, partyVars
<1>2. \A i \in DOMAIN notices'[p] : i + 1 \in DOMAIN notices[p] /\ notices'[p][i] = notices[p][i + 1]
  BY <1>1, TailFacts
<1>3. RecordStays(p) /\ GameStays(p) /\ NoNewRespawn(p)
  BY <1>1, <1>2 DEF RecordStays, GameStays, NoNewRespawn
<1>. QED BY <1>1, <1>3, PlayerStays

-----------------------------------------------------------------------------
\* What the host reads.

\* Reading what changes no record leaves a player as it was (HostDeath::OnDeath's early returns).
LEMMA ReadsAndKeeps ==
    ASSUME TypeOK, NEW p \in Players, PlayerOK(p), requests[p] # <<>>, requests'[p] = Tail(requests[p]),
           GameStays(p), NoNewRespawn(p), body'[p] = body[p], known'[p] = known[p],
           respawning'[p] = respawning[p], p \in party => p \in party'
    PROVE  PlayerOK(p)'
<1>1. Held(p)' = Held(p) /\ Now(p)' = Now(p)
  BY DEF Held, Now, GameStays
<1>2. BodyOK(p)'
  BY <1>1, Zenon DEF PlayerOK, BodyOK, GameStays
<1>3. ReportsOK(p)'
  <2>1. requests[p] \in Seq(Request)
    BY DEF TypeOK, ChannelsOK
  <2>2. /\ \A i \in Reports(requests'[p]) : i + 1 \in Reports(requests[p]) /\ requests'[p][i] = requests[p][i + 1]
        /\ Ordered(requests[p]) => Ordered(requests'[p])
    BY <2>1, TailReports, Zenon
  <2>. QED BY <1>1, <2>2, Zenon DEF PlayerOK, ReportsOK, GameStays
<1>4. NoticesOK(p)'
  <2>1. \A m : RespawnOf(p, m) => RespawnOf(p, m)'
    BY <1>1 DEF RespawnOf
  <2>. QED BY <2>1 DEF PlayerOK, NoticesOK, NoNewRespawn, RespawnOf
<1>5. RespawnOK(p)'
  BY DEF PlayerOK, RespawnOK, GameStays
<1>. QED BY <1>2, <1>3, <1>4, <1>5 DEF PlayerOK

\* Reading what is no report forgets nothing that was told; reading anything but an announcement
\* leaves it on its way.
LEMMA ReadsAndHears ==
    ASSUME TypeOK, NEW p \in Players, HeardOK(p), requests[p] # <<>>, requests'[p] = Tail(requests[p]),
           GameStays(p), RecordStays(p), Head(requests[p]).type # "announce",
           IsReport(Head(requests[p])) /\ p \in party => known[p] /\ ReportRank(Head(requests[p])) <= Held(p)
    PROVE  HeardOK(p)'
<1>. DEFINE s == requests[p]
            r == requests'[p]
<1>1. s \in Seq(Request) /\ Held(p)' = Held(p) /\ Now(p)' = Now(p) /\ Held(p) \in Nat /\ Now(p) \in Nat
  BY RankTypes DEF TypeOK, ChannelsOK, Held, Now, GameStays, RecordStays
<1>2. /\ Head(s) = s[1] /\ 1 \in DOMAIN s
      /\ \A i \in DOMAIN s : i # 1 => i - 1 \in DOMAIN r /\ r[i - 1] = s[i]
      /\ DOMAIN s \subseteq Nat
  BY <1>1, TailFacts, LenProperties
<1>3. \A k : Tells(s, k) => Tells(r, k) \/ (IsReport(Head(s)) /\ ReportRank(Head(s)) = k)
  BY <1>1, TailReports, Zenon
<1>4. p \in party /\ (announced[p] \/ Held(p) >= 2) => Complete(p)'
  <2>. SUFFICES ASSUME p \in party, announced[p] \/ Held(p) >= 2, NEW k \in Nat, Held(p) < k, k <= Now(p)
                PROVE  Tells(r, k)
    BY <1>1 DEF Complete
  <2>1. Tells(s, k)
    BY DEF HeardOK, Complete
  <2>2. ~(IsReport(Head(s)) /\ ReportRank(Head(s)) = k)
    BY <1>1
  <2>. QED BY <1>3, <2>1, <2>2
<1>5. p \in party /\ announced[p] /\ ~known[p] => Reports(r) # {}
  <2>1. Reports(s) # {} /\ ~IsReport(Head(s)) => Reports(r) # {}
    BY <1>1, TailReports, Zenon
  <2>. QED BY <2>1 DEF HeardOK
<1>6. ASSUME p \notin party, spawned[p]
      PROVE  \E i \in DOMAIN r :
                /\ r[i].type = "announce"
                /\ announced[p] => \E j \in Reports(r) : i < j /\ ReportRank(r[j]) = Now(p)
  <2>1. PICK i \in DOMAIN s :
          /\ s[i].type = "announce"
          /\ announced[p] => \E j \in Reports(s) : i < j /\ ReportRank(s[j]) = Now(p)
    BY <1>6 DEF HeardOK
  <2>2. i # 1 /\ i \in Nat /\ i - 1 \in DOMAIN r /\ r[i - 1].type = "announce"
    BY <1>2, <2>1
  <2>3. ASSUME announced[p] PROVE \E j \in Reports(r) : i - 1 < j /\ ReportRank(r[j]) = Now(p)
    <3>1. PICK j \in Reports(s) : i < j /\ ReportRank(s[j]) = Now(p)
      BY <2>1, <2>3
    <3>2. j \in Nat /\ j # 1 /\ j \in DOMAIN s /\ IsReport(s[j]) /\ 1 \in Nat /\ i >= 1
      BY <1>1, <1>2, <2>2, <3>1, LenProperties DEF Reports
    <3>3. j - 1 \in Reports(r) /\ r[j - 1] = s[j] /\ i - 1 < j - 1
      BY <1>2, <2>2, <3>1, <3>2 DEF Reports
    <3>. QED BY <3>1, <3>3
  <2>. QED BY <2>2, <2>3
<1>. QED BY <1>1, <1>4, <1>5, <1>6 DEF HeardOK, GameStays, RecordStays

\* A combat report (HostCharacters::OnAiState).
LEMMA OnAiStateKeeps ==
    ASSUME TypeOK, NEW p \in Players, PlayerOK(p), HeardOK(p), OnAiState(p)
    PROVE  PlayerOK(p)' /\ HeardOK(p)'
<1>1. /\ requests[p] # <<>> /\ requests'[p] = Tail(requests[p]) /\ GameStays(p) /\ RecordStays(p)
      /\ Head(requests[p]).type # "announce" /\ ~IsReport(Head(requests[p]))
  BY DEF OnAiState, TypeOK, ChannelsOK, gameVars, GameStays, partyVars, RecordStays, IsReport
<1>2. NoNewRespawn(p)
  BY ReconsiderTells DEF OnAiState, NoNewRespawn
<1>3. PlayerOK(p)'
  BY <1>1, <1>2, ReadsAndKeeps DEF RecordStays
<1>4. HeardOK(p)'
  BY <1>1, ReadsAndHears
<1>. QED BY <1>3, <1>4

\* A player enters the party: nothing of it is known, and what its game is at is on its way
\* (HostDeath::Entered).
LEMMA OnAnnounceKeeps ==
    ASSUME TypeOK, NEW p \in Players, PlayerOK(p), HeardOK(p), OnAnnounce(p)
    PROVE  PlayerOK(p)' /\ HeardOK(p)'
<1>. DEFINE s == requests[p]
            r == requests'[p]
<1>1. /\ s # <<>> /\ r = Tail(s) /\ GameStays(p) /\ p \in party' /\ ~IsReport(Head(s)) /\ s \in Seq(Request)
      /\ UNCHANGED <<body, known, respawning>>
  BY DEF OnAnnounce, TypeOK, ChannelsOK, gameVars, GameStays, IsReport
<1>2. PlayerOK(p)'
  <2>1. NoNewRespawn(p)
    BY ReconsiderTells DEF OnAnnounce
  <2>. QED BY <1>1, <2>1, ReadsAndKeeps
<1>3. /\ Held(p)' = Held(p) /\ Now(p)' = Now(p) /\ Held(p) \in Nat /\ Now(p) \in Nat
      /\ \A k : Tells(s, k) => Tells(r, k)
      /\ Reports(s) # {} => Reports(r) # {}
  BY <1>1, RankTypes, TailReports, Zenon DEF Held, Now, GameStays
<1>4. CASE p \in party
  <2>1. announced[p] \/ Held(p) >= 2 => Complete(p)'
    BY <1>3, <1>4 DEF HeardOK, Complete
  <2>2. announced[p] /\ ~known[p] => Reports(r) # {}
    BY <1>3, <1>4 DEF HeardOK
  <2>. QED BY <1>1, <1>2, <1>3, <2>1, <2>2 DEF HeardOK, GameStays
<1>5. CASE p \notin party
  <2>1. Held(p) = 1 /\ Now(p) <= 2
    BY <1>5 DEF PlayerOK, BodyOK, Held, Rank, NobodysBody
  <2>2. announced[p] => Tells(s, Now(p))
    BY <1>5 DEF HeardOK, Tells
  <2>3. announced[p] => Reports(s) # {}
    BY <2>2 DEF Tells
  <2>4. announced[p] => Complete(p)'
    <3>1. \A k \in Nat : Held(p) < k /\ k <= Now(p) => k = Now(p)
      BY <1>3, <2>1
    <3>. QED BY <1>3, <2>2, <3>1 DEF Complete
  <2>. QED BY <1>1, <1>2, <1>3, <2>1, <2>3, <2>4 DEF HeardOK, GameStays
<1>. QED BY <1>2, <1>4, <1>5

\* A report the host refuses tells it nothing: it is a repeat of what the host holds
\* (HostDeath::OnDeath's early returns).
LEMMA RefusedIsRepeat ==
    ASSUME TypeOK, NEW p \in party, p \in Players, PlayerOK(p), HeardOK(p), requests[p] # <<>>,
           NEW m, m = Head(requests[p]), IsReport(m), ~DeathAccepted(p, m)
    PROVE  known[p] /\ ReportRank(m) <= Held(p)
<1>. DEFINE s == requests[p]
<1>1. s \in Seq(Request) /\ Held(p) \in Nat /\ Now(p) \in Nat
  BY RankTypes DEF TypeOK, ChannelsOK
<1>2. 1 \in Reports(s) /\ m = s[1] /\ Reports(s) \subseteq Nat /\ \A i \in Reports(s) : 1 <= i
  BY <1>1, TailReports, LenProperties DEF Reports
<1>3. /\ m.gen \in Nat /\ m.down \in BOOLEAN /\ ReportRank(m) \in Nat /\ Held(p) <= ReportRank(m) /\ ReportRank(m) <= Now(p)
      /\ (m.down => m.gen >= 1) /\ Ordered(s) /\ BodyOK(p)
  BY <1>1, <1>2, RankTypes DEF PlayerOK, ReportsOK
<1>4. /\ body[p].gen \in Nat /\ body[p].down \in BOOLEAN
      /\ (body[p].down => Held(p) = 2 * body[p].gen) /\ (~body[p].down => Held(p) = 2 * body[p].gen + 1)
      /\ (m.down => ReportRank(m) = 2 * m.gen) /\ (~m.down => ReportRank(m) = 2 * m.gen + 1)
  BY <1>3 DEF TypeOK, PartyOK, Body, Held, ReportRank, Rank
<1>5. m.gen >= body[p].gen
  BY <1>3, <1>4
<1>6. ~NewFall(p, m) /\ ~StoodUp(p, m)
  BY <1>5 DEF DeathAccepted
<1>7. CASE m.down
  BY <1>3, <1>4, <1>6, <1>7 DEF NewFall
<1>8. CASE ~m.down
  <2>1. body[p].down /\ ~(respawning[p] /\ m.gen = body[p].gen)
    BY <1>6, <1>8 DEF StoodUp
  <2>2. known[p] /\ respawning[p] /\ body[p].gen >= 1 /\ Held(p) >= 2
    <3>1. body[p].gen >= 1 /\ known[p] /\ Held(p) = 2 * body[p].gen /\ ReportRank(m) = 2 * m.gen + 1
      BY <1>3, <1>4, <1>8, <2>1 DEF BodyOK
    <3>2. Held(p) < Now(p) /\ Held(p) >= 2
      BY <1>1, <1>3, <1>4, <3>1, SMTT(30)
    <3>. QED BY <1>3, <2>1, <3>1, <3>2 DEF BodyOK
  <2>3. m.gen > body[p].gen
    BY <1>3, <1>4, <1>5, <2>1, <2>2
  <2>4. Held(p) < Held(p) + 1 /\ Held(p) + 1 <= Now(p) /\ Held(p) + 1 < ReportRank(m) /\ Held(p) + 1 \in Nat
    <3>1. Held(p) = 2 * body[p].gen /\ ReportRank(m) = 2 * m.gen + 1
      BY <1>4, <1>8, <2>1
    <3>2. Held(p) + 1 < ReportRank(m)
      BY <1>3, <1>4, <2>3, <3>1
    <3>. QED BY <1>1, <1>3, <3>2
  <2>5. PICK i \in Reports(s) : ReportRank(s[i]) = Held(p) + 1
    BY <2>2, <2>4 DEF HeardOK, Complete, Tells
  <2>6. ReportRank(s[1]) <= ReportRank(s[i])
    BY <1>2, <1>3 DEF Ordered
  <2>. QED BY <1>1, <1>2, <1>3, <1>4, <1>8, <2>4, <2>5, <2>6
<1>. QED BY <1>3, <1>7, <1>8

\* A report the host takes becomes its record; the later ones are still to come, and no respawn
\* of an earlier fall is left to follow (HostDeath::OnDeath).
LEMMA AcceptedKeeps ==
    ASSUME TypeOK, TypeOK', NEW p \in party, p \in Players, PlayerOK(p), HeardOK(p), requests[p] # <<>>,
           NEW m, m = Head(requests[p]), IsReport(m), DeathAccepted(p, m),
           requests'[p] = Tail(requests[p]), GameStays(p), NoNewRespawn(p), p \in party',
           body'[p] = [gen |-> m.gen, down |-> m.down], known'[p], ~respawning'[p]
    PROVE  PlayerOK(p)' /\ HeardOK(p)'
<1>. DEFINE s == requests[p]
            r == requests'[p]
<1>1. s \in Seq(Request) /\ r \in Seq(Request) /\ Held(p) \in Nat /\ Now(p) \in Nat /\ Now(p)' = Now(p)
  BY RankTypes DEF TypeOK, ChannelsOK, Now, GameStays
<1>2. 1 \in Reports(s) /\ m = s[1] /\ Reports(s) \subseteq Nat /\ \A i \in Reports(s) : 1 <= i
  BY <1>1, TailReports, LenProperties DEF Reports
<1>3. /\ m.gen \in Nat /\ m.down \in BOOLEAN /\ ReportRank(m) \in Nat /\ Held(p) <= ReportRank(m) /\ ReportRank(m) <= Now(p)
      /\ (m.down => m.gen >= 1) /\ Ordered(s) /\ BodyOK(p)
  BY <1>1, <1>2, RankTypes DEF PlayerOK, ReportsOK
<1>4. /\ body[p].gen \in Nat /\ body[p].down \in BOOLEAN
      /\ (body[p].down => Held(p) = 2 * body[p].gen) /\ (~body[p].down => Held(p) = 2 * body[p].gen + 1)
      /\ (m.down => ReportRank(m) = 2 * m.gen) /\ (~m.down => ReportRank(m) = 2 * m.gen + 1)
      /\ Held(p)' = ReportRank(m) /\ body'[p].gen = m.gen /\ body'[p].down = m.down
  BY <1>3 DEF TypeOK, PartyOK, Body, Held, ReportRank, Rank
<1>5. m.down => ReportRank(m) > Held(p)
  <2>. SUFFICES ASSUME m.down, ReportRank(m) <= Held(p) PROVE FALSE
    BY <1>1, <1>3, <1>4
  <2>1. ReportRank(m) = Held(p)
    BY <1>1, <1>3, <1>4
  <2>2. body[p].down /\ m.gen = body[p].gen /\ ~known[p]
    <3>1. body[p].down /\ m.gen = body[p].gen
      BY <1>3, <1>4, <2>1, SMTT(30)
    <3>2. NewFall(p, m)
      BY DEF DeathAccepted, StoodUp
    <3>. QED BY <3>1, <3>2 DEF NewFall
  <2>. QED BY <1>3, <2>2 DEF BodyOK
<1>6. m.gen >= body[p].gen /\ (m.down => Now(p) <= ReportRank(m))
  <2>1. m.gen >= body[p].gen
    BY DEF DeathAccepted
  <2>2. ASSUME m.down PROVE Now(p) <= ReportRank(m)
    <3>1. m.gen >= body[p].gen + 1 /\ ReportRank(m) = 2 * m.gen
      BY <1>3, <1>4, <1>5, <2>2
    <3>2. Now(p) <= 2 * (body[p].gen + 1)
      BY <1>3 DEF BodyOK
    <3>. QED BY <1>1, <1>3, <1>4, <3>1, <3>2, SMTT(30)
  <2>. QED BY <2>1, <2>2
<1>7. BodyOK(p)'
  <2>1. Now(p)' <= 2 * (body'[p].gen + 1) /\ Held(p)' <= Now(p)'
    BY <1>1, <1>3, <1>4, <1>6 DEF BodyOK
  <2>2. ~(body'[p].down /\ Held(p)' < Now(p)')
    BY <1>1, <1>3, <1>4, <1>6
  <2>. QED BY <1>3, <1>4, <2>1, <2>2 DEF BodyOK, GameStays
<1>8. /\ \A i \in Reports(r) : i + 1 \in Reports(s) /\ r[i] = s[i + 1]
      /\ Ordered(s) => Ordered(r)
      /\ \A k : Tells(s, k) => Tells(r, k) \/ (IsReport(Head(s)) /\ ReportRank(Head(s)) = k)
  BY <1>1, TailReports, Zenon
<1>9. ReportsOK(p)'
  <2>1. \A i \in Reports(s) : ReportRank(m) <= ReportRank(s[i])
    BY <1>2, <1>3 DEF Ordered
  <2>. QED BY <1>1, <1>3, <1>4, <1>8, <2>1, ZenonT(30) DEF PlayerOK, ReportsOK, GameStays
<1>10. NoticesOK(p)'
  <2>1. ASSUME NEW n \in Notice, RespawnOf(p, n) PROVE RespawnOf(p, n)'
    <3>1. n.gen \in Nat
      BY DEF Notice
    <3>. QED BY <1>1, <1>3, <1>4, <1>5, <2>1, <3>1 DEF RespawnOf
  <2>2. \A i \in DOMAIN notices[p] : notices[p][i] \in Notice
    BY ElementOfSeq, LenProperties DEF TypeOK, ChannelsOK
  <2>. QED BY <2>1, <2>2 DEF PlayerOK, NoticesOK, NoNewRespawn, RespawnOf
<1>11. RespawnOK(p)'
  <2>1. ~respawn[p]
    <3>. SUFFICES ASSUME respawn[p] PROVE FALSE
      OBVIOUS
    <3>1. body[p].gen = gen[p] /\ body[p].down /\ down[p] /\ gen[p] \in Nat
      BY DEF PlayerOK, RespawnOK, TypeOK, GamesOK
    <3>2. Held(p) = Now(p) /\ Held(p) = 2 * gen[p]
      BY <3>1 DEF Held, Now, Rank
    <3>. QED BY <1>3, <1>4, <1>5, <3>1, <3>2
  <2>. QED BY <2>1 DEF RespawnOK, GameStays
<1>12. ASSUME announced[p] \/ Held(p)' >= 2 PROVE Complete(p)'
  <2>. SUFFICES ASSUME NEW k \in Nat, ReportRank(m) < k, k <= Now(p) PROVE Tells(r, k)
    BY <1>1, <1>4 DEF Complete
  <2>1. CASE announced[p] \/ Held(p) >= 2
    <3>1. Complete(p)
      BY <2>1 DEF HeardOK
    <3>2. Held(p) < k /\ k # ReportRank(m)
      BY <1>1, <1>3, <1>4
    <3>3. Tells(s, k)
      BY <3>1, <3>2 DEF Complete
    <3>. QED BY <1>8, <3>2, <3>3
  <2>2. CASE ~announced[p] /\ Held(p) < 2
    BY <1>1, <1>3, <1>4, <1>12, <2>2 DEF BodyOK
  <2>. QED BY <1>1, <2>1, <2>2
<1>13. HeardOK(p)'
  BY <1>12 DEF HeardOK, GameStays
<1>. QED BY <1>7, <1>9, <1>10, <1>11, <1>13 DEF PlayerOK

\* A death report, taken or refused (HostDeath::OnDeath).
LEMMA OnDeathKeeps ==
    ASSUME TypeOK, TypeOK', NEW p \in Players, PlayerOK(p), HeardOK(p), OnDeath(p)
    PROVE  PlayerOK(p)' /\ HeardOK(p)'
<1>. DEFINE m == Head(requests[p])
<1>1. /\ requests[p] # <<>> /\ requests'[p] = Tail(requests[p]) /\ GameStays(p)
      /\ m.type # "announce" /\ IsReport(m) /\ UNCHANGED party
  BY DEF OnDeath, TypeOK, ChannelsOK, gameVars, GameStays, IsReport
<1>2. CASE DeathAccepted(p, m)
  <2>1. p \in party /\ body'[p] = [gen |-> m.gen, down |-> m.down] /\ known'[p] /\ ~respawning'[p]
    BY <1>2 DEF OnDeath, DeathAccepted, TypeOK, PartyOK
  <2>2. NoNewRespawn(p)
    BY <1>2, ReconsiderTells DEF OnDeath
  <2>. QED BY <1>1, <1>2, <2>1, <2>2, AcceptedKeeps
<1>3. CASE ~DeathAccepted(p, m)
  <2>1. RecordStays(p) /\ NoNewRespawn(p)
    BY <1>1, <1>3 DEF OnDeath, RecordStays, NoNewRespawn
  <2>2. p \in party => known[p] /\ ReportRank(m) <= Held(p)
    BY <1>1, <1>3, RefusedIsRepeat
  <2>3. PlayerOK(p)'
    BY <1>1, <2>1, ReadsAndKeeps DEF RecordStays
  <2>4. HeardOK(p)'
    BY <1>1, <2>1, <2>2, ReadsAndHears
  <2>. QED BY <2>3, <2>4
<1>. QED BY <1>2, <1>3

-----------------------------------------------------------------------------
\* The host's other steps.

\* Who leaves takes its record and its messages with it (HostDeath::Left, DeathService::OnDisconnected).
LEMMA LeftKeeps ==
    ASSUME TypeOK, NEW p \in Players, Left(p)
    PROVE  PlayerOK(p)' /\ HeardOK(p)'
<1>1. /\ ~spawned'[p] /\ ~announced'[p] /\ down'[p] = FALSE /\ gen'[p] = 0 /\ ~respawn'[p] /\ requests'[p] = <<>>
      /\ p \notin party' /\ body'[p] = NobodysBody /\ ~known'[p] /\ ~respawning'[p] /\ conn'[p] = "closed"
  BY DEF Left, TypeOK, GamesOK, ChannelsOK, PartyOK
<1>2. notices'[p] = <<>>
  BY <1>1 DEF Left, Reconsider
<1>3. Held(p)' = 1 /\ Now(p)' = 1 /\ body'[p].gen = 0 /\ ~body'[p].down
  BY <1>1 DEF Held, Now, Rank, NobodysBody
<1>4. BodyOK(p)'
  BY <1>1, <1>3 DEF BodyOK
<1>5. ReportsOK(p)' /\ NoticesOK(p)' /\ RespawnOK(p)'
  BY <1>1, <1>2 DEF ReportsOK, Ordered, Reports, NoticesOK, RespawnOK
<1>. QED BY <1>1, <1>4, <1>5 DEF PlayerOK, HeardOK

\* A respawn is told to the players it takes down from their falls (HostDeath::Respawn).
LEMMA UpdateKeeps ==
    ASSUME TypeOK, NEW hostPlaced, Update(hostPlaced), NEW p \in Players, PlayerOK(p)
    PROVE  PlayerOK(p)' /\ (HeardOK(p) => HeardOK(p)')
<1>1. /\ UNCHANGED <<gameVars, requests, party, body, known>> /\ notices[p] \in Seq(Notice)
      /\ body[p].gen \in Nat /\ body[p].down \in BOOLEAN
  BY DEF Update, TypeOK, ChannelsOK, PartyOK, Body
<1>2. /\ GameStays(p) /\ requests'[p] = requests[p] /\ body'[p] = body[p] /\ known'[p] = known[p]
      /\ (p \in party') = (p \in party)
  BY <1>1 DEF gameVars, GameStays
<1>3. CASE respawning'[p] = respawning[p] /\ notices'[p] = notices[p]
  BY <1>2, <1>3, PlayerStays DEF RecordStays, NoNewRespawn
<1>4. CASE p \in Respawned /\ respawning'[p] /\ notices'[p] = Append(notices[p], RespawnNotice(body[p].gen))
  <2>1. /\ p \in party /\ body[p].down /\ ~respawning[p] /\ Held(p)' = Held(p) /\ Now(p)' = Now(p)
        /\ Held(p) = 2 * body[p].gen
    BY <1>1, <1>2, <1>4 DEF Respawned, Held, Now, Rank, GameStays
  <2>2. BodyOK(p)' /\ ReportsOK(p)' /\ (HeardOK(p) => HeardOK(p)')
    BY <1>2, <1>4, <2>1, Zenon DEF PlayerOK, BodyOK, ReportsOK, HeardOK, Complete, GameStays
  <2>3. RespawnOK(p)'
    BY <1>2, <1>4, <2>1 DEF PlayerOK, RespawnOK, GameStays
  <2>4. \A m : RespawnOf(p, m) => RespawnOf(p, m)'
    BY <1>2, <1>4, <2>1 DEF RespawnOf
  <2>6. RespawnNotice(body[p].gen) \in Notice
    BY <1>1, NoticeTypes
  <2>7. \A i \in DOMAIN notices'[p] : \/ i \in DOMAIN notices[p] /\ notices'[p][i] = notices[p][i]
                                      \/ notices'[p][i] = RespawnNotice(body[p].gen)
    BY <1>1, <1>4, <2>6, AppendProperties, LenProperties
  <2>8. NoticesOK(p)'
    <3>. SUFFICES ASSUME NEW i \in DOMAIN notices'[p] PROVE RespawnOf(p, notices[p][i])'
      BY DEF NoticesOK
    <3>1. PICK n : n = notices'[p][i]
      OBVIOUS
    <3>2. n = RespawnNotice(body[p].gen) \/ RespawnOf(p, n)
      BY <2>7, <3>1 DEF PlayerOK, NoticesOK
    <3>3. RespawnOf(p, n)'
      <4>1. CASE RespawnOf(p, n)
        BY <2>4, <4>1, Zenon
      <4>2. CASE n = RespawnNotice(body[p].gen)
        BY <1>1, <1>2, <1>4, <2>1, <4>2 DEF RespawnOf, RespawnNotice, PlayerOK, BodyOK
      <4>. QED BY <3>2, <4>1, <4>2
    <3>. QED BY <3>1, <3>3 DEF RespawnOf
  <2>. QED BY <2>2, <2>3, <2>8 DEF PlayerOK
<1>5. \/ respawning'[p] = respawning[p] /\ notices'[p] = notices[p]
      \/ p \in Respawned /\ respawning'[p] /\ notices'[p] = Append(notices[p], RespawnNotice(body[p].gen))
  <2>1. CASE p \in Respawned
    BY <2>1 DEF Update, Respawn
  <2>2. CASE p \notin Respawned
    BY <2>2 DEF Update, Respawn, TypeOK, PartyOK
  <2>. QED BY <2>1, <2>2
<1>. QED BY <1>3, <1>4, <1>5

\* A wipe is for ever (HostDeath's m_wiped).
LEMMA WipedStays ==
    ASSUME TypeOK, [Next]_vars, wiped
    PROVE  wiped'
<1>1. Reconsider => wiped'
  BY DEF Reconsider, timerVars
<1>2. UNCHANGED timerVars => wiped'
  BY DEF timerVars
<1>3. ASSUME NEW p \in Players, HostReads(p) \/ GameReads(p) \/ GameActs(p) \/ Left(p) PROVE wiped'
  BY <1>1, <1>2, <1>3 DEF HostReads, GameReads, GameActs, Left, OnAnnounce, OnDeath, OnAiState, DropRequest,
     OnRespawn, OnPartyDeath, Connected, AnnounceCharacter, OnUpdate, GoDown, SendAi, OnRespawnArrival
<1>4. ASSUME NEW n \in Npcs, NpcAnnounced(n) \/ NpcAiState(n) \/ NpcRemoved(n) PROVE wiped'
  BY <1>1, <1>2, <1>4 DEF NpcAnnounced, NpcAiState, NpcRemoved
<1>5. ASSUME NEW hostPlaced \in BOOLEAN, Update(hostPlaced) PROVE wiped'
  BY <1>5 DEF Update
<1>6. CASE UNCHANGED vars
  BY <1>2, <1>6 DEF vars
<1>. QED BY <1>3, <1>4, <1>5, <1>6 DEF Next

\* Every step keeps every player's invariant; up to the wipe, nothing said is missed.
LEMMA FallsStep ==
    ASSUME TypeOK, TypeOK', FallsInv, [Next]_vars, NEW q \in Players
    PROVE  PlayerOK(q)' /\ (~wiped => HeardOK(q)')
<1>1. PlayerOK(q) /\ (~wiped => HeardOK(q))
  BY DEF FallsInv
<1>2. ASSUME RecordStays(q), GameStays(q), NoNewRespawn(q), requests'[q] = requests[q]
      PROVE  PlayerOK(q)' /\ (~wiped => HeardOK(q)')
  BY <1>1, <1>2, PlayerStays
<1>3. ASSUME NEW p \in Players, HostReads(p) PROVE PlayerOK(q)' /\ (~wiped => HeardOK(q)')
  <2>1. CASE p = q
    <3>1. CASE OnAnnounce(p)
      BY <1>1, <2>1, <3>1, OnAnnounceKeeps DEF OnAnnounce
    <3>2. CASE OnDeath(p)
      BY <1>1, <2>1, <3>2, OnDeathKeeps DEF OnDeath
    <3>3. CASE OnAiState(p)
      BY <1>1, <2>1, <3>3, OnAiStateKeeps DEF OnAiState
    <3>4. CASE DropRequest(p)
      <4>1. /\ requests[q] # <<>> /\ requests'[q] = Tail(requests[q]) /\ GameStays(q) /\ RecordStays(q)
            /\ NoNewRespawn(q) /\ wiped
        BY <2>1, <3>4 DEF DropRequest, TypeOK, ChannelsOK, gameVars, partyVars, GameStays, RecordStays, NoNewRespawn
      <4>. QED BY <1>1, <4>1, ReadsAndKeeps DEF RecordStays
    <3>. QED BY <1>3, <3>1, <3>2, <3>3, <3>4 DEF HostReads
  <2>2. CASE p # q
    <3>1. NoNewRespawn(q)
      BY <1>3, ReconsiderTells DEF HostReads, OnAnnounce, OnDeath, OnAiState, DropRequest, NoNewRespawn
    <3>2. requests'[q] = requests[q] /\ GameStays(q)
      BY <1>3, <2>2 DEF HostReads, OnAnnounce, OnDeath, OnAiState, DropRequest, TypeOK, ChannelsOK, gameVars, GameStays
    <3>3. RecordStays(q)
      BY <1>3, <2>2 DEF HostReads, OnAnnounce, OnDeath, OnAiState, DropRequest, TypeOK, PartyOK, partyVars, RecordStays
    <3>. QED BY <1>2, <3>1, <3>2, <3>3
  <2>. QED BY <2>1, <2>2
<1>4. ASSUME NEW p \in Players, GameReads(p) PROVE PlayerOK(q)' /\ (~wiped => HeardOK(q)')
  <2>1. CASE p = q
    BY <1>1, <1>4, <2>1, OnRespawnKeeps, OnPartyDeathKeeps DEF GameReads
  <2>2. CASE p # q
    BY <1>2, <1>4, <2>2 DEF GameReads, OnRespawn, OnPartyDeath, TypeOK, GamesOK, ChannelsOK, partyVars,
       RecordStays, GameStays, NoNewRespawn
  <2>. QED BY <2>1, <2>2
<1>5. ASSUME NEW p \in Players, GameActs(p) PROVE PlayerOK(q)' /\ (~wiped => HeardOK(q)')
  <2>1. CASE Connected(p)
    BY <1>2, <2>1 DEF Connected, gameVars, partyVars, RecordStays, GameStays, NoNewRespawn
  <2>2. CASE ~Connected(p)
    <3>1. PlayerOK(p)' /\ (HeardOK(p) => HeardOK(p)') /\ GameStep(p)
      BY <1>5, <2>2, AnnounceCharacterKeeps, OnUpdateKeeps, GoDownKeeps, SendAiKeeps, OnRespawnArrivalKeeps
         DEF GameActs, FallsInv
    <3>. QED BY <1>1, <3>1, GameStepOthers
  <2>. QED BY <2>1, <2>2
<1>6. ASSUME NEW p \in Players, Left(p) PROVE PlayerOK(q)' /\ (~wiped => HeardOK(q)')
  <2>1. CASE p = q
    BY <1>6, <2>1, LeftKeeps
  <2>2. CASE p # q
    <3>1. NoNewRespawn(q)
      BY <1>6, ReconsiderTells DEF Left
    <3>2. requests'[q] = requests[q] /\ GameStays(q) /\ RecordStays(q)
      <4>1. /\ requests \in [Players -> Seq(Request)] /\ spawned \in [Players -> BOOLEAN]
            /\ announced \in [Players -> BOOLEAN] /\ down \in [Players -> BOOLEAN] /\ gen \in [Players -> Nat]
            /\ respawn \in [Players -> BOOLEAN] /\ body \in [Players -> Body] /\ known \in [Players -> BOOLEAN]
            /\ respawning \in [Players -> BOOLEAN]
        BY DEF TypeOK, GamesOK, ChannelsOK, PartyOK
      <4>2. /\ spawned' = [spawned EXCEPT ![p] = FALSE] /\ announced' = [announced EXCEPT ![p] = FALSE]
            /\ down' = [down EXCEPT ![p] = FALSE] /\ gen' = [gen EXCEPT ![p] = 0]
            /\ respawn' = [respawn EXCEPT ![p] = FALSE] /\ requests' = [requests EXCEPT ![p] = <<>>]
            /\ party' = party \ {p} /\ body' = [body EXCEPT ![p] = NobodysBody]
            /\ known' = [known EXCEPT ![p] = FALSE] /\ respawning' = [respawning EXCEPT ![p] = FALSE]
        BY <1>6 DEF Left
      <4>3. \A S, v : \A f \in [Players -> S] : [f EXCEPT ![p] = v][q] = f[q]
        BY <2>2
      <4>4. requests'[q] = requests[q] /\ GameStays(q)
        BY <4>1, <4>2, <4>3, ZenonT(30) DEF GameStays
      <4>5. body'[q] = body[q] /\ known'[q] = known[q] /\ respawning'[q] = respawning[q]
        BY <4>1, <4>2, <4>3, ZenonT(30)
      <4>6. q \in party' <=> q \in party
        BY <2>2, <4>2
      <4>. QED BY <4>4, <4>5, <4>6 DEF RecordStays
    <3>. QED BY <1>2, <3>1, <3>2
  <2>. QED BY <2>1, <2>2
<1>7. ASSUME NEW n \in Npcs, NpcAnnounced(n) \/ NpcAiState(n) \/ NpcRemoved(n)
      PROVE  PlayerOK(q)' /\ (~wiped => HeardOK(q)')
  <2>1. NoNewRespawn(q)
    BY <1>7, ReconsiderTells DEF NpcAnnounced, NpcAiState, NpcRemoved, NoNewRespawn
  <2>2. requests'[q] = requests[q] /\ GameStays(q) /\ RecordStays(q)
    BY <1>7 DEF NpcAnnounced, NpcAiState, NpcRemoved, gameVars, partyVars, GameStays, RecordStays
  <2>. QED BY <1>2, <2>1, <2>2
<1>8. ASSUME NEW hostPlaced \in BOOLEAN, Update(hostPlaced) PROVE PlayerOK(q)' /\ (~wiped => HeardOK(q)')
  BY <1>1, <1>8, UpdateKeeps
<1>9. CASE UNCHANGED vars
  BY <1>2, <1>9 DEF vars, gameVars, partyVars, RecordStays, GameStays, NoNewRespawn
<1>. QED BY <1>3, <1>4, <1>5, <1>6, <1>7, <1>8, <1>9 DEF Next

\* The invariant is inductive.
LEMMA FallsInvInductive ==
    /\ Init => FallsInv
    /\ TypeOK /\ TypeOK' /\ FallsInv /\ [Next]_vars => FallsInv'
<1>1. ASSUME Init PROVE FallsInv
  <2>. SUFFICES ASSUME NEW p \in Players PROVE PlayerOK(p) /\ HeardOK(p)
    BY DEF FallsInv
  <2>1. /\ ~spawned[p] /\ ~announced[p] /\ down[p] = FALSE /\ gen[p] = 0 /\ ~respawn[p] /\ requests[p] = <<>>
        /\ p \notin party /\ body[p] = NobodysBody /\ ~known[p] /\ ~respawning[p] /\ notices[p] = <<>>
    BY <1>1 DEF Init
  <2>2. Held(p) = 1 /\ Now(p) = 1 /\ body[p].gen = 0 /\ ~body[p].down
    BY <2>1 DEF Held, Now, Rank, NobodysBody
  <2>3. BodyOK(p)
    BY <2>1, <2>2 DEF BodyOK
  <2>4. ReportsOK(p) /\ NoticesOK(p) /\ RespawnOK(p)
    BY <2>1 DEF ReportsOK, Ordered, Reports, NoticesOK, RespawnOK
  <2>. QED BY <2>1, <2>3, <2>4 DEF PlayerOK, HeardOK
<1>2. ASSUME TypeOK, TypeOK', FallsInv, [Next]_vars PROVE FallsInv'
  <2>1. \A p \in Players : PlayerOK(p)' /\ (~wiped => HeardOK(p)')
    BY <1>2, FallsStep
  <2>2. ~wiped' => ~wiped
    BY <1>2, WipedStays
  <2>. QED BY <2>1, <2>2 DEF FallsInv
<1>. QED BY <1>1, <1>2

-----------------------------------------------------------------------------
\* For any party and any falls: the host holds what each game last said of its player once it has
\* read it (HostDeath::OnDeath against DeathService::Report).
THEOREM HostBelievesTheGame == Spec => []BelievesTheGame
<1>1. TypeOK /\ FallsInv => BelievesTheGame
  <2>. SUFFICES ASSUME TypeOK, FallsInv, NEW p \in party, announced[p], ~wiped, Unread(p, "death") = {}
                PROVE  known[p] /\ body[p] = [gen |-> gen[p], down |-> down[p]]
    BY DEF BelievesTheGame
  <2>1. p \in Players /\ PlayerOK(p) /\ HeardOK(p) /\ Reports(requests[p]) = {}
    BY DEF FallsInv, TypeOK, PartyOK, Unread, Reports, IsReport
  <2>2. known[p] /\ Complete(p) /\ Held(p) <= Now(p) /\ Held(p) \in Nat /\ Now(p) \in Nat
    BY <2>1, RankTypes DEF HeardOK, PlayerOK, BodyOK
  <2>3. Held(p) = Now(p)
    BY <2>1, <2>2 DEF Complete, Tells
  <2>4. /\ body[p] \in Body /\ body[p].gen \in Nat /\ body[p].down \in BOOLEAN /\ gen[p] \in Nat /\ down[p] \in BOOLEAN
    BY <2>1 DEF TypeOK, PartyOK, GamesOK, Body
  <2>5. body[p].gen = gen[p] /\ body[p].down = down[p]
    BY <2>3, <2>4, RankTells, ZenonT(30) DEF Held, Now
  <2>. QED BY <2>2, <2>4, <2>5 DEF Body
<1>. QED BY <1>1, FallsInvInductive, TypeCorrect, PTL DEF Spec

\* For any party and any falls: a game travels to a respawn only in the fall the host holds it down
\* in and respawned it from (DeathService::OnRespawn against HostDeath::Respawn).
THEOREM RespawnFollowsItsFall == Spec => []RespawnIsForThisFall
<1>1. FallsInv => RespawnIsForThisFall
  BY DEF FallsInv, PlayerOK, RespawnOK, RespawnIsForThisFall
<1>. QED BY <1>1, FallsInvInductive, TypeCorrect, PTL DEF Spec

\* For any party and any falls: a wipe is decided only with every player of the party down in its
\* own game, or its word that it stands again on its way (HostDeath::Reconsider).
THEOREM WipeFindsEveryoneDown == Spec => WipeIsEveryonesFall
<1>1. ASSUME TypeOK, TypeOK', FallsInv, [Next]_vars, ~wiped, wiped'
      PROVE  /\ party' # {}
             /\ \A p \in party' :
                  /\ known'[p] /\ body'[p].down
                  /\ \/ down'[p]
                     \/ \E i \in DOMAIN requests'[p] : requests'[p][i] = DeathReport(body'[p].gen, FALSE)
  <2>1. AllDown'
    <3>1. Reconsider => AllDown'
      BY <1>1 DEF Reconsider
    <3>2. wiped' # wiped
      BY <1>1
    <3>3. ASSUME NEW p \in Players, HostReads(p) \/ GameReads(p) \/ GameActs(p) \/ Left(p) PROVE Reconsider
      BY <3>2, <3>3 DEF HostReads, GameReads, GameActs, Left, OnAnnounce, OnDeath, OnAiState, DropRequest,
         OnRespawn, OnPartyDeath, Connected, AnnounceCharacter, OnUpdate, GoDown, SendAi, OnRespawnArrival, timerVars
    <3>4. ASSUME NEW n \in Npcs, NpcAnnounced(n) \/ NpcAiState(n) \/ NpcRemoved(n) PROVE Reconsider
      BY <3>2, <3>4 DEF NpcAnnounced, NpcAiState, NpcRemoved, timerVars
    <3>5. ASSUME NEW hostPlaced \in BOOLEAN, Update(hostPlaced) PROVE FALSE
      BY <3>2, <3>5 DEF Update, Respawn
    <3>6. CASE UNCHANGED vars
      BY <3>2, <3>6 DEF vars, timerVars
    <3>. QED BY <1>1, <3>1, <3>3, <3>4, <3>5, <3>6 DEF Next
  <2>2. party' # {} /\ \A p \in party' : known'[p] /\ body'[p].down
    BY <2>1 DEF AllDown, AllKnown, Standing
  <2>3. ASSUME NEW p \in party', ~down'[p]
        PROVE  \E i \in DOMAIN requests'[p] : requests'[p][i] = DeathReport(body'[p].gen, FALSE)
    <3>1. p \in Players /\ PlayerOK(p)' /\ HeardOK(p)'
      BY <1>1, FallsStep DEF TypeOK, PartyOK
    <3>2. /\ body'[p].gen \in Nat /\ body'[p].down = TRUE /\ gen'[p] \in Nat /\ down'[p] = FALSE
          /\ requests'[p] \in Seq(Request) /\ body'[p].gen >= 1
      BY <1>1, <2>2, <2>3, <3>1 DEF TypeOK, PartyOK, GamesOK, ChannelsOK, Body, PlayerOK, BodyOK
    <3>3. Held(p)' = 2 * body'[p].gen /\ Now(p)' = 2 * gen'[p] + 1
      BY <3>2 DEF Held, Now, Rank
    <3>4. Held(p)' < Now(p)' /\ Now(p)' <= Held(p)' + 2 /\ Held(p)' >= 2
      BY <3>1, <3>2, <3>3 DEF PlayerOK, BodyOK
    <3>5. Now(p)' = Held(p)' + 1
      BY <3>2, <3>3, <3>4
    <3>6. Tells(requests'[p], Now(p)')
      BY <2>2, <3>1, <3>2, <3>3, <3>4 DEF HeardOK, Complete
    <3>7. PICK i \in Reports(requests'[p]) : ReportRank(requests'[p][i]) = Now(p)'
      BY <3>6 DEF Tells
    <3>8. /\ i \in DOMAIN requests'[p] /\ requests'[p][i] \in Request /\ requests'[p][i].type = "death"
          /\ requests'[p][i].gen \in Nat /\ requests'[p][i].down \in BOOLEAN
      BY <3>2, RankTypes DEF Reports, IsReport
    <3>9. requests'[p][i].gen = body'[p].gen /\ requests'[p][i].down = FALSE
      <4>1. PICK m : m = requests'[p][i]
        OBVIOUS
      <4>2. Rank(m.gen, m.down) = Rank(body'[p].gen, FALSE) /\ m.gen \in Nat /\ m.down \in BOOLEAN
        BY <3>2, <3>3, <3>5, <3>7, <3>8, <4>1, RankTells, ZenonT(30) DEF ReportRank
      <4>3. m.gen = body'[p].gen /\ m.down = FALSE
        BY <3>2, <4>2, RankTells, ZenonT(30)
      <4>. QED BY <4>1, <4>3
    <3>. QED BY <3>8, <3>9 DEF Request, DeathReport
  <2>. QED BY <2>2, <2>3
<1>2. TypeOK /\ TypeOK' /\ FallsInv /\ [Next]_vars =>
        [~wiped /\ wiped' =>
           /\ party' # {}
           /\ \A p \in party' :
                /\ known'[p] /\ body'[p].down
                /\ \/ down'[p]
                   \/ \E i \in DOMAIN requests'[p] : requests'[p][i] = DeathReport(body'[p].gen, FALSE)]_vars
  BY <1>1
<1>3. Spec => []TypeOK
  BY TypeCorrect
<1>4. Spec => []FallsInv
  BY FallsInvInductive, TypeCorrect, PTL DEF Spec
<1>. QED BY <1>2, <1>3, <1>4, PTL DEF Spec, WipeIsEveryonesFall
=============================================================================
