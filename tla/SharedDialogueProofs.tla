------------------------ MODULE SharedDialogueProofs ------------------------
(***************************************************************************)
(* Proofs about SharedDialogue for every party, every set of NPCs and any  *)
(* number of talks and steps: types; the end of a conversation reaches     *)
(* every game in it; and, when talks begin and end one at a time, every    *)
(* ask is answered, the host's engine runs the conversation there is, the  *)
(* rules and the games come to agree who is in it, and every menu to show  *)
(* its step's list.                                                        *)
(***************************************************************************)
EXTENDS SharedDialogue, ChannelFacts

-----------------------------------------------------------------------------
(* Types.                                                                  *)

\* What is sent: a pick leaves room for the step after it, the host's game names the NPC its conversation is with, and no
\* notice is of a step that is not reached.
Asks == {m \in Request : (m.type = "pick" => m.step < MaxSteps) /\ (m.type = "opened" => m.npc \in Npcs)}
Tells == {m \in Notice : m.step \in 0 .. MaxSteps}

\* Types, in the parts the steps leave alone.
ServiceOK ==
    /\ conv \in [Players -> Nat] /\ npc \in [Players -> Npcs \union {None}]
    /\ step \in [Players -> 0 .. MaxSteps]
    /\ joined \in [Players -> BOOLEAN] /\ opening \in [Players -> BOOLEAN]
ScreenOK ==
    /\ listStep \in [Players -> 0 .. MaxSteps] /\ shownStep \in [Players -> 0 .. MaxSteps]
    /\ asked \in [Players -> Npcs \union {None}]
    /\ shows \in [Players -> {"nothing", "engine", "party"}]
EngineOK ==
    /\ speaker \in [Players -> Npcs \union {None}]
    /\ menu \in [Players -> {"closed", "coming", "open"}]
    /\ heard \in Npcs \union {None} /\ greeter \in Npcs \union {None}
    /\ awaiting \in BOOLEAN /\ menuEnds \in BOOLEAN
    /\ conn \in [Players -> {"none", "open", "closed"}] /\ talks \in 0 .. MaxTalks
RequestsOK == requests \in [Players -> Seq(Asks)]
NoticesOK == notices \in [Players -> Seq(Tells)]
Talks == [id: Nat, npc: Npcs \union {None}, step: 0 .. MaxSteps, players: SUBSET Players, listed: BOOLEAN]
Askers == {NotAsked} \union [player: Players, npc: Npcs \union {None}]
RulesOK == talk \in Talks /\ lastTalk \in Nat /\ hostAsked \in Askers

AllTypes == ServiceOK /\ ScreenOK /\ EngineOK /\ RequestsOK /\ NoticesOK /\ RulesOK

\* A message of a small type.
LEMMA MessageIs ==
    ASSUME NEW t, NEW c \in Nat, NEW n \in Npcs \union {None}, NEW s \in 0 .. MaxSteps, NEW f \in BOOLEAN
    PROVE  LET m == Msg(t, c, n, s, f) IN
           /\ m.type = t /\ m.conv = c /\ m.npc = n /\ m.step = s /\ m.flag = f
           /\ t \in {"start", "options", "close", "join", "failed"} => m \in Asks
           /\ t = "opened" /\ n \in Npcs => m \in Asks
           /\ t = "pick" /\ s < MaxSteps => m \in Asks
           /\ t \in {"start", "open", "list", "picked", "closed", "refused"} => m \in Tells
BY BoundsAssumption DEF Msg, Asks, Tells, Request, Notice

\* Small sequences.
LEMMA Sends12 ==
    ASSUME NEW S
    PROVE  /\ <<>> \in Seq(S)
           /\ \A m \in S : <<m>> \in Seq(S)
           /\ \A b, s : s \in Seq(S) => When(b, s) \in Seq(S)
           /\ \A s, t : s \in Seq(S) /\ t \in Seq(S) => s \o t \in Seq(S)
BY DEF When

\* A game's requests go behind those it has sent.
LEMMA SendsType ==
    ASSUME RequestsOK, NEW p \in Players, NEW e \in Seq(Asks), Sends(p, e)
    PROVE  RequestsOK' /\ requests'[p] = requests[p] \o e /\ \A q \in Players : q # p => requests'[q] = requests[q]
<1>1. requests[p] \o e \in Seq(Asks)
  BY DEF RequestsOK
<1>2. requests' = [requests EXCEPT ![p] = requests[p] \o e]
  BY Zenon DEF Sends
<1>. QED BY <1>1, <1>2 DEF RequestsOK

\* The host's notices go behind those a game has not read.
LEMMA TellType ==
    ASSUME NoticesOK, NEW W, NEW e \in Seq(Tells), Tell(W, e)
    PROVE  NoticesOK' /\ \A q \in Players : notices'[q] = IF q \in W \intersect Members THEN notices[q] \o e ELSE notices[q]
<1>1. \A q \in Players : notices[q] \in Seq(Tells)
  BY DEF NoticesOK
<1>2. \A q \in Players : notices[q] \o e \in Seq(Tells)
  BY <1>1, Sends12
<1>3. notices' = [q \in Players |-> IF q \in W \intersect Members THEN notices[q] \o e ELSE notices[q]]
  BY Zenon DEF Tell
<1>. QED BY <1>1, <1>2, <1>3 DEF NoticesOK

\* The notices about a conversation.
LEMMA TalkTells ==
    ASSUME NEW t \in Talks
    PROVE  /\ ListNow(t) \in Tells /\ ClosedNow(t) \in Tells
           /\ When(t.listed, <<ListNow(t)>>) \in Seq(Tells) /\ <<ClosedNow(t)>> \in Seq(Tells)
<1>1. t.id \in Nat /\ t.step \in 0 .. MaxSteps /\ 0 \in 0 .. MaxSteps
  BY BoundsAssumption DEF Talks
<1>2. ListNow(t) \in Tells /\ ClosedNow(t) \in Tells
  BY <1>1, MessageIs DEF ListNow, ClosedNow
<1>. QED BY <1>2, Sends12

\* The conversation without a player, and the list to those in it.
LEMMA MergeType ==
    ASSUME NoticesOK, NEW t \in Talks, Merge(t)
    PROVE  NoticesOK'
BY TalkTells, TellType, Zenon DEF Merge

\* A player that leaves the conversation.
LEMMA LeaveTalkType ==
    ASSUME NoticesOK, RulesOK, NEW p \in Players, LeaveTalk(p)
    PROVE  NoticesOK' /\ talk' \in Talks
<1>1. talk \in Talks /\ NoTalk \in Talks
  BY BoundsAssumption DEF RulesOK, Talks, NoTalk
<1>2. CASE p \notin talk.players
  <2>1. notices' = notices /\ talk' = talk
    BY <1>2 DEF LeaveTalk, LastOut
  <2>. QED BY <1>1, <2>1 DEF NoticesOK
<1>3. CASE p \in talk.players /\ LastOut(p)
  <2>1. talk' = NoTalk /\ Tell(ToldOfEnd(talk), <<ClosedNow(talk)>>)
    BY <1>3 DEF LeaveTalk
  <2>. QED BY <1>1, <2>1, TalkTells, TellType
<1>4. CASE p \in talk.players /\ ~LastOut(p)
  <2>1. talk' = [talk EXCEPT !.players = @ \ {p}] /\ Merge(talk')
    BY <1>4 DEF LeaveTalk
  <2>2. talk' \in Talks
    BY <1>1, <2>1 DEF Talks
  <2>. QED BY <2>1, <2>2, MergeType
<1>. QED BY <1>2, <1>3, <1>4

\* The rules read a request.
LEMMA OnOpenedType ==
    ASSUME NoticesOK, RulesOK, NEW n \in Npcs, NEW f \in BOOLEAN, OnOpened(n, f)
    PROVE  NoticesOK' /\ RulesOK'
<1>1. talk \in Talks /\ NoTalk \in Talks /\ lastTalk \in Nat /\ lastTalk' = lastTalk + 1 /\ lastTalk' \in Nat
  BY BoundsAssumption DEF RulesOK, Talks, NoTalk, OnOpened
<1>2. {p \in {hostAsked.player} : hostAsked.npc = n} \subseteq Players
  BY PlayersAssumption DEF RulesOK, Askers, NotAsked
<1>3. (IF f THEN Members \ {Host} ELSE {p \in {hostAsked.player} : hostAsked.npc = n}) \in SUBSET Players
  BY <1>2 DEF Members
<1>4. talk' \in Talks
  <2>1. PICK w : w = IF f THEN Members \ {Host} ELSE {p \in {hostAsked.player} : hostAsked.npc = n}
    OBVIOUS
  <2>2. talk' = [NoTalk EXCEPT !.id = lastTalk + 1, !.npc = n, !.step = 1, !.players = w]
    BY <2>1, Zenon DEF OnOpened
  <2>3. 1 \in 0 .. MaxSteps
    BY BoundsAssumption
  <2>. QED BY <1>1, <1>3, <2>1, <2>2, <2>3 DEF Talks
<1>5. hostAsked' \in Askers
  BY DEF OnOpened, Askers
<1>6. PICK o : o = Msg("open", lastTalk + 1, n, 0, f)
  OBVIOUS
<1>7. o \in Tells /\ <<o>> \in Seq(Tells)
  BY <1>1, <1>6, MessageIs, BoundsAssumption
<1>8. ASSUME NEW q \in Players PROVE notices[q] \o When(talk # NoTalk /\ q # Host, <<ClosedNow(talk)>>) \o <<o>> \in Seq(Tells)
  <2>1. notices[q] \in Seq(Tells) /\ When(talk # NoTalk /\ q # Host, <<ClosedNow(talk)>>) \in Seq(Tells)
    BY <1>1, TalkTells, Sends12 DEF NoticesOK
  <2>. QED BY <1>7, <2>1, Sends12
<1>9. \A q \in Players : notices[q] \in Seq(Tells)
  BY DEF NoticesOK
<1>10. notices' = [q \in Players |-> IF q \in Members
           THEN notices[q] \o When(talk # NoTalk /\ q # Host, <<ClosedNow(talk)>>) \o <<o>> ELSE notices[q]]
  BY <1>6, Zenon DEF OnOpened
<1>11. NoticesOK'
  BY <1>8, <1>9, <1>10 DEF NoticesOK
<1>. QED BY <1>1, <1>4, <1>5, <1>11 DEF RulesOK

\* The rules' handlers (HostDialogue): what they tell, and what they keep.
LEMMA HandlerType ==
    ASSUME NoticesOK, RulesOK, NEW p \in Players, NEW m \in Asks,
           \/ m.type = "start" /\ OnStart(p, m.npc)
           \/ m.type = "opened" /\ OnOpened(m.npc, m.flag)
           \/ m.type = "options" /\ OnOptions(p, m)
           \/ m.type = "pick" /\ OnPick(p, m)
           \/ m.type = "close" /\ OnClose(p, m)
           \/ m.type = "join" /\ OnJoin(p, m)
           \/ m.type = "failed" /\ OnStartFailed(p, m.npc)
    PROVE  NoticesOK' /\ RulesOK'
<1>1. /\ talk \in Talks /\ NoTalk \in Talks /\ lastTalk \in Nat /\ hostAsked \in Askers /\ NotAsked \in Askers
      /\ talk.id \in Nat /\ talk.npc \in Npcs \union {None} /\ talk.step \in 0 .. MaxSteps /\ talk.players \in SUBSET Players
      /\ 0 \in 0 .. MaxSteps
  BY BoundsAssumption DEF RulesOK, Talks, NoTalk, Askers
<1>2. m.npc \in Npcs \union {None} /\ m.flag \in BOOLEAN /\ m.step \in Nat /\ m.conv \in Nat
  BY DEF Asks, Request
<1>3. UNCHANGED <<notices, ruleVars>> => NoticesOK' /\ RulesOK'
  BY DEF NoticesOK, RulesOK, ruleVars
<1>4. \A n \in Npcs \union {None} : /\ <<Msg("refused", 0, n, 0, FALSE)>> \in Seq(Tells)
                                    /\ <<Msg("start", 0, n, 0, FALSE)>> \in Seq(Tells)
  BY <1>1, MessageIs, Sends12
<1>5. CASE m.type = "start" /\ OnStart(p, m.npc)
  <2>1. CASE talk # NoTalk /\ talk.npc = m.npc /\ UNCHANGED <<notices, ruleVars>>
    BY <1>3, <2>1
  <2>2. CASE Tell({p}, <<Msg("refused", 0, m.npc, 0, FALSE)>>) /\ UNCHANGED ruleVars
    <3>1. NoticesOK'
      BY <1>2, <1>4, <2>2, TellType
    <3>. QED BY <2>2, <3>1 DEF RulesOK, ruleVars
  <2>3. CASE /\ hostAsked' = [player |-> p, npc |-> m.npc]
             /\ Tell({Host}, <<Msg("start", 0, m.npc, 0, FALSE)>>) /\ UNCHANGED <<talk, lastTalk>>
    <3>1. NoticesOK'
      BY <1>2, <1>4, <2>3, TellType
    <3>2. hostAsked' \in Askers
      BY <1>2, <2>3 DEF Askers
    <3>. QED BY <1>1, <2>3, <3>1, <3>2 DEF RulesOK
  <2>. QED BY <1>5, <2>1, <2>2, <2>3 DEF OnStart
<1>6. CASE m.type = "opened" /\ OnOpened(m.npc, m.flag)
  <2>1. m.npc \in Npcs
    BY <1>6 DEF Asks
  <2>. QED BY <1>2, <1>6, <2>1, OnOpenedType
<1>7. CASE m.type = "options" /\ OnOptions(p, m)
  <2>1. CASE /\ talk' = [talk EXCEPT !.listed = TRUE] /\ Merge(talk') /\ UNCHANGED <<lastTalk, hostAsked>>
    <3>1. talk' \in Talks
      BY <1>1, <2>1 DEF Talks
    <3>. QED BY <1>1, <2>1, <3>1, MergeType DEF RulesOK
  <2>. QED BY <1>3, <1>7, <2>1 DEF OnOptions
<1>8. CASE m.type = "pick" /\ OnPick(p, m)
  <2>1. CASE talk # NoTalk /\ Says(p, m)
    <3>1. /\ talk' = [talk EXCEPT !.step = @ + 1, !.listed = FALSE]
          /\ Tell(Players, <<Msg("picked", talk.id, None, talk.step + 1, FALSE)>>)
          /\ UNCHANGED <<lastTalk, hostAsked>>
      BY <1>8, <2>1 DEF OnPick
    <3>2. talk.step + 1 \in 0 .. MaxSteps
      BY <1>1, <1>8, <2>1, BoundsAssumption DEF Says, Asks
    <3>3. talk' \in Talks
      BY <1>1, <3>1, <3>2 DEF Talks
    <3>4. <<Msg("picked", talk.id, None, talk.step + 1, FALSE)>> \in Seq(Tells)
      BY <1>1, <3>2, MessageIs, Sends12
    <3>. QED BY <1>1, <3>1, <3>3, <3>4, TellType DEF RulesOK
  <2>2. CASE ~(talk # NoTalk /\ Says(p, m))
    <3>1. Tell({p}, When(talk # NoTalk /\ m.conv = talk.id /\ ListBack(p), <<ListNow(talk)>>)) /\ UNCHANGED ruleVars
      BY <1>8, <2>2, Zenon DEF OnPick
    <3>2. When(talk # NoTalk /\ m.conv = talk.id /\ ListBack(p), <<ListNow(talk)>>) \in Seq(Tells)
      BY <1>1, TalkTells, Sends12
    <3>3. NoticesOK'
      BY <3>1, <3>2, TellType
    <3>. QED BY <3>1, <3>3 DEF RulesOK, ruleVars
  <2>. QED BY <2>1, <2>2
<1>9. CASE m.type = "close" /\ OnClose(p, m)
  <2>1. UNCHANGED <<lastTalk, hostAsked>>
    BY <1>9 DEF OnClose
  <2>2. CASE talk' = NoTalk /\ Tell(ToldOfEnd(talk) \ {Host}, <<ClosedNow(talk)>>)
    BY <1>1, <2>1, <2>2, TalkTells, TellType DEF RulesOK
  <2>3. CASE LeaveTalk(p)
    BY <1>1, <2>1, <2>3, LeaveTalkType DEF RulesOK
  <2>4. CASE UNCHANGED <<notices, talk>>
    BY <1>3, <2>1, <2>4 DEF ruleVars
  <2>. QED BY <1>9, <2>2, <2>3, <2>4 DEF OnClose
<1>10. CASE m.type = "join" /\ OnJoin(p, m)
  <2>1. CASE talk' = [talk EXCEPT !.players = @ \union {p}] /\ Merge(talk') /\ UNCHANGED <<lastTalk, hostAsked>>
    <3>1. talk' \in Talks
      BY <1>1, <2>1 DEF Talks
    <3>. QED BY <1>1, <2>1, <3>1, MergeType DEF RulesOK
  <2>. QED BY <1>3, <1>10, <2>1 DEF OnJoin
<1>11. CASE m.type = "failed" /\ OnStartFailed(p, m.npc)
  <2>1. CASE /\ Tell({hostAsked.player}, <<Msg("refused", 0, m.npc, 0, FALSE)>>)
             /\ hostAsked' = NotAsked /\ UNCHANGED <<talk, lastTalk>>
    <3>1. NoticesOK'
      BY <1>2, <1>4, <2>1, TellType
    <3>. QED BY <1>1, <2>1, <3>1 DEF RulesOK
  <2>. QED BY <1>3, <1>11, <2>1 DEF OnStartFailed
<1>. QED BY <1>5, <1>6, <1>7, <1>8, <1>9, <1>10, <1>11

\* The host reads a request.
LEMMA HostReadsType == ASSUME AllTypes, NEW p \in Players, HostReads(p) PROVE AllTypes'
<1>1. PICK m : m = Head(requests[p])
  OBVIOUS
<1>2. m \in Asks /\ Tail(requests[p]) \in Seq(Asks)
  <2>1. requests[p] \in Seq(Asks) /\ requests[p] # <<>>
    BY DEF HostReads, AllTypes, RequestsOK
  <2>. QED BY <1>1, <2>1, ReadFacts
<1>3. RequestsOK'
  <2>1. requests' = [requests EXCEPT ![p] = Tail(@)]
    BY DEF HostReads
  <2>. QED BY <1>2, <2>1 DEF AllTypes, RequestsOK
<1>4. NoticesOK' /\ RulesOK'
  BY <1>1, <1>2, HandlerType DEF HostReads, AllTypes
<1>5. UNCHANGED <<conn, gameVars>>
  BY DEF HostReads
<1>. QED BY <1>3, <1>4, <1>5 DEF AllTypes, ServiceOK, ScreenOK, EngineOK, gameVars, serviceVars, screenVars, engineVars,
            hostGameVars

\* A game that reads a notice sends nothing, or one message, or says what it can of a pick.
LEMMA GameReadsType == ASSUME AllTypes, NEW p \in Players, GameReads(p) PROVE AllTypes'
<1>1. PICK m : m = Head(notices[p])
  OBVIOUS
<1>2. m \in Tells /\ Tail(notices[p]) \in Seq(Tells)
  <2>1. notices[p] \in Seq(Tells) /\ notices[p] # <<>>
    BY DEF GameReads, AllTypes, NoticesOK
  <2>. QED BY <1>1, <2>1, ReadFacts
<1>3. NoticesOK'
  <2>1. notices' = [notices EXCEPT ![p] = Tail(@)]
    BY DEF GameReads
  <2>. QED BY <1>2, <2>1 DEF AllTypes, NoticesOK
<1>4. UNCHANGED <<conn, talks, ruleVars>>
  BY DEF GameReads
<1>5. RulesOK'
  BY <1>4 DEF AllTypes, RulesOK, ruleVars
<1>6. /\ m.npc \in Npcs \union {None} /\ m.flag \in BOOLEAN /\ m.step \in 0 .. MaxSteps /\ m.conv \in Nat
      /\ conv[p] \in Nat /\ 0 \in 0 .. MaxSteps /\ 1 \in 0 .. MaxSteps /\ None \in Npcs \union {None}
  BY <1>2, BoundsAssumption DEF Tells, Notice, AllTypes, ServiceOK
<1>7. UNCHANGED requests => RequestsOK'
  BY DEF AllTypes, RequestsOK
<1>8. /\ UNCHANGED serviceVars => ServiceOK'
      /\ UNCHANGED <<screenVars, asked>> => ScreenOK'
      /\ UNCHANGED <<engineVars, hostGameVars>> => EngineOK'
  BY <1>4 DEF AllTypes, ServiceOK, ScreenOK, EngineOK, serviceVars, screenVars, engineVars, hostGameVars
<1>9. CASE OnHostStart(m)
  <2>1. ServiceOK' /\ ScreenOK'
    BY <1>8, <1>9 DEF OnHostStart
  <2>2. EngineOK'
    BY <1>4, <1>6, <1>9, PlayersAssumption DEF OnHostStart, AllTypes, EngineOK
  <2>3. CASE UNCHANGED requests
    BY <1>3, <1>5, <1>7, <2>1, <2>2, <2>3 DEF AllTypes
  <2>4. CASE Sends(Host, <<Msg("failed", 0, m.npc, 0, FALSE)>>)
    <3>1. <<Msg("failed", 0, m.npc, 0, FALSE)>> \in Seq(Asks)
      BY <1>6, MessageIs, Sends12
    <3>2. RequestsOK'
      BY <2>4, <3>1, SendsType, PlayersAssumption DEF AllTypes
    <3>. QED BY <1>3, <1>5, <2>1, <2>2, <3>2 DEF AllTypes
  <2>. QED BY <1>9, <2>3, <2>4 DEF OnHostStart
<1>10. CASE OnOpen(p, m)
  <2>1. ScreenOK'
    BY <1>6, <1>10 DEF OnOpen, AllTypes, ScreenOK
  <2>2. \A b \in BOOLEAN : [joined EXCEPT ![p] = b] \in [Players -> BOOLEAN] /\ [opening EXCEPT ![p] = b] \in [Players -> BOOLEAN]
    BY DEF AllTypes, ServiceOK
  <2>3. /\ conv' \in [Players -> Nat] /\ npc' \in [Players -> Npcs \union {None}] /\ step' \in [Players -> 0 .. MaxSteps]
    BY <1>6, <1>10 DEF OnOpen, AllTypes, ServiceOK
  <2>4. CASE p = Host
    <3>1. /\ joined' = [joined EXCEPT ![p] = FALSE] /\ opening' = [opening EXCEPT ![p] = FALSE]
          /\ awaiting' = FALSE /\ Sends(p, When(speaker[Host] # None, <<Options(m.conv, 1)>>)) /\ UNCHANGED engineVars
          /\ UNCHANGED <<shows, heard, greeter, menuEnds>>
      BY <1>10, <2>4 DEF OnOpen
    <3>2. ServiceOK'
      BY <2>2, <2>3, <3>1 DEF ServiceOK
    <3>3. EngineOK'
      BY <1>4, <3>1 DEF AllTypes, EngineOK, engineVars
    <3>4. When(speaker[Host] # None, <<Options(m.conv, 1)>>) \in Seq(Asks)
      BY <1>6, MessageIs, Sends12 DEF Options
    <3>5. RequestsOK'
      BY <3>1, <3>4, SendsType DEF AllTypes
    <3>. QED BY <1>3, <1>5, <2>1, <3>2, <3>3, <3>5 DEF AllTypes
  <2>5. CASE p # Host
    <3>1. OpensHere(p, m) /\ UNCHANGED awaiting /\ UNCHANGED <<shows, heard, greeter, menuEnds>>
      BY <1>10, <2>5 DEF OnOpen
    <3>2. \E b \in BOOLEAN : joined' = [joined EXCEPT ![p] = b] /\ opening' = [opening EXCEPT ![p] = b]
      BY <3>1, Zenon DEF OpensHere
    <3>3. ServiceOK'
      BY <2>2, <2>3, <3>2 DEF ServiceOK
    <3>4. speaker' \in [Players -> Npcs \union {None}] /\ menu' \in [Players -> {"closed", "coming", "open"}]
      <4>1. speaker \in [Players -> Npcs \union {None}] /\ menu \in [Players -> {"closed", "coming", "open"}]
        BY DEF AllTypes, EngineOK
      <4>2. CASE UNCHANGED engineVars
        BY <4>1, <4>2 DEF engineVars
      <4>3. CASE speaker' = [speaker EXCEPT ![p] = m.npc] /\ menu' = [menu EXCEPT ![p] = IF MenuOpen(p) THEN @ ELSE "coming"]
        BY <1>6, <4>1, <4>3
      <4>4. CASE EndsHere(p)
        BY <1>6, <4>1, <4>4 DEF EndsHere
      <4>. QED BY <3>1, <4>2, <4>3, <4>4 DEF OpensHere
    <3>5. EngineOK'
      BY <1>4, <3>1, <3>4 DEF AllTypes, EngineOK
    <3>6. RequestsOK'
      <4>1. CASE UNCHANGED requests
        BY <1>7, <4>1
      <4>2. CASE Sends(p, LeavesWhenItCannot(m.conv))
        <5>1. LeavesWhenItCannot(m.conv) \in Seq(Asks)
          BY <1>6, MessageIs, Sends12 DEF LeavesWhenItCannot
        <5>. QED BY <4>2, <5>1, SendsType DEF AllTypes
      <4>. QED BY <3>1, <4>1, <4>2 DEF OpensHere
    <3>. QED BY <1>3, <1>5, <2>1, <3>3, <3>5, <3>6 DEF AllTypes
  <2>. QED BY <2>4, <2>5
<1>11. CASE OnList(p, m)
  <2>1. ServiceOK' /\ EngineOK' /\ RequestsOK'
    BY <1>7, <1>8, <1>11 DEF OnList, engineVars
  <2>2. ScreenOK'
    BY <1>6, <1>11 DEF OnList, AllTypes, ScreenOK, ShownAgain
  <2>. QED BY <1>3, <1>5, <2>1, <2>2 DEF AllTypes
<1>12. CASE OnPicked(p, m)
  <2>1. PICK said \in BOOLEAN :
          /\ awaiting' = IF p = Host THEN said ELSE awaiting
          /\ Sends(p, When(p = Host /\ ~said, <<Options(conv[p], m.step)>>))
    BY <1>12 DEF OnPicked
  <2>2. ServiceOK'
    BY <1>6, <1>12 DEF OnPicked, AllTypes, ServiceOK
  <2>3. ScreenOK'
    BY <1>12 DEF OnPicked, AllTypes, ScreenOK
  <2>4. EngineOK'
    BY <1>4, <1>12, <2>1 DEF OnPicked, AllTypes, EngineOK, engineVars
  <2>5. When(p = Host /\ ~said, <<Options(conv[p], m.step)>>) \in Seq(Asks)
    BY <1>6, MessageIs, Sends12 DEF Options
  <2>6. RequestsOK'
    BY <2>1, <2>5, SendsType DEF AllTypes
  <2>. QED BY <1>3, <1>5, <2>2, <2>3, <2>4, <2>6 DEF AllTypes
<1>13. CASE OnClosed(p, m)
  <2>1. ServiceOK'
    BY <1>6, <1>13 DEF OnClosed, AllTypes, ServiceOK
  <2>2. ScreenOK' /\ RequestsOK'
    BY <1>7, <1>8, <1>13 DEF OnClosed
  <2>3. EngineOK'
    BY <1>4, <1>6, <1>13 DEF OnClosed, EndsHere, AllTypes, EngineOK
  <2>. QED BY <1>3, <1>5, <2>1, <2>2, <2>3 DEF AllTypes
<1>14. CASE OnRefused(p, m)
  <2>1. ServiceOK' /\ EngineOK' /\ RequestsOK'
    BY <1>7, <1>8, <1>14 DEF OnRefused
  <2>2. ScreenOK'
    BY <1>6, <1>14 DEF OnRefused, AllTypes, ScreenOK, screenVars
  <2>. QED BY <1>3, <1>5, <2>1, <2>2 DEF AllTypes
<1>15. CASE UNCHANGED <<serviceVars, screenVars, asked, engineVars, hostGameVars, requests>>
  BY <1>3, <1>5, <1>7, <1>8, <1>15 DEF AllTypes
<1>. QED BY <1>1, <1>9, <1>10, <1>11, <1>12, <1>13, <1>14, <1>15 DEF GameReads

\* What a game does without a message read.
LEMMA UpdateType ==
    ASSUME AllTypes, NEW p \in Players
    PROVE  JoinOrLeave(p) \in Seq(Asks) /\ StillOpening(p) \in BOOLEAN /\ StaysJoined(p) \in BOOLEAN
<1>1. conv[p] \in Nat /\ None \in Npcs \union {None} /\ 0 \in 0 .. MaxSteps
  BY BoundsAssumption DEF AllTypes, ServiceOK
<1>2. JoinOrLeave(p) \in Seq(Asks)
  BY <1>1, MessageIs, Sends12 DEF JoinOrLeave
<1>3. StillOpening(p) \in BOOLEAN /\ StaysJoined(p) \in BOOLEAN
  BY DEF StillOpening, StaysJoined, InIt, MenuOpen, AllTypes, ServiceOK
<1>. QED BY <1>2, <1>3

\* What a game does by itself, and a player that joins or leaves.
LEMMA LocalType ==
    ASSUME AllTypes, NEW p \in Players, \/ GuestUpdate(p) \/ MenuComes(p) \/ MenuCloses(p) \/ Picks(p) \/ OpeningLate(p)
                                        \/ Join(p) \/ Leave(p)
    PROVE  AllTypes'
<1>1. /\ conv[p] \in Nat /\ step[p] \in 0 .. MaxSteps /\ 0 \in 0 .. MaxSteps /\ None \in Npcs \union {None}
      /\ \A q \in Players : requests[q] \in Seq(Asks)
  BY BoundsAssumption DEF AllTypes, ServiceOK, RequestsOK
<1>2. /\ UNCHANGED serviceVars => ServiceOK'
      /\ UNCHANGED <<screenVars, asked>> => ScreenOK'
      /\ UNCHANGED <<engineVars, hostGameVars, conn, talks>> => EngineOK'
      /\ UNCHANGED requests => RequestsOK'
      /\ UNCHANGED notices => NoticesOK'
      /\ UNCHANGED ruleVars => RulesOK'
  BY DEF AllTypes, ServiceOK, ScreenOK, EngineOK, RequestsOK, NoticesOK, RulesOK, serviceVars, screenVars, engineVars,
         hostGameVars, ruleVars
<1>3. ASSUME EndsHere(p), UNCHANGED <<hostGameVars, talks>>, conn' \in [Players -> {"none", "open", "closed"}] PROVE EngineOK'
  BY <1>1, <1>3 DEF EndsHere, AllTypes, EngineOK, hostGameVars
<1>4. CASE GuestUpdate(p)
  <2>1. ServiceOK'
    BY <1>4, UpdateType DEF GuestUpdate, AllTypes, ServiceOK
  <2>2. ScreenOK'
    BY <1>1, <1>4 DEF GuestUpdate, ShowsNow, AllTypes, ScreenOK
  <2>3. EngineOK'
    BY <1>2, <1>3, <1>4 DEF GuestUpdate, AllTypes, EngineOK
  <2>4. RequestsOK'
    BY <1>4, UpdateType, SendsType DEF GuestUpdate, AllTypes
  <2>. QED BY <1>2, <1>4, <2>1, <2>2, <2>3, <2>4 DEF GuestUpdate, AllTypes
<1>5. CASE MenuComes(p)
  <2>1. ScreenOK'
    BY <1>5 DEF MenuComes, FirstList, AllTypes, ScreenOK
  <2>2. EngineOK'
    BY <1>5 DEF MenuComes, AllTypes, EngineOK, hostGameVars
  <2>. QED BY <1>2, <1>5, <2>1, <2>2 DEF MenuComes, AllTypes
<1>6. CASE MenuCloses(p)
  <2>1. EngineOK'
    BY <1>1, <1>6 DEF MenuCloses, AllTypes, EngineOK, hostGameVars
  <2>. QED BY <1>2, <1>6, <2>1 DEF MenuCloses, AllTypes
<1>7. CASE Picks(p)
  <2>1. ScreenOK'
    BY <1>7 DEF Picks, AllTypes, ScreenOK
  <2>2. PICK own \in BOOLEAN : Sends(p, <<Msg("pick", conv[p], None, step[p], own)>>)
    BY <1>7 DEF Picks
  <2>3. <<Msg("pick", conv[p], None, step[p], own)>> \in Seq(Asks)
    BY <1>1, <1>7, MessageIs, Sends12 DEF Picks
  <2>4. RequestsOK'
    BY <2>2, <2>3, SendsType DEF AllTypes
  <2>. QED BY <1>2, <1>7, <2>1, <2>4 DEF Picks, AllTypes
<1>8. CASE OpeningLate(p)
  <2>1. EngineOK'
    BY <1>3, <1>8 DEF OpeningLate, AllTypes, EngineOK
  <2>. QED BY <1>2, <1>8, <2>1 DEF OpeningLate, AllTypes
<1>9. CASE Join(p)
  <2>1. conn' \in [Players -> {"none", "open", "closed"}]
    BY <1>9 DEF Join, AllTypes, EngineOK
  <2>2. UNCHANGED <<talks, serviceVars, screenVars, asked, engineVars, hostGameVars, requests, notices, ruleVars>>
    BY <1>9 DEF Join, gameVars
  <2>3. EngineOK'
    BY <2>1, <2>2 DEF AllTypes, EngineOK, engineVars, hostGameVars
  <2>. QED BY <1>2, <2>2, <2>3 DEF AllTypes
<1>10. CASE Leave(p)
  <2>1. conn' \in [Players -> {"none", "open", "closed"}]
    BY <1>10 DEF Leave, AllTypes, EngineOK
  <2>2. EngineOK'
    BY <1>3, <1>10, <2>1 DEF Leave
  <2>3. ServiceOK'
    BY <1>1, <1>10 DEF Leave, AllTypes, ServiceOK
  <2>4. ScreenOK'
    BY <1>1, <1>10 DEF Leave, AllTypes, ScreenOK
  <2>5. RequestsOK'
    BY <1>1, <1>10, Sends12 DEF Leave, AllTypes, RequestsOK
  <2>6. NoticesOK' /\ talk' \in Talks
    BY <1>10, LeaveTalkType DEF Leave, AllTypes
  <2>7. RulesOK'
    BY <1>10, <2>6 DEF Leave, AllTypes, RulesOK, Askers
  <2>. QED BY <2>2, <2>3, <2>4, <2>5, <2>6, <2>7 DEF AllTypes
<1>. QED BY <1>4, <1>5, <1>6, <1>7, <1>8, <1>9, <1>10

\* Talks, and what the host's engine and game do.
LEMMA TalksType ==
    ASSUME AllTypes,
           \/ \E p \in Players, n \in Npcs : GuestTalks(p, n)
           \/ \E n \in Npcs, greet \in BOOLEAN : HostTalks(n, greet)
           \/ EngineEnds \/ EngineLists \/ HostUpdate
    PROVE  AllTypes'
<1>1. /\ Host \in Players /\ conv[Host] \in Nat /\ step[Host] \in 0 .. MaxSteps /\ 0 \in 0 .. MaxSteps
      /\ None \in Npcs \union {None} /\ speaker[Host] \in Npcs \union {None}
  BY BoundsAssumption, PlayersAssumption DEF AllTypes, ServiceOK, EngineOK
<1>2. /\ UNCHANGED serviceVars => ServiceOK'
      /\ UNCHANGED <<screenVars, asked>> => ScreenOK'
      /\ UNCHANGED <<engineVars, hostGameVars, conn, talks>> => EngineOK'
      /\ UNCHANGED requests => RequestsOK'
      /\ UNCHANGED notices => NoticesOK'
      /\ UNCHANGED ruleVars => RulesOK'
  BY DEF AllTypes, ServiceOK, ScreenOK, EngineOK, RequestsOK, NoticesOK, RulesOK, serviceVars, screenVars, engineVars,
         hostGameVars, ruleVars
<1>3. ASSUME NEW p \in Players, NEW n \in Npcs, GuestTalks(p, n) PROVE AllTypes'
  <2>1. ScreenOK'
    BY <1>3 DEF GuestTalks, AllTypes, ScreenOK, screenVars
  <2>2. talks' \in 0 .. MaxTalks /\ UNCHANGED <<conn, hostGameVars>>
    BY <1>3, BoundsAssumption DEF GuestTalks, AllTypes, EngineOK
  <2>3. speaker' \in [Players -> Npcs \union {None}] /\ menu' \in [Players -> {"closed", "coming", "open"}]
    BY <1>3 DEF GuestTalks, AllTypes, EngineOK, engineVars
  <2>4. EngineOK'
    BY <2>2, <2>3 DEF AllTypes, EngineOK, hostGameVars
  <2>5. <<Msg("start", 0, n, 0, FALSE)>> \in Seq(Asks)
    BY <1>1, MessageIs, Sends12
  <2>6. UNCHANGED requests \/ Sends(p, <<Msg("start", 0, n, 0, FALSE)>>)
    BY <1>3 DEF GuestTalks
  <2>7. RequestsOK'
    BY <1>2, <2>5, <2>6, SendsType DEF AllTypes
  <2>. QED BY <1>2, <1>3, <2>1, <2>4, <2>7 DEF GuestTalks, AllTypes
<1>4. ASSUME NEW n \in Npcs, NEW greet \in BOOLEAN, HostTalks(n, greet) PROVE AllTypes'
  <2>1. talks' \in 0 .. MaxTalks /\ UNCHANGED <<conn, heard, awaiting, menuEnds>>
    BY <1>4, BoundsAssumption DEF HostTalks, AllTypes, EngineOK
  <2>2. greeter' \in Npcs \union {None}
    BY <1>4 DEF HostTalks, AllTypes, EngineOK
  <2>3. speaker' \in [Players -> Npcs \union {None}]
    BY <1>4 DEF HostTalks, AllTypes, EngineOK
  <2>4. menu' \in [Players -> {"closed", "coming", "open"}]
    BY <1>4 DEF HostTalks, AllTypes, EngineOK
  <2>5. EngineOK'
    BY <2>1, <2>2, <2>3, <2>4 DEF AllTypes, EngineOK
  <2>. QED BY <1>2, <1>4, <2>5 DEF HostTalks, AllTypes
<1>5. CASE EngineEnds
  <2>1. EngineOK'
    BY <1>1, <1>5 DEF EngineEnds, EndsHere, AllTypes, EngineOK, hostGameVars
  <2>. QED BY <1>2, <1>5, <2>1 DEF EngineEnds, AllTypes
<1>6. CASE EngineLists
  <2>1. EngineOK'
    BY <1>6 DEF EngineLists, AllTypes, EngineOK, engineVars
  <2>2. ScreenOK'
    BY <1>6 DEF EngineLists, AllTypes, ScreenOK
  <2>3. When(conv[Host] # 0, <<Options(conv[Host], step[Host])>>) \in Seq(Asks)
    BY <1>1, MessageIs, Sends12 DEF Options
  <2>4. RequestsOK'
    BY <1>1, <1>6, <2>3, SendsType DEF EngineLists, AllTypes
  <2>. QED BY <1>2, <1>6, <2>1, <2>2, <2>4 DEF EngineLists, AllTypes
<1>7. CASE HostUpdate
  <2>1. PICK began \in BOOLEAN, ended \in BOOLEAN :
          /\ began = (SpeakerChanged /\ speaker[Host] # None)
          /\ ended = (SpeakerChanged /\ speaker[Host] = None /\ conv[Host] # 0)
    OBVIOUS
  <2>2. /\ opening' = [opening EXCEPT ![Host] = StillOpening(Host)]
        /\ joined' = [joined EXCEPT ![Host] = StaysJoined(Host) /\ ~began /\ ~ended]
        /\ conv' = [conv EXCEPT ![Host] = IF began \/ ended THEN 0 ELSE @]
        /\ Sends(Host, JoinOrLeave(Host)
             \o When(began, <<Msg("opened", 0, speaker[Host], 0, speaker[Host] = greeter)>>)
             \o When(ended, <<Msg("close", conv[Host], None, 0, TRUE)>>))
        /\ heard' = speaker[Host] /\ menuEnds' = (conv'[Host] = 0)
        /\ UNCHANGED screenVars \/ ShowsNow(Host)
        /\ UNCHANGED <<conn, talks, npc, step, asked, engineVars, greeter, awaiting, notices, ruleVars>>
    BY <1>7, <2>1, Zenon DEF HostUpdate
  <2>3. ServiceOK'
    BY <1>1, <2>2, UpdateType DEF AllTypes, ServiceOK
  <2>4. ScreenOK'
    BY <1>1, <2>2 DEF ShowsNow, AllTypes, ScreenOK, screenVars
  <2>5. EngineOK'
    BY <1>1, <2>2 DEF AllTypes, EngineOK, engineVars
  <2>6. When(began, <<Msg("opened", 0, speaker[Host], 0, speaker[Host] = greeter)>>) \in Seq(Asks)
    <3>1. CASE began
      BY <1>1, <2>1, <3>1, MessageIs, Sends12
    <3>. QED BY <3>1, Sends12 DEF When
  <2>7. When(ended, <<Msg("close", conv[Host], None, 0, TRUE)>>) \in Seq(Asks)
    BY <1>1, MessageIs, Sends12
  <2>8. RequestsOK'
    <3>1. JoinOrLeave(Host) \in Seq(Asks)
      BY <1>1, UpdateType
    <3>2. JoinOrLeave(Host) \o When(began, <<Msg("opened", 0, speaker[Host], 0, speaker[Host] = greeter)>>)
             \o When(ended, <<Msg("close", conv[Host], None, 0, TRUE)>>) \in Seq(Asks)
      BY <2>6, <2>7, <3>1, Sends12
    <3>. QED BY <1>1, <2>2, <3>2, SendsType DEF AllTypes
  <2>. QED BY <1>2, <2>2, <2>3, <2>4, <2>5, <2>8 DEF AllTypes
<1>. QED BY <1>3, <1>4, <1>5, <1>6, <1>7

\* The start.
LEMMA InitTypes == Init => AllTypes
<1>. SUFFICES ASSUME Init PROVE AllTypes
  OBVIOUS
<1>1. 0 \in 0 .. MaxSteps /\ 0 \in 0 .. MaxTalks
  BY BoundsAssumption
<1>2. ServiceOK /\ ScreenOK
  BY <1>1 DEF Init, ServiceOK, ScreenOK
<1>3. EngineOK
  BY <1>1 DEF Init, EngineOK
<1>4. RequestsOK /\ NoticesOK /\ RulesOK
  BY <1>1, Sends12 DEF Init, RequestsOK, NoticesOK, RulesOK, Talks, Askers, NoTalk
<1>. QED BY <1>2, <1>3, <1>4 DEF AllTypes

\* Every step.
LEMMA NextTypes == ASSUME AllTypes, [Next]_vars PROVE AllTypes'
<1>1. CASE Next
  BY <1>1, HostReadsType, GameReadsType, LocalType, TalksType, Zenon DEF Next
<1>2. CASE UNCHANGED vars
  BY <1>2 DEF vars, gameVars, serviceVars, screenVars, engineVars, hostGameVars, ruleVars, AllTypes, ServiceOK, ScreenOK,
     EngineOK, RequestsOK, NoticesOK, RulesOK
<1>. QED BY <1>1, <1>2

\* The types the runs check are among these.
LEMMA TypesAre == AllTypes => TypeOK
<1>. SUFFICES ASSUME AllTypes PROVE TypeOK
  OBVIOUS
<1>1. requests \in [Players -> Seq(Request)] /\ notices \in [Players -> Seq(Notice)]
  <2>1. \A S, s : s \in Seq(S) => \A T : S \subseteq T => s \in Seq(T)
    OBVIOUS
  <2>2. Asks \subseteq Request /\ Tells \subseteq Notice
    BY DEF Asks, Tells
  <2>. QED BY <2>1, <2>2 DEF AllTypes, RequestsOK, NoticesOK
<1>2. hostAsked \in [player: Players \union {None}, npc: Npcs \union {None}]
  BY DEF AllTypes, RulesOK, Askers, NotAsked
<1>. QED BY <1>1, <1>2 DEF AllTypes, TypeOK, ServiceOK, ScreenOK, EngineOK, RulesOK, Talks

\* Everything keeps its type, whatever is talked about and whoever leaves: no step past the last, no conversation without a
\* number, and no pick at the last step (the bounds of the runs hold too).
THEOREM TypeCorrect == Spec => []TypeOK
<1>1. Spec => []AllTypes
  BY InitTypes, NextTypes, PTL DEF Spec
<1>. QED BY <1>1, TypesAre, PTL

-----------------------------------------------------------------------------
(* Who hears of an end.                                                    *)

\* A notice by which a game leaves conversation c; of a channel, that one comes behind a place in it.
Over(m, c) == (m.type = "closed" /\ m.conv = c) \/ (m.type = "open" /\ m.conv > c)
OverAfter(q, c, i) == \E j \in DOMAIN q : i < j /\ Over(q[j], c)

\* A game in conversation c with the notices q to read comes to conversation t, if it stays in one: each that it is in, or
\* is yet to open, is t or is over behind that.
ComesTo(q, c, t) ==
    /\ c # 0 => c = t \/ OverAfter(q, c, 0)
    /\ \A i \in DOMAIN q : q[i].type = "open" => q[i].conv = t \/ OverAfter(q, q[i].conv, i)

\* Conversations are numbered as they are opened.
Numbered(q, c, l) == c \in 0 .. l /\ \A m \in Sent(q) : m.type = "open" => m.conv \in 1 .. l

Hears(p) == ComesTo(notices[p], conv[p], talk.id)

\* What a game hears when notices are put behind its others: none of them opens a conversation.
LEMMA ComesToQuiet ==
    ASSUME NEW q \in Seq(Tells), NEW e \in Seq(Tells), NEW c \in Nat, NEW t \in Nat, ComesTo(q, c, t),
           \A m \in Sent(e) : m.type # "open"
    PROVE  ComesTo(q \o e, c, t)
<1>1. PICK u : u = q \o e /\ Joined(q, e, u)
  BY JoinFacts
<1>2. ASSUME NEW d, NEW i, OverAfter(q, d, i) PROVE OverAfter(u, d, i)
  BY <1>1, <1>2 DEF OverAfter, Joined
<1>3. ASSUME NEW i \in DOMAIN u, u[i].type = "open" PROVE u[i].conv = t \/ OverAfter(u, u[i].conv, i)
  <2>1. i \in DOMAIN q /\ u[i] = q[i]
    BY <1>1, <1>3 DEF Joined, Sent
  <2>. QED BY <1>2, <1>3, <2>1 DEF ComesTo
<1>4. c # 0 => c = t \/ OverAfter(u, c, 0)
  BY <1>2 DEF ComesTo
<1>. QED BY <1>1, <1>3, <1>4 DEF ComesTo

\* The end of the conversation, or a newer one.
LEMMA ComesToLast ==
    ASSUME NEW q \in Seq(Tells), NEW e \in Seq(Tells), NEW m \in Tells, NEW c \in Nat, NEW t \in Nat, NEW s \in Nat, NEW l \in Nat,
           ComesTo(q, c, t), Numbered(q, c, l), \A n \in Sent(e) : n.type # "open",
           \/ m.type = "closed" /\ m.conv = t /\ s = 0
           \/ m.type = "open" /\ m.conv = s /\ l < s
    PROVE  ComesTo(q \o e \o <<m>>, c, s)
<1>1. PICK v : v = q \o e /\ Joined(q, e, v) /\ v \in Seq(Tells)
  BY JoinFacts
<1>2. ComesTo(v, c, t)
  BY <1>1, ComesToQuiet
<1>3. PICK d : d = <<m>> /\ d \in Seq(Tells)
  <2>1. <<m>> \in Seq(Tells)
    BY Sends12
  <2>. QED BY <2>1
<1>4. PICK u : u = v \o d /\ Joined(v, d, u)
  BY <1>1, <1>3, JoinFacts
<1>5. Sent(v) = Sent(q) \cup Sent(e)
  BY <1>1, JoinedSent
<1>6. Numbered(v, c, l)
  BY <1>5 DEF Numbered
<1>7. Len(v) \in Nat /\ Len(v) + 1 \in DOMAIN u /\ u[Len(v) + 1] = m /\ \A j \in DOMAIN v : j < Len(v) + 1 /\ j \in Nat
  <2>1. 1 \in DOMAIN d /\ d[1] = m
    BY <1>3
  <2>. QED BY <1>4, <2>1 DEF Joined
<1>8. \A i \in DOMAIN u : (i \in DOMAIN v /\ u[i] = v[i]) \/ (i = Len(v) + 1 /\ u[i] = m)
  <2>1. \A i \in DOMAIN d : i = 1
    BY <1>3
  <2>. QED BY <1>4, <1>7, <2>1 DEF Joined
<1>9. ASSUME NEW b \in 1 .. l, NEW i \in Nat, i < Len(v) + 1, b = t \/ OverAfter(v, b, i) PROVE OverAfter(u, b, i)
  <2>1. CASE m.type = "open" /\ m.conv = s /\ l < s
    BY <1>7, <1>9, <2>1 DEF OverAfter, Over
  <2>2. CASE b = t /\ m.type = "closed" /\ m.conv = t
    BY <1>7, <1>9, <2>2 DEF OverAfter, Over
  <2>3. CASE OverAfter(v, b, i)
    BY <1>4, <2>3 DEF OverAfter, Joined
  <2>. QED BY <1>9, <2>1, <2>2, <2>3
<1>10. ASSUME NEW i \in DOMAIN u, u[i].type = "open" PROVE u[i].conv = s \/ OverAfter(u, u[i].conv, i)
  <2>1. CASE i \in DOMAIN v /\ u[i] = v[i]
    <3>1. u[i].conv \in 1 .. l /\ i \in Nat /\ i < Len(v) + 1
      BY <1>6, <1>7, <1>10, <2>1 DEF Numbered, Sent
    <3>2. u[i].conv = t \/ OverAfter(v, u[i].conv, i)
      BY <1>2, <1>10, <2>1 DEF ComesTo
    <3>. QED BY <1>9, <3>1, <3>2
  <2>2. CASE u[i] = m
    BY <1>10, <2>2
  <2>. QED BY <1>8, <2>1, <2>2
<1>11. ASSUME c # 0 PROVE OverAfter(u, c, 0)
  <2>1. c \in 1 .. l
    BY <1>11 DEF Numbered
  <2>. QED BY <1>2, <1>7, <1>9, <1>11, <2>1 DEF ComesTo
<1>12. ComesTo(u, c, s)
  BY <1>10, <1>11 DEF ComesTo
<1>. QED BY <1>1, <1>3, <1>4, <1>12

\* Reading.
LEMMA ComesToRead ==
    ASSUME NEW q \in Seq(Tells), q # <<>>, NEW c \in Nat, NEW t \in Nat, ComesTo(q, c, t), NEW m, m = Head(q)
    PROVE  /\ m.type = "open" => ComesTo(Tail(q), m.conv, t)
           /\ m.type # "open" => ComesTo(Tail(q), 0, t)
           /\ ~Over(m, c) => ComesTo(Tail(q), c, t)
<1>1. PICK u : u = Tail(q) /\ FirstTaken(q, u)
  BY ReadFacts
<1>2. 1 \in DOMAIN q /\ m = q[1]
  BY <1>1 DEF FirstTaken
<1>3. ASSUME NEW d, NEW i \in Nat, OverAfter(q, d, i + 1) PROVE OverAfter(u, d, i)
  <2>1. PICK j \in DOMAIN q : i + 1 < j /\ Over(q[j], d)
    BY <1>3 DEF OverAfter
  <2>2. j - 1 \in DOMAIN u /\ u[j - 1] = q[j] /\ i < j - 1
    BY <1>1, <2>1 DEF FirstTaken
  <2>. QED BY <2>1, <2>2 DEF OverAfter
<1>4. ASSUME NEW i \in DOMAIN u, u[i].type = "open" PROVE u[i].conv = t \/ OverAfter(u, u[i].conv, i)
  <2>1. i \in Nat /\ i + 1 \in DOMAIN q /\ u[i] = q[i + 1]
    BY <1>1 DEF FirstTaken
  <2>. QED BY <1>3, <1>4, <2>1 DEF ComesTo
<1>5. ASSUME NEW d, OverAfter(q, d, 0), ~Over(m, d) PROVE OverAfter(u, d, 0)
  <2>1. PICK j \in DOMAIN q : 0 < j /\ Over(q[j], d)
    BY <1>5 DEF OverAfter
  <2>2. j # 1
    BY <1>2, <1>5, <2>1
  <2>3. j - 1 \in DOMAIN u /\ u[j - 1] = q[j] /\ 0 < j - 1
    BY <1>1, <2>1, <2>2 DEF FirstTaken
  <2>. QED BY <2>1, <2>3 DEF OverAfter
<1>6. m.type = "open" => m.conv = t \/ OverAfter(u, m.conv, 0)
  BY <1>2, <1>3 DEF ComesTo
<1>. QED BY <1>1, <1>4, <1>5, <1>6 DEF ComesTo

\* Numbers.
LEMMA NumberedSteps ==
    ASSUME NEW q \in Seq(Tells), NEW c \in Nat, NEW l \in Nat, Numbered(q, c, l)
    PROVE  /\ \A e \in Seq(Tells), k \in Nat : l <= k /\ (\A m \in Sent(e) : m.type = "open" => m.conv \in 1 .. k)
                                               => Numbered(q \o e, c, k)
           /\ Numbered(q, 0, l)
           /\ q # <<>> => Numbered(Tail(q), c, l) /\ Numbered(Tail(q), 0, l)
           /\ q # <<>> /\ Head(q).type = "open" => Numbered(Tail(q), Head(q).conv, l)
<1>1. ASSUME NEW e \in Seq(Tells), NEW k \in Nat, l <= k, \A m \in Sent(e) : m.type = "open" => m.conv \in 1 .. k
      PROVE  Numbered(q \o e, c, k)
  BY <1>1, SentJoin DEF Numbered
<1>2. Numbered(q, 0, l)
  BY DEF Numbered
<1>3. ASSUME q # <<>>
      PROVE  /\ Numbered(Tail(q), c, l) /\ Numbered(Tail(q), 0, l)
             /\ Head(q).type = "open" => Numbered(Tail(q), Head(q).conv, l)
  BY <1>3, SentRead DEF Numbered
<1>. QED BY <1>1, <1>2, <1>3

\* What the rules' handlers do to the conversation: they leave it, open the next or end it.
Handles(p, m) ==
    \/ m.type = "start" /\ OnStart(p, m.npc)
    \/ m.type = "opened" /\ OnOpened(m.npc, m.flag)
    \/ m.type = "options" /\ OnOptions(p, m)
    \/ m.type = "pick" /\ OnPick(p, m)
    \/ m.type = "close" /\ OnClose(p, m)
    \/ m.type = "join" /\ OnJoin(p, m)
    \/ m.type = "failed" /\ OnStartFailed(p, m.npc)

Chats == {"list", "picked", "refused", "start"}
Speech == {"list", "picked"}
Quiet(T) ==
    /\ talk'.id = talk.id /\ talk'.npc = talk.npc /\ (talk' = NoTalk <=> talk = NoTalk) /\ lastTalk' = lastTalk
    /\ \A q \in Players : \E e \in Seq(Tells) : notices'[q] = notices[q] \o e /\ \A n \in Sent(e) : n.type \in T
    /\ \A q \in Players \ Members : notices'[q] = notices[q]
OpenNow(n, f) == Msg("open", lastTalk + 1, n, 0, f)
Opens(n, f) ==
    /\ lastTalk' = lastTalk + 1 /\ talk'.id = lastTalk + 1 /\ talk'.npc = n
    /\ \A q \in Members : \E e \in Seq(Tells) :
          /\ notices'[q] = notices[q] \o e \o <<OpenNow(n, f)>>
          /\ \A m \in Sent(e) : m = ClosedNow(talk) /\ q # Host /\ talk # NoTalk
    /\ \A q \in Players \ Members : notices'[q] = notices[q]
Ends(W) ==
    /\ talk # NoTalk /\ talk' = NoTalk /\ lastTalk' = lastTalk
    /\ \A q \in W \cap Members : notices'[q] = notices[q] \o <<>> \o <<ClosedNow(talk)>>
    /\ \A q \in Players \ (W \cap Members) : notices'[q] = notices[q]

\* Notices of what is said are no more than that.
LEMMA TellQuiet ==
    ASSUME NoticesOK, NEW T, NEW W, NEW e \in Seq(Tells), \A n \in Sent(e) : n.type \in T, Tell(W, e),
           talk'.id = talk.id, talk'.npc = talk.npc, talk' = NoTalk <=> talk = NoTalk, lastTalk' = lastTalk
    PROVE  Quiet(T)
<1>1. ASSUME NEW q \in Players PROVE \E d \in Seq(Tells) : notices'[q] = notices[q] \o d /\ \A n \in Sent(d) : n.type \in T
  <2>1. CASE q \in W \cap Members
    BY <2>1, TellType
  <2>2. CASE q \notin W \cap Members
    <3>1. notices'[q] = notices[q] /\ notices[q] \in Seq(Tells)
      BY <2>2, TellType DEF NoticesOK
    <3>2. notices'[q] = notices[q] \o <<>> /\ <<>> \in Seq(Tells) /\ Sent(<<>>) = {}
      BY <3>1, SentFew
    <3>. QED BY <3>2
  <2>. QED BY <2>1, <2>2
<1>2. \A q \in Players \ Members : notices'[q] = notices[q]
  BY TellType
<1>. QED BY <1>1, <1>2 DEF Quiet

\* Nothing is told.
LEMMA StillQuiet == ASSUME NoticesOK, UNCHANGED <<notices, talk, lastTalk>> PROVE Quiet(Speech) /\ Quiet(Chats)
<1>1. ASSUME NEW q \in Players PROVE \E d \in Seq(Tells) : notices'[q] = notices[q] \o d /\ \A n \in Sent(d) : n.type \in {}
  <2>1. notices'[q] = notices[q] \o <<>> /\ <<>> \in Seq(Tells) /\ Sent(<<>>) = {}
    BY SentFew DEF NoticesOK
  <2>. QED BY <2>1
<1>. QED BY <1>1 DEF Quiet

\* The end of the conversation is told.
LEMMA TellEnds ==
    ASSUME NoticesOK, RulesOK, NEW W, Tell(W, <<ClosedNow(talk)>>), talk # NoTalk, talk' = NoTalk, lastTalk' = lastTalk
    PROVE  Ends(W)
<1>1. \A q \in Players : notices[q] \in Seq(Tells)
  BY DEF NoticesOK
<1>2. \A q \in Players : notices[q] \o <<>> = notices[q]
  BY <1>1
<1>3. <<ClosedNow(talk)>> \in Seq(Tells)
  BY TalkTells DEF RulesOK
<1>4. \A q \in Players : notices'[q] = IF q \in W \cap Members THEN notices[q] \o <<ClosedNow(talk)>> ELSE notices[q]
  BY <1>3, TellType
<1>. QED BY <1>2, <1>4 DEF Ends, Members

\* The list, to those in a conversation.
LEMMA MergeQuiet ==
    ASSUME NoticesOK, NEW t \in Talks, Merge(t), talk' = t, talk'.id = talk.id, talk'.npc = talk.npc, talk # NoTalk, t # NoTalk,
           lastTalk' = lastTalk
    PROVE  Quiet(Speech) /\ Quiet(Chats)
<1>1. PICK e : e = When(t.listed, <<ListNow(t)>>) /\ e \in Seq(Tells)
  BY TalkTells
<1>2. \A n \in Sent(e) : n.type \in Chats /\ n.type \in Speech
  BY <1>1, SentFew DEF When, ListNow, Msg, Chats, Speech
<1>3. Tell(t.players, e)
  BY <1>1, Zenon DEF Merge
<1>. QED BY <1>1, <1>2, <1>3, TellQuiet

\* A player out of the conversation: the last one ends it.
LEMMA LeaveTalkDoes ==
    ASSUME NoticesOK, RulesOK, NEW p \in Players, LeaveTalk(p), lastTalk' = lastTalk, talk.id = 0 => talk = NoTalk
    PROVE  (Quiet(Speech) /\ Quiet(Chats)) \/ Ends(Players)
<1>1. talk \in Talks
  BY DEF RulesOK
<1>2. CASE p \notin talk.players
  <2>1. notices' = notices /\ talk' = talk
    BY <1>2 DEF LeaveTalk, LastOut
  <2>. QED BY <2>1, StillQuiet
<1>3. CASE p \in talk.players /\ LastOut(p)
  <2>1. talk' = NoTalk /\ Tell(Players, <<ClosedNow(talk)>>) /\ talk # NoTalk
    BY <1>3 DEF LeaveTalk, ToldOfEnd, NoTalk
  <2>. QED BY <2>1, TellEnds
<1>4. CASE p \in talk.players /\ ~LastOut(p)
  <2>1. talk' = [talk EXCEPT !.players = @ \ {p}] /\ Merge(talk') /\ talk # NoTalk
    BY <1>4 DEF LeaveTalk, NoTalk
  <2>2. talk' \in Talks /\ talk'.id = talk.id /\ talk'.npc = talk.npc
    BY <1>1, <2>1 DEF Talks
  <2>3. talk' # NoTalk
    BY <2>1, <2>2 DEF NoTalk
  <2>. QED BY <2>1, <2>2, <2>3, MergeQuiet
<1>. QED BY <1>2, <1>3, <1>4

\* What a handler of the rules does to the conversation: nothing, it opens the next, or it ends it, and who is told.
LEMMA HandlerDoes ==
    ASSUME NoticesOK, RulesOK, NEW p \in Players, NEW m \in Asks, Handles(p, m), talk.id = 0 => talk = NoTalk
    PROVE  \/ Quiet(Chats) /\ (m.type \notin {"start", "failed"} => Quiet(Speech))
           \/ m.type = "opened" /\ Opens(m.npc, m.flag)
           \/ Ends(Players)
           \/ p = Host /\ m.type = "close" /\ m.flag /\ Ends(Players \ {Host})
<1>1. /\ talk \in Talks /\ talk.id \in Nat /\ talk.step \in 0 .. MaxSteps /\ 0 \in 0 .. MaxSteps /\ talk.npc \in Npcs \union {None}
      /\ m.npc \in Npcs \union {None} /\ m.flag \in BOOLEAN /\ lastTalk \in Nat
  BY BoundsAssumption DEF RulesOK, Talks, Asks, Request
<1>2. UNCHANGED <<notices, ruleVars>> => Quiet(Speech) /\ Quiet(Chats)
  BY StillQuiet DEF ruleVars
<1>3. ASSUME NEW n \in Tells, NEW T, n.type \in T PROVE <<n>> \in Seq(Tells) /\ \A k \in Sent(<<n>>) : k.type \in T
  BY <1>3, Sends12, SentFew
<1>11. /\ Msg("refused", 0, m.npc, 0, FALSE) \in Tells /\ Msg("refused", 0, m.npc, 0, FALSE).type \in Chats
       /\ Msg("start", 0, m.npc, 0, FALSE) \in Tells /\ Msg("start", 0, m.npc, 0, FALSE).type \in Chats
  <2>1. Msg("refused", 0, m.npc, 0, FALSE) \in Tells /\ Msg("start", 0, m.npc, 0, FALSE) \in Tells
    BY <1>1, MessageIs
  <2>2. Msg("refused", 0, m.npc, 0, FALSE).type = "refused" /\ Msg("start", 0, m.npc, 0, FALSE).type = "start"
    BY DEF Msg
  <2>. QED BY <2>1, <2>2 DEF Chats
<1>12. ASSUME NEW W, UNCHANGED <<talk, lastTalk>>,
              Tell(W, <<Msg("refused", 0, m.npc, 0, FALSE)>>) \/ Tell(W, <<Msg("start", 0, m.npc, 0, FALSE)>>)
       PROVE  Quiet(Chats)
  <2>1. PICK n \in Tells : n.type \in Chats /\ Tell(W, <<n>>)
    BY <1>11, <1>12
  <2>2. <<n>> \in Seq(Tells) /\ \A k \in Sent(<<n>>) : k.type \in Chats
    BY <1>3, <2>1
  <2>. QED BY <1>12, <2>1, <2>2, TellQuiet
<1>4. CASE m.type = "start" /\ OnStart(p, m.npc)
  <2>1. CASE UNCHANGED <<notices, ruleVars>>
    BY <1>2, <2>1
  <2>2. CASE Tell({p}, <<Msg("refused", 0, m.npc, 0, FALSE)>>) /\ UNCHANGED ruleVars
    <3>1. Quiet(Chats)
      BY <1>12, <2>2 DEF ruleVars
    <3>. QED BY <1>4, <3>1
  <2>3. CASE Tell({Host}, <<Msg("start", 0, m.npc, 0, FALSE)>>) /\ UNCHANGED <<talk, lastTalk>>
    <3>1. Quiet(Chats)
      BY <1>12, <2>3
    <3>. QED BY <1>4, <3>1
  <2>. QED BY <1>4, <2>1, <2>2, <2>3 DEF OnStart
<1>5. CASE m.type = "opened" /\ OnOpened(m.npc, m.flag)
  <2>1. lastTalk' = lastTalk + 1 /\ talk'.id = lastTalk + 1 /\ talk'.npc = m.npc
    BY <1>5 DEF OnOpened, NoTalk
  <2>2. \A q \in Players : notices'[q] = IF q \in Members
           THEN notices[q] \o When(talk # NoTalk /\ q # Host, <<ClosedNow(talk)>>) \o <<OpenNow(m.npc, m.flag)>> ELSE notices[q]
    BY <1>5 DEF OnOpened, OpenNow
  <2>3. ASSUME NEW q \in Members
        PROVE  \E e \in Seq(Tells) : /\ notices'[q] = notices[q] \o e \o <<OpenNow(m.npc, m.flag)>>
                                     /\ \A n \in Sent(e) : n = ClosedNow(talk) /\ q # Host /\ talk # NoTalk
    <3>1. PICK e : e = When(talk # NoTalk /\ q # Host, <<ClosedNow(talk)>>)
      OBVIOUS
    <3>2. e \in Seq(Tells)
      BY <1>1, <3>1, TalkTells, Sends12
    <3>3. \A n \in Sent(e) : n = ClosedNow(talk) /\ q # Host /\ talk # NoTalk
      BY <3>1, SentFew DEF When
    <3>. QED BY <2>2, <3>1, <3>2, <3>3 DEF Members
  <2>. QED BY <1>5, <2>1, <2>2, <2>3 DEF Opens
<1>6. CASE m.type = "options" /\ OnOptions(p, m)
  <2>1. CASE talk.id # 0 /\ talk' = [talk EXCEPT !.listed = TRUE] /\ Merge(talk') /\ UNCHANGED <<lastTalk, hostAsked>>
    <3>1. talk' \in Talks /\ talk'.id = talk.id /\ talk'.npc = talk.npc
      BY <1>1, <2>1 DEF Talks
    <3>. QED BY <2>1, <3>1, MergeQuiet DEF NoTalk
  <2>. QED BY <1>2, <1>6, <2>1 DEF OnOptions
<1>7. CASE m.type = "pick" /\ OnPick(p, m)
  <2>1. CASE talk # NoTalk /\ Says(p, m)
    <3>1. /\ talk' = [talk EXCEPT !.step = @ + 1, !.listed = FALSE]
          /\ Tell(Players, <<Msg("picked", talk.id, None, talk.step + 1, FALSE)>>)
          /\ UNCHANGED <<lastTalk, hostAsked>>
      BY <1>7, <2>1 DEF OnPick
    <3>2. talk.step + 1 \in 0 .. MaxSteps
      BY <1>1, <1>7, <2>1, BoundsAssumption DEF Says, Asks
    <3>3. talk'.id = talk.id /\ talk'.npc = talk.npc /\ talk' # NoTalk
      BY <1>1, <2>1, <3>1 DEF Talks, NoTalk
    <3>4. PICK n : n = Msg("picked", talk.id, None, talk.step + 1, FALSE)
      OBVIOUS
    <3>5. n \in Tells /\ n.type \in Chats /\ n.type \in Speech
      <4>1. n \in Tells
        BY <1>1, <3>2, <3>4, MessageIs
      <4>2. n.type = "picked"
        BY <3>4 DEF Msg
      <4>. QED BY <4>1, <4>2 DEF Chats, Speech
    <3>6. Tell(Players, <<n>>)
      BY <3>1, <3>4, Zenon
    <3>. QED BY <1>3, <2>1, <3>1, <3>3, <3>5, <3>6, TellQuiet
  <2>2. CASE ~(talk # NoTalk /\ Says(p, m))
    <3>1. Tell({p}, When(talk # NoTalk /\ m.conv = talk.id /\ ListBack(p), <<ListNow(talk)>>)) /\ UNCHANGED ruleVars
      BY <1>7, <2>2, Zenon DEF OnPick
    <3>2. PICK e : e = When(talk # NoTalk /\ m.conv = talk.id /\ ListBack(p), <<ListNow(talk)>>)
      OBVIOUS
    <3>3. e \in Seq(Tells)
      BY <1>1, <3>2, TalkTells, Sends12
    <3>4. \A n \in Sent(e) : n.type \in Chats /\ n.type \in Speech
      BY <3>2, SentFew DEF When, ListNow, Msg, Chats, Speech
    <3>5. Tell({p}, e) /\ UNCHANGED ruleVars
      BY <3>1, <3>2, Zenon
    <3>. QED BY <3>3, <3>4, <3>5, TellQuiet DEF ruleVars
  <2>. QED BY <2>1, <2>2
<1>8. CASE m.type = "close" /\ OnClose(p, m)
  <2>1. UNCHANGED <<lastTalk, hostAsked>>
    BY <1>8 DEF OnClose
  <2>2. CASE talk # NoTalk /\ p = Host /\ m.flag /\ talk' = NoTalk /\ Tell(Players \ {Host}, <<ClosedNow(talk)>>)
    BY <1>8, <2>1, <2>2, TellEnds
  <2>3. CASE LeaveTalk(p)
    BY <2>1, <2>3, LeaveTalkDoes
  <2>4. CASE UNCHANGED <<notices, talk>>
    BY <1>2, <2>1, <2>4 DEF ruleVars
  <2>. QED BY <1>8, <2>2, <2>3, <2>4 DEF OnClose, ToldOfEnd
<1>9. CASE m.type = "join" /\ OnJoin(p, m)
  <2>1. CASE talk # NoTalk /\ talk' = [talk EXCEPT !.players = @ \union {p}] /\ Merge(talk') /\ UNCHANGED <<lastTalk, hostAsked>>
    <3>1. talk' \in Talks /\ talk'.id = talk.id /\ talk'.npc = talk.npc /\ talk'.players # {}
      BY <1>1, <2>1 DEF Talks
    <3>2. talk' # NoTalk
      BY <3>1 DEF NoTalk
    <3>. QED BY <2>1, <3>1, <3>2, MergeQuiet
  <2>. QED BY <1>2, <1>9, <2>1 DEF OnJoin
<1>10. CASE m.type = "failed" /\ OnStartFailed(p, m.npc)
  <2>1. CASE /\ Tell({hostAsked.player}, <<Msg("refused", 0, m.npc, 0, FALSE)>>)
             /\ hostAsked' = NotAsked /\ UNCHANGED <<talk, lastTalk>>
    <3>1. Quiet(Chats)
      BY <1>12, <2>1
    <3>. QED BY <1>10, <3>1
  <2>. QED BY <1>2, <1>10, <2>1 DEF OnStartFailed
<1>. QED BY <1>4, <1>5, <1>6, <1>7, <1>8, <1>9, <1>10 DEF Handles

\* The last conversation is the one there is, its number the highest; of one that is closed the end is told once it is over.
Closing(q, t, l) == \A m \in Sent(q) : m.type = "closed" => m.conv \in 1 .. l /\ m.conv # t
IdsOK ==
    /\ talk.id \in {0, lastTalk} /\ (talk.id = 0 => talk = NoTalk)
    /\ \A p \in Players : Numbered(notices[p], conv[p], lastTalk) /\ Closing(notices[p], talk.id, lastTalk)
    /\ \A p \in Players : conn[p] = "none" => conv[p] = 0 /\ notices[p] = <<>>

\* A notice that closes a conversation, as the rules send it.
LEMMA ClosedIs ==
    ASSUME RulesOK, IdsOK, talk # NoTalk, NEW m, m = ClosedNow(talk)
    PROVE  m \in Tells /\ m.type = "closed" /\ m.conv = talk.id /\ talk.id \in 1 .. lastTalk /\ lastTalk \in Nat
<1>1. m \in Tells /\ talk.id \in Nat /\ lastTalk \in Nat
  BY TalkTells DEF RulesOK, Talks
<1>2. m.type = "closed" /\ m.conv = talk.id
  BY DEF ClosedNow, Msg
<1>3. talk.id \in 1 .. lastTalk
  BY <1>1 DEF IdsOK
<1>. QED BY <1>1, <1>2, <1>3

\* What is told when one opens.
LEMMA OpenIs ==
    ASSUME RulesOK, NEW n \in Npcs, NEW f \in BOOLEAN, NEW m, m = OpenNow(n, f)
    PROVE  m \in Tells /\ m.type = "open" /\ m.conv = lastTalk + 1 /\ m.npc = n /\ m.flag = f /\ lastTalk \in Nat /\ lastTalk + 1 \in Nat
<1>1. 0 \in 0 .. MaxSteps /\ lastTalk \in Nat /\ lastTalk + 1 \in Nat
  BY BoundsAssumption DEF RulesOK
<1>2. m \in Tells
  BY <1>1, MessageIs DEF OpenNow
<1>. QED BY <1>1, <1>2 DEF OpenNow, Msg

\* What each of the three does to the channels and the numbers.
LEMMA QuietIds ==
    ASSUME AllTypes, IdsOK, Quiet(Chats), \A p \in Players : conv'[p] \in {0, conv[p]} /\ (conn'[p] = "none" => conn[p] = "none")
    PROVE  IdsOK' /\ \A p \in Players : Hears(p) /\ conv'[p] = conv[p] => Hears(p)'
<1>1. talk'.id = talk.id /\ (talk' = NoTalk <=> talk = NoTalk) /\ lastTalk' = lastTalk /\ lastTalk \in Nat /\ talk.id \in Nat
  BY DEF Quiet, AllTypes, RulesOK, Talks
<1>2. ASSUME NEW p \in Players
      PROVE  /\ Numbered(notices'[p], conv'[p], lastTalk) /\ Closing(notices'[p], talk.id, lastTalk)
             /\ ComesTo(notices[p], conv[p], talk.id) => ComesTo(notices'[p], conv[p], talk.id)
  <2>1. PICK e \in Seq(Tells) : notices'[p] = notices[p] \o e /\ \A n \in Sent(e) : n.type \in Chats
    BY DEF Quiet
  <2>2. PICK q : q = notices[p] /\ q \in Seq(Tells) /\ conv[p] \in Nat
    BY DEF AllTypes, NoticesOK, ServiceOK
  <2>3. \A n \in Sent(e) : n.type # "open" /\ n.type # "closed"
    BY <2>1 DEF Chats
  <2>4. Numbered(q, conv[p], lastTalk) /\ Closing(q, talk.id, lastTalk)
    BY <2>2 DEF IdsOK
  <2>5. Numbered(q, 0, lastTalk)
    BY <1>1, <2>2, <2>4, NumberedSteps
  <2>6. Numbered(q \o e, conv[p], lastTalk) /\ Numbered(q \o e, 0, lastTalk)
    BY <1>1, <2>2, <2>3, <2>4, <2>5, NumberedSteps
  <2>7. Closing(q \o e, talk.id, lastTalk)
    BY <2>2, <2>3, <2>4, SentJoin DEF Closing
  <2>8. ComesTo(q, conv[p], talk.id) => ComesTo(q \o e, conv[p], talk.id)
    BY <1>1, <2>2, <2>3, ComesToQuiet
  <2>9. conv'[p] = 0 \/ conv'[p] = conv[p]
    OBVIOUS
  <2>. QED BY <2>1, <2>2, <2>6, <2>7, <2>8, <2>9
<1>3. \A p \in Players : conn'[p] = "none" => conv'[p] = 0 /\ notices'[p] = <<>>
  BY DEF IdsOK, Quiet, Members
<1>4. IdsOK'
  BY <1>1, <1>2, <1>3 DEF IdsOK
<1>5. ASSUME NEW p \in Players, Hears(p), conv'[p] = conv[p] PROVE Hears(p)'
  BY <1>1, <1>2, <1>5 DEF Hears
<1>. QED BY <1>4, <1>5

\* One opens: who heard of each end hears of it, the last one included.
LEMMA OpensIds ==
    ASSUME AllTypes, IdsOK, NEW n \in Npcs, NEW f \in BOOLEAN, Opens(n, f), UNCHANGED <<conv, conn>>
    PROVE  IdsOK' /\ \A p \in Members : Hears(p) => Hears(p)'
<1>1. /\ lastTalk' = lastTalk + 1 /\ talk'.id = lastTalk + 1 /\ lastTalk \in Nat /\ talk.id \in Nat
      /\ talk'.id # 0
  BY DEF Opens, AllTypes, RulesOK, Talks
<1>2. PICK o : o = OpenNow(n, f)
  OBVIOUS
<1>3. o \in Tells /\ o.type = "open" /\ o.conv = lastTalk + 1
  BY <1>2, OpenIs DEF AllTypes
<1>4. ASSUME NEW p \in Players
      PROVE  /\ notices[p] \in Seq(Tells) /\ conv[p] \in Nat
             /\ Numbered(notices[p], conv[p], lastTalk) /\ Closing(notices[p], talk.id, lastTalk)
  BY DEF AllTypes, NoticesOK, ServiceOK, IdsOK
<1>5. ASSUME NEW p \in Members
      PROVE  /\ Numbered(notices'[p], conv[p], lastTalk + 1) /\ Closing(notices'[p], lastTalk + 1, lastTalk + 1)
             /\ ComesTo(notices[p], conv[p], talk.id) => ComesTo(notices'[p], conv[p], lastTalk + 1)
  <2>1. PICK e \in Seq(Tells) : /\ notices'[p] = notices[p] \o e \o <<o>>
                                /\ \A m \in Sent(e) : m = ClosedNow(talk) /\ talk # NoTalk
    BY <1>2 DEF Opens
  <2>2. \A m \in Sent(e) : m.type = "closed" /\ m.conv = talk.id /\ talk.id \in 1 .. lastTalk
    BY <2>1, ClosedIs DEF AllTypes
  <2>3. PICK q : q = notices[p] /\ q \in Seq(Tells) /\ p \in Players
    BY <1>4 DEF Members
  <2>4. <<o>> \in Seq(Tells) /\ Sent(<<o>>) = {o} /\ q \o e \in Seq(Tells) /\ Sent(q \o e) = Sent(q) \cup Sent(e)
    BY <1>3, <2>3, Sends12, SentFew, SentJoin
  <2>5. Sent(q \o e \o <<o>>) = Sent(q) \cup Sent(e) \cup {o}
    <3>1. PICK v, d : v = q \o e /\ d = <<o>>
      OBVIOUS
    <3>2. v \in Seq(Tells) /\ d \in Seq(Tells) /\ Sent(v) = Sent(q) \cup Sent(e) /\ Sent(d) = {o}
      BY <2>4, <3>1
    <3>3. Sent(v \o d) = Sent(v) \cup Sent(d)
      BY <3>2, SentJoin
    <3>. QED BY <3>1, <3>2, <3>3
  <2>6. Numbered(q \o e \o <<o>>, conv[p], lastTalk + 1)
    BY <1>1, <1>3, <1>4, <2>2, <2>3, <2>5 DEF Numbered
  <2>7. Closing(q \o e \o <<o>>, lastTalk + 1, lastTalk + 1)
    BY <1>1, <1>3, <1>4, <2>2, <2>3, <2>5 DEF Closing
  <2>8. ASSUME ComesTo(q, conv[p], talk.id) PROVE ComesTo(q \o e \o <<o>>, conv[p], lastTalk + 1)
    <3>1. \A m \in Sent(e) : m.type # "open"
      BY <2>2
    <3>. QED BY <1>1, <1>3, <1>4, <2>3, <2>8, <3>1, ComesToLast
  <2>. QED BY <2>1, <2>3, <2>6, <2>7, <2>8
<1>6. ASSUME NEW p \in Players \ Members
      PROVE  Numbered(notices'[p], conv[p], lastTalk + 1) /\ Closing(notices'[p], lastTalk + 1, lastTalk + 1)
  BY <1>1, <1>4 DEF Opens, Numbered, Closing
<1>7. \A p \in Players : conn'[p] = "none" => conv'[p] = 0 /\ notices'[p] = <<>>
  BY DEF IdsOK, Opens, Members
<1>8. IdsOK'
  BY <1>1, <1>5, <1>6, <1>7 DEF IdsOK
<1>9. ASSUME NEW p \in Members, Hears(p) PROVE Hears(p)'
  BY <1>1, <1>5, <1>9 DEF Hears, Members
<1>. QED BY <1>8, <1>9

\* The conversation ends: those told of it hear of it.
LEMMA EndsIds ==
    ASSUME AllTypes, IdsOK, NEW W \in SUBSET Players, Ends(W),
           \A p \in Players : conv'[p] \in {0, conv[p]} /\ (conn'[p] = "none" => conn[p] = "none")
    PROVE  IdsOK' /\ \A p \in W \cap Members : Hears(p) /\ conv'[p] = conv[p] => Hears(p)'
<1>1. /\ lastTalk' = lastTalk /\ talk' = NoTalk /\ talk'.id = 0 /\ lastTalk \in Nat /\ talk.id \in Nat /\ 0 \in Nat
  BY DEF Ends, AllTypes, RulesOK, Talks, NoTalk
<1>2. PICK o : o = ClosedNow(talk)
  OBVIOUS
<1>3. o \in Tells /\ o.type = "closed" /\ o.conv = talk.id /\ talk.id \in 1 .. lastTalk
  BY <1>2, ClosedIs DEF AllTypes, Ends
<1>4. ASSUME NEW p \in Players
      PROVE  /\ notices[p] \in Seq(Tells) /\ conv[p] \in Nat /\ conv'[p] \in Nat
             /\ Numbered(notices[p], conv[p], lastTalk) /\ Closing(notices[p], talk.id, lastTalk)
             /\ Numbered(notices[p], conv'[p], lastTalk)
  <2>1. /\ notices[p] \in Seq(Tells) /\ conv[p] \in Nat
        /\ Numbered(notices[p], conv[p], lastTalk) /\ Closing(notices[p], talk.id, lastTalk)
    BY DEF AllTypes, NoticesOK, ServiceOK, IdsOK
  <2>2. conv'[p] = 0 \/ conv'[p] = conv[p]
    OBVIOUS
  <2>3. Numbered(notices[p], 0, lastTalk)
    BY <1>1, <2>1, NumberedSteps
  <2>. QED BY <2>1, <2>2, <2>3
<1>5. ASSUME NEW p \in W \cap Members
      PROVE  /\ Numbered(notices'[p], conv'[p], lastTalk) /\ Closing(notices'[p], 0, lastTalk)
             /\ ComesTo(notices[p], conv[p], talk.id) => ComesTo(notices'[p], conv[p], 0)
  <2>1. notices'[p] = notices[p] \o <<>> \o <<o>>
    BY <1>2 DEF Ends
  <2>3. PICK q : q = notices[p] /\ q \in Seq(Tells) /\ p \in Players
    BY <1>4 DEF Members
  <2>4. <<o>> \in Seq(Tells) /\ Sent(<<o>>) = {o} /\ <<>> \in Seq(Tells) /\ Sent(<<>>) = {}
    BY <1>3, Sends12, SentFew
  <2>5. Sent(q \o <<>> \o <<o>>) = Sent(q) \cup {o}
    <3>1. q \o <<>> = q
      BY <2>3
    <3>2. PICK d : d = <<o>>
      OBVIOUS
    <3>3. d \in Seq(Tells) /\ Sent(d) = {o}
      BY <2>4, <3>2
    <3>4. Sent(q \o d) = Sent(q) \cup Sent(d)
      BY <2>3, <3>3, SentJoin
    <3>. QED BY <3>1, <3>2, <3>3, <3>4
  <2>6. Numbered(q \o <<>> \o <<o>>, conv'[p], lastTalk)
    BY <1>1, <1>3, <1>4, <2>3, <2>5 DEF Numbered
  <2>7. Closing(q \o <<>> \o <<o>>, 0, lastTalk)
    BY <1>1, <1>3, <1>4, <2>3, <2>5 DEF Closing
  <2>8. ASSUME ComesTo(q, conv[p], talk.id) PROVE ComesTo(q \o <<>> \o <<o>>, conv[p], 0)
    BY <1>1, <1>3, <1>4, <2>3, <2>4, <2>8, ComesToLast
  <2>. QED BY <2>1, <2>3, <2>6, <2>7, <2>8
<1>6. ASSUME NEW p \in Players \ (W \cap Members)
      PROVE  Numbered(notices'[p], conv'[p], lastTalk) /\ Closing(notices'[p], 0, lastTalk)
  <2>1. notices'[p] = notices[p]
    BY DEF Ends
  <2>. QED BY <1>1, <1>4, <2>1 DEF Closing
<1>7. \A p \in Players : conn'[p] = "none" => conv'[p] = 0 /\ notices'[p] = <<>>
  BY DEF IdsOK, Ends, Members
<1>8. IdsOK'
  BY <1>1, <1>5, <1>6, <1>7 DEF IdsOK
<1>9. ASSUME NEW p \in W \cap Members, Hears(p), conv'[p] = conv[p] PROVE Hears(p)'
  BY <1>1, <1>5, <1>9 DEF Hears
<1>. QED BY <1>8, <1>9

\* A game that reads.
LEMMA ReadIds ==
    ASSUME AllTypes, IdsOK, NEW p \in Players, GameReads(p), NEW m, m = Head(notices[p])
    PROVE  /\ IdsOK' /\ conv' \in {conv, [conv EXCEPT ![p] = m.conv], [conv EXCEPT ![p] = 0]}
           /\ Hears(p) => Hears(p)'
           /\ \A q \in Players : q # p => notices'[q] = notices[q] /\ conv'[q] = conv[q]
           /\ UNCHANGED <<conn, talk, lastTalk>> /\ notices'[p] = Tail(notices[p])
<1>1. /\ notices[p] \in Seq(Tells) /\ notices[p] # <<>> /\ notices' = [notices EXCEPT ![p] = Tail(@)] /\ conn[p] = "open"
      /\ UNCHANGED <<conn, talk, lastTalk>> /\ lastTalk \in Nat /\ talk.id \in Nat /\ conv[p] \in Nat /\ conv \in [Players -> Nat]
      /\ Tail(notices[p]) \in Seq(Tells) /\ m \in Tells /\ Sent(Tail(notices[p])) \subseteq Sent(notices[p]) /\ m \in Sent(notices[p])
  <2>1. /\ notices[p] \in Seq(Tells) /\ notices[p] # <<>> /\ notices' = [notices EXCEPT ![p] = Tail(@)] /\ conn[p] = "open"
        /\ UNCHANGED <<conn, talk, lastTalk>> /\ lastTalk \in Nat /\ talk.id \in Nat /\ conv[p] \in Nat /\ conv \in [Players -> Nat]
    BY DEF GameReads, ruleVars, Members, AllTypes, NoticesOK, RulesOK, ServiceOK, Talks
  <2>. QED BY <2>1, SentRead
<1>2. PICK r : r = Tail(notices[p])
  OBVIOUS
<1>3. notices'[p] = r /\ \A q \in Players : q # p => notices'[q] = notices[q]
  BY <1>1, <1>2 DEF AllTypes, NoticesOK
<1>4. /\ Numbered(notices[p], conv[p], lastTalk) /\ Closing(notices[p], talk.id, lastTalk)
      /\ Numbered(r, conv[p], lastTalk) /\ Numbered(r, 0, lastTalk) /\ (m.type = "open" => Numbered(r, m.conv, lastTalk))
      /\ Closing(r, talk.id, lastTalk) /\ m.conv \in Nat
  <2>1. Numbered(notices[p], conv[p], lastTalk) /\ Closing(notices[p], talk.id, lastTalk)
    BY DEF IdsOK
  <2>2. Numbered(r, conv[p], lastTalk) /\ Numbered(r, 0, lastTalk) /\ (m.type = "open" => Numbered(r, m.conv, lastTalk))
    BY <1>1, <1>2, <2>1, NumberedSteps
  <2>3. Closing(r, talk.id, lastTalk)
    BY <1>1, <1>2, <2>1 DEF Closing
  <2>4. m.conv \in Nat
    BY <1>1 DEF Tells, Notice
  <2>. QED BY <2>1, <2>2, <2>3, <2>4
<1>5. \/ m.type = "open" /\ conv' = [conv EXCEPT ![p] = m.conv]
      \/ m.type = "closed" /\ m.conv = conv[p] /\ conv' = [conv EXCEPT ![p] = 0]
      \/ /\ conv' = conv /\ m.type # "open"
         /\ ~(m.type = "closed" /\ m.conv = conv[p])
  <2>1. CASE m.type = "open" /\ OnOpen(p, m)
    BY <2>1 DEF OnOpen
  <2>2. CASE m.type = "closed" /\ OnClosed(p, m)
    BY <2>2 DEF OnClosed
  <2>3. CASE m.type = "start" /\ OnHostStart(m)
    BY <2>3 DEF OnHostStart, serviceVars
  <2>4. CASE m.type = "list" /\ OnList(p, m)
    BY <2>4 DEF OnList, serviceVars
  <2>5. CASE m.type = "picked" /\ OnPicked(p, m)
    BY <2>5 DEF OnPicked
  <2>6. CASE m.type = "refused" /\ OnRefused(p, m)
    BY <2>6 DEF OnRefused, serviceVars
  <2>7. CASE m.type \in {"list", "picked", "closed"} /\ m.conv # conv[p] /\ UNCHANGED serviceVars
    BY <2>7 DEF serviceVars
  <2>. QED BY <2>1, <2>2, <2>3, <2>4, <2>5, <2>6, <2>7 DEF GameReads
<1>6. \A q \in Players : q # p => conv'[q] = conv[q]
  BY <1>1, <1>5
<1>7. /\ m.type = "open" => conv'[p] = m.conv
      /\ conv'[p] \in {conv[p], 0, m.conv} /\ Numbered(r, conv'[p], lastTalk)
  BY <1>1, <1>4, <1>5
<1>8. IdsOK'
  <2>1. ASSUME NEW q \in Players PROVE Numbered(notices'[q], conv'[q], lastTalk) /\ Closing(notices'[q], talk.id, lastTalk)
    BY <1>3, <1>4, <1>6, <1>7 DEF IdsOK
  <2>2. \A q \in Players : conn'[q] = "none" => conv'[q] = 0 /\ notices'[q] = <<>>
    BY <1>1, <1>3, <1>6 DEF IdsOK
  <2>. QED BY <1>1, <2>1, <2>2 DEF IdsOK
<1>9. ASSUME Hears(p) PROVE Hears(p)'
  <2>1. /\ m.type = "open" => ComesTo(r, m.conv, talk.id)
        /\ m.type # "open" => ComesTo(r, 0, talk.id)
        /\ ~Over(m, conv[p]) => ComesTo(r, conv[p], talk.id)
    BY <1>1, <1>2, <1>9, ComesToRead DEF Hears
  <2>2. ComesTo(r, conv'[p], talk.id)
    BY <1>1, <1>5, <2>1 DEF Over
  <2>. QED BY <1>1, <1>3, <2>2 DEF Hears
<1>. QED BY <1>1, <1>2, <1>3, <1>5, <1>6, <1>8, <1>9

\* What a step of a game by itself leaves alone.
LEMMA LocalIds ==
    ASSUME AllTypes, IdsOK,
           \/ \E p \in Players : \/ GuestUpdate(p) \/ MenuComes(p) \/ MenuCloses(p) \/ Picks(p) \/ OpeningLate(p) \/ Join(p)
           \/ \E p \in Players, n \in Npcs : GuestTalks(p, n)
           \/ \E n \in Npcs, greet \in BOOLEAN : HostTalks(n, greet)
           \/ EngineEnds \/ EngineLists \/ HostUpdate
    PROVE  /\ IdsOK' /\ UNCHANGED <<notices, talk, lastTalk>>
           /\ \A p \in Guests : conv'[p] = conv[p]
           /\ \A p \in Players : Hears(p) => Hears(p)'
           /\ \A p \in Members' : p \in Members \/ (notices'[p] = <<>> /\ conv'[p] = 0)
<1>1. /\ UNCHANGED <<notices, talk, lastTalk>>
      /\ conv' = conv \/ conv' = [conv EXCEPT ![Host] = 0]
      /\ conn' = conn \/ \E p \in Players : conn[p] = "none" /\ conn' = [conn EXCEPT ![p] = "open"]
  <2>1. ASSUME NEW p \in Players, Join(p)
        PROVE  UNCHANGED <<notices, talk, lastTalk, conv>> /\ conn[p] = "none" /\ conn' = [conn EXCEPT ![p] = "open"]
    BY <2>1 DEF Join, gameVars, serviceVars, ruleVars
  <2>2. ASSUME NEW p \in Players, GuestUpdate(p) \/ MenuComes(p) \/ MenuCloses(p) \/ Picks(p) \/ OpeningLate(p)
        PROVE  UNCHANGED <<notices, talk, lastTalk, conv, conn>>
    BY <2>2 DEF GuestUpdate, MenuComes, MenuCloses, Picks, OpeningLate, gameVars, serviceVars, ruleVars
  <2>3. ASSUME \/ \E p \in Players, n \in Npcs : GuestTalks(p, n)
               \/ \E n \in Npcs, greet \in BOOLEAN : HostTalks(n, greet)
               \/ EngineEnds \/ EngineLists
        PROVE  UNCHANGED <<notices, talk, lastTalk, conv, conn>>
    BY <2>3 DEF GuestTalks, HostTalks, EngineEnds, EngineLists, serviceVars, ruleVars
  <2>4. CASE HostUpdate
    <3>1. UNCHANGED <<notices, talk, lastTalk, conn>>
      BY <2>4 DEF HostUpdate, ruleVars
    <3>2. conv' \in {[conv EXCEPT ![Host] = 0], [conv EXCEPT ![Host] = conv[Host]]}
      BY <2>4 DEF HostUpdate
    <3>3. [conv EXCEPT ![Host] = conv[Host]] = conv
      BY DEF AllTypes, ServiceOK
    <3>. QED BY <3>1, <3>2, <3>3
  <2>. QED BY <2>1, <2>2, <2>3, <2>4
<1>2. \A p \in Players : conv'[p] = conv[p] \/ (conv'[p] = 0 /\ p = Host)
  BY <1>1 DEF AllTypes, ServiceOK
<1>3. ASSUME NEW p \in Players, Hears(p) PROVE Hears(p)'
  BY <1>1, <1>2, <1>3 DEF Hears, ComesTo
<1>4. ASSUME NEW p \in Players PROVE Numbered(notices[p], conv'[p], lastTalk)
  <2>1. Numbered(notices[p], conv[p], lastTalk) /\ notices[p] \in Seq(Tells) /\ conv[p] \in Nat /\ lastTalk \in Nat
    BY DEF IdsOK, AllTypes, NoticesOK, ServiceOK, RulesOK
  <2>2. Numbered(notices[p], 0, lastTalk)
    BY <2>1, NumberedSteps
  <2>. QED BY <1>2, <2>1, <2>2
<1>5. \A p \in Players : conn'[p] = "none" => conn[p] = "none"
  BY <1>1 DEF AllTypes, EngineOK
<1>6. IdsOK'
  <2>1. \A p \in Players : conn'[p] = "none" => conv'[p] = 0 /\ notices'[p] = <<>>
    BY <1>1, <1>2, <1>5 DEF IdsOK
  <2>. QED BY <1>1, <1>4, <2>1 DEF IdsOK
<1>7. \A p \in Members' : p \in Members \/ conn[p] = "none"
  BY <1>1 DEF Members, AllTypes, EngineOK
<1>8. \A p \in Members' : p \in Members \/ (notices'[p] = <<>> /\ conv'[p] = 0)
  BY <1>1, <1>2, <1>7 DEF IdsOK, Members
<1>. QED BY <1>1, <1>2, <1>3, <1>6, <1>8, PlayersAssumption DEF Guests

\* A game without a conversation and without a notice stays in none.
LEMMA HearsNothing == ASSUME NEW p \in Players, conv[p] = 0, notices[p] = <<>> PROVE Hears(p)
BY DEF Hears, ComesTo

EndInv == IdsOK /\ \A p \in Members \ {Host} : Hears(p)

\* Every step keeps it: the guests hear of each end.
LEMMA EndStep == ASSUME AllTypes, EndInv, [Next]_vars PROVE EndInv'
<1>1. IdsOK /\ (talk.id = 0 => talk = NoTalk)
  BY DEF EndInv, IdsOK
<1>. USE <1>1
<1>2. ASSUME NEW p \in Players, HostReads(p) PROVE EndInv'
  <2>1. PICK m : m = Head(requests[p]) /\ m \in Asks
    <3>1. requests[p] \in Seq(Asks) /\ requests[p] # <<>>
      BY <1>2 DEF HostReads, AllTypes, RequestsOK
    <3>. QED BY <3>1, SentRead
  <2>2. UNCHANGED <<conn, gameVars>> /\ Handles(p, m)
    BY <1>2, <2>1 DEF HostReads, Handles
  <2>3. UNCHANGED <<conn, conv>> /\ Members' = Members
    BY <2>2 DEF gameVars, serviceVars, Members
  <2>4. CASE Quiet(Chats)
    BY <2>3, <2>4, QuietIds DEF EndInv, Members
  <2>5. CASE m.type = "opened" /\ Opens(m.npc, m.flag)
    <3>1. m.npc \in Npcs /\ m.flag \in BOOLEAN
      BY <2>1, <2>5 DEF Asks, Request
    <3>. QED BY <2>3, <2>5, <3>1, OpensIds DEF EndInv
  <2>6. ASSUME NEW W \in SUBSET Players, Ends(W), Players \ {Host} \subseteq W PROVE EndInv'
    <3>1. IdsOK' /\ \A q \in W \cap Members : Hears(q) /\ conv'[q] = conv[q] => Hears(q)'
      BY <2>3, <2>6, EndsIds DEF EndInv
    <3>. QED BY <2>3, <2>6, <3>1 DEF EndInv, Members
  <2>7. CASE Ends(Players)
    BY <2>6, <2>7
  <2>8. CASE Ends(Players \ {Host})
    BY <2>6, <2>8
  <2>. QED BY <2>1, <2>2, <2>4, <2>5, <2>7, <2>8, HandlerDoes DEF AllTypes
<1>3. ASSUME NEW p \in Players, GameReads(p) PROVE EndInv'
  <2>1. PICK m : m = Head(notices[p])
    OBVIOUS
  <2>2. /\ IdsOK' /\ (Hears(p) => Hears(p)') /\ UNCHANGED <<conn, talk, lastTalk>>
        /\ \A q \in Players : q # p => notices'[q] = notices[q] /\ conv'[q] = conv[q]
    BY <1>3, <2>1, ReadIds DEF EndInv
  <2>3. ASSUME NEW q \in Players, Hears(q) PROVE Hears(q)'
    BY <2>2, <2>3 DEF Hears
  <2>. QED BY <2>2, <2>3 DEF EndInv, Members
<1>4. ASSUME NEW p \in Players, Leave(p) PROVE EndInv'
  <2>1. /\ LeaveTalk(p) /\ lastTalk' = lastTalk /\ conn' = [conn EXCEPT ![p] = "closed"] /\ conv' = [conv EXCEPT ![p] = 0]
        /\ conn[p] = "open" /\ p # Host
    BY <1>4, BoundsAssumption DEF Leave
  <2>2. /\ \A q \in Players : conv'[q] \in {0, conv[q]} /\ (q # p => conv'[q] = conv[q])
        /\ \A q \in Players : conn'[q] = "none" => conn[q] = "none"
        /\ Members' = Members \ {p}
    BY <2>1 DEF AllTypes, ServiceOK, EngineOK, Members
  <2>3. Quiet(Chats) \/ Ends(Players)
    BY <2>1, LeaveTalkDoes DEF AllTypes
  <2>4. CASE Ends(Players)
    <3>1. IdsOK' /\ \A q \in Players \cap Members : Hears(q) /\ conv'[q] = conv[q] => Hears(q)'
      BY <2>2, <2>4, EndsIds DEF EndInv
    <3>. QED BY <2>2, <3>1 DEF EndInv, Members
  <2>5. CASE Quiet(Chats)
    <3>1. IdsOK' /\ \A q \in Players : Hears(q) /\ conv'[q] = conv[q] => Hears(q)'
      BY <2>2, <2>5, QuietIds DEF EndInv
    <3>. QED BY <2>2, <3>1 DEF EndInv, Members
  <2>. QED BY <2>3, <2>4, <2>5
<1>5. CASE \/ \E p \in Players : \/ GuestUpdate(p) \/ MenuComes(p) \/ MenuCloses(p) \/ Picks(p) \/ OpeningLate(p) \/ Join(p)
           \/ \E p \in Players, n \in Npcs : GuestTalks(p, n)
           \/ \E n \in Npcs, greet \in BOOLEAN : HostTalks(n, greet)
           \/ EngineEnds \/ EngineLists \/ HostUpdate
  <2>1. /\ IdsOK' /\ \A p \in Players : Hears(p) => Hears(p)'
        /\ \A p \in Members' : p \in Members \/ (notices'[p] = <<>> /\ conv'[p] = 0)
    BY <1>5, LocalIds DEF EndInv
  <2>2. ASSUME NEW p \in Members' \ {Host} PROVE Hears(p)'
    <3>1. p \in Players
      BY DEF Members
    <3>2. CASE p \in Members
      BY <2>1, <3>1, <3>2 DEF EndInv
    <3>3. CASE notices'[p] = <<>> /\ conv'[p] = 0
      BY <3>3 DEF Hears, ComesTo
    <3>. QED BY <2>1, <3>2, <3>3
  <2>. QED BY <2>1, <2>2 DEF EndInv
<1>6. CASE UNCHANGED vars
  BY <1>6 DEF vars, gameVars, serviceVars, ruleVars, EndInv, IdsOK, Hears, Members
<1>. QED BY <1>2, <1>3, <1>4, <1>5, <1>6, Zenon DEF Next

-----------------------------------------------------------------------------
(* The host's game.                                                        *)

Has(q, t) == \E m \in Sent(q) : m.type = t
Once(q, t) == \A i, j \in DOMAIN q : q[i].type = t /\ q[j].type = t => i = j
Flag(q) == \E m \in Sent(q) : m.type = "close" /\ m.flag

\* The host's game has said that its engine's conversation began, or is to read that the rules have it.
OpensSoon == Has(requests[Host], "opened") \/ Has(notices[Host], "open")

\* While one opens the host's game is in none and its engine stays with the NPC; one opens at a time; and when its engine
\* ended the conversation nothing opens.
HostInv ==
    /\ conn[Host] = "open" /\ opening[Host] = FALSE
    /\ Hears(Host)
    /\ OpensSoon => conv[Host] = 0 /\ speaker[Host] = heard /\ heard # None
    /\ Once(requests[Host], "opened") /\ Once(notices[Host], "open")
    /\ ~(Has(requests[Host], "opened") /\ Has(notices[Host], "open"))
    /\ Flag(requests[Host]) => conv[Host] = 0 /\ ~OpensSoon
    /\ \A p \in Guests : ~Has(requests[p], "opened")

\* What is in a channel after a step.
LEMMA HasSteps ==
    ASSUME NEW S, NEW q \in Seq(S), NEW t
    PROVE  /\ \A e \in Seq(S) : /\ Has(q \o e, t) <=> Has(q, t) \/ Has(e, t)
                                /\ Flag(q \o e) <=> Flag(q) \/ Flag(e)
                                /\ Once(q, t) /\ ~Has(e, t) => Once(q \o e, t)
                                /\ ~Has(q, t) /\ Once(e, t) => Once(q \o e, t)
           /\ q # <<>> => /\ Has(Tail(q), t) => Has(q, t)
                          /\ Flag(Tail(q)) => Flag(q)
                          /\ Once(q, t) => Once(Tail(q), t)
                          /\ Once(q, t) /\ Head(q).type = t => ~Has(Tail(q), t)
                          /\ Head(q).type = t => Has(q, t)
                          /\ Head(q).type = "close" /\ Head(q).flag => Flag(q)
<1>1. ASSUME NEW e \in Seq(S)
      PROVE  /\ Has(q \o e, t) <=> Has(q, t) \/ Has(e, t)
             /\ Flag(q \o e) <=> Flag(q) \/ Flag(e)
             /\ Once(q, t) /\ ~Has(e, t) => Once(q \o e, t)
             /\ ~Has(q, t) /\ Once(e, t) => Once(q \o e, t)
  <2>1. PICK u : u = q \o e /\ Joined(q, e, u)
    BY JoinFacts
  <2>2. Sent(u) = Sent(q) \cup Sent(e)
    BY <2>1, JoinedSent
  <2>3. Once(q, t) /\ ~Has(e, t) => Once(u, t)
    <3>1. ASSUME ~Has(e, t), NEW i \in DOMAIN u, u[i].type = t PROVE i \in DOMAIN q /\ u[i] = q[i]
      BY <2>1, <3>1 DEF Joined, Has, Sent
    <3>. QED BY <3>1 DEF Once
  <2>4. ~Has(q, t) /\ Once(e, t) => Once(u, t)
    <3>1. ASSUME ~Has(q, t), NEW i \in DOMAIN u, u[i].type = t PROVE i - Len(q) \in DOMAIN e /\ u[i] = e[i - Len(q)] /\ i \in Nat
      BY <2>1, <3>1 DEF Joined, Has, Sent
    <3>2. Len(q) \in Nat
      BY <2>1 DEF Joined
    <3>. QED BY <3>1, <3>2 DEF Once
  <2>. QED BY <2>1, <2>2, <2>3, <2>4 DEF Has, Flag
<1>2. ASSUME q # <<>>
      PROVE  /\ Has(Tail(q), t) => Has(q, t)
             /\ Flag(Tail(q)) => Flag(q)
             /\ Once(q, t) => Once(Tail(q), t)
             /\ Once(q, t) /\ Head(q).type = t => ~Has(Tail(q), t)
             /\ Head(q).type = t => Has(q, t)
             /\ Head(q).type = "close" /\ Head(q).flag => Flag(q)
  <2>1. PICK u : u = Tail(q) /\ FirstTaken(q, u)
    BY <1>2, ReadFacts
  <2>2. Head(q) \in Sent(q) /\ Sent(u) \subseteq Sent(q)
    BY <2>1, ReadSent
  <2>3. Once(q, t) => Once(u, t)
    BY <2>1 DEF FirstTaken, Once
  <2>4. ASSUME Once(q, t), Head(q).type = t PROVE ~Has(u, t)
    <3>1. SUFFICES ASSUME NEW i \in DOMAIN u, u[i].type = t PROVE FALSE
      BY DEF Has, Sent
    <3>. QED BY <2>1, <2>4, <3>1 DEF FirstTaken, Once
  <2>. QED BY <2>1, <2>2, <2>3, <2>4 DEF Has, Flag
<1>. QED BY <1>1, <1>2

\* Short channels.
LEMMA HasFew ==
    ASSUME NEW t
    PROVE  /\ ~Has(<<>>, t) /\ ~Flag(<<>>) /\ Once(<<>>, t)
           /\ \A m : (Has(<<m>>, t) <=> m.type = t) /\ (Flag(<<m>>) <=> m.type = "close" /\ m.flag) /\ Once(<<m>>, t)
           /\ \A b, s : /\ Has(When(b, s), t) => b /\ Has(s, t)
                        /\ Flag(When(b, s)) => b /\ Flag(s)
                        /\ Once(s, t) => Once(When(b, s), t)
                        /\ b => When(b, s) = s
                        /\ ~b => When(b, s) = <<>>
<1>1. ~Has(<<>>, t) /\ ~Flag(<<>>) /\ Once(<<>>, t)
  BY SentFew DEF Has, Flag, Once
<1>2. ASSUME NEW m PROVE (Has(<<m>>, t) <=> m.type = t) /\ (Flag(<<m>>) <=> m.type = "close" /\ m.flag) /\ Once(<<m>>, t)
  <2>1. Sent(<<m>>) = {m}
    BY SentFew
  <2>2. Once(<<m>>, t)
    BY DEF Once
  <2>. QED BY <2>1, <2>2 DEF Has, Flag
<1>. QED BY <1>1, <1>2 DEF When

\* A step by which nothing new opens and the host's game does not say that it ended.
LEMMA HostKept ==
    ASSUME HostInv, conn'[Host] = "open", opening'[Host] = FALSE, Hears(Host)', conv'[Host] \in {0, conv[Host]},
           OpensSoon => speaker'[Host] = speaker[Host] /\ heard' = heard,
           Has(requests'[Host], "opened") => Has(requests[Host], "opened"), Once(requests'[Host], "opened"),
           Has(notices'[Host], "open") => Has(notices[Host], "open"), Once(notices'[Host], "open"),
           Flag(requests'[Host]) => Flag(requests[Host]),
           \A p \in Guests : ~Has(requests'[p], "opened")
    PROVE  HostInv'
<1>1. OpensSoon' => OpensSoon
  BY DEF OpensSoon
<1>. QED BY <1>1 DEF HostInv

\* What a guest sends has no effect here.
LEMMA GuestSends ==
    ASSUME RequestsOK, NEW p \in Guests, NEW e \in Seq(Asks), Sends(p, e), ~Has(e, "opened"), \A g \in Guests : ~Has(requests[g], "opened")
    PROVE  requests'[Host] = requests[Host] /\ \A g \in Guests : ~Has(requests'[g], "opened")
<1>1. p \in Players /\ Host \in Players /\ p # Host
  BY PlayersAssumption DEF Guests
<1>2. requests'[p] = requests[p] \o e /\ \A q \in Players : q # p => requests'[q] = requests[q]
  BY <1>1, SendsType
<1>3. requests[p] \in Seq(Asks)
  BY <1>1 DEF RequestsOK
<1>4. ~Has(requests'[p], "opened")
  BY <1>2, <1>3, HasSteps
<1>. QED BY <1>1, <1>2, <1>4 DEF Guests

\* The host's own channels.
LEMMA HostChannels ==
    ASSUME AllTypes, HostInv
    PROVE  /\ Host \in Players /\ requests[Host] \in Seq(Asks) /\ notices[Host] \in Seq(Tells)
           /\ Once(requests[Host], "opened") /\ Once(notices[Host], "open")
           /\ conv[Host] \in Nat /\ Host \in Members
BY PlayersAssumption DEF AllTypes, RequestsOK, NoticesOK, ServiceOK, HostInv, Members

\* The rules read a request.
LEMMA HostReadsHost == ASSUME AllTypes, IdsOK, HostInv, NEW p \in Players, HostReads(p) PROVE HostInv'
<1>1. PICK m : m = Head(requests[p]) /\ m \in Asks /\ requests[p] \in Seq(Asks) /\ requests[p] # <<>>
  <2>1. requests[p] \in Seq(Asks) /\ requests[p] # <<>>
    BY DEF HostReads, AllTypes, RequestsOK
  <2>. QED BY <2>1, SentRead
<1>2. UNCHANGED <<conn, gameVars>> /\ Handles(p, m) /\ requests' = [requests EXCEPT ![p] = Tail(@)]
  BY <1>1 DEF HostReads, Handles
<1>3. UNCHANGED <<conn, conv, opening, speaker, heard>> /\ Members' = Members
  BY <1>2 DEF gameVars, serviceVars, engineVars, hostGameVars, Members
<1>4. requests'[p] = Tail(requests[p]) /\ \A q \in Players : q # p => requests'[q] = requests[q]
  BY <1>2 DEF AllTypes, RequestsOK
<1>5. /\ Has(requests'[p], "opened") => Has(requests[p], "opened")
      /\ Flag(requests'[p]) => Flag(requests[p])
      /\ Once(requests[p], "opened") => Once(requests'[p], "opened")
      /\ Once(requests[p], "opened") /\ m.type = "opened" => ~Has(requests'[p], "opened")
      /\ m.type = "opened" => Has(requests[p], "opened")
      /\ m.type = "close" /\ m.flag => Flag(requests[p])
  BY <1>1, <1>4, HasSteps
<1>6. /\ Has(requests'[Host], "opened") => Has(requests[Host], "opened")
      /\ Flag(requests'[Host]) => Flag(requests[Host])
      /\ Once(requests'[Host], "opened")
      /\ \A g \in Guests : ~Has(requests'[g], "opened")
  BY <1>4, <1>5, HostChannels DEF HostInv, Guests
<1>7. PICK q : q = notices[Host] /\ q \in Seq(Tells) /\ Once(q, "open") /\ Host \in Members /\ Host \in Players
  BY HostChannels
<1>8. conn'[Host] = "open" /\ opening'[Host] = FALSE /\ conv'[Host] \in {0, conv[Host]} /\ conv'[Host] = conv[Host]
      /\ speaker'[Host] = speaker[Host] /\ heard' = heard /\ Hears(Host)
  BY <1>3 DEF HostInv
<1>9. CASE Quiet(Chats)
  <2>1. PICK e \in Seq(Tells) : notices'[Host] = q \o e /\ \A n \in Sent(e) : n.type \in Chats
    BY <1>7, <1>9 DEF Quiet
  <2>2. ~Has(e, "open")
    BY <2>1 DEF Has, Chats
  <2>3. (Has(notices'[Host], "open") => Has(q, "open")) /\ Once(notices'[Host], "open")
    BY <1>7, <2>1, <2>2, HasSteps
  <2>4. Hears(Host)'
    BY <1>3, <1>7, <1>8, <1>9, QuietIds
  <2>. QED BY <1>6, <1>7, <1>8, <2>3, <2>4, HostKept
<1>10. CASE m.type = "opened" /\ Opens(m.npc, m.flag)
  <2>1. p = Host
    BY <1>5, <1>10 DEF HostInv, Guests
  <2>2. ~Has(requests'[Host], "opened") /\ Has(requests[Host], "opened") /\ ~Has(q, "open") /\ ~Flag(requests[Host])
    BY <1>5, <1>7, <1>10, <2>1 DEF HostInv, OpensSoon
  <2>3. m.npc \in Npcs /\ m.flag \in BOOLEAN
    BY <1>1, <1>10 DEF Asks, Request
  <2>4. Hears(Host)'
    BY <1>3, <1>7, <1>8, <1>10, <2>3, OpensIds
  <2>5. PICK o : o = OpenNow(m.npc, m.flag) /\ o \in Tells /\ o.type = "open"
    BY <2>3, OpenIs DEF AllTypes
  <2>6. PICK e \in Seq(Tells) : notices'[Host] = q \o e \o <<o>> /\ \A n \in Sent(e) : Host # Host
    BY <1>7, <1>10, <2>5 DEF Opens
  <2>7. ~Has(e, "open")
    BY <2>6 DEF Has
  <2>8. PICK d : d = <<o>> /\ d \in Seq(Tells)
    BY <2>5, Sends12
  <2>9. Once(d, "open")
    BY <2>8, HasFew
  <2>10. PICK v : v = q \o e /\ v \in Seq(Tells) /\ ~Has(v, "open")
    BY <1>7, <2>2, <2>7, HasSteps, Sends12
  <2>11. Once(v \o d, "open")
    BY <2>8, <2>9, <2>10, HasSteps
  <2>12. Once(notices'[Host], "open")
    BY <2>6, <2>8, <2>10, <2>11
  <2>13. OpensSoon => conv[Host] = 0 /\ speaker[Host] = heard /\ heard # None
    BY DEF HostInv
  <2>14. conv[Host] = 0 /\ speaker[Host] = heard /\ heard # None
    BY <2>2, <2>13 DEF OpensSoon
  <2>15. ~Flag(requests'[Host])
    BY <1>6, <2>2
  <2>. QED BY <1>6, <1>8, <2>2, <2>4, <2>12, <2>14, <2>15 DEF HostInv
<1>11. CASE Ends(Players)
  <2>1. Hears(Host)'
    BY <1>3, <1>7, <1>8, <1>11, EndsIds
  <2>2. PICK o : o = ClosedNow(talk) /\ o \in Tells /\ o.type = "closed"
    BY <1>11, ClosedIs DEF AllTypes, Ends
  <2>3. notices'[Host] = q \o <<>> \o <<o>> /\ q \o <<>> = q
    BY <1>7, <1>11, <2>2 DEF Ends
  <2>4. PICK d : d = <<o>> /\ d \in Seq(Tells)
    BY <2>2, Sends12
  <2>5. ~Has(d, "open")
    BY <2>2, <2>4, HasFew
  <2>6. notices'[Host] = q \o d
    BY <2>3, <2>4
  <2>7. (Has(notices'[Host], "open") => Has(q, "open")) /\ Once(notices'[Host], "open")
    <3>1. (Has(q \o d, "open") <=> Has(q, "open") \/ Has(d, "open")) /\ (Once(q, "open") /\ ~Has(d, "open") => Once(q \o d, "open"))
      BY <1>7, <2>4, HasSteps
    <3>. QED BY <1>7, <2>5, <2>6, <3>1
  <2>. QED BY <1>6, <1>7, <1>8, <2>1, <2>7, HostKept
<1>12. CASE p = Host /\ m.type = "close" /\ m.flag /\ Ends(Players \ {Host})
  <2>1. conv[Host] = 0 /\ ~OpensSoon /\ notices'[Host] = q
    BY <1>5, <1>7, <1>12 DEF HostInv, Ends
  <2>2. ~Has(q, "open")
    BY <1>7, <2>1 DEF OpensSoon
  <2>3. Hears(Host)'
    BY <1>8, <2>1, <2>2 DEF Hears, ComesTo, Has, Sent
  <2>. QED BY <1>6, <1>7, <1>8, <2>1, <2>3, HostKept
<1>. QED BY <1>1, <1>2, <1>9, <1>10, <1>11, <1>12, HandlerDoes DEF AllTypes, IdsOK

\* A game reads a notice.
LEMMA HostGameReads == ASSUME AllTypes, IdsOK, HostInv, NEW p \in Players, GameReads(p) PROVE HostInv'
<1>1. PICK m : m = Head(notices[p])
  OBVIOUS
<1>2. /\ (Hears(p) => Hears(p)') /\ UNCHANGED <<conn, talk, lastTalk>> /\ notices'[p] = Tail(notices[p]) /\ IdsOK'
      /\ \A q \in Players : q # p => notices'[q] = notices[q] /\ conv'[q] = conv[q]
  BY <1>1, ReadIds
<1>3. /\ requests[Host] = <<>> /\ notices[p] # <<>> /\ notices[p] \in Seq(Tells) /\ Host \in Players /\ Once(notices[Host], "open")
      /\ conn[Host] = "open" /\ opening[Host] = FALSE /\ Hears(Host) /\ \A g \in Guests : ~Has(requests[g], "opened")
  BY HostChannels DEF GameReads, HostIdle, AllTypes, NoticesOK, HostInv
<1>4. m \in Tells /\ m.conv \in Nat /\ m.npc \in Npcs \union {None} /\ m.step \in 0 .. MaxSteps /\ m \in Sent(notices[p])
  <2>1. m \in Tells /\ m \in Sent(notices[p])
    BY <1>1, <1>3, SentRead
  <2>. QED BY <2>1 DEF Tells, Notice
<1>5. \/ m.type = "open" /\ OnOpen(p, m)
      \/ m.type = "start" /\ OnHostStart(m)
      \/ m.type = "list" /\ OnList(p, m)
      \/ m.type = "picked" /\ OnPicked(p, m)
      \/ m.type = "closed" /\ OnClosed(p, m)
      \/ m.type = "refused" /\ OnRefused(p, m)
      \/ UNCHANGED <<serviceVars, screenVars, asked, engineVars, hostGameVars, requests>>
  BY <1>1 DEF GameReads
\* What is sent: never that its engine's conversation began or ended.
<1>6. PICK w, e : /\ w \in Players /\ e \in Seq(Asks) /\ requests' = [requests EXCEPT ![w] = @ \o e]
                  /\ ~Has(e, "opened") /\ ~Flag(e) /\ Once(e, "opened") /\ (w = p \/ w = Host)
  <2>1. 1 \in 0 .. MaxSteps /\ conv[p] \in Nat /\ None \in Npcs \union {None} /\ 0 \in 0 .. MaxSteps
    BY BoundsAssumption DEF AllTypes, ServiceOK
  <2>2. ASSUME UNCHANGED requests
        PROVE  \E d \in Seq(Asks) : requests' = [requests EXCEPT ![p] = @ \o d] /\ ~Has(d, "opened") /\ ~Flag(d) /\ Once(d, "opened")
    <3>1. requests[p] \o <<>> = requests[p] /\ <<>> \in Seq(Asks) /\ requests = [requests EXCEPT ![p] = requests[p]]
      BY DEF AllTypes, RequestsOK
    <3>2. ~Has(<<>>, "opened") /\ ~Flag(<<>>) /\ Once(<<>>, "opened")
      BY HasFew
    <3>. QED BY <2>2, <3>1, <3>2
  <2>3. ASSUME NEW n \in Asks, n.type # "opened", n.type = "close" => n.flag = FALSE, NEW b
        PROVE  LET d == When(b, <<n>>) IN d \in Seq(Asks) /\ ~Has(d, "opened") /\ ~Flag(d) /\ Once(d, "opened")
    <3>1. <<n>> \in Seq(Asks) /\ When(b, <<n>>) \in Seq(Asks)
      BY Sends12
    <3>2. ~Has(<<n>>, "opened") /\ ~Flag(<<n>>) /\ Once(<<n>>, "opened")
      BY <2>3, HasFew
    <3>. QED BY <3>1, <3>2, HasFew
  <2>4. CASE m.type = "open" /\ OnOpen(p, m)
    <3>1. CASE p = Host
      <4>1. PICK n : n = Options(m.conv, 1)
        OBVIOUS
      <4>2. n \in Asks /\ n.type = "options"
        BY <1>4, <2>1, <4>1, MessageIs DEF Options, Msg
      <4>3. PICK d : d = When(speaker[Host] # None, <<n>>)
        OBVIOUS
      <4>4. Sends(p, d)
        BY <2>4, <3>1, <4>1, <4>3, Zenon DEF OnOpen
      <4>. QED BY <2>3, <4>2, <4>3, <4>4 DEF Sends
    <3>2. CASE p # Host
      <4>1. UNCHANGED requests \/ Sends(p, LeavesWhenItCannot(m.conv))
        BY <2>4, <3>2 DEF OnOpen, OpensHere
      <4>2. PICK n : n = Msg("close", m.conv, None, 0, FALSE)
        OBVIOUS
      <4>3. n \in Asks /\ n.type = "close" /\ n.flag = FALSE
        BY <1>4, <2>1, <4>2, MessageIs DEF Msg
      <4>4. CASE Sends(p, <<n>>)
        <5>1. PICK d : d = When(TRUE, <<n>>)
          OBVIOUS
        <5>2. d = <<n>>
          BY <5>1, HasFew
        <5>. QED BY <2>3, <4>3, <4>4, <5>1, <5>2 DEF Sends
      <4>. QED BY <2>2, <4>1, <4>2, <4>4 DEF LeavesWhenItCannot
    <3>. QED BY <3>1, <3>2
  <2>5. CASE m.type = "start" /\ OnHostStart(m)
    <3>1. PICK n : n = Msg("failed", 0, m.npc, 0, FALSE)
      OBVIOUS
    <3>2. n \in Asks /\ n.type = "failed"
      BY <1>4, <2>1, <3>1, MessageIs DEF Msg
    <3>3. CASE Sends(Host, <<n>>)
      <4>1. PICK d : d = When(TRUE, <<n>>)
        OBVIOUS
      <4>2. d = <<n>>
        BY <4>1, HasFew
      <4>. QED BY <1>3, <2>3, <3>2, <3>3, <4>1, <4>2 DEF Sends
    <3>. QED BY <2>2, <2>5, <3>1, <3>3 DEF OnHostStart
  <2>6. CASE m.type = "picked" /\ OnPicked(p, m)
    <3>1. PICK said \in BOOLEAN : Sends(p, When(p = Host /\ ~said, <<Options(conv[p], m.step)>>))
      BY <2>6 DEF OnPicked
    <3>2. PICK n : n = Options(conv[p], m.step)
      OBVIOUS
    <3>3. n \in Asks /\ n.type = "options"
      BY <1>4, <2>1, <3>2, MessageIs DEF Options, Msg
    <3>4. PICK d : d = When(p = Host /\ ~said, <<n>>)
      OBVIOUS
    <3>5. Sends(p, d)
      BY <3>1, <3>2, <3>4, Zenon
    <3>. QED BY <2>3, <3>3, <3>4, <3>5 DEF Sends
  <2>. QED BY <1>5, <2>2, <2>4, <2>5, <2>6 DEF OnList, OnClosed, OnRefused
<1>7. /\ requests'[w] = requests[w] \o e /\ \A q \in Players : q # w => requests'[q] = requests[q]
      /\ \A q \in Players : requests[q] \in Seq(Asks)
  BY <1>6, SendsType DEF AllTypes, RequestsOK
<1>8. /\ ~Has(requests'[Host], "opened") /\ ~Flag(requests'[Host]) /\ Once(requests'[Host], "opened")
      /\ \A g \in Guests : ~Has(requests'[g], "opened")
  <2>1. ~Has(<<>>, "opened") /\ ~Flag(<<>>) /\ Once(<<>>, "opened")
    BY HasFew
  <2>2. \A q \in Players : ~Has(requests[q], "opened")
    BY <1>3, <2>1 DEF Guests
  <2>3. ASSUME NEW q \in Players PROVE ~Has(requests'[q], "opened")
    BY <1>6, <1>7, <2>2, <2>3, HasSteps
  <2>4. ~Flag(requests'[Host]) /\ Once(requests'[Host], "opened")
    BY <1>3, <1>6, <1>7, <2>1, HasSteps
  <2>. QED BY <1>3, <2>3, <2>4 DEF Guests
<1>9. CASE p # Host
  <2>1. /\ notices'[Host] = notices[Host] /\ conv'[Host] = conv[Host] /\ conn'[Host] = "open" /\ Hears(Host)'
    BY <1>2, <1>3, <1>9 DEF Hears
  <2>2. CASE m.type = "start" /\ OnHostStart(m)
    <3>1. opening'[Host] = FALSE /\ heard' = heard
      BY <1>3, <2>2 DEF OnHostStart, serviceVars
    <3>2. speaker[Host] = None \/ speaker' = speaker
      BY <2>2 DEF OnHostStart
    <3>3. OpensSoon => speaker'[Host] = speaker[Host]
      BY <3>2 DEF HostInv
    <3>. QED BY <1>3, <1>8, <2>1, <3>1, <3>3, HostKept
  <2>3. CASE ~(m.type = "start" /\ OnHostStart(m))
    <3>1. opening'[Host] = opening[Host] /\ speaker'[Host] = speaker[Host] /\ heard' = heard
      <4>1. CASE OnOpen(p, m)
        BY <1>3, <1>9, <4>1 DEF OnOpen, OpensHere, EndsHere, engineVars, AllTypes, ServiceOK, EngineOK
      <4>2. CASE OnList(p, m) \/ OnPicked(p, m) \/ OnRefused(p, m)
                 \/ UNCHANGED <<serviceVars, screenVars, asked, engineVars, hostGameVars, requests>>
        BY <4>2 DEF OnList, OnPicked, OnRefused, serviceVars, engineVars, hostGameVars
      <4>3. CASE OnClosed(p, m)
        BY <1>3, <1>9, <4>3 DEF OnClosed, EndsHere, AllTypes, ServiceOK, EngineOK
      <4>. QED BY <1>5, <2>3, <4>1, <4>2, <4>3
    <3>. QED BY <1>3, <1>8, <2>1, <3>1, HostKept
  <2>. QED BY <2>2, <2>3
<1>10. CASE p = Host
  <2>1. /\ conn'[Host] = "open" /\ Hears(Host)' /\ Once(notices'[Host], "open")
        /\ (Has(notices'[Host], "open") => Has(notices[Host], "open"))
        /\ (m.type = "open" => ~Has(notices'[Host], "open"))
    BY <1>1, <1>2, <1>3, <1>10, HasSteps
  <2>2. CASE m.type = "open" /\ OnOpen(p, m)
    <3>1. ~OpensSoon'
      BY <1>8, <2>1, <2>2 DEF OpensSoon
    <3>2. opening'[Host] = FALSE
      BY <1>10, <2>2 DEF OnOpen, AllTypes, ServiceOK
    <3>. QED BY <1>8, <2>1, <3>1, <3>2 DEF HostInv
  <2>3. CASE m.type = "start" /\ OnHostStart(m)
    <3>1. opening'[Host] = FALSE /\ heard' = heard /\ conv'[Host] = conv[Host]
      BY <1>3, <2>3 DEF OnHostStart, serviceVars
    <3>2. speaker[Host] = None \/ speaker' = speaker
      BY <2>3 DEF OnHostStart
    <3>3. OpensSoon => speaker'[Host] = speaker[Host]
      BY <3>2 DEF HostInv
    <3>. QED BY <1>8, <2>1, <3>1, <3>3, HostKept
  <2>4. CASE OnList(p, m) \/ OnPicked(p, m) \/ OnRefused(p, m)
             \/ UNCHANGED <<serviceVars, screenVars, asked, engineVars, hostGameVars, requests>>
    <3>1. opening'[Host] = FALSE /\ speaker' = speaker /\ heard' = heard /\ conv'[Host] = conv[Host]
      BY <1>3, <2>4 DEF OnList, OnPicked, OnRefused, serviceVars, engineVars, hostGameVars
    <3>. QED BY <1>8, <2>1, <3>1, HostKept
  <2>5. CASE m.type = "closed" /\ OnClosed(p, m)
    <3>1. m.conv \in 1 .. lastTalk
      BY <1>4, <2>5, <1>3 DEF IdsOK, Closing
    <3>2. m.conv # 0 /\ conv[Host] = m.conv
      BY <1>10, <2>5, <3>1 DEF OnClosed
    <3>3. ~OpensSoon
      BY <3>2 DEF HostInv
    <3>4. conv'[Host] = 0 /\ opening'[Host] = FALSE
      BY <1>10, <2>5 DEF OnClosed, AllTypes, ServiceOK
    <3>. QED BY <1>8, <2>1, <3>3, <3>4, HostKept
  <2>. QED BY <1>5, <2>2, <2>3, <2>4, <2>5
<1>. QED BY <1>9, <1>10

\* What a game's update sends before what its engine did: that its player is in, or out.
LEMMA JoinOrLeaveHas ==
    ASSUME AllTypes, NEW p \in Players, NEW e, e = JoinOrLeave(p)
    PROVE  e \in Seq(Asks) /\ ~Has(e, "opened") /\ ~Flag(e) /\ Once(e, "opened")
<1>1. PICK a, b : a = When(Joins(p), <<Msg("join", conv[p], None, 0, FALSE)>>)
                  /\ b = When(GoesOut(p), <<Msg("close", conv[p], None, 0, FALSE)>>)
  OBVIOUS
<1>2. PICK m, n : m = Msg("join", conv[p], None, 0, FALSE) /\ n = Msg("close", conv[p], None, 0, FALSE)
  OBVIOUS
<1>3. conv[p] \in Nat /\ None \in Npcs \union {None} /\ 0 \in 0 .. MaxSteps
  BY BoundsAssumption DEF AllTypes, ServiceOK
<1>4. m \in Asks /\ n \in Asks
  BY <1>2, <1>3, MessageIs
<1>5. m.type = "join" /\ n.type = "close" /\ n.flag = FALSE
  BY <1>2 DEF Msg
<1>6. a = When(Joins(p), <<m>>) /\ b = When(GoesOut(p), <<n>>) /\ <<m>> \in Seq(Asks) /\ <<n>> \in Seq(Asks)
  BY <1>1, <1>2, <1>4, Sends12
<1>7. ~Has(<<m>>, "opened") /\ ~Has(<<n>>, "opened") /\ ~Flag(<<m>>) /\ ~Flag(<<n>>) /\ Once(<<m>>, "opened") /\ Once(<<n>>, "opened")
  BY <1>5, HasFew
<1>8. ~Has(a, "opened") /\ ~Has(b, "opened") /\ ~Flag(a) /\ ~Flag(b) /\ Once(a, "opened")
  BY <1>6, <1>7, HasFew
<1>9. a \in Seq(Asks) /\ b \in Seq(Asks)
  BY <1>6, Sends12
<1>10. a \o b \in Seq(Asks) /\ ~Has(a \o b, "opened") /\ ~Flag(a \o b) /\ Once(a \o b, "opened")
  BY <1>8, <1>9, HasSteps, Sends12
<1>. QED BY <1>1, <1>10 DEF JoinOrLeave

\* The updates of the host's game.
LEMMA HostUpdateHost == ASSUME AllTypes, IdsOK, HostInv, HostUpdate PROVE HostInv'
<1>1. PICK began \in BOOLEAN, ended \in BOOLEAN :
        /\ began = (SpeakerChanged /\ speaker[Host] # None)
        /\ ended = (SpeakerChanged /\ speaker[Host] = None /\ conv[Host] # 0)
  OBVIOUS
<1>2. PICK a, b, c : a = JoinOrLeave(Host) /\ b = Msg("opened", 0, speaker[Host], 0, speaker[Host] = greeter)
                     /\ c = Msg("close", conv[Host], None, 0, TRUE)
  OBVIOUS
<1>3. /\ opening' = [opening EXCEPT ![Host] = StillOpening(Host)]
      /\ conv' = [conv EXCEPT ![Host] = IF began \/ ended THEN 0 ELSE @]
      /\ Sends(Host, a \o When(began, <<b>>) \o When(ended, <<c>>))
      /\ heard' = speaker[Host] /\ HostIdle
      /\ UNCHANGED <<conn, speaker, notices, talk>>
  BY <1>1, <1>2, Zenon DEF HostUpdate, engineVars, ruleVars
<1>4. /\ Host \in Players /\ conv[Host] \in Nat /\ opening[Host] = FALSE /\ conn[Host] = "open" /\ Hears(Host)
      /\ requests[Host] = <<>> /\ Once(notices[Host], "open") /\ \A g \in Guests : ~Has(requests[g], "opened")
      /\ OpensSoon => conv[Host] = 0 /\ speaker[Host] = heard /\ heard # None
  BY <1>3, HostChannels DEF HostInv, HostIdle
<1>5. conv'[Host] = (IF began \/ ended THEN 0 ELSE conv[Host]) /\ opening'[Host] = FALSE /\ Hears(Host)'
  <2>1. conv'[Host] = (IF began \/ ended THEN 0 ELSE conv[Host]) /\ opening'[Host] = FALSE
    BY <1>3, <1>4 DEF AllTypes, ServiceOK, StillOpening
  <2>2. notices' = notices /\ talk' = talk
    BY <1>3
  <2>3. Hears(Host)'
    BY <1>4, <2>1, <2>2 DEF Hears, ComesTo
  <2>. QED BY <2>1, <2>3
<1>6. a \in Seq(Asks) /\ ~Has(a, "opened") /\ ~Flag(a) /\ Once(a, "opened")
  BY <1>2, <1>4, JoinOrLeaveHas
<1>7. (began => b \in Asks) /\ b.type = "opened" /\ c \in Asks /\ c.type = "close"
  <2>1. None \in Npcs \union {None} /\ 0 \in 0 .. MaxSteps /\ speaker[Host] \in Npcs \union {None}
    BY <1>4, BoundsAssumption DEF AllTypes, EngineOK
  <2>2. began => b \in Asks
    BY <1>1, <1>2, <2>1, MessageIs
  <2>3. c \in Asks
    BY <1>2, <1>4, <2>1, MessageIs
  <2>. QED BY <1>2, <2>2, <2>3 DEF Msg
<1>8. PICK d, f : d = When(began, <<b>>) /\ f = When(ended, <<c>>)
  OBVIOUS
<1>9. d \in Seq(Asks) /\ f \in Seq(Asks)
  <2>1. began => <<b>> \in Seq(Asks)
    BY <1>7, Sends12
  <2>2. <<c>> \in Seq(Asks)
    BY <1>7, Sends12
  <2>3. <<>> \in Seq(Asks)
    BY Sends12
  <2>4. d = <<b>> \/ d = <<>>
    BY <1>8 DEF When
  <2>5. ~began => d = <<>>
    BY <1>8 DEF When
  <2>6. f = <<c>> \/ f = <<>>
    BY <1>8 DEF When
  <2>. QED BY <2>1, <2>2, <2>3, <2>4, <2>5, <2>6
<1>10. /\ Has(d, "opened") => began
       /\ Once(d, "opened") /\ ~Flag(d) /\ ~Has(f, "opened")
       /\ Flag(f) => ended
  <2>1. (Has(<<b>>, "opened") /\ Once(<<b>>, "opened") /\ ~Flag(<<b>>)) /\ ~Has(<<c>>, "opened")
    BY <1>7, HasFew
  <2>. QED BY <1>8, <2>1, HasFew
<1>11. PICK u : u = a \o d /\ u \in Seq(Asks) /\ (Has(u, "opened") => began) /\ ~Flag(u) /\ Once(u, "opened")
  BY <1>6, <1>9, <1>10, HasSteps, Sends12
<1>12. PICK v : v = u \o f /\ v \in Seq(Asks) /\ (Has(v, "opened") => began) /\ (Flag(v) => ended) /\ Once(v, "opened")
  <2>1. /\ Has(u \o f, "opened") <=> Has(u, "opened") \/ Has(f, "opened")
        /\ Flag(u \o f) <=> Flag(u) \/ Flag(f)
        /\ Once(u, "opened") /\ ~Has(f, "opened") => Once(u \o f, "opened")
    BY <1>9, <1>11, HasSteps
  <2>2. u \o f \in Seq(Asks)
    BY <1>9, <1>11, Sends12
  <2>3. (Has(u \o f, "opened") => began) /\ (Flag(u \o f) => ended) /\ Once(u \o f, "opened")
    BY <1>10, <1>11, <2>1
  <2>. QED BY <2>2, <2>3
<1>13. requests'[Host] = v /\ \A q \in Players : q # Host => requests'[q] = requests[q]
  <2>1. Sends(Host, v)
    BY <1>3, <1>8, <1>11, <1>12, Zenon
  <2>2. requests'[Host] = requests[Host] \o v /\ \A q \in Players : q # Host => requests'[q] = requests[q]
    BY <1>4, <1>12, <2>1, SendsType DEF AllTypes
  <2>. QED BY <1>4, <1>12, <2>2
<1>14. \A g \in Guests : ~Has(requests'[g], "opened")
  BY <1>4, <1>13 DEF Guests
<1>15. began \/ ended => ~OpensSoon /\ ~Has(notices[Host], "open")
  BY <1>1, <1>4 DEF SpeakerChanged, OpensSoon
<1>16. ended => ~began
  BY <1>1
<1>17. CASE began \/ ended
  <2>1. ~Has(notices'[Host], "open") /\ Once(notices'[Host], "open") /\ conv'[Host] = 0
    BY <1>3, <1>4, <1>5, <1>15, <1>17
  <2>2. OpensSoon' => speaker'[Host] = heard' /\ heard' # None
    BY <1>1, <1>3, <1>12, <1>13, <2>1 DEF OpensSoon
  <2>3. Flag(requests'[Host]) => ~OpensSoon'
    BY <1>12, <1>13, <1>16, <2>1 DEF OpensSoon
  <2>. QED BY <1>3, <1>4, <1>5, <1>12, <1>13, <1>14, <2>1, <2>2, <2>3 DEF HostInv
<1>18. CASE ~began /\ ~ended
  <2>1. ~Has(requests'[Host], "opened") /\ ~Flag(requests'[Host]) /\ Once(requests'[Host], "opened")
    BY <1>12, <1>13, <1>18
  <2>2. OpensSoon => heard' = heard
    BY <1>3, <1>4
  <2>. QED BY <1>3, <1>4, <1>5, <1>14, <1>18, <2>1, <2>2, HostKept
<1>. QED BY <1>17, <1>18

\* Steps that tell nobody anything.
LEMMA HostLocal ==
    ASSUME AllTypes, IdsOK, HostInv, Calm,
           \/ \E p \in Players : \/ GuestUpdate(p) \/ MenuComes(p) \/ MenuCloses(p) \/ Picks(p) \/ OpeningLate(p) \/ Join(p)
           \/ \E p \in Players, n \in Npcs : GuestTalks(p, n)
           \/ \E n \in Npcs, greet \in BOOLEAN : HostTalks(n, greet)
           \/ EngineEnds \/ EngineLists
    PROVE  HostInv'
<1>1. UNCHANGED <<notices, talk, lastTalk>> /\ \A p \in Players : Hears(p) => Hears(p)'
  BY LocalIds
<1>2. /\ Host \in Players /\ conv[Host] \in Nat /\ opening[Host] = FALSE /\ conn[Host] = "open" /\ Hears(Host) /\ Hears(Host)'
      /\ Once(notices'[Host], "open") /\ notices'[Host] = notices[Host] /\ (\A g \in Guests : ~Has(requests[g], "opened"))
      /\ Once(requests[Host], "opened")
      /\ OpensSoon => conv[Host] = 0 /\ speaker[Host] = heard /\ heard # None
      /\ None \in Npcs \union {None} /\ 0 \in 0 .. MaxSteps /\ 1 \in 0 .. MaxSteps
  <2>1. Host \in Players /\ conv[Host] \in Nat /\ opening[Host] = FALSE /\ conn[Host] = "open" /\ Hears(Host) /\ Hears(Host)'
    BY <1>1, HostChannels DEF HostInv
  <2>2. notices' = notices
    BY <1>1
  <2>3. Once(notices[Host], "open") /\ (\A g \in Guests : ~Has(requests[g], "opened")) /\ Once(requests[Host], "opened")
    BY DEF HostInv
  <2>4. OpensSoon => conv[Host] = 0 /\ speaker[Host] = heard /\ heard # None
    BY DEF HostInv
  <2>5. None \in Npcs \union {None} /\ 0 \in 0 .. MaxSteps /\ 1 \in 0 .. MaxSteps
    BY BoundsAssumption
  <2>6. notices'[Host] = notices[Host] /\ Once(notices'[Host], "open")
    BY <2>2, <2>3
  <2>. QED BY <2>1, <2>3, <2>4, <2>5, <2>6
<1>3. ASSUME UNCHANGED <<requests, conv>>, conn'[Host] = "open", opening'[Host] = FALSE,
             OpensSoon => speaker'[Host] = speaker[Host] /\ heard' = heard
      PROVE  HostInv'
  BY <1>2, <1>3, HostKept
\* A guest's.
<1>4. ASSUME NEW p \in Guests, NEW e \in Seq(Asks), Sends(p, e), ~Has(e, "opened"), UNCHANGED <<conv, conn, heard>>,
             opening'[Host] = FALSE, speaker'[Host] = speaker[Host]
      PROVE  HostInv'
  <2>1. requests'[Host] = requests[Host] /\ \A g \in Guests : ~Has(requests'[g], "opened")
    BY <1>2, <1>4, GuestSends DEF AllTypes
  <2>. QED BY <1>2, <1>4, <2>1, HostKept
\* The host's own game's.
<1>5. ASSUME NEW e \in Seq(Asks), Sends(Host, e), ~Has(e, "opened"), ~Flag(e), UNCHANGED <<conv, conn, heard, speaker, opening>>
      PROVE  HostInv'
  <2>1. requests'[Host] = requests[Host] \o e /\ \A q \in Players : q # Host => requests'[q] = requests[q]
    BY <1>2, <1>5, SendsType DEF AllTypes
  <2>2. requests[Host] \in Seq(Asks)
    BY <1>2 DEF AllTypes, RequestsOK
  <2>3. /\ Has(requests'[Host], "opened") => Has(requests[Host], "opened")
        /\ Flag(requests'[Host]) => Flag(requests[Host])
        /\ Once(requests'[Host], "opened")
    BY <1>2, <1>5, <2>1, <2>2, HasSteps
  <2>4. \A g \in Guests : ~Has(requests'[g], "opened")
    BY <1>2, <2>1 DEF Guests
  <2>. QED BY <1>2, <1>5, <2>3, <2>4, HostKept
<1>6. ASSUME NEW n \in Asks, n.type # "opened" PROVE <<n>> \in Seq(Asks) /\ ~Has(<<n>>, "opened") /\ (n.type # "close" => ~Flag(<<n>>))
  BY <1>6, HasFew, Sends12
<1>7. ASSUME NEW p \in Players, GuestUpdate(p) PROVE HostInv'
  <2>1. PICK e : e = JoinOrLeave(p) /\ e \in Seq(Asks) /\ ~Has(e, "opened")
    BY JoinOrLeaveHas
  <2>2. p \in Guests /\ p # Host /\ Sends(p, e) /\ UNCHANGED <<conv, conn, heard>>
    BY <1>7, <2>1 DEF GuestUpdate, Guests, hostGameVars
  <2>3. opening'[Host] = FALSE /\ speaker'[Host] = speaker[Host]
    BY <1>2, <1>7, <2>2 DEF GuestUpdate, EndsHere, engineVars, AllTypes, ServiceOK, EngineOK
  <2>. QED BY <1>4, <2>1, <2>2, <2>3
<1>8. ASSUME NEW p \in Players, MenuComes(p) PROVE HostInv'
  BY <1>2, <1>3, <1>8 DEF MenuComes, serviceVars, hostGameVars
<1>9. ASSUME NEW p \in Players, MenuCloses(p) PROVE HostInv'
  <2>1. UNCHANGED <<requests, conv, conn, opening, heard>>
    BY <1>9 DEF MenuCloses, serviceVars, hostGameVars
  <2>2. OpensSoon => speaker'[Host] = speaker[Host]
    BY <1>2, <1>9 DEF MenuCloses, AllTypes, EngineOK
  <2>. QED BY <1>2, <1>3, <2>1, <2>2
<1>10. ASSUME NEW p \in Players, Picks(p) PROVE HostInv'
  <2>1. UNCHANGED <<conv, conn, heard, speaker, opening>>
    BY <1>10 DEF Picks, serviceVars, engineVars, hostGameVars
  <2>2. PICK own \in BOOLEAN : Sends(p, <<Msg("pick", conv[p], None, step[p], own)>>)
    BY <1>10 DEF Picks
  <2>3. PICK n : n = Msg("pick", conv[p], None, step[p], own)
    OBVIOUS
  <2>4. conv[p] \in Nat /\ step[p] \in 0 .. MaxSteps /\ step[p] < MaxSteps
    BY <1>10 DEF Picks, AllTypes, ServiceOK
  <2>5. n \in Asks /\ n.type = "pick"
    BY <1>2, <2>3, <2>4, MessageIs DEF Msg
  <2>6. PICK e : e = <<n>> /\ e \in Seq(Asks) /\ ~Has(e, "opened") /\ ~Flag(e) /\ Sends(p, e)
    BY <1>6, <2>2, <2>3, <2>5
  <2>7. CASE p = Host
    BY <1>5, <2>1, <2>6, <2>7
  <2>8. CASE p # Host
    BY <1>2, <1>4, <2>1, <2>6, <2>8 DEF Guests
  <2>. QED BY <2>7, <2>8
<1>11. ASSUME NEW p \in Players, OpeningLate(p) PROVE HostInv'
  <2>1. UNCHANGED <<requests, conv, conn, opening, heard>>
    BY <1>11 DEF OpeningLate, serviceVars, hostGameVars
  <2>2. p # Host
    BY <1>2, <1>11 DEF OpeningLate, StillOpening
  <2>3. speaker'[Host] = speaker[Host]
    BY <1>2, <1>11, <2>2 DEF OpeningLate, EndsHere, AllTypes, EngineOK
  <2>. QED BY <1>2, <1>3, <2>1, <2>3
<1>12. ASSUME NEW p \in Players, Join(p) PROVE HostInv'
  BY <1>2, <1>3, <1>12 DEF Join, gameVars, serviceVars, engineVars, hostGameVars, AllTypes, EngineOK
<1>13. ASSUME NEW p \in Players, NEW n \in Npcs, GuestTalks(p, n) PROVE HostInv'
  <2>1. UNCHANGED <<conv, conn, opening, heard>> /\ p \in Guests /\ p # Host
    BY <1>13 DEF GuestTalks, serviceVars, hostGameVars, Guests
  <2>2. speaker'[Host] = speaker[Host]
    BY <1>2, <1>13, <2>1 DEF GuestTalks, engineVars, AllTypes, EngineOK
  <2>3. PICK m : m = Msg("start", 0, n, 0, FALSE)
    OBVIOUS
  <2>4. m \in Asks /\ m.type = "start"
    BY <1>2, <2>3, MessageIs DEF Msg
  <2>5. UNCHANGED requests \/ Sends(p, <<m>>)
    BY <1>13, <2>3 DEF GuestTalks
  <2>6. CASE UNCHANGED requests
    BY <1>2, <1>3, <2>1, <2>2, <2>6
  <2>7. CASE Sends(p, <<m>>)
    BY <1>2, <1>4, <1>6, <2>1, <2>2, <2>4, <2>7
  <2>. QED BY <2>5, <2>6, <2>7
<1>14. ASSUME NEW n \in Npcs, NEW greet \in BOOLEAN, HostTalks(n, greet) PROVE HostInv'
  <2>1. UNCHANGED <<requests, conv, conn, opening, heard>>
    BY <1>14 DEF HostTalks, serviceVars
  <2>2. speaker' = speaker \/ NothingBegun
    BY <1>14 DEF HostTalks
  <2>3. NothingBegun => ~OpensSoon
    BY <1>2, HasFew DEF NothingBegun, Settled, OpensSoon, Members
  <2>. QED BY <1>2, <1>3, <2>1, <2>2, <2>3
<1>15. CASE EngineEnds
  <2>1. UNCHANGED <<requests, conv, conn, opening, heard>> /\ conv[Host] # 0
    BY <1>15 DEF EngineEnds, serviceVars, hostGameVars
  <2>. QED BY <1>2, <1>3, <2>1
<1>16. CASE EngineLists
  <2>1. UNCHANGED <<conv, conn, heard, speaker, opening>>
    BY <1>16 DEF EngineLists, serviceVars, engineVars
  <2>2. PICK n : n = Options(conv[Host], step[Host])
    OBVIOUS
  <2>3. n \in Asks /\ n.type = "options"
    BY <1>2, <2>2, MessageIs DEF Options, Msg, AllTypes, ServiceOK
  <2>4. PICK e : e = When(conv[Host] # 0, <<n>>)
    OBVIOUS
  <2>5. Sends(Host, e)
    BY <1>16, <2>2, <2>4, Zenon DEF EngineLists
  <2>6. e \in Seq(Asks) /\ ~Has(e, "opened") /\ ~Flag(e)
    <3>1. <<n>> \in Seq(Asks) /\ ~Has(<<n>>, "opened") /\ ~Flag(<<n>>)
      BY <1>6, <2>3
    <3>. QED BY <2>4, <3>1, HasFew, Sends12
  <2>. QED BY <1>5, <2>1, <2>5, <2>6
<1>. QED BY <1>7, <1>8, <1>9, <1>10, <1>11, <1>12, <1>13, <1>14, <1>15, <1>16

\* A guest leaves.
LEMMA HostLeave == ASSUME AllTypes, IdsOK, HostInv, NEW p \in Players, Leave(p) PROVE HostInv'
<1>1. /\ LeaveTalk(p) /\ lastTalk' = lastTalk /\ conn' = [conn EXCEPT ![p] = "closed"] /\ conv' = [conv EXCEPT ![p] = 0]
      /\ conn[p] = "open" /\ p # Host /\ UNCHANGED heard /\ HostIdle
      /\ requests' = [requests EXCEPT ![p] = <<>>] /\ opening' = [opening EXCEPT ![p] = FALSE] /\ speaker' = [speaker EXCEPT ![p] = None]
  BY BoundsAssumption DEF Leave, EndsHere, hostGameVars
<1>2. /\ conv'[Host] = conv[Host] /\ conn'[Host] = "open" /\ opening'[Host] = FALSE /\ speaker'[Host] = speaker[Host]
      /\ requests'[Host] = requests[Host] /\ \A g \in Guests : requests'[g] = requests[g] \/ requests'[g] = <<>>
      /\ \A q \in Players : conv'[q] \in {0, conv[q]} /\ (conn'[q] = "none" => conn[q] = "none")
  BY <1>1, HostChannels DEF HostInv, AllTypes, ServiceOK, EngineOK, RequestsOK, Guests
<1>3. \A g \in Guests : ~Has(requests'[g], "opened")
  BY <1>2, HasFew DEF HostInv
<1>4. PICK q : q = notices[Host] /\ q \in Seq(Tells) /\ Once(q, "open") /\ Host \in Members /\ Host \in Players /\ Hears(Host)
               /\ Once(requests[Host], "opened")
  BY HostChannels DEF HostInv
<1>5. Quiet(Chats) \/ Ends(Players)
  BY <1>1, LeaveTalkDoes DEF AllTypes, IdsOK
<1>6. /\ Hears(Host)' /\ Once(notices'[Host], "open")
      /\ Has(notices'[Host], "open") => Has(notices[Host], "open")
  <2>1. CASE Quiet(Chats)
    <3>1. PICK e \in Seq(Tells) : notices'[Host] = q \o e /\ \A n \in Sent(e) : n.type \in Chats
      BY <1>4, <2>1 DEF Quiet
    <3>2. ~Has(e, "open")
      BY <3>1 DEF Has, Chats
    <3>3. (Has(notices'[Host], "open") => Has(q, "open")) /\ Once(notices'[Host], "open")
      BY <1>4, <3>1, <3>2, HasSteps
    <3>4. Hears(Host)'
      BY <1>2, <1>4, <2>1, QuietIds
    <3>. QED BY <1>4, <3>3, <3>4
  <2>2. CASE Ends(Players)
    <3>1. Hears(Host)'
      BY <1>2, <1>4, <2>2, EndsIds
    <3>2. PICK o : o = ClosedNow(talk) /\ o \in Tells /\ o.type = "closed"
      BY <2>2, ClosedIs DEF AllTypes, Ends
    <3>3. notices'[Host] = q \o <<>> \o <<o>> /\ q \o <<>> = q
      BY <1>4, <2>2, <3>2 DEF Ends
    <3>4. PICK d : d = <<o>> /\ d \in Seq(Tells)
      BY <3>2, Sends12
    <3>5. ~Has(d, "open") /\ notices'[Host] = q \o d
      BY <3>2, <3>3, <3>4, HasFew
    <3>6. (Has(q \o d, "open") <=> Has(q, "open") \/ Has(d, "open")) /\ (Once(q, "open") /\ ~Has(d, "open") => Once(q \o d, "open"))
      BY <1>4, <3>4, HasSteps
    <3>. QED BY <1>4, <3>1, <3>5, <3>6
  <2>. QED BY <1>5, <2>1, <2>2
<1>. QED BY <1>1, <1>2, <1>3, <1>4, <1>6, HostKept

\* Every step.
LEMMA HostStep == ASSUME AllTypes, IdsOK, HostInv, Calm, [Next]_vars PROVE HostInv'
<1>1. CASE Next
  BY <1>1, HostReadsHost, HostGameReads, HostLeave, HostLocal, HostUpdateHost, Zenon DEF Next
<1>2. CASE UNCHANGED vars
  BY <1>2 DEF vars, gameVars, serviceVars, engineVars, hostGameVars, ruleVars, HostInv, OpensSoon, Hears
<1>. QED BY <1>1, <1>2

\* The start.
LEMMA EndInit == Init => EndInv /\ HostInv
<1>. SUFFICES ASSUME Init PROVE EndInv /\ HostInv
  OBVIOUS
<1>1. /\ Host \in Players /\ conn[Host] = "open" /\ opening[Host] = FALSE /\ talk = NoTalk /\ talk.id = 0 /\ lastTalk = 0
      /\ \A p \in Players : conv[p] = 0 /\ notices[p] = <<>> /\ requests[p] = <<>>
  BY PlayersAssumption, BoundsAssumption DEF Init, NoTalk
<1>2. \A p \in Players : Hears(p)
  BY <1>1, HearsNothing
<1>3. IdsOK
  BY <1>1, SentFew DEF IdsOK, Numbered, Closing
<1>4. HostInv
  BY <1>1, <1>2, HasFew DEF HostInv, OpensSoon, Guests
<1>. QED BY <1>2, <1>3, <1>4 DEF EndInv, Members

\* The end of a conversation reaches every guest's game that is in it, however calls, talks and lost players fall: it, or a newer
\* conversation, is on its way (HostDialogue's Tell).
GuestsHear == \A p \in Members \ {Host} : conv[p] # 0 /\ conv[p] # talk.id =>
    \E i \in DOMAIN notices[p] : Over(notices[p][i], conv[p])
\* For any talks, at any moment, and whoever leaves.
THEOREM GuestsHearTheEnd == Spec => []GuestsHear
<1>1. AllTypes /\ EndInv /\ [Next]_vars => (AllTypes /\ EndInv)'
  BY NextTypes, EndStep
<1>2. EndInv => GuestsHear
  BY DEF EndInv, Hears, ComesTo, OverAfter, GuestsHear
<1>. QED BY <1>1, <1>2, InitTypes, EndInit, PTL DEF Spec

\* While talks begin one at a time, the host's game hears of it too, though its engine's own end is not told to it.
THEOREM EverybodyHearsTheEnd == ASSUME Calm PROVE Spec => []EndIsHeard
<1>1. AllTypes /\ EndInv /\ HostInv /\ [Next]_vars => (AllTypes /\ EndInv /\ HostInv)'
  BY NextTypes, EndStep, HostStep DEF EndInv
<1>2. EndInv /\ HostInv => EndIsHeard
  BY DEF EndInv, HostInv, Hears, ComesTo, OverAfter, Over, EndIsHeard
<1>. QED BY <1>1, <1>2, InitTypes, EndInit, PTL DEF Spec

-----------------------------------------------------------------------------
(* Who asks, what comes of it, and what each game knows of it.             *)

\* A message of a kind about an NPC.
Of(q, t, n) == \E m \in Sent(q) : m.type = t /\ m.npc = n

\* Conversations open in order, each later than the one the game is in.
Rising(q, c) == \A i \in DOMAIN q : q[i].type = "open" =>
    c < q[i].conv /\ \A j \in DOMAIN q : i < j /\ q[j].type = "open" => q[i].conv < q[j].conv

\* What each game knows of the conversation: it is in it, is to read of it, or is the host's, whose engine has left it.
Knows(p) ==
    /\ \/ conv[p] = talk.id
       \/ \E m \in Sent(notices[p]) : m.type = "open" /\ m.conv = talk.id
       \/ p = Host /\ (Flag(requests[Host]) \/ Has(requests[Host], "opened"))
    /\ conv[p] = talk.id => npc[p] = talk.npc
    /\ \A m \in Sent(notices[p]) : m.type = "open" /\ m.conv = talk.id => m.npc = talk.npc
KnowInv ==
    /\ \A p \in Players : Rising(notices[p], conv[p])
    /\ talk # NoTalk => \A p \in Members : Knows(p)

\* What the host's game has heard of its engine, and the conversation that comes of it.
RunInv ==
    /\ speaker[Host] # None => SpeakerChanged \/ OpensSoon \/ conv[Host] # 0
    /\ conv[Host] # 0 => npc[Host] = heard /\ heard # None
    /\ \A m \in Sent(requests[Host]) : m.type = "opened" => m.npc = heard
    /\ \A m \in Sent(notices[Host]) : m.type = "open" => m.npc = heard

\* One player asks at a time, and something is to come of it.
IsAsked == hostAsked # NotAsked
AskOf(p) ==
    \/ Of(requests[p], "start", asked[p])
    \/ hostAsked = [player |-> p, npc |-> asked[p]]
    \/ Of(notices[p], "refused", asked[p])
    \/ Has(notices[p], "open")
AskInv ==
    /\ asked[Host] = None /\ \A p, q \in Players : asked[p] # None /\ asked[q] # None => p = q
    /\ \A p \in Players : conn[p] # "open" => asked[p] = None /\ requests[p] = <<>>
    /\ ~Has(requests[Host], "start")
    /\ \A p \in Guests : ~Has(notices[p], "start") /\ ~Has(requests[p], "failed")
    /\ \A p \in Members : asked[p] # None => AskOf(p)

\* The host's game can begin a conversation with an NPC.
Turned == SpeakerChanged /\ speaker[Host] # None
Clear(n) == ~OpensSoon /\ ~Turned /\ speaker[Host] # n /\ heard # n /\ n # None

\* Nothing ends behind an ask.
Behind(q) == \A i, j \in DOMAIN q : q[i].type = "start" /\ i < j => q[j].type # "closed"

StartInv ==
    /\ \A p \in Guests : Once(requests[p], "start") /\ \A m \in Sent(requests[p]) : m.type = "start" =>
           m.npc = asked[p] /\ Clear(m.npc) /\ talk.npc # m.npc /\ ~IsAsked
    /\ Once(notices[Host], "start") /\ Behind(notices[Host])
    /\ \A m \in Sent(notices[Host]) : m.type = "start" =>
           IsAsked /\ hostAsked.npc = m.npc /\ Clear(m.npc) /\ ~Has(requests[Host], "failed")
    /\ Has(requests[Host], "failed") => ~Turned /\ ~Has(requests[Host], "opened")
    /\ IsAsked =>
         /\ talk = NoTalk /\ hostAsked.player \in Guests /\ asked[hostAsked.player] = hostAsked.npc /\ hostAsked.npc # None
         /\ \/ Has(notices[Host], "start")
            \/ Of(requests[Host], "failed", hostAsked.npc)
            \/ Turned /\ speaker[Host] = hostAsked.npc /\ conv[Host] = 0
            \/ Of(requests[Host], "opened", hostAsked.npc)

\* A conversation nobody is in: the host's menu is to open on it, or its game has said, or is to say, that it is in, or out.
JoinsIt(q) == \E m \in Sent(q) : m.type = "join" /\ m.conv = talk.id
Leaves(q) == \E m \in Sent(q) : m.type = "close" /\ ~m.flag
EmptyInv ==
    /\ (Turned \/ Has(requests[Host], "opened")) /\ ~IsAsked => menu[Host] # "closed"
    /\ ~(Has(requests[Host], "join") /\ Leaves(requests[Host]))
    /\ talk # NoTalk /\ talk.players = {} =>
        \/ Has(notices[Host], "open") /\ menu[Host] # "closed"
        \/ conv[Host] = talk.id /\ ~SpeakerChanged /\ ~joined[Host] /\ menu[Host] # "closed"
        \/ conv[Host] = talk.id /\ SpeakerChanged
        \/ JoinsIt(requests[Host])
        \/ Flag(requests[Host]) \/ Has(requests[Host], "opened")

\* What a game reads before its ask is answered is not the answer.
PendInv == \A p \in Guests : Has(requests[p], "start") \/ hostAsked.player = p => ~Has(notices[p], "open") /\ ~Has(notices[p], "refused")

TalkInv == KnowInv /\ RunInv /\ AskInv /\ StartInv /\ EmptyInv /\ PendInv

\* What is in a channel after a step.
LEMMA OfSteps ==
    ASSUME NEW S, NEW q \in Seq(S)
    PROVE  /\ \A e \in Seq(S) : /\ \A t, n : Of(q \o e, t, n) <=> Of(q, t, n) \/ Of(e, t, n)
                                /\ Behind(q) /\ ~Has(e, "closed") => Behind(q \o e)
                                /\ ~Has(q, "start") /\ ~Has(e, "start") => Behind(q \o e)
           /\ q # <<>> => /\ \A t, n : Of(q, t, n) <=> Of(Tail(q), t, n) \/ (Head(q).type = t /\ Head(q).npc = n)
                          /\ \A t : Has(q, t) <=> Has(Tail(q), t) \/ Head(q).type = t
                          /\ Behind(q) => Behind(Tail(q))
                          /\ Behind(q) /\ Head(q).type = "start" => ~Has(Tail(q), "closed")
<1>1. ASSUME NEW e \in Seq(S)
      PROVE  /\ \A t, n : Of(q \o e, t, n) <=> Of(q, t, n) \/ Of(e, t, n)
             /\ Behind(q) /\ ~Has(e, "closed") => Behind(q \o e)
             /\ ~Has(q, "start") /\ ~Has(e, "start") => Behind(q \o e)
  <2>1. PICK u : u = q \o e /\ Joined(q, e, u)
    BY JoinFacts
  <2>2. Sent(u) = Sent(q) \cup Sent(e)
    BY <2>1, JoinedSent
  <2>3. ASSUME Behind(q), ~Has(e, "closed") PROVE Behind(u)
    <3>1. ASSUME NEW i \in DOMAIN u, NEW j \in DOMAIN u, u[i].type = "start", i < j, u[j].type = "closed" PROVE FALSE
      <4>1. j \in DOMAIN q
        BY <2>1, <2>3, <3>1 DEF Joined, Has, Sent
      <4>2. i \in DOMAIN q
        BY <2>1, <3>1, <4>1 DEF Joined
      <4>. QED BY <2>1, <2>3, <3>1, <4>1, <4>2 DEF Behind, Joined
    <3>. QED BY <3>1 DEF Behind
  <2>4. ASSUME ~Has(q, "start"), ~Has(e, "start") PROVE Behind(u)
    <3>1. ~Has(u, "start")
      BY <2>2, <2>4 DEF Has
    <3>. QED BY <3>1 DEF Has, Sent, Behind
  <2>. QED BY <2>1, <2>2, <2>3, <2>4 DEF Of
<1>2. ASSUME q # <<>>
      PROVE  /\ \A t, n : Of(q, t, n) <=> Of(Tail(q), t, n) \/ (Head(q).type = t /\ Head(q).npc = n)
             /\ \A t : Has(q, t) <=> Has(Tail(q), t) \/ Head(q).type = t
             /\ Behind(q) => Behind(Tail(q))
             /\ Behind(q) /\ Head(q).type = "start" => ~Has(Tail(q), "closed")
  <2>1. PICK u : u = Tail(q) /\ FirstTaken(q, u)
    BY <1>2, ReadFacts
  <2>2. Head(q) \in Sent(q) /\ Sent(u) \subseteq Sent(q) /\ Sent(q) \subseteq Sent(u) \cup {Head(q)}
    BY <2>1, ReadSent
  <2>3. Behind(q) => Behind(u)
    BY <2>1 DEF FirstTaken, Behind
  <2>4. ASSUME Behind(q), Head(q).type = "start" PROVE ~Has(u, "closed")
    BY <2>1, <2>4 DEF FirstTaken, Behind, Has, Sent
  <2>. QED BY <2>1, <2>2, <2>3, <2>4 DEF Of, Has
<1>. QED BY <1>1, <1>2

\* Conversations in order.
LEMMA RisingSteps ==
    ASSUME NEW q \in Seq(Tells), NEW c \in Nat, Rising(q, c)
    PROVE  /\ \A e \in Seq(Tells) : ~Has(e, "open") => Rising(q \o e, c)
           /\ \A l \in Nat, e \in Seq(Tells), o \in Tells :
                 Numbered(q, c, l) /\ ~Has(e, "open") /\ o.type = "open" /\ o.conv = l + 1 => Rising(q \o e \o <<o>>, c)
           /\ Rising(q, 0)
           /\ q # <<>> => /\ Rising(Tail(q), c) /\ Rising(Tail(q), 0)
                          /\ Head(q).type = "open" => c < Head(q).conv /\ Rising(Tail(q), Head(q).conv)
<1>1. ASSUME NEW e \in Seq(Tells), ~Has(e, "open") PROVE Rising(q \o e, c)
  <2>1. PICK u : u = q \o e /\ Joined(q, e, u)
    BY JoinFacts
  <2>2. \A i \in DOMAIN u : u[i].type = "open" => i \in DOMAIN q /\ u[i] = q[i]
    BY <1>1, <2>1 DEF Joined, Has, Sent
  <2>. QED BY <2>1, <2>2 DEF Rising
<1>2. ASSUME NEW l \in Nat, NEW e \in Seq(Tells), NEW o \in Tells, Numbered(q, c, l), ~Has(e, "open"), o.type = "open", o.conv = l + 1
      PROVE  Rising(q \o e \o <<o>>, c)
  <2>1. PICK v : v = q \o e /\ v \in Seq(Tells) /\ Joined(q, e, v) /\ Sent(v) = Sent(q) \cup Sent(e)
    BY JoinFacts, JoinedSent
  <2>2. Rising(v, c)
    BY <1>1, <1>2, <2>1
  <2>3. PICK d : d = <<o>> /\ d \in Seq(Tells)
    BY Sends12
  <2>4. PICK u : u = v \o d /\ Joined(v, d, u)
    BY <2>1, <2>3, JoinFacts
  <2>5. \A i \in DOMAIN v : v[i].type = "open" => v[i].conv \in 1 .. l
    BY <1>2, <2>1 DEF Numbered, Has, Sent
  <2>6. c \in 0 .. l
    BY <1>2 DEF Numbered
  <2>7. \A i \in DOMAIN u : (i \in DOMAIN v /\ u[i] = v[i]) \/ (u[i] = o /\ i = Len(v) + 1 /\ \A j \in DOMAIN v : j < i)
    <3>1. \A i \in DOMAIN d : i = 1 /\ d[i] = o
      BY <2>3
    <3>. QED BY <2>4, <3>1 DEF Joined
  <2>8. DOMAIN u \subseteq Nat /\ Len(v) \in Nat
    BY <2>4 DEF Joined
  <2>9. ASSUME NEW i \in DOMAIN u, u[i].type = "open" PROVE c < u[i].conv
    BY <1>2, <2>2, <2>5, <2>6, <2>7, <2>9 DEF Rising
  <2>10. ASSUME NEW i \in DOMAIN u, NEW j \in DOMAIN u, u[i].type = "open", u[j].type = "open", i < j PROVE u[i].conv < u[j].conv
    <3>1. i \in DOMAIN v /\ u[i] = v[i]
      BY <2>7, <2>8, <2>10
    <3>2. CASE j \in DOMAIN v /\ u[j] = v[j]
      BY <2>2, <2>10, <3>1, <3>2 DEF Rising
    <3>3. CASE u[j] = o
      <4>1. v[i].conv \in 1 .. l
        BY <2>5, <2>10, <3>1
      <4>. QED BY <1>2, <3>1, <3>3, <4>1
    <3>. QED BY <2>7, <3>2, <3>3
  <2>11. Rising(u, c)
    BY <2>9, <2>10 DEF Rising
  <2>. QED BY <2>1, <2>3, <2>4, <2>11
<1>3. Rising(q, 0)
  <2>1. \A i \in DOMAIN q : q[i].conv \in Nat
    BY DEF Tells, Notice
  <2>. QED BY <2>1 DEF Rising
<1>4. ASSUME q # <<>>
      PROVE  /\ Rising(Tail(q), c) /\ Rising(Tail(q), 0)
             /\ Head(q).type = "open" => c < Head(q).conv /\ Rising(Tail(q), Head(q).conv)
  <2>1. PICK u : u = Tail(q) /\ FirstTaken(q, u)
    BY <1>4, ReadFacts
  <2>2. ASSUME NEW d, Rising(q, d) PROVE Rising(u, d)
    BY <2>1, <2>2 DEF FirstTaken, Rising
  <2>3. ASSUME Head(q).type = "open" PROVE c < Head(q).conv /\ Rising(u, Head(q).conv)
    BY <2>1, <2>3 DEF FirstTaken, Rising
  <2>. QED BY <1>3, <2>1, <2>2, <2>3
<1>. QED BY <1>1, <1>2, <1>3, <1>4

\* A channel with nothing in it.
LEMMA NothingIn ==
    /\ \A t : ~Has(<<>>, t) /\ Once(<<>>, t)
    /\ \A t, n : ~Of(<<>>, t, n)
    /\ ~Flag(<<>>) /\ Sent(<<>>) = {} /\ Behind(<<>>) /\ \A c : Rising(<<>>, c)
BY SentFew DEF Has, Once, Of, Flag, Behind, Rising

\* The channels of a player.
LEMMA Channels ==
    ASSUME AllTypes
    PROVE  /\ \A p \in Players : requests[p] \in Seq(Asks) /\ notices[p] \in Seq(Tells) /\ conv[p] \in Nat
           /\ Host \in Players /\ Host \notin Guests /\ (\A p \in Players : p = Host \/ p \in Guests) /\ Guests \subseteq Players
BY PlayersAssumption DEF AllTypes, RequestsOK, NoticesOK, ServiceOK, Guests

\* A step that begins, opens and ends nothing, and asks for nothing.
LEMMA TalkAside ==
    ASSUME AllTypes, TalkInv, NEW p \in Players, NEW e \in Seq(Asks), Sends(p, e),
           \A m \in Sent(e) : m.type \in {"pick", "options"} \/ (p # Host /\ m.type \in {"join", "close"}),
           conn[p] = "open" \/ e = <<>>,
           UNCHANGED <<notices, talk, hostAsked, asked, conv, npc, conn, heard>>,
           speaker'[Host] = speaker[Host], joined'[Host] = joined[Host], menu'[Host] \in {menu[Host], "open", "coming"}
    PROVE  TalkInv'
<1>1. /\ requests'[p] = requests[p] \o e /\ \A q \in Players : q # p => requests'[q] = requests[q]
      /\ \A q \in Players : requests[q] \in Seq(Asks)
  BY SendsType DEF AllTypes, RequestsOK
<1>2. PICK s : s = requests[p] \o e
  OBVIOUS
<1>3. Sent(s) = Sent(requests[p]) \cup Sent(e) /\ requests'[p] = s
  BY <1>1, <1>2, SentJoin
<1>4. Once(requests[p], "start") => Once(s, "start")
  <2>1. ~Has(e, "start")
    BY DEF Has
  <2>. QED BY <1>1, <1>2, <2>1, HasSteps
<1>5. \A q \in Players : /\ \A t \in {"start", "failed", "opened"} : /\ Has(requests'[q], t) <=> Has(requests[q], t)
                                                                    /\ \A n : Of(requests'[q], t, n) <=> Of(requests[q], t, n)
                         /\ Once(requests[q], "start") => Once(requests'[q], "start")
                         /\ \A m \in Sent(requests'[q]) : m.type \in {"start", "opened"} => m \in Sent(requests[q])
  BY <1>1, <1>3, <1>4 DEF Has, Of
<1>6. /\ Flag(requests'[Host]) <=> Flag(requests[Host])
      /\ Has(requests'[Host], "join") <=> Has(requests[Host], "join")
      /\ Leaves(requests'[Host]) <=> Leaves(requests[Host])
      /\ \A c : (\E m \in Sent(requests'[Host]) : m.type = "join" /\ m.conv = c) <=> \E m \in Sent(requests[Host]) : m.type = "join" /\ m.conv = c
  <2>1. \A m \in Sent(requests'[Host]) : m.type \in {"join", "close"} => m \in Sent(requests[Host])
    <3>1. Host \in Players
      BY PlayersAssumption
    <3>2. CASE p = Host
      <4>1. \A m \in Sent(e) : m.type \notin {"join", "close"}
        BY <3>2
      <4>. QED BY <1>3, <3>2, <4>1
    <3>3. CASE p # Host
      BY <1>1, <3>1, <3>3
    <3>. QED BY <3>2, <3>3
  <2>2. Host \in Players
    BY PlayersAssumption
  <2>3. Sent(requests[Host]) \subseteq Sent(requests'[Host])
    BY <1>1, <1>3, <2>2
  <2>. QED BY <2>1, <2>3 DEF Flag, Has, Leaves
<1>7. Host \in Players /\ Guests \subseteq Players /\ Members' = Members
  BY PlayersAssumption DEF Guests, Members
<1>8. OpensSoon' <=> OpensSoon
  BY <1>5, <1>7 DEF OpensSoon
<1>9. (SpeakerChanged' <=> SpeakerChanged) /\ (Turned' <=> Turned) /\ (IsAsked' <=> IsAsked)
  BY DEF SpeakerChanged, Turned, IsAsked
<1>10. KnowInv'
  BY <1>5, <1>6, <1>7 DEF TalkInv, KnowInv, Knows
<1>11. RunInv'
  BY <1>5, <1>7, <1>8, <1>9 DEF TalkInv, RunInv
<1>12. AskInv'
  <2>1. \A q \in Players : conn[q] # "open" => requests'[q] = requests[q]
    <3>1. e = <<>> => requests'[p] = requests[p]
      BY <1>1
    <3>. QED BY <1>1, <3>1
  <2>2. \A q \in Members : AskOf(q) => AskOf(q)'
    BY <1>5 DEF AskOf, Members
  <2>. QED BY <1>5, <1>7, <2>1, <2>2 DEF TalkInv, AskInv
<1>13. StartInv'
  <2>1. \A n : Clear(n) => Clear(n)'
    BY <1>8, <1>9 DEF Clear
  <2>2. \A q \in Guests : Once(requests'[q], "start") /\ \A m \in Sent(requests'[q]) : m.type = "start" =>
           m.npc = asked'[q] /\ Clear(m.npc)' /\ talk'.npc # m.npc /\ ~IsAsked'
    BY <1>5, <1>7, <1>9, <2>1 DEF TalkInv, StartInv
  <2>3. \A m \in Sent(notices'[Host]) : m.type = "start" =>
           IsAsked' /\ hostAsked'.npc = m.npc /\ Clear(m.npc)' /\ ~Has(requests'[Host], "failed")
    BY <1>5, <1>7, <1>9, <2>1 DEF TalkInv, StartInv
  <2>. QED BY <1>5, <1>7, <1>9, <2>2, <2>3 DEF TalkInv, StartInv
<1>14. EmptyInv'
  BY <1>5, <1>6, <1>7, <1>9 DEF TalkInv, EmptyInv, JoinsIt
<1>15. PendInv'
  BY <1>5, <1>7 DEF TalkInv, PendInv
<1>. QED BY <1>10, <1>11, <1>12, <1>13, <1>14, <1>15 DEF TalkInv

\* A game whose engine's conversation ends, or whose player closes its menu: the host's.
LEMMA HostMenuCloses ==
    ASSUME AllTypes, HostInv, TalkInv, HostIdle, conv[Host] # 0, menu'[Host] = "closed",
           UNCHANGED <<notices, requests, talk, hostAsked, asked, conv, npc, conn, heard, joined>>,
           speaker'[Host] = None \/ (speaker'[Host] = speaker[Host] /\ ~SpeakerChanged /\ ~Joins(Host) /\ MenuOpen(Host))
    PROVE  TalkInv'
<1>1. Members' = Members /\ ~OpensSoon /\ ~OpensSoon'
  BY DEF Members, HostInv, OpensSoon
<1>2. npc[Host] = heard /\ heard # None
  BY DEF TalkInv, RunInv
<1>3. ~Turned'
  BY DEF Turned, SpeakerChanged
<1>4. \A n : Clear(n) => Clear(n)'
  BY <1>1, <1>3 DEF Clear
<1>5. requests[Host] = <<>> /\ ~Has(requests[Host], "opened")
  BY NothingIn DEF HostIdle
<1>6. KnowInv'
  BY <1>1 DEF TalkInv, KnowInv, Knows
<1>7. RunInv'
  BY <1>1 DEF TalkInv, RunInv
<1>8. AskInv'
  BY <1>1 DEF TalkInv, AskInv, AskOf
<1>9. StartInv'
  <2>1. \A q \in Guests : Once(requests'[q], "start") /\ \A m \in Sent(requests'[q]) : m.type = "start" =>
           m.npc = asked'[q] /\ Clear(m.npc)' /\ talk'.npc # m.npc /\ ~IsAsked'
    BY <1>4 DEF TalkInv, StartInv, IsAsked
  <2>2. \A m \in Sent(notices'[Host]) : m.type = "start" =>
           IsAsked' /\ hostAsked'.npc = m.npc /\ Clear(m.npc)' /\ ~Has(requests'[Host], "failed")
    BY <1>4 DEF TalkInv, StartInv, IsAsked
  <2>. QED BY <1>3, <2>1, <2>2 DEF TalkInv, StartInv, IsAsked
<1>10. EmptyInv'
  <2>1. ASSUME talk # NoTalk, talk.players = {} PROVE conv[Host] = talk.id
    BY <1>1, <1>5, <2>1, NothingIn DEF TalkInv, EmptyInv, JoinsIt, OpensSoon
  <2>2. ASSUME talk # NoTalk, talk.players = {} PROVE SpeakerChanged'
    <3>1. CASE speaker'[Host] = None
      BY <1>2, <3>1 DEF SpeakerChanged
    <3>2. CASE speaker'[Host] = speaker[Host] /\ ~SpeakerChanged /\ ~Joins(Host) /\ MenuOpen(Host)
      BY <1>1, <1>2, <1>5, <2>2, <3>2, NothingIn DEF TalkInv, EmptyInv, JoinsIt, OpensSoon, Joins, InIt, SpeakerChanged
    <3>. QED BY <3>1, <3>2
  <2>. QED BY <1>1, <1>3, <1>5, <2>1, <2>2, NothingIn DEF TalkInv, EmptyInv
<1>11. PendInv'
  BY DEF TalkInv, PendInv
<1>. QED BY <1>6, <1>7, <1>8, <1>9, <1>10, <1>11 DEF TalkInv

\* When nothing is under way.
LEMMA NothingBegunIs ==
    ASSUME AllTypes, HostInv, TalkInv, EndInv, NothingBegun
    PROVE  /\ \A p \in Players : requests[p] = <<>> /\ asked[p] = None /\ \A t, n : ~Has(requests[p], t) /\ ~Of(requests[p], t, n)
           /\ \A p \in Members : notices[p] = <<>> /\ ~Has(notices[p], "start") /\ ~Has(notices[p], "open")
           /\ Host \in Members /\ ~IsAsked /\ ~OpensSoon /\ ~Flag(requests[Host]) /\ ~SpeakerChanged /\ ~Turned /\ ~UpdateDue(Host)
           /\ talk # NoTalk => \A p \in Members : conv[p] = talk.id /\ npc[p] = talk.npc
           /\ \A p \in Members : conv[p] # 0 => conv[p] = talk.id
<1>1. Host \in Members /\ Members \subseteq Players
  BY HostChannels DEF Members
<1>2. \A p \in Members : requests[p] = <<>> /\ notices[p] = <<>> /\ asked[p] = None /\ ~UpdateDue(p)
  BY DEF NothingBegun, Settled
<1>3. \A p \in Players : requests[p] = <<>> /\ asked[p] = None
  BY <1>2 DEF TalkInv, AskInv, Members
<1>4. ~SpeakerChanged /\ ~Turned
  BY <1>1, <1>2 DEF UpdateDue, Turned
<1>5. ~IsAsked
  BY DEF NothingBegun, IsAsked
<1>6. ~OpensSoon /\ ~Flag(requests[Host])
  BY <1>1, <1>2, NothingIn DEF OpensSoon
<1>7. talk # NoTalk => \A p \in Members : conv[p] = talk.id /\ npc[p] = talk.npc
  BY <1>1, <1>2, <1>6, NothingIn DEF TalkInv, KnowInv, Knows, OpensSoon
<1>8. \A p \in Members : conv[p] # 0 => conv[p] = talk.id
  <2>1. \A p \in Members : Hears(p)
    BY DEF EndInv, HostInv
  <2>. QED BY <1>2, <2>1 DEF Hears, ComesTo, OverAfter
<1>9. \A p \in Players : \A t, n : ~Has(requests[p], t) /\ ~Of(requests[p], t, n)
  BY <1>3, NothingIn
<1>10. \A p \in Members : ~Has(notices[p], "start") /\ ~Has(notices[p], "open")
  BY <1>2, NothingIn
<1>. QED BY <1>1, <1>2, <1>3, <1>4, <1>5, <1>6, <1>7, <1>8, <1>9, <1>10

\* A player asks.
LEMMA TalkGuestTalks ==
    ASSUME AllTypes, HostInv, TalkInv, EndInv, Calm, NEW p \in Players, NEW n \in Npcs, GuestTalks(p, n)
    PROVE  TalkInv'
<1>1. /\ p \in Guests \intersect Members /\ p # Host /\ UNCHANGED <<conn, notices, talk, lastTalk, hostAsked, conv, npc, heard, joined>>
  BY DEF GuestTalks, serviceVars, hostGameVars, ruleVars, Guests
<1>2. CASE speaker' = [speaker EXCEPT ![p] = n] /\ menu' = [menu EXCEPT ![p] = "coming"] /\ UNCHANGED <<asked, requests>>
  <2>1. speaker'[Host] = speaker[Host] /\ menu'[Host] = menu[Host]
    BY <1>1, <1>2, Channels DEF AllTypes, EngineOK
  <2>2. <<>> \in Seq(Asks) /\ Sends(p, <<>>) /\ Sent(<<>>) = {}
    <3>1. requests[p] \o <<>> = requests[p] /\ requests = [requests EXCEPT ![p] = requests[p]]
      BY DEF AllTypes, RequestsOK
    <3>. QED BY <1>2, <3>1, SentFew DEF Sends
  <2>. QED BY <1>1, <1>2, <2>1, <2>2, TalkAside
<1>3. CASE /\ ~(conv[p] # 0 /\ n = npc[p]) /\ NothingBegun /\ asked' = [asked EXCEPT ![p] = n]
           /\ Sends(p, <<Msg("start", 0, n, 0, FALSE)>>) /\ UNCHANGED engineVars
  <2>1. /\ \A q \in Players : requests[q] = <<>> /\ asked[q] = None /\ \A t, k : ~Has(requests[q], t) /\ ~Of(requests[q], t, k)
        /\ Host \in Members /\ ~IsAsked /\ ~OpensSoon /\ ~Flag(requests[Host]) /\ ~SpeakerChanged /\ ~Turned
        /\ talk # NoTalk => \A q \in Members : conv[q] = talk.id /\ npc[q] = talk.npc
        /\ \A q \in Members : conv[q] # 0 => conv[q] = talk.id
    BY <1>3, NothingBegunIs
  <2>2. PICK a : a = Msg("start", 0, n, 0, FALSE) /\ a.type = "start" /\ a.npc = n
    <3>1. Msg("start", 0, n, 0, FALSE).type = "start" /\ Msg("start", 0, n, 0, FALSE).npc = n
      BY DEF Msg
    <3>. QED BY <3>1
  <2>3. a \in Asks /\ <<a>> \in Seq(Asks)
    <3>1. 0 \in 0 .. MaxSteps
      BY BoundsAssumption
    <3>2. a \in Asks
      BY <2>2, <3>1, MessageIs
    <3>. QED BY <3>2, Sends12
  <2>4. PICK s : s = <<a>> /\ s \in Seq(Asks) /\ Sent(s) = {a} /\ Once(s, "start")
    <3>1. Sent(<<a>>) = {a}
      BY SentFew
    <3>2. Once(<<a>>, "start")
      BY HasFew
    <3>. QED BY <2>3, <3>1, <3>2
  <2>5. Sends(p, s)
    BY <1>3, <2>2, <2>4, Zenon
  <2>6. requests'[p] = <<>> \o s /\ \A q \in Players : q # p => requests'[q] = <<>>
    BY <2>1, <2>4, <2>5, SendsType DEF AllTypes
  <2>7. requests'[p] = s /\ requests'[Host] = requests[Host]
    <3>1. <<>> \o s = s
      BY <2>4
    <3>. QED BY <1>1, <2>1, <2>6, <3>1, Channels
  <2>8. asked'[p] = n /\ n # None /\ asked'[Host] = None /\ \A q \in Players : q # p => asked'[q] = None
    BY <1>1, <1>3, <2>1, PlayersAssumption DEF AllTypes, ScreenOK
  <2>9. Members' = Members /\ speaker' = speaker /\ menu' = menu
    BY <1>1, <1>3 DEF Members, engineVars
  <2>10. talk.npc # n
    <3>1. ASSUME talk.npc = n PROVE FALSE
      <4>1. talk # NoTalk /\ talk.id # 0
        BY <2>8, <3>1 DEF NoTalk, EndInv, IdsOK
      <4>. QED BY <1>1, <1>3, <2>1, <3>1, <4>1
    <3>. QED BY <3>1
  <2>11. speaker[Host] # n /\ heard # n
    <3>1. ASSUME speaker[Host] = n PROVE FALSE
      <4>1. conv[Host] # 0
        BY <2>1, <2>8, <3>1 DEF TalkInv, RunInv
      <4>2. talk # NoTalk
        BY <2>1, <4>1 DEF NoTalk
      <4>3. npc[Host] = talk.npc /\ npc[Host] = heard
        BY <2>1, <4>1, <4>2 DEF TalkInv, RunInv
      <4>. QED BY <2>1, <2>10, <3>1, <4>3 DEF SpeakerChanged
    <3>. QED BY <2>1, <3>1 DEF SpeakerChanged
  <2>12. (IsAsked' <=> IsAsked) /\ (OpensSoon' <=> OpensSoon) /\ (Turned' <=> Turned) /\ (SpeakerChanged' <=> SpeakerChanged)
    BY <1>1, <2>7, <2>9 DEF IsAsked, OpensSoon, Turned, SpeakerChanged
  <2>13. Clear(n)'
    BY <1>1, <2>1, <2>8, <2>9, <2>11, <2>12 DEF Clear
  <2>14. KnowInv'
    BY <1>1, <2>7, <2>9 DEF TalkInv, KnowInv, Knows
  <2>15. RunInv'
    BY <1>1, <2>7, <2>9, <2>12 DEF TalkInv, RunInv
  <2>16. AskInv'
    <3>1. \A q \in Players : conn[q] # "open" => q # p
      BY <1>1 DEF Members
    <3>2. Of(requests'[p], "start", n)
      BY <2>2, <2>4, <2>7 DEF Of
    <3>3. AskOf(p)'
      BY <2>8, <3>2 DEF AskOf
    <3>4. \A q \in Guests : ~Has(requests'[q], "failed")
      <4>1. ~Has(s, "failed")
        BY <2>2, <2>4 DEF Has
      <4>. QED BY <2>6, <2>7, <4>1, NothingIn DEF Guests
    <3>5. ~Has(requests'[Host], "start")
      BY <2>7 DEF TalkInv, AskInv
    <3>. QED BY <1>1, <2>6, <2>8, <2>9, <3>1, <3>3, <3>4, <3>5 DEF TalkInv, AskInv, Members
  <2>17. StartInv'
    <3>1. \A q \in Guests : q # p => requests'[q] = <<>>
      BY <2>6 DEF Guests
    <3>2. \A q \in Guests : Once(requests'[q], "start") /\ \A m \in Sent(requests'[q]) : m.type = "start" =>
             m.npc = asked'[q] /\ Clear(m.npc)' /\ talk'.npc # m.npc /\ ~IsAsked'
      BY <1>1, <2>1, <2>2, <2>4, <2>7, <2>8, <2>10, <2>12, <2>13, <3>1, NothingIn
    <3>3. \A m \in Sent(notices[Host]) : m.type # "start"
      BY <2>1 DEF TalkInv, StartInv
    <3>. QED BY <1>1, <2>1, <2>7, <2>12, <3>2, <3>3 DEF TalkInv, StartInv
  <2>18. EmptyInv'
    BY <1>1, <2>7, <2>9, <2>12 DEF TalkInv, EmptyInv, JoinsIt
  <2>19. PendInv'
    <3>1. ~Has(notices[p], "open") /\ ~Has(notices[p], "refused")
      <4>1. notices[p] = <<>>
        BY <1>1, <1>3 DEF NothingBegun, Settled
      <4>. QED BY <4>1, NothingIn
    <3>2. \A q \in Guests : q # p => ~Has(requests'[q], "start")
      BY <2>6, NothingIn DEF Guests
    <3>. QED BY <1>1, <3>1, <3>2 DEF TalkInv, PendInv
  <2>. QED BY <2>14, <2>15, <2>16, <2>17, <2>18, <2>19 DEF TalkInv
<1>4. \/ speaker' = [speaker EXCEPT ![p] = n] /\ menu' = [menu EXCEPT ![p] = "coming"] /\ UNCHANGED <<asked, requests>>
      \/ /\ ~(conv[p] # 0 /\ n = npc[p]) /\ NothingBegun /\ asked' = [asked EXCEPT ![p] = n]
         /\ Sends(p, <<Msg("start", 0, n, 0, FALSE)>>) /\ UNCHANGED engineVars
  BY Zenon DEF GuestTalks
<1>. QED BY <1>2, <1>3, <1>4

\* The host's player talks to an NPC, or is greeted.
LEMMA TalkHostTalks ==
    ASSUME AllTypes, HostInv, TalkInv, EndInv, Calm, NEW n \in Npcs, NEW greet \in BOOLEAN, HostTalks(n, greet)
    PROVE  TalkInv'
<1>1. UNCHANGED <<conn, requests, notices, talk, lastTalk, hostAsked, asked, conv, npc, heard, joined>>
  BY DEF HostTalks, serviceVars, ruleVars
<1>2. CASE menu[Host] = "closed" /\ menu' = [menu EXCEPT ![Host] = "coming"] /\ UNCHANGED speaker
  <2>1. menu'[Host] = "coming" /\ Host \in Players
    BY <1>2, PlayersAssumption DEF AllTypes, EngineOK
  <2>2. <<>> \in Seq(Asks) /\ Sends(Host, <<>>) /\ Sent(<<>>) = {}
    <3>1. requests[Host] \o <<>> = requests[Host] /\ requests = [requests EXCEPT ![Host] = requests[Host]]
      BY PlayersAssumption DEF AllTypes, RequestsOK
    <3>. QED BY <1>1, <3>1, SentFew DEF Sends
  <2>. QED BY <1>1, <1>2, <2>1, <2>2, TalkAside
<1>3. CASE /\ NothingBegun /\ speaker' = [speaker EXCEPT ![Host] = n]
           /\ menu' = [menu EXCEPT ![Host] = IF MenuOpen(Host) THEN @ ELSE "coming"]
  <2>1. /\ \A q \in Players : requests[q] = <<>> /\ asked[q] = None /\ \A t, k : ~Has(requests[q], t) /\ ~Of(requests[q], t, k)
        /\ \A q \in Members : notices[q] = <<>> /\ ~Has(notices[q], "start") /\ ~Has(notices[q], "open")
        /\ Host \in Members /\ ~IsAsked /\ ~OpensSoon /\ ~Flag(requests[Host]) /\ ~SpeakerChanged /\ ~Turned
        /\ talk # NoTalk => \A q \in Members : conv[q] = talk.id /\ npc[q] = talk.npc
    BY <1>3, NothingBegunIs
  <2>2. Host \in Players /\ n # None
    BY PlayersAssumption
  <2>3. speaker'[Host] = n /\ menu'[Host] # "closed"
    BY <1>3, <2>2 DEF AllTypes, EngineOK, MenuOpen
  <2>4. Members' = Members /\ ~OpensSoon' /\ ~IsAsked'
    BY <1>1, <2>1 DEF Members, OpensSoon, IsAsked
  <2>5. KnowInv'
    BY <1>1, <2>4 DEF TalkInv, KnowInv, Knows
  <2>6. RunInv'
    <3>1. n = heard => conv[Host] # 0
      BY <2>1, <2>2 DEF TalkInv, RunInv, SpeakerChanged
    <3>. QED BY <1>1, <2>3, <2>4, <3>1 DEF TalkInv, RunInv, SpeakerChanged
  <2>7. AskInv'
    BY <1>1, <2>1, <2>4 DEF TalkInv, AskInv, AskOf
  <2>8. StartInv'
    <3>1. \A q \in Guests : Sent(requests[q]) = {} /\ Once(requests[q], "start")
      BY <2>1, NothingIn DEF Guests
    <3>2. Sent(notices[Host]) = {} /\ Once(notices[Host], "start") /\ Behind(notices[Host])
      BY <2>1, NothingIn
    <3>. QED BY <1>1, <2>1, <2>2, <2>4, <3>1, <3>2 DEF StartInv
  <2>9. EmptyInv'
    <3>1. ASSUME talk # NoTalk, talk.players = {} PROVE conv[Host] = talk.id /\ (n = heard => ~joined[Host])
      <4>1. ~JoinsIt(requests[Host])
        BY <2>1, <2>2 DEF JoinsIt, Has
      <4>. QED BY <2>1, <2>2, <3>1, <4>1 DEF TalkInv, EmptyInv
    <3>. QED BY <1>1, <2>1, <2>2, <2>3, <2>4, <3>1 DEF TalkInv, EmptyInv, SpeakerChanged
  <2>10. PendInv'
    BY <1>1 DEF TalkInv, PendInv
  <2>. QED BY <2>5, <2>6, <2>7, <2>8, <2>9, <2>10 DEF TalkInv
<1>4. \/ menu[Host] = "closed" /\ menu' = [menu EXCEPT ![Host] = "coming"] /\ UNCHANGED speaker
      \/ /\ NothingBegun /\ speaker' = [speaker EXCEPT ![Host] = n]
         /\ menu' = [menu EXCEPT ![Host] = IF MenuOpen(Host) THEN @ ELSE "coming"]
  BY Zenon DEF HostTalks
<1>. QED BY <1>2, <1>3, <1>4

\* Nothing sent, as a sending of nothing.
LEMMA NothingSent == ASSUME AllTypes, NEW p \in Players, UNCHANGED requests PROVE <<>> \in Seq(Asks) /\ Sends(p, <<>>) /\ Sent(<<>>) = {}
<1>1. requests[p] \o <<>> = requests[p] /\ requests = [requests EXCEPT ![p] = requests[p]]
  BY DEF AllTypes, RequestsOK
<1>. QED BY <1>1, SentFew DEF Sends

\* What else a game does by itself.
LEMMA TalkLocal ==
    ASSUME AllTypes, HostInv, TalkInv, Calm,
           \/ \E p \in Players : \/ GuestUpdate(p) \/ MenuComes(p) \/ MenuCloses(p) \/ Picks(p) \/ OpeningLate(p)
           \/ EngineEnds \/ EngineLists
    PROVE  TalkInv'
<1>1. Host \in Players /\ conn[Host] = "open"
  BY PlayersAssumption DEF HostInv
<1>2. ASSUME NEW p \in Players, GuestUpdate(p) PROVE TalkInv'
  <2>1. /\ p \in Players /\ p # Host /\ conn[p] = "open"
        /\ UNCHANGED <<conn, notices, talk, lastTalk, hostAsked, asked, conv, npc, heard>>
        /\ Sends(p, JoinOrLeave(p)) /\ joined' = [joined EXCEPT ![p] = StaysJoined(p)]
        /\ EndsHere(p) \/ UNCHANGED engineVars
    BY <1>2 DEF GuestUpdate, Members, Guests, hostGameVars, ruleVars
  <2>2. PICK e : e = JoinOrLeave(p)
    OBVIOUS
  <2>3. e \in Seq(Asks)
    BY <2>2, JoinOrLeaveHas
  <2>4. \A m \in Sent(e) : m.type \in {"join", "close"}
    <3>1. PICK a, b : a = Msg("join", conv[p], None, 0, FALSE) /\ b = Msg("close", conv[p], None, 0, FALSE)
      OBVIOUS
    <3>2. a.type = "join" /\ b.type = "close"
      BY <3>1 DEF Msg
    <3>3. a \in Asks /\ b \in Asks
      <4>1. conv[p] \in Nat /\ None \in Npcs \union {None} /\ 0 \in 0 .. MaxSteps
        BY Channels, BoundsAssumption
      <4>. QED BY <3>1, <4>1, MessageIs
    <3>4. PICK c, d : c = When(Joins(p), <<a>>) /\ d = When(GoesOut(p), <<b>>)
      OBVIOUS
    <3>5. c \in Seq(Asks) /\ d \in Seq(Asks)
      BY <3>3, <3>4, Sends12
    <3>6. Sent(c) \subseteq {a} /\ Sent(d) \subseteq {b}
      BY <3>4, SentFew DEF When
    <3>7. e = c \o d
      BY <2>2, <3>1, <3>4 DEF JoinOrLeave
    <3>8. Sent(e) = Sent(c) \cup Sent(d)
      BY <3>5, <3>7, SentJoin
    <3>. QED BY <3>2, <3>6, <3>8
  <2>5. speaker'[Host] = speaker[Host] /\ menu'[Host] = menu[Host] /\ joined'[Host] = joined[Host]
    BY <1>1, <2>1 DEF EndsHere, engineVars, AllTypes, EngineOK, ServiceOK
  <2>6. Sends(p, e)
    BY <2>1, <2>2, Zenon
  <2>. QED BY <2>1, <2>3, <2>4, <2>5, <2>6, TalkAside
<1>3. ASSUME NEW p \in Players, MenuComes(p) PROVE TalkInv'
  <2>1. /\ UNCHANGED <<conn, notices, requests, talk, lastTalk, hostAsked, asked, conv, npc, heard, joined, speaker>>
        /\ menu' = [menu EXCEPT ![p] = "open"] \/ (p # Host /\ menu' = [menu EXCEPT ![p] = "closed"])
    BY <1>3 DEF MenuComes, serviceVars, hostGameVars, ruleVars
  <2>2. menu'[Host] \in {menu[Host], "open"}
    BY <1>1, <2>1 DEF AllTypes, EngineOK
  <2>. QED BY <2>1, <2>2, NothingSent, TalkAside
<1>4. ASSUME NEW p \in Players, MenuCloses(p) PROVE TalkInv'
  <2>1. /\ UNCHANGED <<conn, notices, requests, talk, lastTalk, hostAsked, asked, conv, npc, heard, joined>> /\ HostIdle
        /\ menu' = [menu EXCEPT ![p] = "closed"] /\ MenuOpen(p) /\ ~Joins(p)
        /\ speaker' = [speaker EXCEPT ![p] = IF p = Host /\ ~menuEnds THEN @ ELSE None]
        /\ p = Host => ~SpeakerChanged /\ conv[Host] # 0
    BY <1>4 DEF MenuCloses, serviceVars, hostGameVars, ruleVars
  <2>2. CASE p = Host
    <3>1. menu'[Host] = "closed" /\ speaker'[Host] \in {None, speaker[Host]}
      BY <1>1, <2>1, <2>2 DEF AllTypes, EngineOK
    <3>. QED BY <2>1, <2>2, <3>1, HostMenuCloses
  <2>3. CASE p # Host
    <3>1. menu'[Host] = menu[Host] /\ speaker'[Host] = speaker[Host]
      BY <1>1, <2>1, <2>3 DEF AllTypes, EngineOK
    <3>. QED BY <2>1, <3>1, NothingSent, TalkAside
  <2>. QED BY <2>2, <2>3
<1>5. ASSUME NEW p \in Players, Picks(p) PROVE TalkInv'
  <2>1. /\ UNCHANGED <<conn, notices, talk, lastTalk, hostAsked, asked, conv, npc, heard, joined, speaker, menu>>
        /\ conn[p] = "open" /\ step[p] < MaxSteps
        /\ \E own \in BOOLEAN : Sends(p, <<Msg("pick", conv[p], None, step[p], own)>>)
    BY <1>5 DEF Picks, Members, serviceVars, engineVars, hostGameVars, ruleVars
  <2>2. PICK own \in BOOLEAN : Sends(p, <<Msg("pick", conv[p], None, step[p], own)>>)
    BY <2>1
  <2>3. PICK a : a = Msg("pick", conv[p], None, step[p], own)
    OBVIOUS
  <2>4. a \in Asks /\ a.type = "pick"
    <3>1. conv[p] \in Nat /\ None \in Npcs \union {None} /\ step[p] \in 0 .. MaxSteps
      BY DEF AllTypes, ServiceOK
    <3>2. a \in Asks
      BY <2>1, <2>3, <3>1, MessageIs
    <3>. QED BY <2>3, <3>2 DEF Msg
  <2>5. PICK e : e = <<a>> /\ e \in Seq(Asks) /\ Sent(e) = {a}
    <3>1. Sent(<<a>>) = {a} /\ <<a>> \in Seq(Asks)
      BY <2>4, SentFew, Sends12
    <3>. QED BY <3>1
  <2>6. Sends(p, e)
    BY <2>2, <2>3, <2>5, Zenon
  <2>. QED BY <2>1, <2>4, <2>5, <2>6, TalkAside
<1>6. ASSUME NEW p \in Players, OpeningLate(p) PROVE TalkInv'
  <2>1. UNCHANGED <<conn, notices, requests, talk, lastTalk, hostAsked, asked, conv, npc, heard, joined>> /\ EndsHere(p) /\ opening[p]
    BY <1>6 DEF OpeningLate, StillOpening, serviceVars, hostGameVars, ruleVars
  <2>2. p # Host
    BY <2>1 DEF HostInv
  <2>3. speaker'[Host] = speaker[Host] /\ menu'[Host] = menu[Host]
    BY <1>1, <2>1, <2>2 DEF EndsHere, AllTypes, EngineOK
  <2>. QED BY <2>1, <2>3, NothingSent, TalkAside
<1>7. ASSUME EngineEnds PROVE TalkInv'
  <2>1. /\ UNCHANGED <<conn, notices, requests, talk, lastTalk, hostAsked, asked, conv, npc, heard, joined>>
        /\ EndsHere(Host) /\ HostIdle /\ conv[Host] # 0
    BY <1>7 DEF EngineEnds, serviceVars, hostGameVars, ruleVars
  <2>2. speaker'[Host] = None /\ menu'[Host] = "closed"
    BY <1>1, <2>1 DEF EndsHere, AllTypes, EngineOK
  <2>. QED BY <2>1, <2>2, HostMenuCloses
<1>8. ASSUME EngineLists PROVE TalkInv'
  <2>1. /\ UNCHANGED <<conn, notices, talk, lastTalk, hostAsked, asked, conv, npc, heard, joined, speaker, menu>>
        /\ Sends(Host, When(conv[Host] # 0, <<Options(conv[Host], step[Host])>>))
    BY <1>8 DEF EngineLists, serviceVars, engineVars, ruleVars
  <2>2. PICK a : a = Options(conv[Host], step[Host])
    OBVIOUS
  <2>3. a \in Asks /\ a.type = "options"
    <3>1. conv[Host] \in Nat /\ None \in Npcs \union {None} /\ step[Host] \in 0 .. MaxSteps
      BY <1>1 DEF AllTypes, ServiceOK
    <3>2. a \in Asks
      BY <2>2, <3>1, MessageIs DEF Options
    <3>. QED BY <2>2, <3>2 DEF Options, Msg
  <2>4. PICK e : e = When(conv[Host] # 0, <<a>>)
    OBVIOUS
  <2>5. e \in Seq(Asks) /\ Sent(e) \subseteq {a}
    <3>1. Sent(<<a>>) = {a} /\ <<a>> \in Seq(Asks) /\ Sent(<<>>) = {} /\ <<>> \in Seq(Asks)
      BY <2>3, SentFew, Sends12
    <3>. QED BY <2>4, <3>1 DEF When
  <2>6. Sends(Host, e)
    BY <2>1, <2>2, <2>4, Zenon
  <2>. QED BY <1>1, <2>1, <2>3, <2>5, <2>6, TalkAside
<1>. QED BY <1>2, <1>3, <1>4, <1>5, <1>6, <1>7, <1>8

\* What the host's game says when it updates.
LEMMA HostUpdateSays ==
    ASSUME AllTypes, HostUpdate, NEW began \in BOOLEAN, NEW ended \in BOOLEAN,
           began <=> SpeakerChanged /\ speaker[Host] # None, ended <=> SpeakerChanged /\ speaker[Host] = None /\ conv[Host] # 0
    PROVE  \E j, k, b, c :
              /\ j.type = "join" /\ j.conv = conv[Host] /\ k.type = "close" /\ ~k.flag /\ k.conv = conv[Host]
              /\ b.type = "opened" /\ b.npc = speaker[Host] /\ c.type = "close" /\ c.flag
              /\ \A q \in Players : q # Host => requests'[q] = requests[q]
              /\ \A m : m \in Sent(requests'[Host]) <=> \/ m = j /\ Joins(Host)
                                                        \/ m = k /\ GoesOut(Host)
                                                        \/ m = b /\ began
                                                        \/ m = c /\ ended
<1>1. Host \in Players /\ conv[Host] \in Nat /\ speaker[Host] \in Npcs \union {None} /\ None \in Npcs \union {None} /\ 0 \in 0 .. MaxSteps
      /\ 0 \in Nat
  BY PlayersAssumption, BoundsAssumption DEF AllTypes, ServiceOK, EngineOK
<1>2. PICK j, k, b, c : /\ j = Msg("join", conv[Host], None, 0, FALSE) /\ k = Msg("close", conv[Host], None, 0, FALSE)
                        /\ b = Msg("opened", 0, speaker[Host], 0, speaker[Host] = greeter) /\ c = Msg("close", conv[Host], None, 0, TRUE)
  OBVIOUS
<1>3. /\ j.type = "join" /\ j.conv = conv[Host] /\ k.type = "close" /\ ~k.flag /\ k.conv = conv[Host]
      /\ b.type = "opened" /\ b.npc = speaker[Host] /\ c.type = "close" /\ c.flag
  BY <1>2 DEF Msg
<1>4. (j \in Asks /\ k \in Asks /\ c \in Asks) /\ (began => b \in Asks)
  <2>1. j \in Asks /\ k \in Asks /\ c \in Asks
    BY <1>1, <1>2, MessageIs
  <2>2. began => b \in Asks
    BY <1>1, <1>2, MessageIs
  <2>. QED BY <2>1, <2>2
<1>5. PICK e, f, d, g : /\ e = When(Joins(Host), <<j>>) /\ f = When(GoesOut(Host), <<k>>)
                        /\ d = When(began, <<b>>) /\ g = When(ended, <<c>>)
  OBVIOUS
<1>6. \A x : x \in Asks => Sent(<<x>>) = {x} /\ <<x>> \in Seq(Asks)
  BY SentFew, Sends12
<1>7. Sent(<<>>) = {} /\ <<>> \in Seq(Asks)
  BY SentFew, Sends12
<1>8. e \in Seq(Asks) /\ \A m : m \in Sent(e) <=> m = j /\ Joins(Host)
  BY <1>4, <1>5, <1>6, <1>7 DEF When
<1>9. f \in Seq(Asks) /\ \A m : m \in Sent(f) <=> m = k /\ GoesOut(Host)
  BY <1>4, <1>5, <1>6, <1>7 DEF When
<1>10. d \in Seq(Asks) /\ \A m : m \in Sent(d) <=> m = b /\ began
  BY <1>4, <1>5, <1>6, <1>7 DEF When
<1>11. g \in Seq(Asks) /\ \A m : m \in Sent(g) <=> m = c /\ ended
  BY <1>4, <1>5, <1>6, <1>7 DEF When
<1>12. PICK u : u = e \o f /\ u \in Seq(Asks) /\ Sent(u) = Sent(e) \cup Sent(f)
  BY <1>8, <1>9, SentJoin
<1>13. PICK v : v = u \o d /\ v \in Seq(Asks) /\ Sent(v) = Sent(u) \cup Sent(d)
  <2>1. u \in Seq(Asks) /\ d \in Seq(Asks)
    BY <1>10, <1>12
  <2>. QED BY <2>1, SentJoin
<1>14. PICK w : w = v \o g /\ w \in Seq(Asks) /\ Sent(w) = Sent(v) \cup Sent(g)
  <2>1. v \in Seq(Asks) /\ g \in Seq(Asks)
    BY <1>11, <1>13
  <2>. QED BY <2>1, SentJoin
<1>15. Sends(Host, w) /\ requests[Host] = <<>>
  <2>1. PICK x : x = JoinOrLeave(Host)
    OBVIOUS
  <2>2. x = u
    BY <1>2, <1>5, <1>12, <2>1 DEF JoinOrLeave
  <2>3. PICK bb \in BOOLEAN, ee \in BOOLEAN : bb = (SpeakerChanged /\ speaker[Host] # None)
                                              /\ ee = (SpeakerChanged /\ speaker[Host] = None /\ conv[Host] # 0)
    OBVIOUS
  <2>4. Sends(Host, x \o When(bb, <<b>>) \o When(ee, <<c>>)) /\ HostIdle
    BY <1>2, <2>1, <2>3, Zenon DEF HostUpdate
  <2>5. bb = began /\ ee = ended
    BY <2>3
  <2>6. Sends(Host, u \o d \o g)
    BY <1>5, <2>2, <2>4, <2>5
  <2>. QED BY <1>13, <1>14, <2>4, <2>6 DEF HostIdle
<1>16. requests'[Host] = <<>> \o w /\ \A q \in Players : q # Host => requests'[q] = requests[q]
  BY <1>1, <1>14, <1>15, SendsType DEF AllTypes
<1>17. requests'[Host] = w
  BY <1>14, <1>16
<1>18. \A m : m \in Sent(w) <=> (m = j /\ Joins(Host)) \/ (m = k /\ GoesOut(Host)) \/ (m = b /\ began) \/ (m = c /\ ended)
  BY <1>8, <1>9, <1>10, <1>11, <1>12, <1>13, <1>14
<1>. QED BY <1>3, <1>16, <1>17, <1>18

\* The host's game updates: it says what its engine did.
LEMMA TalkHostUpdate ==
    ASSUME AllTypes, HostInv, TalkInv, EndInv, HostUpdate
    PROVE  TalkInv'
<1>1. PICK began \in BOOLEAN, ended \in BOOLEAN :
        /\ began <=> SpeakerChanged /\ speaker[Host] # None
        /\ ended <=> SpeakerChanged /\ speaker[Host] = None /\ conv[Host] # 0
  OBVIOUS
<1>2. PICK j, k, b, c :
              /\ j.type = "join" /\ j.conv = conv[Host] /\ k.type = "close" /\ ~k.flag /\ k.conv = conv[Host]
              /\ b.type = "opened" /\ b.npc = speaker[Host] /\ c.type = "close" /\ c.flag
              /\ \A q \in Players : q # Host => requests'[q] = requests[q]
              /\ \A m : m \in Sent(requests'[Host]) <=> \/ m = j /\ Joins(Host)
                                                        \/ m = k /\ GoesOut(Host)
                                                        \/ m = b /\ began
                                                        \/ m = c /\ ended
  BY <1>1, HostUpdateSays
<1>3. /\ requests[Host] = <<>> /\ heard' = speaker[Host]
      /\ UNCHANGED <<conn, notices, talk, lastTalk, hostAsked, asked, npc, speaker, menu>>
      /\ conv' = [conv EXCEPT ![Host] = IF began \/ ended THEN 0 ELSE @]
      /\ joined' = [joined EXCEPT ![Host] = StaysJoined(Host) /\ ~began /\ ~ended]
  BY <1>1, Zenon DEF HostUpdate, HostIdle, engineVars, ruleVars
<1>4. Host \in Players /\ Host \in Members /\ Members' = Members
  BY <1>3, HostChannels DEF Members
<1>5. /\ conv'[Host] = IF began \/ ended THEN 0 ELSE conv[Host]
      /\ \A q \in Players : q # Host => conv'[q] = conv[q]
      /\ joined'[Host] = (StaysJoined(Host) /\ ~began /\ ~ended)
  BY <1>3, <1>4 DEF AllTypes, ServiceOK
<1>6. /\ ~Has(requests[Host], "opened") /\ ~Has(requests[Host], "failed") /\ ~Flag(requests[Host]) /\ Sent(requests[Host]) = {}
      /\ \A n : ~Of(requests[Host], "opened", n) /\ ~Of(requests[Host], "failed", n)
  BY <1>3, NothingIn
<1>7. /\ Has(requests'[Host], "opened") <=> began
      /\ Flag(requests'[Host]) <=> ended
      /\ ~Has(requests'[Host], "failed") /\ ~Has(requests'[Host], "start")
      /\ \A n : Of(requests'[Host], "opened", n) <=> began /\ n = speaker[Host]
      /\ Has(requests'[Host], "join") <=> Joins(Host)
      /\ Leaves(requests'[Host]) <=> GoesOut(Host)
      /\ \A m \in Sent(requests'[Host]) : m.type = "opened" => m.npc = speaker[Host]
  BY <1>2 DEF Has, Flag, Of, Leaves
<1>8. ~SpeakerChanged' /\ ~Turned' /\ (IsAsked' <=> IsAsked) /\ (Turned <=> began)
  BY <1>1, <1>3 DEF SpeakerChanged, Turned, IsAsked
<1>9. OpensSoon' <=> began \/ OpensSoon
  BY <1>3, <1>6, <1>7 DEF OpensSoon
<1>10. OpensSoon => ~began /\ ~ended /\ speaker[Host] = heard
  BY <1>1 DEF HostInv, SpeakerChanged
<1>11. KnowInv'
  <2>1. \A q \in Players : Rising(notices'[q], conv'[q])
    <3>1. \A q \in Players : Rising(notices[q], conv[q]) /\ notices[q] \in Seq(Tells) /\ conv[q] \in Nat
      BY Channels DEF TalkInv, KnowInv
    <3>2. Rising(notices[Host], 0)
      BY <1>4, <3>1, RisingSteps
    <3>. QED BY <1>3, <1>5, <3>1, <3>2
  <2>2. ASSUME talk # NoTalk, NEW q \in Members PROVE Knows(q)'
    <3>1. Knows(q)
      BY <2>2 DEF TalkInv, KnowInv
    <3>2. CASE q # Host
      <4>1. conv'[q] = conv[q]
        BY <1>5, <3>2 DEF Members
      <4>. QED BY <1>3, <3>1, <3>2, <4>1 DEF Knows
    <3>3. CASE q = Host
      <4>1. talk.id # 0
        BY <2>2 DEF EndInv, IdsOK
      <4>. QED BY <1>3, <1>5, <1>6, <1>7, <3>1, <3>3, <4>1 DEF Knows
    <3>. QED BY <3>2, <3>3
  <2>. QED BY <1>3, <1>4, <2>1, <2>2 DEF KnowInv
<1>12. RunInv'
  <2>1. speaker[Host] # None => OpensSoon' \/ conv'[Host] # 0
    BY <1>1, <1>5, <1>9 DEF TalkInv, RunInv
  <2>2. conv'[Host] # 0 => npc'[Host] = heard' /\ heard' # None
    BY <1>1, <1>3, <1>5 DEF TalkInv, RunInv, SpeakerChanged
  <2>3. \A m \in Sent(notices[Host]) : m.type = "open" => m.npc = heard'
    BY <1>3, <1>10 DEF TalkInv, RunInv, OpensSoon, Has
  <2>. QED BY <1>3, <1>7, <2>1, <2>2, <2>3 DEF RunInv
<1>13. AskInv'
  <2>1. \A q \in Guests : requests'[q] = requests[q]
    BY <1>2 DEF Guests
  <2>2. \A q \in Players : conn[q] # "open" => requests'[q] = requests[q]
    BY <1>2, <1>4 DEF Members
  <2>3. \A q \in Members : AskOf(q) /\ asked[q] # None => AskOf(q)'
    <3>1. \A q \in Members : asked[q] # None => q \in Guests
      BY <1>4 DEF TalkInv, AskInv, Members, Guests
    <3>. QED BY <1>3, <2>1, <3>1 DEF AskOf
  <2>. QED BY <1>3, <1>4, <1>7, <2>1, <2>2, <2>3 DEF TalkInv, AskInv
<1>14. StartInv'
  <2>1. \A n : Clear(n) => Clear(n)'
    BY <1>3, <1>8, <1>9 DEF Clear
  <2>2. \A q \in Guests : requests'[q] = requests[q]
    BY <1>2 DEF Guests
  <2>3. \A q \in Guests : Once(requests'[q], "start") /\ \A m \in Sent(requests'[q]) : m.type = "start" =>
           m.npc = asked'[q] /\ Clear(m.npc)' /\ talk'.npc # m.npc /\ ~IsAsked'
    BY <1>3, <1>8, <2>1, <2>2 DEF TalkInv, StartInv
  <2>4. \A m \in Sent(notices'[Host]) : m.type = "start" =>
           IsAsked' /\ hostAsked'.npc = m.npc /\ Clear(m.npc)' /\ ~Has(requests'[Host], "failed")
    BY <1>3, <1>7, <1>8, <2>1 DEF TalkInv, StartInv
  <2>5. IsAsked => \/ Has(notices[Host], "start")
                   \/ Of(requests'[Host], "opened", hostAsked.npc)
    BY <1>6, <1>7, <1>8 DEF TalkInv, StartInv
  <2>. QED BY <1>3, <1>7, <1>8, <2>3, <2>4, <2>5 DEF TalkInv, StartInv
<1>15. EmptyInv'
  <2>1. ~(Joins(Host) /\ GoesOut(Host))
    BY DEF Joins, InIt, GoesOut
  <2>2. ASSUME talk # NoTalk, talk.players = {}
        PROVE  \/ Has(notices[Host], "open") /\ menu[Host] # "closed"
               \/ conv'[Host] = talk.id /\ ~joined'[Host] /\ menu[Host] # "closed"
               \/ JoinsIt(requests'[Host])
               \/ began \/ ended
    <3>1. talk.id # 0 /\ ~JoinsIt(requests[Host])
      BY <1>6, <2>2 DEF EndInv, IdsOK, JoinsIt
    <3>2. CASE conv[Host] = talk.id /\ SpeakerChanged
      BY <1>1, <3>1, <3>2
    <3>3. CASE conv[Host] = talk.id /\ ~SpeakerChanged /\ ~joined[Host] /\ menu[Host] # "closed"
      <4>1. Joins(Host) => JoinsIt(requests'[Host])
        BY <1>2, <1>3, <3>3 DEF JoinsIt
      <4>2. ~Joins(Host) => ~joined'[Host]
        BY <1>5, <3>3 DEF Joins, StaysJoined
      <4>. QED BY <1>1, <1>5, <3>3, <4>1, <4>2
    <3>. QED BY <1>6, <2>2, <3>1, <3>2, <3>3 DEF TalkInv, EmptyInv
  <2>3. began /\ ~IsAsked => menu[Host] # "closed"
    BY <1>8 DEF TalkInv, EmptyInv
  <2>5. ASSUME talk' # NoTalk, talk'.players = {}
        PROVE  \/ Has(notices'[Host], "open") /\ menu'[Host] # "closed"
               \/ conv'[Host] = talk'.id /\ ~SpeakerChanged' /\ ~joined'[Host] /\ menu'[Host] # "closed"
               \/ \E m \in Sent(requests'[Host]) : m.type = "join" /\ m.conv = talk'.id
               \/ Flag(requests'[Host]) \/ Has(requests'[Host], "opened")
    BY <1>3, <1>7, <1>8, <2>2, <2>5 DEF JoinsIt
  <2>. QED BY <1>3, <1>7, <1>8, <2>1, <2>3, <2>5 DEF EmptyInv, JoinsIt
<1>16. PendInv'
  BY <1>2, <1>3 DEF TalkInv, PendInv, Guests
<1>. QED BY <1>11, <1>12, <1>13, <1>14, <1>15, <1>16 DEF TalkInv

\* Nobody asks or is answered, nothing opens, and the host's game says nothing of its engine.
SameAsks == \A q \in Players : \A m :
    /\ m.type \in {"start", "opened", "failed"} => (m \in Sent(requests'[q]) <=> m \in Sent(requests[q]))
    /\ m.type \in {"start", "open"} \/ (m.type = "refused" /\ q # Host) => (m \in Sent(notices'[q]) <=> m \in Sent(notices[q]))

\* A step by which that stays, and the conversation goes on or is over.
LEMMA TalkKept ==
    ASSUME AllTypes, TalkInv, SameAsks,
           \A q \in Players : Rising(notices'[q], conv'[q]) /\ (Once(requests[q], "start") => Once(requests'[q], "start")),
           Once(notices'[Host], "start"), Behind(notices'[Host]),
           UNCHANGED <<hostAsked, asked, heard>>, speaker'[Host] = speaker[Host], conv'[Host] = conv[Host], npc'[Host] = npc[Host],
           joined'[Host] = joined[Host], menu'[Host] = menu[Host],
           Members' \subseteq Members,
           \A q \in Members' : (conv'[q] = conv[q] /\ npc'[q] = npc[q]) \/ (talk' # NoTalk => conv[q] # talk.id /\ conv'[q] # talk.id),
           \A q \in Players : conn'[q] # "open" => asked[q] = None /\ requests'[q] = <<>>,
           talk' = NoTalk \/ (talk # NoTalk /\ talk'.id = talk.id /\ talk'.npc = talk.npc),
           talk' = NoTalk \/ (Flag(requests[Host]) => Flag(requests'[Host])),
           \A m \in Sent(requests'[Host]) : m \in Sent(requests[Host]) \/ m.type = "options",
           talk' # NoTalk /\ talk'.players = {} => talk.players = {} /\ (JoinsIt(requests[Host]) => JoinsIt(requests'[Host]))
    PROVE  TalkInv'
<1>1. Host \in Players /\ Guests \subseteq Players /\ Members \subseteq Players
  BY PlayersAssumption DEF Guests, Members
<1>2. \A q \in Players : /\ \A t \in {"start", "failed", "opened"} : /\ Has(requests'[q], t) <=> Has(requests[q], t)
                                                                    /\ \A n : Of(requests'[q], t, n) <=> Of(requests[q], t, n)
                         /\ \A t \in {"start", "open"} : /\ Has(notices'[q], t) <=> Has(notices[q], t)
                                                         /\ \A n : Of(notices'[q], t, n) <=> Of(notices[q], t, n)
                         /\ q # Host => /\ Has(notices'[q], "refused") <=> Has(notices[q], "refused")
                                        /\ \A n : Of(notices'[q], "refused", n) <=> Of(notices[q], "refused", n)
  BY DEF SameAsks, Has, Of
<1>3. OpensSoon' <=> OpensSoon
  BY <1>1, <1>2 DEF OpensSoon
<1>4. (SpeakerChanged' <=> SpeakerChanged) /\ (Turned' <=> Turned) /\ (IsAsked' <=> IsAsked)
  BY DEF SpeakerChanged, Turned, IsAsked
<1>5. KnowInv'
  <2>1. ASSUME talk' # NoTalk, NEW q \in Members' PROVE Knows(q)'
    <3>1. Knows(q) /\ q \in Players /\ talk'.id = talk.id /\ talk'.npc = talk.npc /\ (Flag(requests[Host]) => Flag(requests'[Host]))
      BY <1>1, <2>1 DEF TalkInv, KnowInv
    <3>2. \A m : m.type = "open" => (m \in Sent(notices'[q]) <=> m \in Sent(notices[q]))
      BY <3>1 DEF SameAsks
    <3>. QED BY <1>1, <1>2, <2>1, <3>1, <3>2 DEF Knows
  <2>. QED BY <2>1 DEF KnowInv
<1>6. RunInv'
  <2>1. (\A m \in Sent(requests'[Host]) : m.type = "opened" => m.npc = heard) /\ \A m \in Sent(notices'[Host]) : m.type = "open" => m.npc = heard
    BY <1>1 DEF TalkInv, RunInv, SameAsks
  <2>. QED BY <1>3, <1>4, <2>1 DEF TalkInv, RunInv
<1>7. AskInv'
  <2>1. ASSUME NEW q \in Members', asked[q] # None PROVE AskOf(q)'
    <3>1. q # Host /\ q \in Members /\ q \in Players /\ AskOf(q)
      BY <1>1, <2>1 DEF TalkInv, AskInv
    <3>. QED BY <1>1, <1>2, <3>1 DEF AskOf
  <2>2. ~Has(requests'[Host], "start") /\ \A q \in Guests : ~Has(notices'[q], "start") /\ ~Has(requests'[q], "failed")
    BY <1>1, <1>2 DEF TalkInv, AskInv
  <2>. QED BY <2>1, <2>2 DEF TalkInv, AskInv
<1>8. StartInv'
  <2>1. \A n : Clear(n) => Clear(n)'
    BY <1>3, <1>4 DEF Clear
  <2>2. \A n : n # None /\ talk.npc # n => talk'.npc # n
    BY DEF NoTalk
  <2>3. \A q \in Guests : Once(requests'[q], "start") /\ \A m \in Sent(requests'[q]) : m.type = "start" =>
           m.npc = asked'[q] /\ Clear(m.npc)' /\ talk'.npc # m.npc /\ ~IsAsked'
    <3>1. ASSUME NEW q \in Guests, NEW m \in Sent(requests'[q]), m.type = "start"
          PROVE  m.npc = asked'[q] /\ Clear(m.npc)' /\ talk'.npc # m.npc /\ ~IsAsked'
      <4>1. m \in Sent(requests[q])
        BY <1>1, <3>1 DEF SameAsks
      <4>2. m.npc = asked[q] /\ Clear(m.npc) /\ talk.npc # m.npc /\ ~IsAsked
        BY <3>1, <4>1 DEF TalkInv, StartInv
      <4>3. m.npc # None
        BY <4>2 DEF Clear
      <4>. QED BY <1>4, <2>1, <2>2, <4>2, <4>3
    <3>. QED BY <1>1, <3>1 DEF TalkInv, StartInv
  <2>4. \A m \in Sent(notices'[Host]) : m.type = "start" =>
           IsAsked' /\ hostAsked'.npc = m.npc /\ Clear(m.npc)' /\ ~Has(requests'[Host], "failed")
    <3>1. ASSUME NEW m \in Sent(notices'[Host]), m.type = "start"
          PROVE  IsAsked' /\ hostAsked'.npc = m.npc /\ Clear(m.npc)' /\ ~Has(requests'[Host], "failed")
      <4>1. m \in Sent(notices[Host])
        BY <1>1, <3>1 DEF SameAsks
      <4>. QED BY <1>1, <1>2, <1>4, <2>1, <3>1, <4>1 DEF TalkInv, StartInv
    <3>. QED BY <3>1
  <2>5. IsAsked' =>
         /\ talk' = NoTalk /\ hostAsked'.player \in Guests /\ asked'[hostAsked'.player] = hostAsked'.npc /\ hostAsked'.npc # None
         /\ \/ Has(notices'[Host], "start")
            \/ Of(requests'[Host], "failed", hostAsked'.npc)
            \/ Turned' /\ speaker'[Host] = hostAsked'.npc /\ conv'[Host] = 0
            \/ Of(requests'[Host], "opened", hostAsked'.npc)
    BY <1>1, <1>2, <1>4 DEF TalkInv, StartInv
  <2>6. Has(requests'[Host], "failed") => ~Turned' /\ ~Has(requests'[Host], "opened")
    BY <1>1, <1>2, <1>4 DEF TalkInv, StartInv
  <2>. QED BY <2>3, <2>4, <2>5, <2>6 DEF StartInv
<1>9. EmptyInv'
  <2>1. (Turned' \/ Has(requests'[Host], "opened")) /\ ~IsAsked' => menu'[Host] # "closed"
    BY <1>1, <1>2, <1>4 DEF TalkInv, EmptyInv
  <2>2. ~(Has(requests'[Host], "join") /\ Leaves(requests'[Host]))
    BY DEF TalkInv, EmptyInv, Has, Leaves
  <2>3. ASSUME talk' # NoTalk, talk'.players = {}
        PROVE  \/ Has(notices'[Host], "open") /\ menu'[Host] # "closed"
               \/ conv'[Host] = talk'.id /\ ~SpeakerChanged' /\ ~joined'[Host] /\ menu'[Host] # "closed"
               \/ conv'[Host] = talk'.id /\ SpeakerChanged'
               \/ JoinsIt(requests'[Host])
               \/ Flag(requests'[Host]) \/ Has(requests'[Host], "opened")
    BY <1>1, <1>2, <1>4, <2>3 DEF TalkInv, EmptyInv
  <2>4. talk' # NoTalk /\ JoinsIt(requests'[Host]) => \E m \in Sent(requests'[Host]) : m.type = "join" /\ m.conv = talk'.id
    BY DEF JoinsIt
  <2>. QED BY <2>1, <2>2, <2>3, <2>4 DEF EmptyInv, JoinsIt
<1>10. PendInv'
  BY <1>1, <1>2 DEF TalkInv, PendInv, Guests
<1>. QED BY <1>5, <1>6, <1>7, <1>8, <1>9, <1>10 DEF TalkInv

\* What of the notices stays when the conversation is told of.
LEMMA NewsKept ==
    ASSUME AllTypes, IdsOK, TalkInv, Quiet(Speech) \/ \E W : Ends(W)
    PROVE  /\ \A q \in Players : \A m : m.type \in {"start", "open", "refused"} => (m \in Sent(notices'[q]) <=> m \in Sent(notices[q]))
           /\ \A q \in Players : Rising(notices'[q], conv[q]) /\ Rising(notices'[q], 0)
           /\ Once(notices'[Host], "start") /\ Behind(notices'[Host])
<1>1. /\ \A q \in Players : notices[q] \in Seq(Tells) /\ conv[q] \in Nat /\ Rising(notices[q], conv[q]) /\ Rising(notices[q], 0)
      /\ Host \in Players /\ Once(notices[Host], "start") /\ Behind(notices[Host])
  BY Channels, RisingSteps DEF TalkInv, KnowInv, StartInv
<1>2. ASSUME NEW q \in Players, NEW e \in Seq(Tells), notices'[q] = notices[q] \o e, \A n \in Sent(e) : n.type \in Speech \cup {"closed"},
             q = Host => Behind(notices[q] \o e)
      PROVE  /\ \A m : m.type \in {"start", "open", "refused"} => (m \in Sent(notices'[q]) <=> m \in Sent(notices[q]))
             /\ Rising(notices'[q], conv[q]) /\ Rising(notices'[q], 0)
             /\ q = Host => Once(notices'[q], "start") /\ Behind(notices'[q])
  <2>1. PICK s : s = notices[q] \o e /\ s = notices'[q]
    BY <1>2
  <2>2. Sent(s) = Sent(notices[q]) \cup Sent(e)
    BY <1>1, <2>1, SentJoin
  <2>3. ~Has(e, "start") /\ ~Has(e, "open")
    BY <1>2 DEF Has, Speech
  <2>4. Rising(s, conv[q]) /\ Rising(s, 0)
    BY <1>1, <2>1, <2>3, RisingSteps
  <2>5. ASSUME q = Host PROVE Once(s, "start")
    <3>1. Once(notices[q], "start") /\ notices[q] \in Seq(Tells)
      BY <1>1, <2>5
    <3>2. Once(notices[q], "start") /\ ~Has(e, "start") => Once(notices[q] \o e, "start")
      BY <3>1, HasSteps
    <3>. QED BY <2>1, <2>3, <3>1, <3>2
  <2>. QED BY <1>2, <2>1, <2>2, <2>4, <2>5 DEF Speech
<1>3. CASE Quiet(Speech)
  <2>1. ASSUME NEW q \in Players
        PROVE  /\ \A m : m.type \in {"start", "open", "refused"} => (m \in Sent(notices'[q]) <=> m \in Sent(notices[q]))
               /\ Rising(notices'[q], conv[q]) /\ Rising(notices'[q], 0)
               /\ q = Host => Once(notices'[q], "start") /\ Behind(notices'[q])
    <3>1. PICK e \in Seq(Tells) : notices'[q] = notices[q] \o e /\ \A n \in Sent(e) : n.type \in Speech
      BY <1>3 DEF Quiet
    <3>2. ~Has(e, "closed")
      BY <3>1 DEF Has, Speech
    <3>3. q = Host => Behind(notices[q] \o e)
      BY <1>1, <3>2, OfSteps
    <3>. QED BY <1>2, <3>1, <3>3
  <2>. QED BY <1>1, <2>1
<1>4. ASSUME NEW W, Ends(W)
      PROVE  /\ \A q \in Players : \A m : m.type \in {"start", "open", "refused"} => (m \in Sent(notices'[q]) <=> m \in Sent(notices[q]))
             /\ \A q \in Players : Rising(notices'[q], conv[q]) /\ Rising(notices'[q], 0)
             /\ Once(notices'[Host], "start") /\ Behind(notices'[Host])
  <2>1. talk # NoTalk
    BY <1>4 DEF Ends
  <2>2. ~Has(notices[Host], "start")
    BY <2>1 DEF TalkInv, StartInv, Has
  <2>3. PICK o : o = ClosedNow(talk) /\ o \in Tells /\ o.type = "closed"
    BY <2>1, ClosedIs DEF AllTypes
  <2>4. PICK d : d = <<o>> /\ d \in Seq(Tells) /\ Sent(d) = {o}
    <3>1. <<o>> \in Seq(Tells) /\ Sent(<<o>>) = {o}
      BY <2>3, Sends12, SentFew
    <3>. QED BY <3>1
  <2>5. ~Has(d, "start") /\ \A n \in Sent(d) : n.type \in Speech \cup {"closed"}
    BY <2>3, <2>4 DEF Has
  <2>6. ASSUME NEW q \in Players
        PROVE  /\ \A m : m.type \in {"start", "open", "refused"} => (m \in Sent(notices'[q]) <=> m \in Sent(notices[q]))
               /\ Rising(notices'[q], conv[q]) /\ Rising(notices'[q], 0)
               /\ q = Host => Once(notices'[q], "start") /\ Behind(notices'[q])
    <3>1. CASE q \in W \cap Members
      <4>1. notices'[q] = notices[q] \o <<>> \o d
        BY <1>4, <2>3, <2>4, <3>1 DEF Ends
      <4>2. notices'[q] = notices[q] \o d
        BY <1>1, <4>1
      <4>3. q = Host => Behind(notices[q] \o d)
        BY <1>1, <2>2, <2>4, <2>5, OfSteps
      <4>. QED BY <1>2, <2>4, <2>5, <4>2, <4>3
    <3>2. CASE q \notin W \cap Members
      <4>1. notices'[q] = notices[q]
        BY <1>4, <3>2 DEF Ends
      <4>. QED BY <1>1, <4>1
    <3>. QED BY <3>1, <3>2
  <2>. QED BY <1>1, <2>6
<1>. QED BY <1>3, <1>4

-----------------------------------------------------------------------------
\* A guest joins: nothing is under way.
LEMMA TalkJoin == ASSUME AllTypes, HostInv, TalkInv, EndInv, Calm, NEW p \in Players, Join(p) PROVE TalkInv'
<1>1. /\ NothingBegun /\ talk = NoTalk /\ conn' = [conn EXCEPT ![p] = "open"]
      /\ UNCHANGED <<requests, notices, talk, lastTalk, hostAsked, asked, conv, npc, heard, joined, speaker, menu>>
  BY DEF Join, gameVars, ruleVars, serviceVars, engineVars, hostGameVars
<1>2. \A q \in Players : requests[q] = <<>> /\ asked[q] = None
  BY <1>1, NothingBegunIs
<1>3. UNCHANGED <<OpensSoon, Turned, SpeakerChanged, IsAsked>>
  BY <1>1 DEF OpensSoon, Turned, SpeakerChanged, IsAsked
<1>4. KnowInv'
  BY <1>1 DEF TalkInv, KnowInv
<1>5. RunInv'
  BY <1>1, <1>3 DEF TalkInv, RunInv
<1>6. AskInv'
  <2>1. Members' \subseteq Players
    BY DEF Members
  <2>. QED BY <1>1, <1>2, <2>1 DEF TalkInv, AskInv
<1>7. StartInv'
  BY <1>1, <1>3 DEF TalkInv, StartInv, Clear
<1>8. EmptyInv'
  BY <1>1, <1>3 DEF TalkInv, EmptyInv
<1>9. PendInv'
  BY <1>1 DEF TalkInv, PendInv
<1>. QED BY <1>4, <1>5, <1>6, <1>7, <1>8, <1>9 DEF TalkInv

\* The players the rules have in the conversation when one leaves it.
LEMMA LastOneEnds ==
    ASSUME NEW p \in Players, LeaveTalk(p), talk' # NoTalk, talk'.players = {}, talk \in Talks
    PROVE  talk.players = {}
<1>1. CASE p \notin talk.players
  BY <1>1 DEF LeaveTalk
<1>2. CASE LastOut(p)
  BY <1>2 DEF LeaveTalk, LastOut
<1>3. CASE p \in talk.players /\ ~LastOut(p)
  <2>1. talk'.players = talk.players \ {p}
    BY <1>3 DEF LeaveTalk, Talks
  <2>. QED BY <1>3, <2>1 DEF LastOut
<1>. QED BY <1>1, <1>2, <1>3

\* A guest leaves: it has not asked.
LEMMA TalkLeave == ASSUME AllTypes, HostInv, TalkInv, EndInv, Calm, NEW p \in Players, Leave(p) PROVE TalkInv'
<1>1. /\ p # Host /\ p \in Guests /\ conn[p] = "open" /\ asked[p] = None /\ conn' = [conn EXCEPT ![p] = "closed"]
      /\ requests' = [requests EXCEPT ![p] = <<>>] /\ conv' = [conv EXCEPT ![p] = 0] /\ npc' = [npc EXCEPT ![p] = None]
      /\ joined' = [joined EXCEPT ![p] = FALSE] /\ asked' = [asked EXCEPT ![p] = None] /\ EndsHere(p)
      /\ hostAsked' = (IF hostAsked.player = p THEN NotAsked ELSE hostAsked) /\ LeaveTalk(p) /\ UNCHANGED <<lastTalk, heard>>
  BY BoundsAssumption DEF Leave, hostGameVars, Guests
<1>2. /\ Host \in Players /\ conn'[p] = "closed" /\ requests'[p] = <<>> /\ conv'[p] = 0 /\ asked' = asked
      /\ \A q \in Players : q # p => conn'[q] = conn[q] /\ requests'[q] = requests[q] /\ conv'[q] = conv[q] /\ npc'[q] = npc[q]
      /\ joined'[Host] = joined[Host] /\ speaker'[Host] = speaker[Host] /\ menu'[Host] = menu[Host]
  BY <1>1, PlayersAssumption DEF AllTypes, ServiceOK, ScreenOK, EngineOK, RequestsOK, EndsHere
<1>3. hostAsked' = hostAsked
  BY <1>1 DEF TalkInv, StartInv, IsAsked
<1>4. ~Has(requests[p], "start") /\ ~Has(requests[p], "opened") /\ ~Has(requests[p], "failed")
  <2>1. ~Has(requests[p], "start")
    BY <1>1 DEF TalkInv, StartInv, Clear, Has
  <2>. QED BY <1>1, <2>1 DEF TalkInv, AskInv, HostInv
<1>5. IdsOK /\ (talk.id = 0 => talk = NoTalk)
  BY DEF EndInv, IdsOK
<1>6. (Quiet(Speech) /\ Quiet(Chats)) \/ Ends(Players)
  BY <1>1, <1>5, LeaveTalkDoes DEF AllTypes
<1>7. /\ \A q \in Players : \A m : m.type \in {"start", "open", "refused"} => (m \in Sent(notices'[q]) <=> m \in Sent(notices[q]))
      /\ \A q \in Players : Rising(notices'[q], conv[q]) /\ Rising(notices'[q], 0)
      /\ Once(notices'[Host], "start") /\ Behind(notices'[Host])
  BY <1>5, <1>6, NewsKept
<1>8. SameAsks
  <2>1. ASSUME NEW q \in Players, NEW m, m.type \in {"start", "opened", "failed"} PROVE m \in Sent(requests'[q]) <=> m \in Sent(requests[q])
    <3>1. CASE q = p
      BY <1>2, <1>4, <2>1, <3>1, NothingIn DEF Has
    <3>. QED BY <1>2, <3>1
  <2>. QED BY <1>7, <2>1 DEF SameAsks
<1>9. \A q \in Players : Rising(notices'[q], conv'[q]) /\ (Once(requests[q], "start") => Once(requests'[q], "start"))
  <2>1. ASSUME NEW q \in Players PROVE Rising(notices'[q], conv'[q]) /\ (Once(requests[q], "start") => Once(requests'[q], "start"))
    <3>1. CASE q = p
      BY <1>2, <1>7, <3>1, NothingIn
    <3>2. CASE q # p
      BY <1>2, <1>7, <3>2
    <3>. QED BY <3>1, <3>2
  <2>. QED BY <2>1
<1>10. Members' \subseteq Members /\ \A q \in Members' : q # p /\ q \in Players
  BY <1>2 DEF Members
<1>11. \A q \in Members' : conv'[q] = conv[q] /\ npc'[q] = npc[q]
  BY <1>2, <1>10
<1>12. \A q \in Players : conn'[q] # "open" => asked[q] = None /\ requests'[q] = <<>>
  BY <1>1, <1>2 DEF TalkInv, AskInv
<1>13. talk' = NoTalk \/ (talk # NoTalk /\ talk'.id = talk.id /\ talk'.npc = talk.npc)
  BY <1>6 DEF Quiet, Ends
<1>14. talk' # NoTalk /\ talk'.players = {} => talk.players = {}
  BY <1>1, LastOneEnds DEF AllTypes, RulesOK
<1>15. requests'[Host] = requests[Host] /\ conv'[Host] = conv[Host] /\ npc'[Host] = npc[Host]
  BY <1>1, <1>2
<1>16. UNCHANGED <<hostAsked, asked, heard>>
  BY <1>1, <1>2, <1>3
<1>. QED BY <1>2, <1>7, <1>8, <1>9, <1>10, <1>11, <1>12, <1>13, <1>14, <1>15, <1>16, TalkKept
\* What a request read leaves.
LEMMA RequestRead ==
    ASSUME AllTypes, NEW p \in Players, HostReads(p), NEW m, m = Head(requests[p])
    PROVE  /\ m \in Asks /\ m \in Sent(requests[p]) /\ p \in Members /\ Handles(p, m) /\ (p # Host => requests[Host] = <<>>)
           /\ UNCHANGED <<conn, asked, conv, npc, heard, joined, speaker, menu>> /\ Members' = Members
           /\ \A q \in Players : q # p => requests'[q] = requests[q]
           /\ Sent(requests'[p]) \subseteq Sent(requests[p]) /\ Sent(requests[p]) \subseteq Sent(requests'[p]) \cup {m}
           /\ \A t : /\ Once(requests[p], t) => Once(requests'[p], t)
                     /\ Once(requests[p], t) /\ m.type = t => ~Has(requests'[p], t)
<1>1. requests[p] \in Seq(Asks) /\ requests[p] # <<>> /\ p \in Members /\ (p # Host => requests[Host] = <<>>)
  BY DEF HostReads, HostIdle, AllTypes, RequestsOK
<1>2. PICK q : q = requests[p] /\ q \in Seq(Asks) /\ q # <<>>
  BY <1>1
<1>3. /\ Head(q) \in Asks /\ Head(q) \in Sent(q) /\ Sent(Tail(q)) \subseteq Sent(q) /\ Sent(q) \subseteq Sent(Tail(q)) \cup {Head(q)}
  BY <1>2, SentRead
<1>4. UNCHANGED <<conn, gameVars>> /\ Handles(p, m) /\ requests' = [requests EXCEPT ![p] = Tail(@)]
  BY DEF HostReads, Handles
<1>5. UNCHANGED <<conn, asked, conv, npc, heard, joined, speaker, menu>> /\ Members' = Members
  BY <1>4 DEF gameVars, serviceVars, engineVars, hostGameVars, Members
<1>6. requests'[p] = Tail(q) /\ \A r \in Players : r # p => requests'[r] = requests[r]
  BY <1>2, <1>4 DEF AllTypes, RequestsOK
<1>7. \A t : /\ Once(q, t) => Once(Tail(q), t)
             /\ Once(q, t) /\ Head(q).type = t => ~Has(Tail(q), t)
  BY <1>2, HasSteps
<1>. QED BY <1>1, <1>2, <1>3, <1>4, <1>5, <1>6, <1>7

\* A request about the conversation under way, or its end.
LEMMA TalkHandles ==
    ASSUME AllTypes, HostInv, TalkInv, EndInv, NEW p \in Players, HostReads(p), NEW m, m = Head(requests[p]),
           m.type \in {"options", "pick", "close", "join"}
    PROVE  TalkInv'
<1>1. /\ m \in Asks /\ m \in Sent(requests[p]) /\ p \in Members /\ Handles(p, m)
      /\ UNCHANGED <<conn, asked, conv, npc, heard, joined, speaker, menu>> /\ Members' = Members
      /\ \A q \in Players : q # p => requests'[q] = requests[q]
      /\ Sent(requests'[p]) \subseteq Sent(requests[p]) /\ Sent(requests[p]) \subseteq Sent(requests'[p]) \cup {m}
      /\ \A t : Once(requests[p], t) => Once(requests'[p], t)
  BY RequestRead
<1>2. IdsOK /\ (talk.id = 0 => talk = NoTalk)
  BY DEF EndInv, IdsOK
<1>3. Quiet(Speech) \/ \E W : Ends(W)
  BY <1>1, <1>2, HandlerDoes DEF AllTypes
<1>4. /\ \A q \in Players : \A n : n.type \in {"start", "open", "refused"} => (n \in Sent(notices'[q]) <=> n \in Sent(notices[q]))
      /\ \A q \in Players : Rising(notices'[q], conv[q])
      /\ Once(notices'[Host], "start") /\ Behind(notices'[Host])
  BY <1>2, <1>3, NewsKept
<1>5. SameAsks
  <2>1. ASSUME NEW q \in Players, NEW n, n.type \in {"start", "opened", "failed"} PROVE n \in Sent(requests'[q]) <=> n \in Sent(requests[q])
    BY <1>1, <2>1
  <2>. QED BY <1>4, <2>1 DEF SameAsks
<1>6. /\ m.type = "options" => OnOptions(p, m)
      /\ m.type = "pick" => OnPick(p, m)
      /\ m.type = "close" => OnClose(p, m)
      /\ m.type = "join" => OnJoin(p, m)
  BY <1>1 DEF Handles
<1>7. hostAsked' = hostAsked
  BY <1>6 DEF OnOptions, OnPick, OnClose, OnJoin, ruleVars
<1>8. talk' = NoTalk \/ (talk # NoTalk /\ talk'.id = talk.id /\ talk'.npc = talk.npc)
  BY <1>3 DEF Quiet, Ends
<1>9. Host \in Players
  BY PlayersAssumption
<1>10. ASSUME Flag(requests[Host]), talk' # NoTalk PROVE Flag(requests'[Host])
  <2>1. PICK n \in Sent(requests[Host]) : n.type = "close" /\ n.flag
    BY <1>10 DEF Flag
  <2>2. CASE p = Host /\ n = m
    <3>1. OnClose(Host, m) /\ m.flag
      BY <1>6, <2>1, <2>2
    <3>2. talk' = NoTalk
      BY <3>1 DEF OnClose
    <3>. QED BY <1>10, <3>2
  <2>. QED BY <1>1, <1>9, <2>1, <2>2 DEF Flag
<1>11. ASSUME talk' # NoTalk, talk'.players = {} PROVE talk.players = {} /\ (JoinsIt(requests[Host]) => JoinsIt(requests'[Host]))
  <2>1. talk \in Talks /\ talk # NoTalk
    BY <1>8, <1>11 DEF AllTypes, RulesOK
  <2>2. CASE m.type \in {"options", "pick"}
    <3>1. talk'.players = talk.players
      BY <1>6, <2>1, <2>2 DEF OnOptions, OnPick, ruleVars, Talks
    <3>2. JoinsIt(requests[Host]) => JoinsIt(requests'[Host])
      BY <1>1, <1>9, <2>2 DEF JoinsIt
    <3>. QED BY <1>11, <3>1, <3>2
  <2>3. CASE m.type = "close"
    <3>1. talk' = talk \/ LeaveTalk(p)
      <4>1. OnClose(p, m) /\ talk' # NoTalk
        BY <1>6, <1>11, <2>3
      <4>. QED BY <4>1 DEF OnClose
    <3>2. talk.players = {}
      BY <1>11, <2>1, <3>1, LastOneEnds
    <3>3. JoinsIt(requests[Host]) => JoinsIt(requests'[Host])
      BY <1>1, <1>9, <2>3 DEF JoinsIt
    <3>. QED BY <3>2, <3>3
  <2>4. CASE m.type = "join"
    <3>1. talk' = talk /\ m.conv # talk.id
      <4>1. OnJoin(p, m)
        BY <1>6, <2>4
      <4>2. CASE m.conv = talk.id /\ p \notin talk.players
        <5>1. talk' = [talk EXCEPT !.players = @ \union {p}]
          BY <2>1, <4>1, <4>2 DEF OnJoin
        <5>2. p \in talk'.players
          BY <2>1, <5>1 DEF Talks
        <5>. QED BY <1>11, <5>2
      <4>3. CASE ~(m.conv = talk.id /\ p \notin talk.players)
        <5>1. talk' = talk
          BY <4>1, <4>3 DEF OnJoin, ruleVars
        <5>. QED BY <1>11, <4>3, <5>1
      <4>. QED BY <4>2, <4>3
    <3>2. JoinsIt(requests[Host]) => JoinsIt(requests'[Host])
      BY <1>1, <1>9, <3>1 DEF JoinsIt
    <3>. QED BY <1>11, <3>1, <3>2
  <2>. QED BY <2>2, <2>3, <2>4
<1>12. \A q \in Players : Rising(notices'[q], conv'[q]) /\ (Once(requests[q], "start") => Once(requests'[q], "start"))
  BY <1>1, <1>4
<1>13. \A q \in Players : conn'[q] # "open" => asked[q] = None /\ requests'[q] = <<>>
  BY <1>1 DEF TalkInv, AskInv, Members
<1>14. \A n \in Sent(requests'[Host]) : n \in Sent(requests[Host])
  BY <1>1, <1>9
<1>. QED BY <1>1, <1>4, <1>5, <1>7, <1>8, <1>10, <1>11, <1>12, <1>13, <1>14, TalkKept
\* One notice more, to one player.
LEMMA ToldOne ==
    ASSUME AllTypes, TalkInv, NEW p \in Members, NEW o \in Tells, Tell({p}, <<o>>), o.type \in {"start", "refused"}
    PROVE  /\ \A q \in Players : q # p => notices'[q] = notices[q]
           /\ Sent(notices'[p]) = Sent(notices[p]) \cup {o}
           /\ \A q \in Players : Rising(notices'[q], conv[q])
           /\ o.type # "start" \/ ~Has(notices[p], "start") => (Once(notices[p], "start") => Once(notices'[p], "start"))
           /\ Behind(notices[p]) => Behind(notices'[p])
<1>1. p \in Players /\ notices[p] \in Seq(Tells) /\ \A q \in Players : conv[q] \in Nat /\ Rising(notices[q], conv[q])
  BY Channels DEF Members, TalkInv, KnowInv
<1>2. PICK d : d = <<o>> /\ d \in Seq(Tells) /\ Sent(d) = {o} /\ Once(d, "start")
  <2>1. Sent(<<o>>) = {o} /\ <<o>> \in Seq(Tells) /\ Once(<<o>>, "start")
    BY SentFew, Sends12, HasFew
  <2>. QED BY <2>1
<1>3. PICK q : q = notices[p] /\ q \in Seq(Tells)
  BY <1>1
<1>4. notices'[p] = q \o d /\ \A r \in Players : r # p => notices'[r] = notices[r]
  BY <1>1, <1>2, <1>3 DEF Tell
<1>5. ~Has(d, "open") /\ ~Has(d, "closed") /\ (o.type # "start" => ~Has(d, "start"))
  BY <1>2 DEF Has
<1>6. Sent(q \o d) = Sent(q) \cup Sent(d)
  <2>1. q \in Seq(Tells) /\ d \in Seq(Tells)
    BY <1>2, <1>3
  <2>. QED BY <2>1, SentJoin
<1>7. Rising(q, conv[p]) => Rising(q \o d, conv[p])
  BY <1>1, <1>2, <1>3, <1>5, RisingSteps
<1>8. (Once(q, "start") /\ ~Has(d, "start") => Once(q \o d, "start")) /\ (~Has(q, "start") /\ Once(d, "start") => Once(q \o d, "start"))
  BY <1>2, <1>3, HasSteps
<1>9. Behind(q) => Behind(q \o d)
  BY <1>2, <1>3, <1>5, OfSteps
<1>. QED BY <1>1, <1>2, <1>3, <1>4, <1>5, <1>6, <1>7, <1>8, <1>9

\* The host's game cannot begin what was asked: who asked is told.
LEMMA TalkFails ==
    ASSUME AllTypes, HostInv, TalkInv, EndInv, NEW p \in Players, HostReads(p), NEW m, m = Head(requests[p]), m.type = "failed"
    PROVE  TalkInv'
<1>1. /\ m \in Asks /\ m \in Sent(requests[p]) /\ p \in Members /\ Handles(p, m)
      /\ UNCHANGED <<conn, asked, conv, npc, heard, joined, speaker, menu>> /\ Members' = Members
      /\ \A q \in Players : q # p => requests'[q] = requests[q]
      /\ Sent(requests'[p]) \subseteq Sent(requests[p]) /\ Sent(requests[p]) \subseteq Sent(requests'[p]) \cup {m}
      /\ \A t : Once(requests[p], t) => Once(requests'[p], t)
  BY RequestRead
<1>2. /\ p = Host /\ Has(requests[Host], "failed") /\ Host \in Players /\ Host \notin Guests /\ Guests \subseteq Players
      /\ \A q \in Guests : requests'[q] = requests[q]
  <2>1. Host \in Players /\ Host \notin Guests /\ Guests \subseteq Players /\ (p = Host \/ p \in Guests)
    BY Channels
  <2>2. p = Host /\ Has(requests[Host], "failed")
    BY <1>1, <2>1 DEF TalkInv, AskInv, Has
  <2>. QED BY <1>1, <2>1, <2>2
<1>3. OnStartFailed(Host, m.npc)
  BY <1>1, <1>2 DEF Handles
<1>4. talk' = talk /\ lastTalk' = lastTalk
  BY <1>3 DEF OnStartFailed, ruleVars
<1>5. /\ ~Turned /\ ~Has(requests[Host], "opened") /\ ~Has(notices[Host], "start")
      /\ ~Has(requests'[Host], "opened") /\ ~Has(requests'[Host], "start")
      /\ (Flag(requests'[Host]) <=> Flag(requests[Host])) /\ (JoinsIt(requests'[Host]) <=> JoinsIt(requests[Host]))
      /\ (Has(requests'[Host], "join") => Has(requests[Host], "join")) /\ (Leaves(requests'[Host]) => Leaves(requests[Host]))
  <2>1. ~Turned /\ ~Has(requests[Host], "opened") /\ ~Has(notices[Host], "start") /\ ~Has(requests[Host], "start")
    BY <1>2 DEF TalkInv, StartInv, AskInv, Has
  <2>. QED BY <1>1, <1>2, <2>1 DEF Has, Flag, JoinsIt, Leaves
\* Who asked is told, or this is not what was asked.
<1>6. \/ UNCHANGED <<notices, hostAsked>> /\ (IsAsked => hostAsked.npc # m.npc)
      \/ /\ IsAsked /\ hostAsked.npc = m.npc /\ hostAsked' = NotAsked /\ hostAsked.player \in Members /\ hostAsked.player \in Guests
         /\ Tell({hostAsked.player}, <<Msg("refused", 0, m.npc, 0, FALSE)>>)
  <2>1. CASE ~(hostAsked # NotAsked /\ hostAsked.npc = m.npc)
    BY <1>3, <2>1 DEF OnStartFailed, ruleVars, IsAsked
  <2>2. CASE hostAsked # NotAsked /\ hostAsked.npc = m.npc
    <3>1. IsAsked /\ hostAsked.player \in Guests /\ asked[hostAsked.player] = hostAsked.npc /\ hostAsked.npc # None
      BY <2>2 DEF TalkInv, StartInv, IsAsked
    <3>2. hostAsked.player \in Members
      BY <1>2, <3>1 DEF TalkInv, AskInv, Members
    <3>. QED BY <1>3, <2>2, <3>1, <3>2 DEF OnStartFailed
  <2>. QED BY <2>1, <2>2
<1>7. /\ notices'[Host] = notices[Host]
      /\ \A q \in Players : \A n : n.type # "refused" => (n \in Sent(notices'[q]) <=> n \in Sent(notices[q]))
      /\ \A q \in Players : Sent(notices[q]) \subseteq Sent(notices'[q]) /\ Rising(notices'[q], conv[q])
      /\ \A q \in Players : q # hostAsked.player \/ ~IsAsked => notices'[q] = notices[q]
      /\ \A q \in Members : hostAsked = [player |-> q, npc |-> asked[q]] => hostAsked' = hostAsked \/ Of(notices'[q], "refused", asked[q])
      /\ hostAsked' \in {hostAsked, NotAsked}
  <2>1. CASE UNCHANGED <<notices, hostAsked>>
    BY <2>1 DEF TalkInv, KnowInv
  <2>2. CASE /\ IsAsked /\ hostAsked.npc = m.npc /\ hostAsked' = NotAsked /\ hostAsked.player \in Members /\ hostAsked.player \in Guests
             /\ Tell({hostAsked.player}, <<Msg("refused", 0, m.npc, 0, FALSE)>>)
    <3>1. PICK o : o = Msg("refused", 0, m.npc, 0, FALSE)
      OBVIOUS
    <3>2. o \in Tells /\ o.type = "refused" /\ o.npc = m.npc
      <4>1. m.npc \in Npcs \union {None} /\ 0 \in 0 .. MaxSteps
        BY <1>1, BoundsAssumption DEF Asks, Request
      <4>2. o \in Tells
        BY <3>1, <4>1, MessageIs
      <4>. QED BY <3>1, <4>2 DEF Msg
    <3>3. /\ \A q \in Players : q # hostAsked.player => notices'[q] = notices[q]
          /\ Sent(notices'[hostAsked.player]) = Sent(notices[hostAsked.player]) \cup {o}
          /\ \A q \in Players : Rising(notices'[q], conv[q])
      BY <2>2, <3>1, <3>2, ToldOne
    <3>4. \A q \in Members : hostAsked = [player |-> q, npc |-> asked[q]] => Of(notices'[q], "refused", asked[q])
      BY <2>2, <3>2, <3>3 DEF Of
    <3>. QED BY <1>2, <2>2, <3>2, <3>3, <3>4
  <2>. QED BY <1>6, <2>1, <2>2
<1>8. UNCHANGED <<OpensSoon, Turned, SpeakerChanged>> /\ (IsAsked' => IsAsked /\ hostAsked' = hostAsked) /\ UNCHANGED talk
  BY <1>1, <1>4, <1>5, <1>7 DEF OpensSoon, Turned, SpeakerChanged, IsAsked
<1>9. KnowInv'
  <2>1. ASSUME talk # NoTalk, NEW q \in Members PROVE Knows(q)'
    <3>1. Knows(q) /\ q \in Players
      BY <2>1 DEF TalkInv, KnowInv, Members
    <3>2. \A n : n.type = "open" => (n \in Sent(notices'[q]) <=> n \in Sent(notices[q]))
      BY <1>7, <3>1
    <3>. QED BY <1>1, <1>4, <1>5, <3>1, <3>2 DEF Knows
  <2>. QED BY <1>1, <1>4, <1>7, <2>1 DEF KnowInv
<1>10. RunInv'
  BY <1>1, <1>5, <1>7, <1>8 DEF TalkInv, RunInv, Has
<1>11. AskInv'
  <2>1. ASSUME NEW q \in Members, asked[q] # None PROVE AskOf(q)'
    <3>1. AskOf(q) /\ q \in Players /\ q \in Guests /\ requests'[q] = requests[q]
      BY <1>2, <2>1, Channels DEF TalkInv, AskInv, Members
    <3>2. Sent(notices[q]) \subseteq Sent(notices'[q])
      BY <1>7, <3>1
    <3>. QED BY <1>1, <1>7, <2>1, <3>1, <3>2 DEF AskOf, Of, Has
  <2>2. \A q \in Players : conn[q] # "open" => requests'[q] = <<>>
    BY <1>1, <1>2 DEF TalkInv, AskInv, Members
  <2>3. \A q \in Guests : ~Has(notices'[q], "start") /\ ~Has(requests'[q], "failed")
    BY <1>2, <1>7 DEF TalkInv, AskInv, Has
  <2>. QED BY <1>1, <1>5, <2>1, <2>2, <2>3 DEF TalkInv, AskInv
<1>12. StartInv'
  <2>1. \A n : Clear(n) => Clear(n)'
    BY <1>1, <1>8 DEF Clear
  <2>2. \A q \in Guests : Once(requests'[q], "start") /\ \A n \in Sent(requests'[q]) : n.type = "start" =>
           n.npc = asked'[q] /\ Clear(n.npc)' /\ talk'.npc # n.npc /\ ~IsAsked'
    BY <1>1, <1>2, <1>4, <1>8, <2>1 DEF TalkInv, StartInv
  <2>3. Once(notices'[Host], "start") /\ Behind(notices'[Host]) /\ \A n \in Sent(notices'[Host]) : n.type # "start"
    BY <1>5, <1>7 DEF TalkInv, StartInv, Has
  <2>4. ~Turned' /\ ~Has(requests'[Host], "opened")
    BY <1>5, <1>8
  <2>5. ASSUME IsAsked'
        PROVE  /\ talk' = NoTalk /\ hostAsked'.player \in Guests /\ asked'[hostAsked'.player] = hostAsked'.npc /\ hostAsked'.npc # None
               /\ Of(requests'[Host], "failed", hostAsked'.npc)
    <3>1. IsAsked /\ hostAsked' = hostAsked /\ hostAsked.npc # m.npc
      BY <1>6, <1>8, <2>5 DEF IsAsked
    <3>2. /\ talk = NoTalk /\ hostAsked.player \in Guests /\ asked[hostAsked.player] = hostAsked.npc /\ hostAsked.npc # None
          /\ Of(requests[Host], "failed", hostAsked.npc)
      BY <1>5, <3>1 DEF TalkInv, StartInv, Of, Has
    <3>3. Of(requests'[Host], "failed", hostAsked.npc)
      BY <1>1, <1>2, <3>1, <3>2 DEF Of
    <3>. QED BY <1>1, <1>4, <3>1, <3>2, <3>3
  <2>. QED BY <2>2, <2>3, <2>4, <2>5 DEF StartInv
<1>13. EmptyInv'
  <2>1. JoinsIt(requests[Host]) => \E n \in Sent(requests'[Host]) : n.type = "join" /\ n.conv = talk'.id
    BY <1>4, <1>5 DEF JoinsIt
  <2>. QED BY <1>1, <1>2, <1>4, <1>5, <1>7, <1>8, <2>1 DEF TalkInv, EmptyInv, JoinsIt
<1>14. PendInv'
  <2>1. ASSUME NEW q \in Guests, Has(requests'[q], "start") \/ hostAsked'.player = q PROVE ~Has(notices'[q], "open") /\ ~Has(notices'[q], "refused")
    <3>1. q \in Players /\ q # None /\ requests'[q] = requests[q]
      BY <1>2, <2>1, PlayersAssumption
    <3>2. CASE hostAsked'.player = q
      <4>1. hostAsked' = hostAsked /\ notices' = notices
        BY <1>6, <3>1, <3>2 DEF NotAsked
      <4>. QED BY <3>2, <4>1 DEF TalkInv, PendInv
    <3>3. CASE Has(requests'[q], "start")
      <4>1. ~IsAsked
        BY <3>1, <3>3 DEF TalkInv, StartInv, Has
      <4>. QED BY <1>7, <3>1, <3>3, <4>1 DEF TalkInv, PendInv
    <3>. QED BY <2>1, <3>2, <3>3
  <2>. QED BY <2>1 DEF PendInv
<1>. QED BY <1>9, <1>10, <1>11, <1>12, <1>13, <1>14 DEF TalkInv
\* The rules read that a player asks: it is refused, or the host's game is asked.
LEMMA TalkStarts ==
    ASSUME AllTypes, HostInv, TalkInv, EndInv, NEW p \in Players, HostReads(p), NEW m, m = Head(requests[p]), m.type = "start"
    PROVE  TalkInv'
<1>1. /\ m \in Asks /\ m \in Sent(requests[p]) /\ p \in Members /\ Handles(p, m) /\ (p # Host => requests[Host] = <<>>)
      /\ UNCHANGED <<conn, asked, conv, npc, heard, joined, speaker, menu>> /\ Members' = Members
      /\ \A q \in Players : q # p => requests'[q] = requests[q]
      /\ Sent(requests'[p]) \subseteq Sent(requests[p])
      /\ (Once(requests[p], "start") => ~Has(requests'[p], "start"))
  BY RequestRead
<1>2. Host \in Players /\ Host \notin Guests /\ Guests \subseteq Players /\ (p = Host \/ p \in Guests)
  BY Channels
<1>3. /\ p \in Guests /\ p # Host /\ requests[Host] = <<>> /\ requests'[Host] = requests[Host]
      /\ Once(requests[p], "start") /\ ~Has(requests'[p], "start") /\ m.npc = asked[p] /\ Clear(m.npc) /\ talk.npc # m.npc
      /\ ~IsAsked /\ m.npc # None
  <2>1. p \in Guests
    BY <1>1, <1>2 DEF TalkInv, AskInv, Has
  <2>2. Once(requests[p], "start") /\ m.npc = asked[p] /\ Clear(m.npc) /\ talk.npc # m.npc /\ ~IsAsked
    BY <1>1, <2>1 DEF TalkInv, StartInv
  <2>. QED BY <1>1, <1>2, <2>1, <2>2 DEF Clear
<1>4. \A q \in Guests : ~Has(requests'[q], "start")
  <2>1. ASSUME NEW q \in Guests, q # p, NEW n \in Sent(requests[q]), n.type = "start" PROVE FALSE
    <3>1. n.npc = asked[q] /\ asked[q] # None
      BY <2>1 DEF TalkInv, StartInv, Clear
    <3>. QED BY <1>2, <1>3, <2>1, <3>1 DEF TalkInv, AskInv
  <2>. QED BY <1>1, <1>2, <1>3, <2>1 DEF Has
<1>5. ~Has(notices[Host], "start") /\ ~Has(notices[p], "open") /\ ~Has(notices[p], "refused")
  <2>1. ~Has(notices[Host], "start")
    BY <1>3 DEF TalkInv, StartInv, Has
  <2>2. Has(requests[p], "start")
    BY <1>1 DEF Has
  <2>. QED BY <1>3, <2>1, <2>2 DEF TalkInv, PendInv
<1>6. OnStart(p, m.npc)
  BY <1>1 DEF Handles
<1>7. 0 \in 0 .. MaxSteps /\ m.npc \in Npcs \union {None}
  BY <1>1, BoundsAssumption DEF Asks, Request
<1>8. PICK o : \/ /\ talk # NoTalk /\ o.type = "refused" /\ hostAsked' = hostAsked
                  /\ Tell({p}, <<o>>) /\ o \in Tells /\ o.npc = m.npc /\ talk' = talk /\ lastTalk' = lastTalk
               \/ /\ talk = NoTalk /\ o.type = "start" /\ hostAsked' = [player |-> p, npc |-> m.npc]
                  /\ Tell({Host}, <<o>>) /\ o \in Tells /\ o.npc = m.npc /\ talk' = talk /\ lastTalk' = lastTalk
  <2>1. CASE talk # NoTalk /\ talk.npc # m.npc /\ Tell({p}, <<Msg("refused", 0, m.npc, 0, FALSE)>>) /\ UNCHANGED ruleVars
    <3>1. PICK o : o = Msg("refused", 0, m.npc, 0, FALSE)
      OBVIOUS
    <3>2. o \in Tells
      BY <1>7, <3>1, MessageIs
    <3>3. o.type = "refused" /\ o.npc = m.npc
      BY <3>1 DEF Msg
    <3>. QED BY <2>1, <3>1, <3>2, <3>3 DEF ruleVars
  <2>2. CASE /\ talk = NoTalk /\ hostAsked' = [player |-> p, npc |-> m.npc] /\ Tell({Host}, <<Msg("start", 0, m.npc, 0, FALSE)>>)
             /\ UNCHANGED <<talk, lastTalk>>
    <3>1. PICK o : o = Msg("start", 0, m.npc, 0, FALSE)
      OBVIOUS
    <3>2. o \in Tells
      BY <1>7, <3>1, MessageIs
    <3>3. o.type = "start" /\ o.npc = m.npc
      BY <3>1 DEF Msg
    <3>. QED BY <2>2, <3>1, <3>2, <3>3
  <2>. QED BY <1>3, <1>6, <2>1, <2>2 DEF OnStart
<1>9. /\ talk' = talk /\ lastTalk' = lastTalk
      /\ \A q \in Players : \A n : n.type \notin {"refused", "start"} => (n \in Sent(notices'[q]) <=> n \in Sent(notices[q]))
      /\ \A q \in Players : Sent(notices[q]) \subseteq Sent(notices'[q]) /\ Rising(notices'[q], conv[q])
      /\ \A q \in Guests : ~Has(notices'[q], "start")
      /\ Once(notices'[Host], "start") /\ Behind(notices'[Host])
      /\ hostAsked' = [player |-> p, npc |-> asked[p]] \/ Of(notices'[p], "refused", asked[p])
      /\ \A n \in Sent(notices'[Host]) : n.type = "start" => hostAsked' = [player |-> p, npc |-> m.npc] /\ n.npc = m.npc /\ talk = NoTalk
      /\ \/ hostAsked' = hostAsked /\ hostAsked = NotAsked
         \/ hostAsked' = [player |-> p, npc |-> m.npc] /\ talk = NoTalk /\ Has(notices'[Host], "start") /\ notices'[p] = notices[p]
  <2>1. Once(notices[Host], "start") /\ Behind(notices[Host]) /\ Host \in Members
    BY HostChannels DEF TalkInv, StartInv
  <2>2. \A q \in Guests : ~Has(notices[q], "start")
    BY DEF TalkInv, AskInv
  <2>3. CASE talk # NoTalk /\ o.type = "refused" /\ hostAsked' = hostAsked /\ Tell({p}, <<o>>) /\ o \in Tells /\ o.npc = m.npc
    <3>1. /\ \A q \in Players : q # p => notices'[q] = notices[q]
          /\ Sent(notices'[p]) = Sent(notices[p]) \cup {o}
          /\ \A q \in Players : Rising(notices'[q], conv[q])
      BY <1>1, <2>3, ToldOne
    <3>2. notices'[Host] = notices[Host] /\ hostAsked = NotAsked
      BY <1>2, <1>3, <3>1 DEF IsAsked
    <3>3. \A n \in Sent(notices'[Host]) : n.type # "start"
      BY <1>5, <3>2 DEF Has
    <3>4. Of(notices'[p], "refused", asked[p])
      BY <1>3, <2>3, <3>1 DEF Of
    <3>5. \A q \in Guests : ~Has(notices'[q], "start")
      BY <1>2, <2>2, <2>3, <3>1 DEF Has
    <3>6. /\ \A q \in Players : \A n : n.type \notin {"refused", "start"} => (n \in Sent(notices'[q]) <=> n \in Sent(notices[q]))
          /\ \A q \in Players : Sent(notices[q]) \subseteq Sent(notices'[q])
      BY <2>3, <3>1
    <3>. QED BY <1>8, <2>1, <2>3, <3>1, <3>2, <3>3, <3>4, <3>5, <3>6
  <2>4. CASE /\ talk = NoTalk /\ o.type = "start" /\ hostAsked' = [player |-> p, npc |-> m.npc] /\ Tell({Host}, <<o>>) /\ o \in Tells
             /\ o.npc = m.npc
    <3>1. /\ \A q \in Players : q # Host => notices'[q] = notices[q]
          /\ Sent(notices'[Host]) = Sent(notices[Host]) \cup {o}
          /\ \A q \in Players : Rising(notices'[q], conv[q])
          /\ Once(notices'[Host], "start") /\ Behind(notices'[Host])
      BY <1>5, <2>1, <2>4, ToldOne
    <3>2. \A n \in Sent(notices'[Host]) : n.type = "start" => n = o
      BY <1>5, <3>1 DEF Has
    <3>3. Has(notices'[Host], "start")
      BY <2>4, <3>1 DEF Has
    <3>4. \A q \in Guests : ~Has(notices'[q], "start")
      BY <1>2, <2>2, <3>1
    <3>5. /\ \A q \in Players : \A n : n.type \notin {"refused", "start"} => (n \in Sent(notices'[q]) <=> n \in Sent(notices[q]))
          /\ \A q \in Players : Sent(notices[q]) \subseteq Sent(notices'[q])
      BY <2>4, <3>1
    <3>. QED BY <1>3, <1>8, <2>4, <3>1, <3>2, <3>3, <3>4, <3>5
  <2>. QED BY <1>8, <2>3, <2>4
<1>10. UNCHANGED <<Turned, SpeakerChanged>> /\ (OpensSoon' <=> OpensSoon) /\ (IsAsked' <=> hostAsked' # NotAsked)
  BY <1>1, <1>2, <1>3, <1>9 DEF OpensSoon, Turned, SpeakerChanged, IsAsked, Has
<1>11. \A q \in Players : /\ Has(notices'[q], "open") <=> Has(notices[q], "open")
                          /\ \A n : n.type = "open" => (n \in Sent(notices'[q]) <=> n \in Sent(notices[q]))
  BY <1>9 DEF Has
<1>12. KnowInv'
  <2>1. Members \subseteq Players
    BY DEF Members
  <2>. QED BY <1>1, <1>3, <1>9, <1>11, <2>1 DEF TalkInv, KnowInv, Knows
<1>13. RunInv'
  BY <1>1, <1>2, <1>3, <1>10, <1>11 DEF TalkInv, RunInv
<1>14. AskInv'
  <2>1. ASSUME NEW q \in Members, asked[q] # None PROVE AskOf(q)'
    <3>1. q = p
      BY <1>1, <1>3, <2>1 DEF TalkInv, AskInv, Members
    <3>. QED BY <1>1, <1>9, <3>1 DEF AskOf
  <2>2. \A q \in Players : conn[q] # "open" => requests'[q] = <<>>
    BY <1>1 DEF TalkInv, AskInv, Members
  <2>3. \A q \in Guests : ~Has(requests'[q], "failed")
    BY <1>1, <1>2 DEF TalkInv, AskInv, Has
  <2>4. ~Has(requests'[Host], "start")
    BY <1>3 DEF TalkInv, AskInv
  <2>. QED BY <1>1, <1>9, <2>1, <2>2, <2>3, <2>4 DEF TalkInv, AskInv
<1>15. StartInv'
  <2>1. Clear(m.npc)'
    BY <1>1, <1>3, <1>10 DEF Clear
  <2>2. \A q \in Guests : Once(requests'[q], "start") /\ \A n \in Sent(requests'[q]) : n.type # "start"
    BY <1>4 DEF Once, Has, Sent
  <2>3. ~Has(requests'[Host], "failed") /\ ~Has(requests'[Host], "opened")
    BY <1>3, NothingIn
  <2>4. [player |-> p, npc |-> m.npc] # NotAsked
    BY <1>3 DEF NotAsked
  <2>5. \A n \in Sent(notices'[Host]) : n.type = "start" =>
           IsAsked' /\ hostAsked'.npc = n.npc /\ Clear(n.npc)' /\ ~Has(requests'[Host], "failed")
    BY <1>9, <1>10, <2>1, <2>3, <2>4
  <2>6. IsAsked' =>
         /\ talk' = NoTalk /\ hostAsked'.player \in Guests /\ asked'[hostAsked'.player] = hostAsked'.npc /\ hostAsked'.npc # None
         /\ Has(notices'[Host], "start")
    BY <1>1, <1>3, <1>9, <1>10
  <2>. QED BY <1>9, <2>2, <2>3, <2>5, <2>6 DEF StartInv
<1>16. EmptyInv'
  <2>1. (Turned' \/ Has(requests'[Host], "opened")) /\ ~IsAsked' => menu'[Host] # "closed"
    BY <1>1, <1>3, <1>10 DEF TalkInv, EmptyInv
  <2>2. JoinsIt(requests[Host])' <=> JoinsIt(requests[Host])
    BY <1>3, <1>9 DEF JoinsIt
  <2>. QED BY <1>1, <1>2, <1>3, <1>9, <1>10, <1>11, <2>1, <2>2 DEF TalkInv, EmptyInv
<1>17. PendInv'
  <2>1. ASSUME NEW q \in Guests, hostAsked'.player = q PROVE ~Has(notices'[q], "open") /\ ~Has(notices'[q], "refused")
    <3>1. q # None
      BY <1>2, PlayersAssumption
    <3>2. q = p /\ notices'[p] = notices[p]
      BY <1>9, <2>1, <3>1 DEF NotAsked
    <3>. QED BY <1>5, <3>2
  <2>. QED BY <1>4, <2>1 DEF PendInv
<1>. QED BY <1>12, <1>13, <1>14, <1>15, <1>16, <1>17 DEF TalkInv
\* The rules read that a conversation began: who asked for it is in it, or who was greeted.
LEMMA TalkOpens ==
    ASSUME AllTypes, HostInv, TalkInv, EndInv, NEW p \in Players, HostReads(p), NEW m, m = Head(requests[p]), m.type = "opened"
    PROVE  TalkInv'
<1>1. /\ m \in Asks /\ m \in Sent(requests[p]) /\ p \in Members /\ Handles(p, m)
      /\ UNCHANGED <<conn, asked, conv, npc, heard, joined, speaker, menu>> /\ Members' = Members
      /\ \A q \in Players : q # p => requests'[q] = requests[q]
      /\ Sent(requests'[p]) \subseteq Sent(requests[p])
      /\ (Once(requests[p], "opened") => ~Has(requests'[p], "opened"))
  BY RequestRead
<1>2. Host \in Players /\ Host \notin Guests /\ Guests \subseteq Players /\ (p = Host \/ p \in Guests)
  BY Channels
<1>3. /\ p = Host /\ Has(requests[Host], "opened") /\ ~Has(requests'[Host], "opened") /\ Host \in Members
  BY <1>1, <1>2, HostChannels DEF HostInv, Has
<1>4. /\ conv[Host] = 0 /\ speaker[Host] = heard /\ heard # None /\ OpensSoon /\ ~Has(notices[Host], "open") /\ m.npc = heard
      /\ ~SpeakerChanged /\ ~Turned /\ ~Has(requests[Host], "failed") /\ m.npc \in Npcs /\ m.flag \in BOOLEAN
  <2>1. conv[Host] = 0 /\ speaker[Host] = heard /\ heard # None /\ OpensSoon /\ ~Has(notices[Host], "open")
    BY <1>3 DEF HostInv, OpensSoon
  <2>2. m.npc = heard /\ ~Has(requests[Host], "failed")
    BY <1>1, <1>3 DEF TalkInv, RunInv, StartInv
  <2>3. m.npc \in Npcs /\ m.flag \in BOOLEAN
    BY <1>1 DEF Asks, Request
  <2>. QED BY <2>1, <2>2, <2>3 DEF SpeakerChanged, Turned
<1>5. (\A q \in Guests : ~Has(requests[q], "start")) /\ ~Has(notices[Host], "start")
  <2>1. \A q \in Guests : ~Has(requests[q], "start")
    BY <1>4 DEF TalkInv, StartInv, Clear, Has
  <2>2. ~Has(notices[Host], "start")
    BY <1>4 DEF TalkInv, StartInv, Clear, Has
  <2>. QED BY <2>1, <2>2
<1>6. OnOpened(m.npc, m.flag)
  BY <1>1 DEF Handles
<1>7. Opens(m.npc, m.flag)
  <2>1. talk.id = 0 => talk = NoTalk
    BY DEF EndInv, IdsOK
  <2>2. ~Quiet(Chats) /\ ~Ends(Players) /\ ~Ends(Players \ {Host})
    <3>1. lastTalk' = lastTalk + 1 /\ lastTalk \in Nat
      BY <1>6 DEF OnOpened, AllTypes, RulesOK
    <3>. QED BY <3>1 DEF Quiet, Ends
  <2>. QED BY <1>1, <2>1, <2>2, HandlerDoes DEF AllTypes
<1>8. /\ lastTalk' = lastTalk + 1 /\ talk'.id = lastTalk + 1 /\ talk'.npc = m.npc /\ hostAsked' = NotAsked /\ lastTalk \in Nat
      /\ talk'.players = IF m.flag THEN Members \ {Host} ELSE {q \in {hostAsked.player} : hostAsked.npc = m.npc}
  BY <1>6 DEF OnOpened, NoTalk, AllTypes, RulesOK
<1>9. PICK o : o = OpenNow(m.npc, m.flag) /\ o \in Tells /\ o.type = "open" /\ o.conv = lastTalk + 1 /\ o.npc = m.npc
  BY <1>4, OpenIs DEF AllTypes
<1>10. \A q \in Players : Numbered(notices[q], conv[q], lastTalk) /\ Rising(notices[q], conv[q]) /\ notices[q] \in Seq(Tells) /\ conv[q] \in Nat
  BY Channels DEF EndInv, IdsOK, TalkInv, KnowInv
<1>11. ASSUME NEW q \in Members
       PROVE  /\ Rising(notices'[q], conv[q]) /\ o \in Sent(notices'[q]) /\ Sent(notices[q]) \subseteq Sent(notices'[q])
              /\ \A n \in Sent(notices'[q]) : n.type # "closed" => n = o \/ n \in Sent(notices[q])
              /\ \A n \in Sent(notices'[q]) : n.type = "open" /\ n.conv = lastTalk + 1 => n = o
              /\ q = Host => Sent(notices'[Host]) = Sent(notices[Host]) \cup {o}
  <2>1. PICK e \in Seq(Tells) : notices'[q] = notices[q] \o e \o <<OpenNow(m.npc, m.flag)>>
                                /\ \A n \in Sent(e) : n = ClosedNow(talk) /\ q # Host /\ talk # NoTalk
    BY <1>7 DEF Opens
  <2>2. \A n \in Sent(e) : n.type = "closed"
    BY <2>1 DEF ClosedNow, Msg
  <2>3. q \in Players
    BY DEF Members
  <2>4. PICK s : s = notices[q] /\ s \in Seq(Tells) /\ Numbered(s, conv[q], lastTalk) /\ Rising(s, conv[q])
    BY <1>10, <2>3
  <2>5. PICK d : d = <<o>> /\ d \in Seq(Tells) /\ Sent(d) = {o}
    <3>1. Sent(<<o>>) = {o} /\ <<o>> \in Seq(Tells)
      BY <1>9, SentFew, Sends12
    <3>. QED BY <3>1
  <2>6. PICK v : v = s \o e /\ v \in Seq(Tells) /\ Sent(v) = Sent(s) \cup Sent(e)
    <3>1. s \in Seq(Tells) /\ e \in Seq(Tells)
      BY <2>4
    <3>. QED BY <3>1, SentJoin
  <2>7. Sent(v \o d) = Sent(v) \cup Sent(d)
    <3>1. v \in Seq(Tells) /\ d \in Seq(Tells)
      BY <2>5, <2>6
    <3>. QED BY <3>1, SentJoin
  <2>8. notices'[q] = v \o d
    BY <1>9, <2>1, <2>4, <2>5, <2>6
  <2>9. ~Has(e, "open")
    BY <2>2 DEF Has
  <2>10. Rising(s \o e \o <<o>>, conv[q])
    BY <1>8, <1>9, <1>10, <2>3, <2>4, <2>9, RisingSteps
  <2>11. \A n \in Sent(s) : n.type = "open" => n.conv \in 1 .. lastTalk
    BY <2>4 DEF Numbered
  <2>12. ASSUME NEW n \in Sent(notices'[q]), n.type = "open", n.conv = lastTalk + 1 PROVE n = o
    <3>1. n \in Sent(s) => n.conv # lastTalk + 1
      BY <1>8, <2>11, <2>12
    <3>. QED BY <2>2, <2>5, <2>6, <2>7, <2>8, <2>12, <3>1
  <2>13. q = Host => Sent(notices'[Host]) = Sent(notices[Host]) \cup {o}
    BY <2>1, <2>4, <2>5, <2>6, <2>7, <2>8
  <2>. QED BY <2>2, <2>4, <2>5, <2>6, <2>7, <2>8, <2>10, <2>12, <2>13
<1>12. \A q \in Players \ Members : notices'[q] = notices[q]
  BY <1>7 DEF Opens
<1>13. Members \subseteq Players
  BY DEF Members
<1>14. ~IsAsked' /\ ~Turned' /\ ~SpeakerChanged' /\ OpensSoon'
  BY <1>1, <1>3, <1>4, <1>8, <1>9, <1>11 DEF IsAsked, Turned, SpeakerChanged, OpensSoon, Has
<1>15. KnowInv'
  <2>1. \A q \in Players : Rising(notices'[q], conv'[q])
    BY <1>1, <1>10, <1>11, <1>12
  <2>2. ASSUME NEW q \in Members PROVE Knows(q)'
    <3>1. conv[q] # lastTalk + 1
      BY <1>8, <1>10, <1>13, <2>2 DEF Numbered
    <3>. QED BY <1>1, <1>8, <1>9, <1>11, <3>1 DEF Knows
  <2>. QED BY <1>1, <2>1, <2>2 DEF KnowInv
<1>16. RunInv'
  <2>1. \A n \in Sent(notices'[Host]) : n.type = "open" => n = o
    BY <1>3, <1>4, <1>11 DEF Has
  <2>2. \A n \in Sent(requests'[Host]) : n.type # "opened"
    BY <1>3 DEF Has
  <2>. QED BY <1>1, <1>4, <1>9, <1>14, <2>1, <2>2 DEF RunInv
<1>17. AskInv'
  <2>1. \A q \in Members : AskOf(q)'
    BY <1>9, <1>11 DEF AskOf, Has
  <2>2. \A q \in Players : conn[q] # "open" => requests'[q] = <<>>
    BY <1>1 DEF TalkInv, AskInv, Members
  <2>3. ASSUME NEW q \in Guests PROVE ~Has(notices'[q], "start") /\ ~Has(requests'[q], "failed")
    <3>1. ~Has(notices[q], "start") /\ ~Has(requests[q], "failed") /\ q # Host /\ q \in Players
      BY <1>2 DEF TalkInv, AskInv
    <3>2. ~Has(notices'[q], "start")
      BY <1>9, <1>11, <1>12, <3>1 DEF Has
    <3>. QED BY <1>1, <1>3, <3>1, <3>2
  <2>4. ~Has(requests'[Host], "start")
    BY <1>1, <1>3 DEF TalkInv, AskInv, Has
  <2>. QED BY <1>1, <2>1, <2>2, <2>3, <2>4 DEF TalkInv, AskInv
<1>18. \A q \in Guests : ~Has(requests'[q], "start")
  BY <1>1, <1>2, <1>3, <1>5
<1>19. StartInv'
  <2>1. \A q \in Guests : Once(requests'[q], "start") /\ \A n \in Sent(requests'[q]) : n.type # "start"
    BY <1>18 DEF Once, Has, Sent
  <2>2. ~Has(notices'[Host], "start")
    BY <1>3, <1>5, <1>9, <1>11 DEF Has
  <2>3. Once(notices'[Host], "start") /\ Behind(notices'[Host]) /\ \A n \in Sent(notices'[Host]) : n.type # "start"
    BY <2>2 DEF Once, Behind, Has, Sent
  <2>4. ~Has(requests'[Host], "failed")
    BY <1>1, <1>3, <1>4 DEF Has
  <2>. QED BY <1>14, <2>1, <2>3, <2>4 DEF StartInv
<1>20. EmptyInv'
  <2>1. ~(Has(requests'[Host], "join") /\ Leaves(requests'[Host]))
    BY <1>1, <1>3 DEF TalkInv, EmptyInv, Has, Leaves
  <2>2. ASSUME talk'.players = {} PROVE menu[Host] # "closed"
    <3>1. CASE ~IsAsked
      BY <1>3, <3>1 DEF TalkInv, EmptyInv
    <3>2. CASE IsAsked
      <4>1. hostAsked.player \in Guests /\ asked[hostAsked.player] # None /\ Of(requests[Host], "opened", hostAsked.npc)
        BY <1>4, <1>5, <3>2 DEF TalkInv, StartInv, Of, Has
      <4>2. hostAsked.npc = heard
        BY <4>1 DEF TalkInv, RunInv, Of
      <4>3. hostAsked.player \in Members \ {Host}
        BY <1>2, <4>1 DEF TalkInv, AskInv, Members
      <4>. QED BY <1>4, <1>8, <2>2, <4>2, <4>3
    <3>. QED BY <3>1, <3>2
  <2>3. Has(notices'[Host], "open")
    BY <1>3, <1>9, <1>11 DEF Has
  <2>. QED BY <1>1, <1>3, <1>14, <2>1, <2>2, <2>3 DEF EmptyInv
<1>21. PendInv'
  <2>1. \A q \in Guests : hostAsked'.player # q
    BY <1>2, <1>8, PlayersAssumption DEF NotAsked
  <2>. QED BY <1>18, <2>1 DEF PendInv
<1>. QED BY <1>15, <1>16, <1>17, <1>19, <1>20, <1>21 DEF TalkInv

\* The rules read a request.
LEMMA TalkHostReads == ASSUME AllTypes, HostInv, TalkInv, EndInv, NEW p \in Players, HostReads(p) PROVE TalkInv'
<1>1. PICK m : m = Head(requests[p])
  OBVIOUS
<1>2. m \in Asks
  BY <1>1, RequestRead
<1>3. m.type \in {"start", "opened", "options", "pick", "close", "join", "failed"}
  BY <1>2 DEF Asks, Request
<1>. QED BY <1>1, <1>3, TalkHandles, TalkFails, TalkStarts, TalkOpens
\* What a notice read leaves.
LEMMA NoticeRead ==
    ASSUME AllTypes, HostInv, TalkInv, EndInv, NEW p \in Players, GameReads(p), NEW m, m = Head(notices[p])
    PROVE  /\ m \in Tells /\ m \in Sent(notices[p]) /\ p \in Members /\ requests[Host] = <<>>
           /\ UNCHANGED <<conn, talk, lastTalk, hostAsked>> /\ Members' = Members
           /\ \A q \in Players : q # p => notices'[q] = notices[q]
           /\ Sent(notices'[p]) \subseteq Sent(notices[p]) /\ Sent(notices[p]) \subseteq Sent(notices'[p]) \cup {m}
           /\ \A t : /\ Once(notices[p], t) => Once(notices'[p], t)
                     /\ Once(notices[p], t) /\ m.type = t => ~Has(notices'[p], t)
           /\ Rising(notices'[p], conv[p]) /\ Rising(notices'[p], 0)
           /\ m.type = "open" => conv[p] < m.conv /\ Rising(notices'[p], m.conv)
           /\ Behind(notices[p]) => Behind(notices'[p]) /\ (m.type = "start" => ~Has(notices'[p], "closed"))
           /\ m.type = "closed" => m.conv # 0 /\ (talk # NoTalk => m.conv # talk.id)
           /\ m.type = "open" => m.conv \in 1 .. lastTalk
<1>1. /\ notices[p] \in Seq(Tells) /\ notices[p] # <<>> /\ p \in Members /\ requests[Host] = <<>>
      /\ notices' = [notices EXCEPT ![p] = Tail(@)] /\ UNCHANGED <<conn, ruleVars>>
      /\ conv[p] \in Nat /\ Rising(notices[p], conv[p]) /\ Numbered(notices[p], conv[p], lastTalk) /\ Closing(notices[p], talk.id, lastTalk)
  BY Channels DEF GameReads, HostIdle, TalkInv, KnowInv, EndInv, IdsOK
<1>2. PICK q : q = notices[p] /\ q \in Seq(Tells) /\ q # <<>> /\ Rising(q, conv[p])
  BY <1>1
<1>3. /\ Head(q) \in Tells /\ Head(q) \in Sent(q) /\ Sent(Tail(q)) \subseteq Sent(q) /\ Sent(q) \subseteq Sent(Tail(q)) \cup {Head(q)}
  BY <1>2, SentRead
<1>4. notices'[p] = Tail(q) /\ \A r \in Players : r # p => notices'[r] = notices[r]
  BY <1>1, <1>2 DEF AllTypes, NoticesOK
<1>5. \A t : /\ Once(q, t) => Once(Tail(q), t)
             /\ Once(q, t) /\ Head(q).type = t => ~Has(Tail(q), t)
  BY <1>2, HasSteps
<1>6. /\ Rising(Tail(q), conv[p]) /\ Rising(Tail(q), 0)
      /\ Head(q).type = "open" => conv[p] < Head(q).conv /\ Rising(Tail(q), Head(q).conv)
  <2>1. q \in Seq(Tells) /\ conv[p] \in Nat /\ Rising(q, conv[p]) /\ q # <<>>
    BY <1>1, <1>2
  <2>. QED BY <2>1, RisingSteps
<1>7. /\ Behind(q) => Behind(Tail(q))
      /\ Behind(q) /\ Head(q).type = "start" => ~Has(Tail(q), "closed")
  BY <1>2, OfSteps
<1>8. /\ m.type = "closed" => m.conv # 0 /\ (talk # NoTalk => m.conv # talk.id)
      /\ m.type = "open" => m.conv \in 1 .. lastTalk
  BY <1>1, <1>2, <1>3 DEF Closing, Numbered
<1>9. UNCHANGED <<conn, talk, lastTalk, hostAsked>> /\ Members' = Members
  BY <1>1 DEF ruleVars, Members
<1>. QED BY <1>1, <1>2, <1>3, <1>4, <1>5, <1>6, <1>7, <1>8, <1>9
\* The host's game reads that a guest asked: its engine turns to the NPC, or cannot.
LEMMA TalkReadsStart ==
    ASSUME AllTypes, HostInv, TalkInv, EndInv, NEW p \in Players, GameReads(p), NEW m, m = Head(notices[p]), m.type = "start", OnHostStart(m)
    PROVE  TalkInv'
<1>1. /\ m \in Tells /\ m \in Sent(notices[p]) /\ p \in Members /\ requests[Host] = <<>>
      /\ UNCHANGED <<conn, talk, lastTalk, hostAsked>> /\ Members' = Members
      /\ \A q \in Players : q # p => notices'[q] = notices[q]
      /\ Sent(notices'[p]) \subseteq Sent(notices[p]) /\ Sent(notices[p]) \subseteq Sent(notices'[p]) \cup {m}
      /\ Once(notices[p], "start") => ~Has(notices'[p], "start")
      /\ Rising(notices'[p], conv[p])
      /\ Behind(notices[p]) => Behind(notices'[p]) /\ ~Has(notices'[p], "closed")
  BY NoticeRead
<1>2. Host \in Players /\ Host \notin Guests /\ Guests \subseteq Players /\ (p = Host \/ p \in Guests)
  BY Channels
<1>3. /\ p = Host /\ Once(notices[Host], "start") /\ Behind(notices[Host]) /\ IsAsked /\ hostAsked.npc = m.npc /\ Clear(m.npc)
      /\ talk = NoTalk /\ hostAsked.player \in Guests /\ asked[hostAsked.player] = hostAsked.npc /\ m.npc # None
      /\ \A q \in Guests : ~Has(requests[q], "start")
  <2>1. p = Host
    BY <1>1, <1>2 DEF TalkInv, AskInv, Has
  <2>. QED BY <1>1, <2>1 DEF TalkInv, StartInv, Clear, Has
<1>4. ~Has(notices'[Host], "start") /\ Behind(notices'[Host]) /\ ~Has(notices'[Host], "closed") /\ ~OpensSoon /\ ~Turned
      /\ speaker[Host] # m.npc /\ heard # m.npc
  BY <1>1, <1>3 DEF Clear
\* Its game is in no conversation: none is behind, for none is under way.
<1>5. conv[Host] = 0
  <2>1. ASSUME conv[Host] # 0 PROVE FALSE
    <3>1. talk.id = 0 /\ Hears(Host)
      BY <1>3 DEF NoTalk, HostInv
    <3>2. PICK j \in DOMAIN notices[Host] : Over(notices[Host][j], conv[Host])
      BY <2>1, <3>1 DEF Hears, ComesTo, OverAfter
    <3>3. PICK n : n = notices[Host][j] /\ n \in Sent(notices[Host])
      BY DEF Sent
    <3>4. n.type # "open"
      BY <1>4, <3>3 DEF OpensSoon, Has
    <3>5. n.type = "closed"
      BY <3>2, <3>3, <3>4 DEF Over
    <3>. QED BY <1>1, <1>3, <1>4, <3>3, <3>5 DEF Has
  <2>. QED BY <2>1
<1>6. UNCHANGED <<asked, conv, npc, heard, joined, menu>>
  BY DEF OnHostStart, serviceVars, screenVars
<1>7. \A q \in Players : /\ \A n : n.type # "start" => (n \in Sent(notices'[q]) <=> n \in Sent(notices[q]))
                         /\ \A t : t # "start" => (Has(notices'[q], t) <=> Has(notices[q], t)) /\ \A k : Of(notices'[q], t, k) <=> Of(notices[q], t, k)
  BY <1>1, <1>3 DEF Has, Of
<1>8. /\ \A q \in Players : q # Host => requests'[q] = requests[q]
      /\ \/ speaker'[Host] = m.npc /\ requests'[Host] = requests[Host]
         \/ speaker'[Host] = speaker[Host] /\ \E n : n.type = "failed" /\ n.npc = m.npc /\ Sent(requests'[Host]) = {n}
  <2>1. CASE speaker' = [speaker EXCEPT ![Host] = m.npc] /\ UNCHANGED requests
    BY <1>2, <2>1 DEF AllTypes, EngineOK
  <2>2. CASE Sends(Host, <<Msg("failed", 0, m.npc, 0, FALSE)>>) /\ UNCHANGED speaker
    <3>1. PICK n : n = Msg("failed", 0, m.npc, 0, FALSE)
      OBVIOUS
    <3>2. n \in Asks
      <4>1. m.npc \in Npcs \union {None} /\ 0 \in 0 .. MaxSteps
        BY <1>1, BoundsAssumption DEF Tells, Notice
      <4>. QED BY <3>1, <4>1, MessageIs
    <3>3. n.type = "failed" /\ n.npc = m.npc
      BY <3>1 DEF Msg
    <3>4. PICK d : d = <<n>> /\ d \in Seq(Asks) /\ Sent(d) = {n}
      <4>1. Sent(<<n>>) = {n} /\ <<n>> \in Seq(Asks)
        BY <3>2, SentFew, Sends12
      <4>. QED BY <4>1
    <3>5. Sends(Host, d)
      BY <2>2, <3>1, <3>4, Zenon
    <3>6. requests'[Host] = <<>> \o d /\ \A q \in Players : q # Host => requests'[q] = requests[q]
      BY <1>1, <1>2, <3>4, <3>5, SendsType DEF AllTypes
    <3>7. requests'[Host] = d
      BY <3>4, <3>6
    <3>. QED BY <2>2, <3>3, <3>4, <3>6, <3>7
  <2>. QED BY <2>1, <2>2 DEF OnHostStart
<1>9. /\ ~Has(requests'[Host], "opened") /\ ~Has(requests'[Host], "join") /\ ~Has(requests'[Host], "start")
      /\ \A n \in Sent(requests'[Host]) : n.type = "failed"
  <2>1. Sent(requests[Host]) = {}
    BY <1>1, SentFew
  <2>2. \A n \in Sent(requests'[Host]) : n.type = "failed"
    BY <1>8, <2>1
  <2>. QED BY <2>2 DEF Has
<1>10. ~OpensSoon'
  BY <1>4, <1>7, <1>9, <1>2 DEF OpensSoon
<1>11. IsAsked' /\ talk' = NoTalk
  BY <1>1, <1>3 DEF IsAsked
<1>12. KnowInv'
  BY <1>1, <1>3, <1>6, <1>11 DEF TalkInv, KnowInv
<1>13. RunInv'
  <2>1. speaker'[Host] # None => SpeakerChanged'
    BY <1>4, <1>5, <1>6, <1>8 DEF TalkInv, RunInv, Turned, SpeakerChanged
  <2>2. \A n \in Sent(notices'[Host]) : n.type = "open" => n.npc = heard
    BY <1>2, <1>7 DEF TalkInv, RunInv
  <2>. QED BY <1>5, <1>6, <1>9, <2>1, <2>2 DEF RunInv
<1>14. AskInv'
  <2>1. ASSUME NEW q \in Members, asked[q] # None PROVE AskOf(q)'
    <3>1. AskOf(q) /\ q # Host /\ q \in Players
      BY <2>1, Channels DEF TalkInv, AskInv, Members
    <3>. QED BY <1>1, <1>6, <1>7, <1>8, <3>1 DEF AskOf
  <2>2. \A q \in Players : conn[q] # "open" => requests'[q] = <<>>
    BY <1>3, <1>1, <1>8 DEF TalkInv, AskInv, Members
  <2>3. \A q \in Guests : ~Has(notices'[q], "start") /\ ~Has(requests'[q], "failed")
    BY <1>1, <1>2, <1>3, <1>8 DEF TalkInv, AskInv
  <2>. QED BY <1>1, <1>6, <1>9, <2>1, <2>2, <2>3 DEF TalkInv, AskInv
<1>15. StartInv'
  <2>1. \A q \in Guests : requests'[q] = requests[q] /\ Once(requests[q], "start")
    BY <1>2, <1>8 DEF TalkInv, StartInv
  <2>2. \A q \in Guests : Once(requests'[q], "start") /\ \A n \in Sent(requests'[q]) : n.type # "start"
    BY <1>3, <2>1 DEF Has
  <2>3. Once(notices'[Host], "start") /\ \A n \in Sent(notices'[Host]) : n.type # "start"
    BY <1>4 DEF Once, Has, Sent
  <2>4. \/ ~Has(requests'[Host], "failed") /\ Turned' /\ speaker'[Host] = hostAsked.npc
        \/ Of(requests'[Host], "failed", hostAsked.npc) /\ ~Turned'
    <3>1. CASE speaker'[Host] = m.npc /\ requests'[Host] = requests[Host]
      BY <1>1, <1>3, <1>4, <1>6, <3>1, NothingIn DEF Turned, SpeakerChanged
    <3>2. CASE speaker'[Host] = speaker[Host] /\ \E n : n.type = "failed" /\ n.npc = m.npc /\ Sent(requests'[Host]) = {n}
      BY <1>3, <1>4, <1>6, <3>2 DEF Turned, SpeakerChanged, Of
    <3>. QED BY <1>8, <3>1, <3>2
  <2>. QED BY <1>1, <1>3, <1>4, <1>5, <1>6, <1>9, <2>2, <2>3, <2>4 DEF StartInv
<1>16. EmptyInv'
  BY <1>9, <1>11 DEF EmptyInv
<1>17. PendInv'
  BY <1>1, <1>2, <1>3, <1>7, <1>8 DEF TalkInv, PendInv
<1>. QED BY <1>12, <1>13, <1>14, <1>15, <1>16, <1>17 DEF TalkInv

\* The host's game reads that the rules have a conversation.
LEMMA TalkReadsOpen ==
    ASSUME AllTypes, HostInv, TalkInv, EndInv, GameReads(Host), NEW m, m = Head(notices[Host]), m.type = "open", OnOpen(Host, m)
    PROVE  TalkInv'
<1>1. Host \in Players /\ Host \notin Guests /\ Guests \subseteq Players
  BY Channels
<1>2. /\ m \in Tells /\ m \in Sent(notices[Host]) /\ Host \in Members /\ requests[Host] = <<>>
      /\ UNCHANGED <<conn, talk, lastTalk, hostAsked>> /\ Members' = Members
      /\ \A q \in Players : q # Host => notices'[q] = notices[q]
      /\ Sent(notices'[Host]) \subseteq Sent(notices[Host]) /\ Sent(notices[Host]) \subseteq Sent(notices'[Host]) \cup {m}
      /\ \A t : Once(notices[Host], t) => Once(notices'[Host], t)
      /\ (Once(notices[Host], "open") => ~Has(notices'[Host], "open"))
      /\ Rising(notices'[Host], m.conv) /\ conv[Host] < m.conv
      /\ Behind(notices[Host]) => Behind(notices'[Host])
      /\ m.conv \in 1 .. lastTalk
  BY <1>1, NoticeRead
<1>3. /\ OpensSoon /\ conv[Host] = 0 /\ speaker[Host] = heard /\ heard # None /\ ~Has(notices'[Host], "open") /\ m.npc = heard
      /\ ~SpeakerChanged /\ ~Turned
  <2>1. Has(notices[Host], "open")
    BY <1>2 DEF Has
  <2>2. OpensSoon /\ conv[Host] = 0 /\ speaker[Host] = heard /\ heard # None /\ ~Has(notices'[Host], "open")
    BY <1>2, <2>1 DEF HostInv, OpensSoon
  <2>. QED BY <1>2, <2>2 DEF TalkInv, RunInv, SpeakerChanged, Turned
<1>4. (\A q \in Guests : ~Has(requests[q], "start")) /\ ~Has(notices[Host], "start")
  <2>1. \A q \in Guests : ~Has(requests[q], "start")
    BY <1>3 DEF TalkInv, StartInv, Clear, Has
  <2>2. ~Has(notices[Host], "start")
    BY <1>3 DEF TalkInv, StartInv, Clear, Has
  <2>. QED BY <2>1, <2>2
<1>5. ~IsAsked
  BY <1>2, <1>3, <1>4, NothingIn DEF TalkInv, StartInv
<1>6. /\ conv'[Host] = m.conv /\ npc'[Host] = m.npc /\ joined'[Host] = FALSE
      /\ \A q \in Players : q # Host => conv'[q] = conv[q] /\ npc'[q] = npc[q]
      /\ speaker' = speaker /\ menu' = menu /\ heard' = heard
  BY <1>1 DEF OnOpen, engineVars, AllTypes, ServiceOK
<1>7. asked' = asked
  <2>1. asked[Host] = None
    BY DEF TalkInv, AskInv
  <2>. QED BY <2>1 DEF OnOpen, AllTypes, ScreenOK
<1>8. /\ \A q \in Players : q # Host => requests'[q] = requests[q]
      /\ \A n \in Sent(requests'[Host]) : n.type = "options"
  <2>1. PICK n : n = Options(m.conv, 1)
    OBVIOUS
  <2>2. n \in Asks /\ n.type = "options"
    <3>1. m.conv \in Nat /\ 1 \in 0 .. MaxSteps /\ None \in Npcs \union {None}
      BY <1>2, BoundsAssumption DEF Tells, Notice
    <3>2. n \in Asks
      BY <2>1, <3>1, MessageIs DEF Options
    <3>. QED BY <2>1, <3>2 DEF Options, Msg
  <2>3. PICK d : d = When(speaker[Host] # None, <<n>>)
    OBVIOUS
  <2>4. d \in Seq(Asks) /\ Sent(d) \subseteq {n}
    <3>1. Sent(<<n>>) = {n} /\ <<n>> \in Seq(Asks) /\ Sent(<<>>) = {} /\ <<>> \in Seq(Asks)
      BY <2>2, SentFew, Sends12
    <3>. QED BY <2>3, <3>1 DEF When
  <2>5. Sends(Host, d)
    BY <2>1, <2>3, Zenon DEF OnOpen
  <2>6. requests'[Host] = <<>> \o d /\ \A q \in Players : q # Host => requests'[q] = requests[q]
    BY <1>1, <1>2, <2>4, <2>5, SendsType DEF AllTypes
  <2>7. requests'[Host] = d
    BY <2>4, <2>6
  <2>. QED BY <2>2, <2>4, <2>6, <2>7
<1>9. /\ \A t : t # "options" => ~Has(requests'[Host], t)
      /\ \A t, k : t # "options" => ~Of(requests'[Host], t, k)
  BY <1>8 DEF Has, Of
<1>10. ~OpensSoon' /\ ~SpeakerChanged' /\ ~Turned' /\ ~IsAsked'
  BY <1>2, <1>3, <1>5, <1>6, <1>9 DEF OpensSoon, SpeakerChanged, Turned, IsAsked
<1>11. talk # NoTalk => m.conv = talk.id /\ m.npc = talk.npc
  <2>1. ASSUME talk # NoTalk PROVE \E n \in Sent(notices[Host]) : n.type = "open" /\ n.conv = talk.id /\ n.npc = talk.npc
    <3>1. Knows(Host) /\ talk.id # 0
      BY <1>2, <2>1 DEF TalkInv, KnowInv, EndInv, IdsOK
    <3>2. ~Flag(requests[Host]) /\ ~Has(requests[Host], "opened")
      BY <1>2, NothingIn
    <3>. QED BY <1>3, <3>1, <3>2 DEF Knows
  <2>2. \A n \in Sent(notices[Host]) : n.type = "open" => n = m
    BY <1>2, <1>3 DEF Has
  <2>. QED BY <2>1, <2>2
<1>12. KnowInv'
  <2>1. \A q \in Players : Rising(notices'[q], conv'[q])
    BY <1>2, <1>6 DEF TalkInv, KnowInv
  <2>2. ASSUME talk # NoTalk, NEW q \in Members PROVE Knows(q)'
    <3>1. CASE q = Host
      BY <1>2, <1>3, <1>6, <1>11, <2>2, <3>1 DEF Knows, Has
    <3>2. CASE q # Host
      <4>1. Knows(q) /\ q \in Players
        BY <2>2 DEF TalkInv, KnowInv, Members
      <4>. QED BY <1>2, <1>6, <3>2, <4>1 DEF Knows
    <3>. QED BY <3>1, <3>2
  <2>. QED BY <1>2, <2>1, <2>2 DEF KnowInv
<1>13. RunInv'
  <2>1. m.conv # 0
    BY <1>2, <1>3
  <2>. QED BY <1>3, <1>6, <1>8, <2>1 DEF RunInv, Has
<1>14. AskInv'
  <2>1. ASSUME NEW q \in Members, asked[q] # None PROVE AskOf(q)'
    <3>1. AskOf(q) /\ q # Host /\ q \in Players
      BY <2>1 DEF TalkInv, AskInv, Members
    <3>. QED BY <1>2, <1>7, <1>8, <3>1 DEF AskOf
  <2>2. \A q \in Players : conn[q] # "open" => requests'[q] = <<>>
    BY <1>2, <1>8 DEF TalkInv, AskInv, Members
  <2>3. \A q \in Guests : ~Has(notices'[q], "start") /\ ~Has(requests'[q], "failed")
    BY <1>1, <1>2, <1>8 DEF TalkInv, AskInv
  <2>. QED BY <1>2, <1>7, <1>9, <2>1, <2>2, <2>3 DEF TalkInv, AskInv
<1>15. \A q \in Guests : ~Has(requests'[q], "start")
  BY <1>1, <1>4, <1>8
<1>16. StartInv'
  <2>1. \A q \in Guests : Once(requests'[q], "start") /\ \A n \in Sent(requests'[q]) : n.type # "start"
    BY <1>15 DEF Once, Has, Sent
  <2>2. \A n \in Sent(notices'[Host]) : n.type # "start"
    BY <1>2, <1>4 DEF Has
  <2>3. Once(notices'[Host], "start") /\ Behind(notices'[Host])
    BY <1>2 DEF TalkInv, StartInv
  <2>. QED BY <1>9, <1>10, <2>1, <2>2, <2>3 DEF StartInv
<1>17. EmptyInv'
  <2>1. ASSUME talk # NoTalk, talk.players = {} PROVE menu[Host] # "closed"
    <3>1. ~JoinsIt(requests[Host]) /\ ~Flag(requests[Host]) /\ ~Has(requests[Host], "opened")
      BY <1>2, NothingIn DEF JoinsIt
    <3>2. talk.id # 0
      BY <2>1 DEF EndInv, IdsOK
    <3>. QED BY <1>3, <2>1, <3>1, <3>2 DEF TalkInv, EmptyInv
  <2>. QED BY <1>2, <1>6, <1>9, <1>10, <1>11, <2>1 DEF EmptyInv
<1>18. PendInv'
  BY <1>1, <1>2, <1>15 DEF TalkInv, PendInv
<1>. QED BY <1>12, <1>13, <1>14, <1>16, <1>17, <1>18 DEF TalkInv
\* A guest's game reads an answer to what its player asked: it is no longer to ask, and was not still asking.
LEMMA TalkAnswered ==
    ASSUME AllTypes, HostInv, TalkInv, EndInv, NEW p \in Players, p # Host, GameReads(p), NEW m, m = Head(notices[p]),
           m.type \in {"open", "refused"}, asked'[p] = None \/ (m.type = "refused" /\ asked'[p] = asked[p] /\ asked[p] # m.npc),
           \A q \in Players : q # p => asked'[q] = asked[q] /\ conv'[q] = conv[q] /\ npc'[q] = npc[q] /\ requests'[q] = requests[q],
           m.type = "open" => conv'[p] = m.conv /\ npc'[p] = m.npc, m.type = "refused" => conv'[p] = conv[p] /\ npc'[p] = npc[p],
           UNCHANGED heard, speaker'[Host] = speaker[Host], menu'[Host] = menu[Host], joined'[Host] = joined[Host],
           \A n \in Sent(requests'[p]) : n \in Sent(requests[p]) \/ n.type = "close"
    PROVE  TalkInv'
<1>1. Host \in Players /\ Host \notin Guests /\ Guests \subseteq Players /\ p \in Guests
  BY Channels
<1>2. /\ m \in Tells /\ m \in Sent(notices[p]) /\ p \in Members /\ requests[Host] = <<>>
      /\ UNCHANGED <<conn, talk, lastTalk, hostAsked>> /\ Members' = Members
      /\ \A q \in Players : q # p => notices'[q] = notices[q]
      /\ Sent(notices'[p]) \subseteq Sent(notices[p]) /\ Sent(notices[p]) \subseteq Sent(notices'[p]) \cup {m}
      /\ Rising(notices'[p], conv[p])
      /\ m.type = "open" => conv[p] < m.conv /\ Rising(notices'[p], m.conv)
      /\ m.type = "open" => m.conv \in 1 .. lastTalk
  BY NoticeRead
<1>3. ~Has(requests[p], "start") /\ hostAsked.player # p
  <2>1. Has(notices[p], "open") \/ Has(notices[p], "refused")
    BY <1>2 DEF Has
  <2>. QED BY <1>1, <2>1 DEF TalkInv, PendInv
<1>4. /\ notices'[Host] = notices[Host] /\ requests'[Host] = requests[Host] /\ conv'[Host] = conv[Host] /\ npc'[Host] = npc[Host]
      /\ asked'[Host] = asked[Host]
  BY <1>1, <1>2
<1>5. UNCHANGED <<OpensSoon, Turned, SpeakerChanged, IsAsked>>
  BY <1>2, <1>4 DEF OpensSoon, Turned, SpeakerChanged, IsAsked
<1>6. \A q \in Guests : \A t \in {"start", "failed", "opened"} : /\ \A n \in Sent(requests'[q]) : n.type = t => n \in Sent(requests[q])
                                                                 /\ Has(requests'[q], t) => Has(requests[q], t)
  BY <1>1 DEF Has
<1>7. KnowInv'
  <2>1. \A q \in Players : Rising(notices'[q], conv'[q])
    BY <1>2 DEF TalkInv, KnowInv
  <2>2. ASSUME talk # NoTalk, NEW q \in Members PROVE Knows(q)'
    <3>1. Knows(q) /\ q \in Players
      BY <2>2 DEF TalkInv, KnowInv, Members
    <3>2. CASE q # p
      BY <1>2, <1>4, <3>1, <3>2 DEF Knows
    <3>3. CASE q = p /\ m.type = "refused"
      BY <1>2, <3>1, <3>3 DEF Knows
    <3>4. CASE q = p /\ m.type = "open"
      <4>1. talk.id = lastTalk /\ lastTalk \in Nat /\ conv[p] \in Nat
        BY <2>2, Channels DEF EndInv, IdsOK, AllTypes, RulesOK
      <4>2. conv[p] # talk.id
        BY <1>2, <3>4, <4>1
      <4>. QED BY <1>2, <3>1, <3>4, <4>2 DEF Knows
    <3>. QED BY <3>2, <3>3, <3>4
  <2>. QED BY <1>2, <2>1, <2>2 DEF KnowInv
<1>8. RunInv'
  BY <1>4, <1>5 DEF TalkInv, RunInv
<1>9. AskInv'
  <2>1. ASSUME NEW q \in Members, asked'[q] # None PROVE AskOf(q)'
    <3>1. q \in Players /\ asked'[q] = asked[q] /\ AskOf(q)
      BY <2>1 DEF TalkInv, AskInv, Members
    <3>2. CASE q # p
      BY <1>2, <3>1, <3>2 DEF AskOf
    <3>3. CASE q = p
      <4>1. m.type = "refused" /\ asked[p] # m.npc
        BY <2>1, <3>3
      <4>2. Of(notices[p], "refused", asked[p]) => Of(notices'[p], "refused", asked[p])
        BY <1>2, <4>1 DEF Of
      <4>3. Has(notices[p], "open") => Has(notices'[p], "open")
        BY <1>2, <4>1 DEF Has
      <4>4. ~Of(requests[p], "start", asked[p])
        BY <1>3 DEF Of, Has
      <4>. QED BY <1>2, <3>1, <3>3, <4>2, <4>3, <4>4 DEF AskOf
    <3>. QED BY <3>2, <3>3
  <2>2. \A q \in Players : asked'[q] \in {None, asked[q]}
    OBVIOUS
  <2>3. \A q \in Players : conn[q] # "open" => q # p
    BY <1>2 DEF Members
  <2>4. \A q \in Guests : ~Has(notices'[q], "start")
    BY <1>1, <1>2 DEF TalkInv, AskInv, Has
  <2>. QED BY <1>2, <1>4, <1>6, <2>1, <2>2, <2>3, <2>4 DEF TalkInv, AskInv
<1>10. StartInv'
  <2>1. ASSUME NEW q \in Guests
        PROVE  Once(requests'[q], "start") /\ \A n \in Sent(requests'[q]) : n.type = "start" =>
                   n.npc = asked'[q] /\ Clear(n.npc)' /\ talk'.npc # n.npc /\ ~IsAsked'
    <3>1. CASE q = p
      <4>1. ~Has(requests'[p], "start")
        BY <1>1, <1>3, <1>6
      <4>. QED BY <3>1, <4>1 DEF Has, Once, Sent
    <3>2. CASE q # p
      BY <1>1, <1>2, <1>4, <1>5, <3>2 DEF TalkInv, StartInv, Clear
    <3>. QED BY <3>1, <3>2
  <2>2. IsAsked => hostAsked.player \in Players /\ hostAsked.player # p
    BY <1>1, <1>3 DEF TalkInv, StartInv
  <2>. QED BY <1>2, <1>4, <1>5, <2>1, <2>2 DEF TalkInv, StartInv, Clear
<1>11. EmptyInv'
  BY <1>2, <1>4, <1>5 DEF TalkInv, EmptyInv, JoinsIt
<1>12. PendInv'
  BY <1>1, <1>2, <1>3, <1>6 DEF TalkInv, PendInv, Has
<1>. QED BY <1>7, <1>8, <1>9, <1>10, <1>11, <1>12 DEF TalkInv

\* The host's game reads that the conversation is over.
LEMMA TalkReadsClosed ==
    ASSUME AllTypes, HostInv, TalkInv, EndInv, GameReads(Host), NEW m, m = Head(notices[Host]), m.type = "closed", OnClosed(Host, m)
    PROVE  TalkInv'
<1>1. Host \in Players /\ Host \notin Guests /\ Guests \subseteq Players
  BY Channels
<1>2. /\ m \in Tells /\ m \in Sent(notices[Host]) /\ Host \in Members /\ requests[Host] = <<>>
      /\ UNCHANGED <<conn, talk, lastTalk, hostAsked>> /\ Members' = Members
      /\ \A q \in Players : q # Host => notices'[q] = notices[q]
      /\ Sent(notices'[Host]) \subseteq Sent(notices[Host]) /\ Sent(notices[Host]) \subseteq Sent(notices'[Host]) \cup {m}
      /\ \A t : Once(notices[Host], t) => Once(notices'[Host], t)
      /\ Rising(notices'[Host], 0)
      /\ Behind(notices[Host]) => Behind(notices'[Host])
      /\ m.conv # 0 /\ (talk # NoTalk => m.conv # talk.id)
  BY <1>1, NoticeRead
<1>3. /\ conv[Host] = m.conv /\ conv'[Host] = 0 /\ speaker'[Host] = None /\ menu'[Host] = "closed"
      /\ \A q \in Players : q # Host => conv'[q] = conv[q]
      /\ UNCHANGED <<npc, asked, heard, requests>>
  BY <1>1 DEF OnClosed, EndsHere, screenVars, AllTypes, ServiceOK, EngineOK
<1>4. ~OpensSoon /\ ~OpensSoon' /\ ~Has(notices[Host], "open") /\ ~Has(notices'[Host], "open")
  BY <1>2, <1>3 DEF HostInv, OpensSoon, Has
<1>5. ~Turned' /\ (IsAsked' <=> IsAsked)
  BY <1>2, <1>3 DEF Turned, IsAsked
<1>6. talk = NoTalk
  <2>1. ASSUME talk # NoTalk PROVE FALSE
    <3>1. Knows(Host) /\ conv[Host] # talk.id
      BY <1>2, <1>3, <2>1 DEF TalkInv, KnowInv
    <3>. QED BY <1>2, <1>4, <3>1, NothingIn DEF Knows, Has
  <2>. QED BY <2>1
<1>7. KnowInv'
  BY <1>2, <1>3, <1>6 DEF TalkInv, KnowInv
<1>8. RunInv'
  BY <1>2, <1>3, <1>4 DEF TalkInv, RunInv, Has
<1>9. AskInv'
  <2>1. ASSUME NEW q \in Members, asked[q] # None PROVE AskOf(q)'
    <3>1. AskOf(q) /\ q # Host /\ q \in Players
      BY <2>1 DEF TalkInv, AskInv, Members
    <3>. QED BY <1>2, <1>3, <3>1 DEF AskOf
  <2>2. \A q \in Guests : ~Has(notices'[q], "start")
    BY <1>1, <1>2 DEF TalkInv, AskInv
  <2>. QED BY <1>2, <1>3, <2>1, <2>2 DEF TalkInv, AskInv
<1>10. StartInv'
  <2>1. \A n : Clear(n) => Clear(n)'
    BY <1>3, <1>4, <1>5 DEF Clear
  <2>2. \A q \in Guests : Once(requests'[q], "start") /\ \A n \in Sent(requests'[q]) : n.type = "start" =>
           n.npc = asked'[q] /\ Clear(n.npc)' /\ talk'.npc # n.npc /\ ~IsAsked'
    BY <1>2, <1>3, <1>5, <2>1 DEF TalkInv, StartInv
  <2>3. \A n \in Sent(notices'[Host]) : n.type = "start" =>
           IsAsked' /\ hostAsked'.npc = n.npc /\ Clear(n.npc)' /\ ~Has(requests'[Host], "failed")
    BY <1>2, <1>3, <1>5, <2>1 DEF TalkInv, StartInv
  <2>4. Once(notices'[Host], "start") /\ Behind(notices'[Host])
    BY <1>2 DEF TalkInv, StartInv
  <2>5. IsAsked => Has(notices'[Host], "start")
    <3>1. IsAsked => Has(notices[Host], "start")
      BY <1>2, <1>3, NothingIn DEF TalkInv, StartInv
    <3>. QED BY <1>2, <3>1 DEF Has
  <2>. QED BY <1>2, <1>3, <1>5, <2>2, <2>3, <2>4, <2>5, NothingIn DEF TalkInv, StartInv
<1>11. EmptyInv'
  BY <1>2, <1>3, <1>5, <1>6, NothingIn DEF EmptyInv
<1>12. PendInv'
  BY <1>1, <1>2, <1>3 DEF TalkInv, PendInv
<1>. QED BY <1>7, <1>8, <1>9, <1>10, <1>11, <1>12 DEF TalkInv

\* A game reads of what is said, or a guest's that a conversation is over; nothing refuses the host's player.
LEMMA TalkReadsNews ==
    ASSUME AllTypes, HostInv, TalkInv, EndInv, NEW p \in Players, GameReads(p), NEW m, m = Head(notices[p]),
           m.type \in {"list", "picked", "closed"} \/ (m.type = "refused" /\ p = Host), NEW e \in Seq(Asks), Sends(p, e), \A n \in Sent(e) : n.type = "options",
           UNCHANGED <<npc, asked, heard>>, speaker'[Host] = speaker[Host], menu'[Host] = menu[Host], joined'[Host] = joined[Host],
           conv' = conv \/ (p # Host /\ m.type = "closed" /\ conv[p] = m.conv /\ conv' = [conv EXCEPT ![p] = 0])
    PROVE  TalkInv'
<1>1. Host \in Players /\ Host \notin Guests /\ Guests \subseteq Players
  BY Channels
<1>2. /\ m \in Tells /\ m \in Sent(notices[p]) /\ p \in Members /\ requests[Host] = <<>>
      /\ UNCHANGED <<conn, talk, lastTalk, hostAsked>> /\ Members' = Members
      /\ \A q \in Players : q # p => notices'[q] = notices[q]
      /\ Sent(notices'[p]) \subseteq Sent(notices[p]) /\ Sent(notices[p]) \subseteq Sent(notices'[p]) \cup {m}
      /\ \A t : Once(notices[p], t) => Once(notices'[p], t)
      /\ Rising(notices'[p], conv[p]) /\ Rising(notices'[p], 0)
      /\ Behind(notices[p]) => Behind(notices'[p])
      /\ m.type = "closed" => m.conv # 0 /\ (talk # NoTalk => m.conv # talk.id)
  BY NoticeRead
<1>3. /\ requests'[p] = requests[p] \o e /\ \A q \in Players : q # p => requests'[q] = requests[q]
      /\ requests[p] \in Seq(Asks)
  BY SendsType DEF AllTypes, RequestsOK
<1>4. Sent(requests[p] \o e) = Sent(requests[p]) \cup Sent(e)
  BY <1>3, SentJoin
<1>5. SameAsks
  <2>1. ASSUME NEW q \in Players, NEW n, n.type \in {"start", "opened", "failed"} PROVE n \in Sent(requests'[q]) <=> n \in Sent(requests[q])
    BY <1>3, <1>4, <2>1
  <2>2. ASSUME NEW q \in Players, NEW n, n.type \in {"start", "open"} \/ (n.type = "refused" /\ q # Host)
        PROVE  n \in Sent(notices'[q]) <=> n \in Sent(notices[q])
    BY <1>2, <2>2
  <2>. QED BY <2>1, <2>2 DEF SameAsks
<1>6. \A q \in Players : Rising(notices'[q], conv'[q]) /\ (Once(requests[q], "start") => Once(requests'[q], "start"))
  <2>1. Once(requests[p], "start") => Once(requests[p] \o e, "start")
    <3>1. ~Has(e, "start")
      BY DEF Has
    <3>. QED BY <1>3, <3>1, HasSteps
  <2>2. \A q \in Players : Rising(notices[q], conv[q]) /\ conv \in [Players -> Nat]
    BY DEF TalkInv, KnowInv, AllTypes, ServiceOK
  <2>3. ASSUME NEW q \in Players PROVE Rising(notices'[q], conv'[q])
    <3>1. CASE q = p
      BY <1>2, <2>2, <3>1
    <3>2. CASE q # p
      BY <1>2, <2>2, <3>2
    <3>. QED BY <3>1, <3>2
  <2>. QED BY <1>3, <2>1, <2>3
<1>7. conv'[Host] = conv[Host] /\ \A q \in Members' : (conv'[q] = conv[q] /\ npc'[q] = npc[q]) \/ (talk' # NoTalk => conv[q] # talk.id /\ conv'[q] # talk.id)
  <2>1. conv \in [Players -> Nat] /\ Members \subseteq Players /\ (talk # NoTalk => talk.id # 0)
    BY DEF AllTypes, ServiceOK, Members, EndInv, IdsOK
  <2>. QED BY <1>1, <1>2, <2>1
<1>8. Once(notices'[Host], "start") /\ Behind(notices'[Host])
  <2>1. Once(notices[Host], "start") /\ Behind(notices[Host])
    BY DEF TalkInv, StartInv
  <2>. QED BY <1>1, <1>2, <2>1
<1>9. \A n \in Sent(requests'[Host]) : n \in Sent(requests[Host]) \/ n.type = "options"
  BY <1>1, <1>3, <1>4
<1>10. /\ Flag(requests[Host]) => Flag(requests'[Host])
       /\ JoinsIt(requests[Host]) => JoinsIt(requests'[Host])
  BY <1>2, NothingIn DEF JoinsIt
<1>11. \A q \in Players : conn'[q] # "open" => asked[q] = None /\ requests'[q] = <<>>
  BY <1>2, <1>3 DEF TalkInv, AskInv, Members
<1>. QED BY <1>1, <1>2, <1>5, <1>6, <1>7, <1>8, <1>9, <1>10, <1>11, TalkKept
\* A game reads a notice.
LEMMA TalkGameReads == ASSUME AllTypes, HostInv, TalkInv, EndInv, NEW p \in Players, GameReads(p) PROVE TalkInv'
<1>1. PICK m : m = Head(notices[p])
  OBVIOUS
<1>2. m \in Tells /\ p \in Members /\ Host \in Players
  BY <1>1, NoticeRead, PlayersAssumption
<1>3. \/ m.type = "open" /\ OnOpen(p, m)
      \/ m.type = "start" /\ OnHostStart(m)
      \/ m.type = "list" /\ OnList(p, m)
      \/ m.type = "picked" /\ OnPicked(p, m)
      \/ m.type = "closed" /\ OnClosed(p, m)
      \/ m.type = "refused" /\ OnRefused(p, m)
      \/ /\ m.type \in {"list", "picked", "closed"}
         /\ UNCHANGED <<serviceVars, screenVars, asked, engineVars, hostGameVars, requests>>
  BY <1>1 DEF GameReads
<1>4. ASSUME m.type \in {"list", "picked", "closed"} \/ (m.type = "refused" /\ p = Host), UNCHANGED requests,
             UNCHANGED <<npc, asked, heard>>, speaker'[Host] = speaker[Host], menu'[Host] = menu[Host], joined'[Host] = joined[Host],
             conv' = conv \/ (p # Host /\ m.type = "closed" /\ conv[p] = m.conv /\ conv' = [conv EXCEPT ![p] = 0])
      PROVE  TalkInv'
  <2>1. PICK e : e = <<>> /\ e \in Seq(Asks) /\ Sends(p, e) /\ Sent(e) = {}
    BY <1>4, NothingSent
  <2>. QED BY <1>1, <1>4, <2>1, TalkReadsNews
<1>5. CASE m.type = "open" /\ OnOpen(p, m) /\ p # Host
  <2>1. /\ \A q \in Players : q # p => asked'[q] = asked[q] /\ conv'[q] = conv[q] /\ npc'[q] = npc[q]
        /\ asked'[p] = None /\ conv'[p] = m.conv /\ npc'[p] = m.npc /\ heard' = heard
    BY <1>5 DEF OnOpen, AllTypes, ServiceOK, ScreenOK
  <2>2. OpensHere(p, m)
    BY <1>5 DEF OnOpen
  <2>3. speaker'[Host] = speaker[Host] /\ menu'[Host] = menu[Host] /\ joined'[Host] = joined[Host]
    <3>1. joined'[Host] = joined[Host]
      BY <1>2, <1>5, <2>2 DEF OpensHere, AllTypes, ServiceOK
    <3>2. speaker' = speaker \/ speaker' = [speaker EXCEPT ![p] = m.npc] \/ speaker' = [speaker EXCEPT ![p] = None]
      BY <2>2 DEF OpensHere, EndsHere, engineVars
    <3>3. menu' = menu \/ menu' = [menu EXCEPT ![p] = IF MenuOpen(p) THEN @ ELSE "coming"] \/ menu' = [menu EXCEPT ![p] = "closed"]
      BY <2>2 DEF OpensHere, EndsHere, engineVars
    <3>4. speaker'[Host] = speaker[Host]
      BY <1>2, <1>5, <3>2 DEF AllTypes, EngineOK
    <3>5. menu'[Host] = menu[Host]
      BY <1>2, <1>5, <3>3 DEF AllTypes, EngineOK
    <3>. QED BY <3>1, <3>4, <3>5
  <2>4. UNCHANGED requests \/ Sends(p, LeavesWhenItCannot(m.conv))
    BY <2>2 DEF OpensHere
  <2>5. /\ \A q \in Players : q # p => requests'[q] = requests[q]
        /\ \A n \in Sent(requests'[p]) : n \in Sent(requests[p]) \/ n.type = "close"
    <3>1. CASE Sends(p, LeavesWhenItCannot(m.conv))
      <4>1. PICK n : n = Msg("close", m.conv, None, 0, FALSE)
        OBVIOUS
      <4>2. n \in Asks /\ n.type = "close"
        <5>1. m.conv \in Nat /\ 0 \in 0 .. MaxSteps /\ None \in Npcs \union {None}
          BY <1>2, BoundsAssumption DEF Tells, Notice
        <5>2. n \in Asks
          BY <4>1, <5>1, MessageIs
        <5>. QED BY <4>1, <5>2 DEF Msg
      <4>3. PICK d : d = <<n>> /\ d \in Seq(Asks) /\ Sent(d) = {n}
        <5>1. Sent(<<n>>) = {n} /\ <<n>> \in Seq(Asks)
          BY <4>2, SentFew, Sends12
        <5>. QED BY <5>1
      <4>4. Sends(p, d)
        BY <3>1, <4>1, <4>3, Zenon DEF LeavesWhenItCannot
      <4>5. requests'[p] = requests[p] \o d /\ requests[p] \in Seq(Asks) /\ \A q \in Players : q # p => requests'[q] = requests[q]
        BY <4>3, <4>4, SendsType DEF AllTypes, RequestsOK
      <4>6. Sent(requests[p] \o d) = Sent(requests[p]) \cup Sent(d)
        <5>1. requests[p] \in Seq(Asks) /\ d \in Seq(Asks)
          BY <4>3, <4>5
        <5>. QED BY <5>1, SentJoin
      <4>. QED BY <4>2, <4>3, <4>5, <4>6
    <3>. QED BY <2>4, <3>1
  <2>. QED BY <1>1, <1>5, <2>1, <2>3, <2>5, TalkAnswered
<1>6. CASE m.type = "refused" /\ OnRefused(p, m)
  <2>1. UNCHANGED <<conv, npc, joined, speaker, menu, heard, requests>> /\ asked' = [asked EXCEPT ![p] = IF @ = m.npc THEN None ELSE @]
    BY <1>6 DEF OnRefused, serviceVars, engineVars, hostGameVars
  <2>2. (\A q \in Players : q # p => asked'[q] = asked[q]) /\ asked'[p] = IF asked[p] = m.npc THEN None ELSE asked[p]
    BY <2>1 DEF AllTypes, ScreenOK
  <2>3. CASE p = Host
    <3>1. asked[Host] = None
      BY DEF TalkInv, AskInv
    <3>2. asked' = asked
      BY <2>1, <2>3, <3>1 DEF AllTypes, ScreenOK
    <3>. QED BY <1>4, <1>6, <2>1, <2>3, <3>2
  <2>4. CASE p # Host
    BY <1>1, <1>6, <2>1, <2>2, <2>4, TalkAnswered
  <2>. QED BY <2>3, <2>4
<1>7. CASE m.type = "picked" /\ OnPicked(p, m)
  <2>1. UNCHANGED <<conv, npc, joined, asked, speaker, menu, heard>>
    BY <1>7 DEF OnPicked, engineVars
  <2>2. PICK said \in BOOLEAN : Sends(p, When(p = Host /\ ~said, <<Options(conv[p], m.step)>>))
    BY <1>7 DEF OnPicked
  <2>3. PICK n : n = Options(conv[p], m.step)
    OBVIOUS
  <2>4. n \in Asks /\ n.type = "options"
    <3>1. conv[p] \in Nat /\ None \in Npcs \union {None} /\ m.step \in 0 .. MaxSteps
      BY <1>2 DEF AllTypes, ServiceOK, Tells, Notice
    <3>2. n \in Asks
      BY <2>3, <3>1, MessageIs DEF Options
    <3>. QED BY <2>3, <3>2 DEF Options, Msg
  <2>5. PICK d : d = When(p = Host /\ ~said, <<n>>)
    OBVIOUS
  <2>6. d \in Seq(Asks) /\ Sent(d) \subseteq {n}
    <3>1. Sent(<<n>>) = {n} /\ <<n>> \in Seq(Asks) /\ Sent(<<>>) = {} /\ <<>> \in Seq(Asks)
      BY <2>4, SentFew, Sends12
    <3>. QED BY <2>5, <3>1 DEF When
  <2>7. Sends(p, d)
    BY <2>2, <2>3, <2>5, Zenon
  <2>. QED BY <1>1, <1>7, <2>1, <2>4, <2>6, <2>7, TalkReadsNews
<1>8. CASE m.type = "closed" /\ OnClosed(p, m) /\ p # Host
  <2>1. /\ UNCHANGED <<npc, asked, heard, requests>> /\ conv[p] = m.conv /\ conv' = [conv EXCEPT ![p] = 0]
        /\ speaker'[Host] = speaker[Host] /\ menu'[Host] = menu[Host] /\ joined'[Host] = joined[Host]
    BY <1>2, <1>8 DEF OnClosed, EndsHere, AllTypes, ServiceOK, EngineOK
  <2>. QED BY <1>4, <1>8, <2>1
<1>9. CASE m.type = "list" /\ OnList(p, m)
  BY <1>4, <1>9 DEF OnList, serviceVars, engineVars, hostGameVars
<1>10. CASE m.type \in {"list", "picked", "closed"} /\ UNCHANGED <<serviceVars, screenVars, asked, engineVars, hostGameVars, requests>>
  BY <1>4, <1>10 DEF serviceVars, engineVars, hostGameVars
<1>. QED BY <1>1, <1>3, <1>5, <1>6, <1>7, <1>8, <1>9, <1>10, TalkReadsStart, TalkReadsOpen, TalkReadsClosed

\* Every step keeps it.
LEMMA TalkStep == ASSUME AllTypes, EndInv, HostInv, TalkInv, Calm, [Next]_vars PROVE TalkInv'
<1>1. CASE UNCHANGED vars
  <2>1. UNCHANGED <<conn, requests, notices, talk, lastTalk, hostAsked, asked, conv, npc, heard, joined, speaker, menu>>
    BY <1>1 DEF vars, gameVars, ruleVars, serviceVars, engineVars, hostGameVars
  <2>2. <<>> \in Seq(Asks) /\ Sends(Host, <<>>) /\ Sent(<<>>) = {} /\ Host \in Players
    BY <2>1, NothingSent, PlayersAssumption
  <2>. QED BY <2>1, <2>2, TalkAside
<1>2. CASE Next
  BY <1>2, TalkHostReads, TalkGameReads, TalkJoin, TalkLeave, TalkLocal, TalkGuestTalks, TalkHostTalks, TalkHostUpdate DEF Next
<1>. QED BY <1>1, <1>2

\* It holds before anything happens.
LEMMA TalkInit == Init => TalkInv
<1>. SUFFICES ASSUME Init PROVE TalkInv
  OBVIOUS
<1>1. /\ Host \in Players /\ Guests \subseteq Players /\ Host \notin Guests /\ None \notin Players
      /\ \A p \in Players : requests[p] = <<>> /\ notices[p] = <<>> /\ conv[p] = 0 /\ asked[p] = None /\ speaker[p] = None
      /\ heard = None /\ talk = NoTalk /\ hostAsked = NotAsked
  BY PlayersAssumption DEF Init, Guests
<1>2. ~IsAsked /\ ~SpeakerChanged /\ ~Turned
  BY <1>1 DEF IsAsked, SpeakerChanged, Turned
<1>3. \A p \in Players : Rising(notices[p], conv[p])
  BY <1>1, NothingIn
<1>4. KnowInv
  BY <1>1, <1>3 DEF KnowInv
<1>5. RunInv
  BY <1>1, NothingIn DEF RunInv
<1>6. AskInv
  BY <1>1, NothingIn DEF AskInv, Members
<1>7. StartInv
  BY <1>1, <1>2, NothingIn DEF StartInv
<1>8. EmptyInv
  BY <1>1, <1>2, NothingIn DEF EmptyInv
<1>9. PendInv
  BY <1>1, NothingIn DEF PendInv, NotAsked
<1>. QED BY <1>4, <1>5, <1>6, <1>7, <1>8, <1>9 DEF TalkInv

\* When nothing is under way a conversation is one the host's engine runs: its game is in it and heard its engine begin it, and
\* the engine is still with the NPC, else an update is due; and its own menu is not open beside an empty conversation, which
\* it would join.
LEMMA SettledRun == ASSUME AllTypes, HostInv, EndInv, TalkInv PROVE TalkIsRun
<1>. SUFFICES ASSUME Settled, talk # NoTalk PROVE speaker[Host] = talk.npc /\ talk.players # {}
  BY DEF TalkIsRun
<1>1. Host \in Members /\ requests[Host] = <<>> /\ notices[Host] = <<>> /\ ~UpdateDue(Host) /\ menu[Host] # "coming"
      /\ menu[Host] \in {"closed", "coming", "open"}
  <2>1. Host \in Members /\ Host \in Players
    BY HostChannels
  <2>. QED BY <2>1 DEF Settled, AllTypes, EngineOK
<1>2. ~SpeakerChanged
  BY <1>1 DEF UpdateDue
<1>3. conv[Host] = talk.id /\ npc[Host] = talk.npc /\ talk.id # 0
  <2>1. talk.id # 0 /\ Knows(Host)
    BY <1>1 DEF TalkInv, KnowInv, EndInv, IdsOK
  <2>. QED BY <1>1, <2>1, NothingIn DEF Knows
<1>4. speaker[Host] = talk.npc
  BY <1>2, <1>3 DEF TalkInv, RunInv, SpeakerChanged
<1>5. ASSUME talk.players = {} PROVE FALSE
  <2>1. ~joined[Host] /\ menu[Host] = "open"
    BY <1>1, <1>2, <1>5, NothingIn DEF TalkInv, EmptyInv, JoinsIt
  <2>2. Joins(Host)
    BY <1>3, <1>4, <2>1 DEF Joins, InIt, MenuOpen
  <2>. QED BY <1>1, <2>2 DEF UpdateDue
<1>. QED BY <1>4, <1>5

\* The host's engine runs the conversation there is, and someone is in it, when talks begin and end one at a time
\* (HostConversation::OnUpdate, HostDialogue::Leave).
THEOREM TheTalkIsRun == ASSUME Calm PROVE Spec => []TalkIsRun
<1>1. Init => AllTypes /\ EndInv /\ HostInv /\ TalkInv
  BY InitTypes, EndInit, TalkInit
<1>2. AllTypes /\ EndInv /\ HostInv /\ TalkInv /\ [Next]_vars => (AllTypes /\ EndInv /\ HostInv /\ TalkInv)'
  <2>1. EndInv => IdsOK
    BY DEF EndInv
  <2>. QED BY <2>1, NextTypes, EndStep, HostStep, TalkStep
<1>3. AllTypes /\ EndInv /\ HostInv /\ TalkInv => TalkIsRun
  BY SettledRun
<1>. QED BY <1>1, <1>2, <1>3, PTL DEF Spec

-----------------------------------------------------------------------------
(* Who is in the conversation, and what each game shows of it.             *)

\* A step of one game leaves the rules and the other games alone.
Alike(q) ==
    /\ requests'[q] = requests[q] /\ notices'[q] = notices[q] /\ asked'[q] = asked[q]
    /\ conv'[q] = conv[q] /\ step'[q] = step[q] /\ joined'[q] = joined[q]
    /\ listStep'[q] = listStep[q] /\ shownStep'[q] = shownStep[q] /\ shows'[q] = shows[q]
    /\ speaker'[q] = speaker[q] /\ menu'[q] = menu[q]
Elsewhere(p) == UNCHANGED <<conn, talk, lastTalk, hostAsked>> /\ \A q \in Players : q # p => Alike(q)

\* What a game that joins or leaves says.
LEMMA JoinOrLeaveSays ==
    ASSUME AllTypes, NEW p \in Players
    PROVE  \E j \in Asks, k \in Asks :
              /\ Word(j, conv[p]) /\ j.type = "join" /\ Word(k, conv[p]) /\ k.type = "close"
              /\ Joins(p) => JoinOrLeave(p) = <<j>>
              /\ GoesOut(p) => JoinOrLeave(p) = <<k>>
              /\ ~Joins(p) /\ ~GoesOut(p) => JoinOrLeave(p) = <<>>
<1>1. PICK j, k : j = Msg("join", conv[p], None, 0, FALSE) /\ k = Msg("close", conv[p], None, 0, FALSE)
  OBVIOUS
<1>2. j \in Asks /\ k \in Asks
  <2>1. conv[p] \in Nat /\ None \in Npcs \union {None} /\ 0 \in 0 .. MaxSteps
    BY Channels, BoundsAssumption
  <2>. QED BY <1>1, <2>1, MessageIs
<1>3. Word(j, conv[p]) /\ j.type = "join" /\ Word(k, conv[p]) /\ k.type = "close"
  BY <1>1 DEF Msg, Word
<1>4. ~(Joins(p) /\ GoesOut(p))
  BY DEF Joins, InIt, GoesOut
<1>5. PICK c, d : c = When(Joins(p), <<j>>) /\ d = When(GoesOut(p), <<k>>)
  OBVIOUS
<1>6. JoinOrLeave(p) = c \o d
  BY <1>1, <1>5 DEF JoinOrLeave
<1>7. /\ Joins(p) => c = <<j>> /\ d = <<>>
      /\ GoesOut(p) => c = <<>> /\ d = <<k>>
      /\ ~Joins(p) /\ ~GoesOut(p) => c = <<>> /\ d = <<>>
  BY <1>4, <1>5 DEF When
<1>8. c \in Seq(Asks) /\ d \in Seq(Asks)
  BY <1>2, <1>5, Sends12
<1>9. <<>> \o <<>> = <<>> /\ <<>> \o d = d /\ c \o <<>> = c
  BY <1>8
<1>. QED BY <1>2, <1>3, <1>6, <1>7, <1>9

\* A guest's game updates.
LEMMA GuestUpdateDoes ==
    ASSUME AllTypes, NEW p \in Players, GuestUpdate(p)
    PROVE  /\ Elsewhere(p) /\ p # Host /\ p \in Members /\ notices'[p] = notices[p] /\ asked'[p] = asked[p] /\ heard' = heard
           /\ conv'[p] = conv[p] /\ step'[p] = step[p] /\ listStep'[p] = listStep[p]
           /\ joined'[p] = StaysJoined(p)
           /\ ShowsList(p) => shownStep'[p] = step[p] /\ shows'[p] = "party"
           /\ ~ShowsList(p) => shownStep'[p] = shownStep[p] /\ shows'[p] = shows[p]
           /\ conv[p] # 0 => menu'[p] = menu[p]
           /\ Sends(p, JoinOrLeave(p))
<1>1. /\ UNCHANGED <<conn, talk, lastTalk, hostAsked, notices, asked, conv, step, listStep, heard>> /\ p \in Guests \intersect Members
      /\ joined' = [joined EXCEPT ![p] = StaysJoined(p)] /\ Sends(p, JoinOrLeave(p))
      /\ shownStep' = [shownStep EXCEPT ![p] = IF ShowsList(p) THEN step[p] ELSE @]
      /\ shows' = [shows EXCEPT ![p] = IF ShowsList(p) THEN "party" ELSE @]
      /\ IF Unseated(p) THEN EndsHere(p) ELSE UNCHANGED <<speaker, menu>>
  BY Zenon DEF GuestUpdate, ShowsNow, hostGameVars, ruleVars, engineVars
<1>2. requests' = [requests EXCEPT ![p] = @ \o JoinOrLeave(p)]
  BY <1>1, Zenon DEF Sends
<1>3. \A q \in Players : q # p => speaker'[q] = speaker[q] /\ menu'[q] = menu[q]
  BY <1>1 DEF EndsHere, AllTypes, EngineOK
<1>4. \A q \in Players : q # p => Alike(q)
  BY <1>1, <1>2, <1>3 DEF Alike, AllTypes, ServiceOK, ScreenOK, RequestsOK
<1>5. conv[p] # 0 => menu'[p] = menu[p]
  BY <1>1 DEF Unseated
<1>6. /\ joined'[p] = StaysJoined(p)
      /\ ShowsList(p) => shownStep'[p] = step[p] /\ shows'[p] = "party"
      /\ ~ShowsList(p) => shownStep'[p] = shownStep[p] /\ shows'[p] = shows[p]
  BY <1>1 DEF AllTypes, ServiceOK, ScreenOK
<1>. QED BY <1>1, <1>4, <1>5, <1>6 DEF Elsewhere, Guests

\* The host's game updates.
LEMMA HostUpdateDoes ==
    ASSUME AllTypes, HostUpdate, Host \in Players
    PROVE  /\ Elsewhere(Host) /\ notices'[Host] = notices[Host] /\ asked'[Host] = asked[Host] /\ requests[Host] = <<>>
           /\ step'[Host] = step[Host] /\ listStep'[Host] = listStep[Host] /\ menu'[Host] = menu[Host]
           /\ heard' = speaker'[Host] /\ speaker'[Host] = speaker[Host]
           /\ conv'[Host] \in {0, conv[Host]}
           /\ conv'[Host] # 0 => /\ joined'[Host] = StaysJoined(Host)
                                 /\ ShowsList(Host) => shownStep'[Host] = step[Host] /\ shows'[Host] = "party"
                                 /\ ~ShowsList(Host) => shownStep'[Host] = shownStep[Host] /\ shows'[Host] = shows[Host]
                                 /\ Sends(Host, JoinOrLeave(Host))
<1>1. PICK began \in BOOLEAN, ended \in BOOLEAN :
        /\ began = (SpeakerChanged /\ speaker[Host] # None)
        /\ ended = (SpeakerChanged /\ speaker[Host] = None /\ conv[Host] # 0)
  OBVIOUS
<1>2. PICK b, c : b = Msg("opened", 0, speaker[Host], 0, speaker[Host] = greeter) /\ c = Msg("close", conv[Host], None, 0, TRUE)
  OBVIOUS
<1>3. /\ HostIdle /\ UNCHANGED <<conn, talk, lastTalk, hostAsked, notices, asked, step, speaker, menu>>
      /\ joined' = [joined EXCEPT ![Host] = StaysJoined(Host) /\ ~began /\ ~ended]
      /\ conv' = [conv EXCEPT ![Host] = IF began \/ ended THEN 0 ELSE @]
      /\ Sends(Host, JoinOrLeave(Host) \o When(began, <<b>>) \o When(ended, <<c>>))
      /\ heard' = speaker[Host]
      /\ IF began \/ ended THEN UNCHANGED screenVars ELSE ShowsNow(Host)
  BY <1>1, <1>2, Zenon DEF HostUpdate, ruleVars, engineVars
<1>4. requests' = [requests EXCEPT ![Host] = @ \o (JoinOrLeave(Host) \o When(began, <<b>>) \o When(ended, <<c>>))]
  BY <1>3, Zenon DEF Sends
<1>5. /\ UNCHANGED listStep
      /\ shownStep' = shownStep \/ shownStep' = [shownStep EXCEPT ![Host] = IF ShowsList(Host) THEN step[Host] ELSE @]
      /\ shows' = shows \/ shows' = [shows EXCEPT ![Host] = IF ShowsList(Host) THEN "party" ELSE @]
  BY <1>3 DEF ShowsNow, screenVars
<1>6. \A q \in Players : q # Host => Alike(q)
  BY <1>3, <1>4, <1>5 DEF Alike, AllTypes, ServiceOK, ScreenOK, RequestsOK
<1>7. conv'[Host] = IF began \/ ended THEN 0 ELSE conv[Host]
  BY <1>3 DEF AllTypes, ServiceOK
<1>8. ASSUME conv'[Host] # 0
      PROVE  /\ joined'[Host] = StaysJoined(Host)
             /\ ShowsList(Host) => shownStep'[Host] = step[Host] /\ shows'[Host] = "party"
             /\ ~ShowsList(Host) => shownStep'[Host] = shownStep[Host] /\ shows'[Host] = shows[Host]
             /\ Sends(Host, JoinOrLeave(Host))
  <2>1. ~began /\ ~ended
    BY <1>7, <1>8
  <2>2. joined'[Host] = StaysJoined(Host)
    <3>1. joined'[Host] = (StaysJoined(Host) /\ ~began /\ ~ended)
      BY <1>3 DEF AllTypes, ServiceOK
    <3>. QED BY <2>1, <3>1 DEF StaysJoined, InIt
  <2>3. /\ shownStep' = [shownStep EXCEPT ![Host] = IF ShowsList(Host) THEN step[Host] ELSE @]
        /\ shows' = [shows EXCEPT ![Host] = IF ShowsList(Host) THEN "party" ELSE @]
    BY <1>3, <2>1 DEF ShowsNow
  <2>4. PICK e : e = JoinOrLeave(Host) /\ e \in Seq(Asks)
    BY JoinOrLeaveHas
  <2>5. When(began, <<b>>) = <<>> /\ When(ended, <<c>>) = <<>>
    BY <2>1 DEF When
  <2>6. e \o <<>> \o <<>> = e
    BY <2>4
  <2>7. Sends(Host, e \o <<>> \o <<>>)
    BY <1>3, <2>4, <2>5, Zenon
  <2>8. Sends(Host, JoinOrLeave(Host))
    BY <2>4, <2>6, <2>7, Zenon
  <2>9. /\ ShowsList(Host) => shownStep'[Host] = step[Host] /\ shows'[Host] = "party"
        /\ ~ShowsList(Host) => shownStep'[Host] = shownStep[Host] /\ shows'[Host] = shows[Host]
    BY <2>3 DEF AllTypes, ScreenOK
  <2>. QED BY <2>2, <2>8, <2>9
<1>9. Elsewhere(Host)
  BY <1>3, <1>6 DEF Elsewhere
<1>. QED BY <1>3, <1>5, <1>7, <1>8, <1>9 DEF HostIdle

\* What it has said, heard and takes itself to be in stays.
Steady(p) ==
    /\ requests'[p] = requests[p] /\ notices'[p] = notices[p] /\ asked'[p] = asked[p]
    /\ conv'[p] = conv[p] /\ step'[p] = step[p] /\ joined'[p] = joined[p]
    /\ listStep'[p] = listStep[p] /\ shownStep'[p] = shownStep[p] /\ heard' = heard

\* A menu comes or goes.
LEMMA MenuDoes ==
    ASSUME AllTypes, Host \in Players, NEW p \in Players, MenuComes(p) \/ MenuCloses(p) \/ OpeningLate(p) \/ (p = Host /\ EngineEnds)
    PROVE  /\ Elsewhere(p) /\ Steady(p) /\ speaker'[Host] \in {speaker[Host], None}
           /\ \/ menu[p] = "coming" /\ menu'[p] = "open" /\ shows'[p] = FirstList(p)
              \/ menu[p] = "coming" /\ menu'[p] = "closed" /\ shows'[p] = shows[p] /\ p # Host
              \/ menu[p] = "open" /\ menu'[p] = "closed" /\ shows'[p] = shows[p] /\ ~Joins(p)
              \/ menu[p] = "closed" /\ menu'[p] = "closed" /\ shows'[p] = shows[p]
              \/ p = Host /\ menu'[p] = "closed" /\ shows'[p] = shows[p]
<1>1. /\ UNCHANGED <<conn, talk, lastTalk, hostAsked, requests, notices, asked, conv, step, joined, listStep, shownStep, heard>>
      /\ \/ menu[p] = "coming" /\ menu' = [menu EXCEPT ![p] = "open"] /\ shows' = [shows EXCEPT ![p] = FirstList(p)] /\ UNCHANGED speaker
         \/ menu[p] = "coming" /\ p # Host /\ menu' = [menu EXCEPT ![p] = "closed"] /\ UNCHANGED <<shows, speaker>>
         \/ /\ menu[p] = "open" /\ menu' = [menu EXCEPT ![p] = "closed"] /\ ~Joins(p) /\ UNCHANGED shows
            /\ speaker' = [speaker EXCEPT ![p] = IF p = Host /\ ~menuEnds THEN @ ELSE None]
         \/ /\ menu[p] = "closed" \/ p = Host
            /\ menu' = [menu EXCEPT ![p] = "closed"] /\ UNCHANGED shows /\ speaker' = [speaker EXCEPT ![p] = None]
  <2>1. CASE MenuComes(p)
    BY <2>1 DEF MenuComes, serviceVars, hostGameVars, ruleVars
  <2>2. CASE MenuCloses(p)
    BY <2>2 DEF MenuCloses, MenuOpen, serviceVars, screenVars, hostGameVars, ruleVars
  <2>3. CASE OpeningLate(p)
    BY <2>3 DEF OpeningLate, EndsHere, serviceVars, screenVars, hostGameVars, ruleVars
  <2>4. CASE p = Host /\ EngineEnds
    BY <2>4 DEF EngineEnds, EndsHere, serviceVars, screenVars, hostGameVars, ruleVars
  <2>. QED BY <2>1, <2>2, <2>3, <2>4
<1>2. \A q \in Players : q # p => shows'[q] = shows[q] /\ menu'[q] = menu[q] /\ speaker'[q] = speaker[q]
  BY <1>1 DEF AllTypes, ScreenOK, EngineOK
<1>3. Elsewhere(p) /\ Steady(p)
  BY <1>1, <1>2 DEF Elsewhere, Alike, Steady
<1>4. speaker'[Host] \in {speaker[Host], None}
  BY <1>1 DEF AllTypes, EngineOK
<1>5. \/ menu[p] = "coming" /\ menu'[p] = "open" /\ shows'[p] = FirstList(p)
      \/ menu[p] = "coming" /\ menu'[p] = "closed" /\ shows'[p] = shows[p] /\ p # Host
      \/ menu[p] = "open" /\ menu'[p] = "closed" /\ shows'[p] = shows[p] /\ ~Joins(p)
      \/ menu[p] = "closed" /\ menu'[p] = "closed" /\ shows'[p] = shows[p]
      \/ p = Host /\ menu'[p] = "closed" /\ shows'[p] = shows[p]
  BY <1>1 DEF AllTypes, ScreenOK, EngineOK
<1>. QED BY <1>3, <1>4, <1>5

\* A player picks.
LEMMA PicksDoes ==
    ASSUME AllTypes, Host \in Players, NEW p \in Players, Picks(p)
    PROVE  /\ Elsewhere(p) /\ notices'[p] = notices[p] /\ asked'[p] = asked[p] /\ conv'[p] = conv[p] /\ step'[p] = step[p]
           /\ joined'[p] = joined[p] /\ heard' = heard /\ speaker'[Host] = speaker[Host] /\ menu'[p] = menu[p]
           /\ \E a \in Asks : /\ a.type = "pick" /\ a.conv = conv[p] /\ Sends(p, <<a>>)
<1>1. /\ UNCHANGED <<conn, talk, lastTalk, hostAsked, notices, asked, conv, step, joined, listStep, shownStep, heard, speaker, menu>>
      /\ shows' = [shows EXCEPT ![p] = "nothing"] /\ step[p] < MaxSteps
      /\ \E own \in BOOLEAN : Sends(p, <<Msg("pick", conv[p], None, step[p], own)>>)
  BY DEF Picks, serviceVars, engineVars, hostGameVars, ruleVars
<1>2. PICK own \in BOOLEAN : Sends(p, <<Msg("pick", conv[p], None, step[p], own)>>)
  BY <1>1
<1>3. PICK a : a = Msg("pick", conv[p], None, step[p], own)
  OBVIOUS
<1>4. a \in Asks /\ a.type = "pick" /\ a.conv = conv[p]
  <2>1. conv[p] \in Nat /\ None \in Npcs \union {None} /\ step[p] \in 0 .. MaxSteps
    BY DEF AllTypes, ServiceOK
  <2>2. a \in Asks
    BY <1>1, <1>3, <2>1, MessageIs
  <2>. QED BY <1>3, <2>2 DEF Msg
<1>5. Sends(p, <<a>>)
  BY <1>2, <1>3, Zenon
<1>6. requests' = [requests EXCEPT ![p] = @ \o <<a>>]
  BY <1>5, Zenon DEF Sends
<1>7. Elsewhere(p)
  BY <1>1, <1>6 DEF Elsewhere, Alike, AllTypes, RequestsOK, ScreenOK
<1>. QED BY <1>1, <1>4, <1>5, <1>7

\* The host's engine builds a list.
LEMMA EngineListsDoes ==
    ASSUME AllTypes, Host \in Players, EngineLists
    PROVE  /\ Elsewhere(Host) /\ notices'[Host] = notices[Host] /\ asked'[Host] = asked[Host] /\ conv'[Host] = conv[Host]
           /\ step'[Host] = step[Host] /\ joined'[Host] = joined[Host] /\ listStep'[Host] = listStep[Host]
           /\ heard' = heard /\ speaker'[Host] = speaker[Host] /\ menu'[Host] = menu[Host]
           /\ \E a \in Asks : /\ a.type = "options" /\ a.conv = conv[Host] /\ a.step = step[Host]
                              /\ Sends(Host, When(conv[Host] # 0, <<a>>))
<1>1. /\ UNCHANGED <<conn, talk, lastTalk, hostAsked, notices, asked, conv, step, joined, listStep, shownStep, heard, speaker, menu>>
      /\ shows' = [shows EXCEPT ![Host] = IF MenuOpen(Host) THEN "engine" ELSE @]
      /\ Sends(Host, When(conv[Host] # 0, <<Options(conv[Host], step[Host])>>))
  BY DEF EngineLists, serviceVars, engineVars, ruleVars
<1>2. PICK a : a = Options(conv[Host], step[Host])
  OBVIOUS
<1>3. a \in Asks /\ a.type = "options" /\ a.conv = conv[Host] /\ a.step = step[Host]
  <2>1. conv[Host] \in Nat /\ None \in Npcs \union {None} /\ step[Host] \in 0 .. MaxSteps
    BY DEF AllTypes, ServiceOK
  <2>2. a \in Asks
    BY <1>2, <2>1, MessageIs DEF Options
  <2>. QED BY <1>2, <2>2 DEF Options, Msg
<1>4. PICK e : e = When(conv[Host] # 0, <<a>>)
  OBVIOUS
<1>5. Sends(Host, e)
  BY <1>1, <1>2, <1>4, Zenon
<1>6. requests' = [requests EXCEPT ![Host] = @ \o e]
  BY <1>5, Zenon DEF Sends
<1>7. Elsewhere(Host)
  BY <1>1, <1>6 DEF Elsewhere, Alike, AllTypes, RequestsOK, ScreenOK
<1>8. Sends(Host, When(conv[Host] # 0, <<a>>))
  BY <1>4, <1>5, Zenon
<1>. QED BY <1>1, <1>3, <1>7, <1>8

\* A guest talks to an NPC.
LEMMA GuestTalksDoes ==
    ASSUME AllTypes, Host \in Players, Calm, NEW p \in Players, NEW n \in Npcs, GuestTalks(p, n)
    PROVE  /\ Elsewhere(p) /\ p # Host /\ p \in Members
           /\ \/ Steady(p) /\ menu[p] = "closed" /\ menu'[p] = "coming" /\ shows'[p] = shows[p]
              \/ /\ NothingBegun /\ notices'[p] = notices[p] /\ conv'[p] = conv[p] /\ step'[p] = step[p] /\ joined'[p] = joined[p]
                 /\ listStep'[p] = listStep[p] /\ shownStep'[p] = shownStep[p] /\ heard' = heard /\ menu'[p] = menu[p]
                 /\ shows'[p] = shows[p] /\ \E a \in Asks : a.type = "start" /\ Sends(p, <<a>>)
<1>1. /\ UNCHANGED <<conn, talk, lastTalk, hostAsked, notices, conv, step, joined, listStep, shownStep, shows, heard>>
      /\ p \in Guests \intersect Members /\ menu[p] = "closed"
      /\ \/ /\ speaker' = [speaker EXCEPT ![p] = n] /\ menu' = [menu EXCEPT ![p] = "coming"] /\ UNCHANGED <<asked, requests>>
         \/ /\ NothingBegun /\ asked' = [asked EXCEPT ![p] = n]
            /\ Sends(p, <<Msg("start", 0, n, 0, FALSE)>>) /\ UNCHANGED <<speaker, menu>>
  BY Zenon DEF GuestTalks, serviceVars, screenVars, hostGameVars, ruleVars, engineVars
<1>2. CASE speaker' = [speaker EXCEPT ![p] = n] /\ menu' = [menu EXCEPT ![p] = "coming"] /\ UNCHANGED <<asked, requests>>
  <2>1. Elsewhere(p)
    BY <1>1, <1>2 DEF Elsewhere, Alike, AllTypes, EngineOK
  <2>2. Steady(p) /\ menu'[p] = "coming"
    BY <1>1, <1>2 DEF Steady, AllTypes, EngineOK
  <2>. QED BY <1>1, <2>1, <2>2 DEF Guests
<1>3. CASE /\ NothingBegun /\ asked' = [asked EXCEPT ![p] = n]
           /\ Sends(p, <<Msg("start", 0, n, 0, FALSE)>>) /\ UNCHANGED <<speaker, menu>>
  <2>1. PICK a : a = Msg("start", 0, n, 0, FALSE)
    OBVIOUS
  <2>2. a \in Asks /\ a.type = "start"
    <3>1. 0 \in Nat /\ 0 \in 0 .. MaxSteps /\ n \in Npcs \union {None}
      BY BoundsAssumption
    <3>2. a \in Asks
      BY <2>1, <3>1, MessageIs
    <3>. QED BY <2>1, <3>2 DEF Msg
  <2>3. Sends(p, <<a>>)
    BY <1>3, <2>1, Zenon
  <2>4. requests' = [requests EXCEPT ![p] = @ \o <<a>>]
    BY <2>3, Zenon DEF Sends
  <2>5. Elsewhere(p)
    BY <1>1, <1>3, <2>4 DEF Elsewhere, Alike, AllTypes, RequestsOK, ScreenOK
  <2>. QED BY <1>1, <1>3, <2>2, <2>3, <2>5 DEF Guests
<1>. QED BY <1>1, <1>2, <1>3

\* The host's player talks to an NPC, or is greeted.
LEMMA HostTalksDoes ==
    ASSUME AllTypes, Host \in Players, Calm, NEW n \in Npcs, NEW greet \in BOOLEAN, HostTalks(n, greet)
    PROVE  /\ Elsewhere(Host) /\ Steady(Host) /\ shows'[Host] = shows[Host] /\ ~GoesOut(Host)
           /\ NothingBegun \/ speaker'[Host] = speaker[Host]
           /\ menu'[Host] = menu[Host] \/ (~MenuOpen(Host) /\ menu'[Host] = "coming")
<1>1. /\ UNCHANGED <<conn, talk, lastTalk, hostAsked, requests, notices, asked, conv, step, joined, listStep, shownStep, shows, heard>>
      /\ ~GoesOut(Host)
      /\ \/ menu[Host] = "closed" /\ menu' = [menu EXCEPT ![Host] = "coming"] /\ UNCHANGED speaker
         \/ /\ NothingBegun /\ speaker' = [speaker EXCEPT ![Host] = n]
            /\ menu' = [menu EXCEPT ![Host] = IF MenuOpen(Host) THEN @ ELSE "coming"]
  BY Zenon DEF HostTalks, serviceVars, screenVars, ruleVars
<1>2. Elsewhere(Host)
  BY <1>1 DEF Elsewhere, Alike, AllTypes, EngineOK
<1>3. menu'[Host] = menu[Host] \/ (~MenuOpen(Host) /\ menu'[Host] = "coming")
  BY <1>1 DEF MenuOpen, AllTypes, EngineOK
<1>. QED BY <1>1, <1>2, <1>3 DEF Steady

\* What a notice does to the game that reads it.
Sends1(p, t) == \E d \in Seq(Asks) : requests'[p] = requests[p] \o d /\ \A n \in Sent(d) : n.type = t
Silently(p) == requests'[p] = requests[p]
ReadsAside(p, m) ==
    /\ conv'[p] = conv[p] /\ step'[p] = step[p] /\ joined'[p] = joined[p] /\ listStep'[p] = listStep[p]
    /\ shownStep'[p] = shownStep[p] /\ menu'[p] = menu[p] /\ shows'[p] = shows[p]
    /\ \/ m.type = "start" /\ asked'[p] = asked[p] /\ Sends1(p, "failed")
       \/ m.type = "refused" /\ asked'[p] = (IF asked[p] = m.npc THEN None ELSE asked[p]) /\ Silently(p) /\ speaker'[Host] = speaker[Host]
       \/ /\ m.type \in {"list", "picked", "closed"} /\ m.conv # conv[p] /\ asked'[p] = asked[p] /\ Silently(p)
          /\ speaker'[Host] = speaker[Host]
ReadsList(p, m) ==
    /\ m.type = "list" /\ m.conv = conv[p] /\ listStep'[p] = m.step /\ shownStep'[p] = 0 /\ asked'[p] = asked[p]
    /\ conv'[p] = conv[p] /\ step'[p] = step[p] /\ joined'[p] = joined[p] /\ menu'[p] = menu[p] /\ shows'[p] = shows[p]
    /\ Silently(p) /\ speaker'[Host] = speaker[Host]
ReadsPicked(p, m) ==
    /\ m.type = "picked" /\ m.conv = conv[p] /\ step'[p] = m.step /\ asked'[p] = asked[p]
    /\ conv'[p] = conv[p] /\ joined'[p] = joined[p] /\ menu'[p] = menu[p]
    /\ Sends1(p, "options") /\ speaker'[Host] = speaker[Host]
ReadsClosed(p, m) ==
    /\ m.type = "closed" /\ m.conv = conv[p] /\ conv'[p] = 0 /\ asked'[p] = asked[p] /\ joined'[p] = FALSE
    /\ Silently(p) /\ speaker'[Host] \in {speaker[Host], None}
ReadsOpen(p, m) ==
    /\ m.type = "open" /\ conv'[p] = m.conv /\ step'[p] = 1 /\ asked'[p] = None /\ speaker'[Host] = speaker[Host]
    /\ \/ p = Host /\ joined'[p] = FALSE /\ Sends1(p, "options")
       \/ p # Host /\ asked[p] # m.npc /\ ~m.flag /\ joined'[p] = FALSE /\ Silently(p)
       \/ p # Host /\ (asked[p] = m.npc \/ m.flag) /\ joined'[p] = TRUE /\ Silently(p)
       \/ /\ p # Host /\ (asked[p] = m.npc \/ m.flag) /\ joined'[p] = FALSE
          /\ \E k \in Asks : Word(k, m.conv) /\ k.type = "close" /\ Sends(p, <<k>>)

\* Options, or nothing, as they are sent.
LEMMA SendsOptions ==
    ASSUME AllTypes, NEW p \in Players, NEW c \in Nat, NEW s \in 0 .. MaxSteps, NEW b \in BOOLEAN,
           Sends(p, When(b, <<Options(c, s)>>))
    PROVE  Sends1(p, "options") /\ \A q \in Players : q # p => requests'[q] = requests[q]
<1>1. PICK a : a = Options(c, s)
  OBVIOUS
<1>2. a \in Asks /\ a.type = "options"
  <2>1. None \in Npcs \union {None}
    OBVIOUS
  <2>2. a \in Asks
    BY <1>1, <2>1, MessageIs DEF Options
  <2>. QED BY <1>1, <2>2 DEF Options, Msg
<1>3. PICK d : d = When(b, <<a>>)
  OBVIOUS
<1>4. d \in Seq(Asks) /\ \A n \in Sent(d) : n.type = "options"
  <2>1. Sent(<<a>>) = {a} /\ <<a>> \in Seq(Asks) /\ Sent(<<>>) = {} /\ <<>> \in Seq(Asks)
    BY <1>2, SentFew, Sends12
  <2>. QED BY <1>2, <1>3, <2>1 DEF When
<1>5. Sends(p, d)
  BY <1>1, <1>3, Zenon
<1>6. requests'[p] = requests[p] \o d /\ \A q \in Players : q # p => requests'[q] = requests[q]
  BY <1>4, <1>5, SendsType DEF AllTypes
<1>. QED BY <1>4, <1>6 DEF Sends1

\* A game reads a notice.
LEMMA ReadsDoes ==
    ASSUME AllTypes, AskInv, NEW p \in Players, GameReads(p), NEW m, m = Head(notices[p])
    PROVE  /\ Elsewhere(p) /\ m \in Tells /\ notices[p] # <<>> /\ notices'[p] = Tail(notices[p]) /\ requests[Host] = <<>>
           /\ p \in Members /\ heard' = heard
           /\ ReadsAside(p, m) \/ ReadsList(p, m) \/ ReadsPicked(p, m) \/ ReadsClosed(p, m) \/ ReadsOpen(p, m)
<1>. Host \in Players
  BY Channels
<1>1. /\ notices[p] # <<>> /\ p \in Members /\ requests[Host] = <<>> /\ notices' = [notices EXCEPT ![p] = Tail(@)]
      /\ UNCHANGED <<conn, talk, lastTalk, hostAsked>>
      /\ \/ m.type = "start" /\ OnHostStart(m)
         \/ m.type = "open" /\ OnOpen(p, m)
         \/ m.type = "list" /\ OnList(p, m)
         \/ m.type = "picked" /\ OnPicked(p, m)
         \/ m.type = "closed" /\ OnClosed(p, m)
         \/ m.type = "refused" /\ OnRefused(p, m)
         \/ /\ m.type \in {"list", "picked", "closed"} /\ m.conv # conv[p]
            /\ UNCHANGED <<serviceVars, screenVars, asked, engineVars, hostGameVars, requests>>
  BY DEF GameReads, HostIdle, ruleVars
<1>2. m \in Tells
  <2>1. notices[p] \in Seq(Tells)
    BY Channels
  <2>. QED BY <1>1, <2>1, SentRead
<1>3. notices'[p] = Tail(notices[p]) /\ \A q \in Players : q # p => notices'[q] = notices[q]
  BY <1>1 DEF AllTypes, NoticesOK
<1>4. m.conv \in Nat /\ m.step \in 0 .. MaxSteps /\ conv[p] \in Nat /\ 1 \in 0 .. MaxSteps
  <2>1. m.conv \in Nat /\ m.step \in 0 .. MaxSteps
    BY <1>2 DEF Tells, Notice
  <2>2. conv[p] \in Nat
    BY Channels
  <2>3. 1 \in 0 .. MaxSteps
    BY BoundsAssumption
  <2>. QED BY <2>1, <2>2, <2>3
<1>5. ASSUME m.type = "start", OnHostStart(m), p = Host PROVE Elsewhere(p) /\ heard' = heard /\ ReadsAside(p, m)
  <2>1. /\ UNCHANGED <<conv, step, joined, listStep, shownStep, shows, asked, menu, heard>>
        /\ \/ speaker' = [speaker EXCEPT ![Host] = m.npc] /\ UNCHANGED requests
           \/ Sends(Host, <<Msg("failed", 0, m.npc, 0, FALSE)>>) /\ UNCHANGED speaker
    BY <1>5 DEF OnHostStart, serviceVars, screenVars
  <2>2. PICK a : a = Msg("failed", 0, m.npc, 0, FALSE)
    OBVIOUS
  <2>3. a \in Asks /\ a.type = "failed"
    <3>1. 0 \in Nat /\ 0 \in 0 .. MaxSteps /\ m.npc \in Npcs \union {None}
      BY <1>2, BoundsAssumption DEF Tells, Notice
    <3>2. a \in Asks
      BY <2>2, <3>1, MessageIs
    <3>. QED BY <2>2, <3>2 DEF Msg
  <2>4. PICK e : e = <<a>> /\ e \in Seq(Asks) /\ Sent(e) = {a}
    <3>1. Sent(<<a>>) = {a} /\ <<a>> \in Seq(Asks)
      BY <2>3, SentFew, Sends12
    <3>. QED BY <3>1
  <2>5. Sends1(p, "failed") /\ \A q \in Players : q # p => requests'[q] = requests[q]
    <3>1. CASE UNCHANGED requests
      <4>1. <<>> \in Seq(Asks) /\ requests[p] \o <<>> = requests[p] /\ Sent(<<>>) = {}
        BY SentFew, Channels
      <4>. QED BY <3>1, <4>1 DEF Sends1
    <3>2. CASE Sends(Host, e)
      BY <1>5, <2>3, <2>4, <3>2, SendsType DEF Sends1, AllTypes
    <3>. QED BY <2>1, <2>2, <2>4, <3>1, <3>2
  <2>6. \A q \in Players : q # p => speaker'[q] = speaker[q]
    BY <1>5, <2>1 DEF AllTypes, EngineOK
  <2>7. Elsewhere(p)
    BY <1>1, <1>3, <2>1, <2>5, <2>6 DEF Elsewhere, Alike
  <2>. QED BY <1>5, <2>1, <2>5, <2>7 DEF ReadsAside
<1>6. ASSUME m.type = "refused", OnRefused(p, m) PROVE Elsewhere(p) /\ heard' = heard /\ ReadsAside(p, m)
  <2>1. /\ UNCHANGED <<conv, step, joined, listStep, shownStep, shows, menu, heard, speaker, requests>>
        /\ asked' = [asked EXCEPT ![p] = IF @ = m.npc THEN None ELSE @]
    BY <1>6 DEF OnRefused, serviceVars, screenVars, engineVars, hostGameVars
  <2>2. Elsewhere(p)
    BY <1>1, <1>3, <2>1 DEF Elsewhere, Alike, AllTypes, ScreenOK
  <2>3. asked'[p] = IF asked[p] = m.npc THEN None ELSE asked[p]
    BY <2>1 DEF AllTypes, ScreenOK
  <2>. QED BY <1>6, <2>1, <2>2, <2>3 DEF ReadsAside, Silently
<1>7. ASSUME m.type \in {"list", "picked", "closed"}, m.conv # conv[p],
             UNCHANGED <<serviceVars, screenVars, asked, engineVars, hostGameVars, requests>>
      PROVE  Elsewhere(p) /\ heard' = heard /\ ReadsAside(p, m)
  <2>1. UNCHANGED <<conv, step, joined, listStep, shownStep, shows, asked, menu, heard, speaker, requests>>
    BY <1>7 DEF serviceVars, screenVars, engineVars, hostGameVars
  <2>2. Elsewhere(p)
    BY <1>1, <1>3, <2>1 DEF Elsewhere, Alike
  <2>. QED BY <1>7, <2>1, <2>2 DEF ReadsAside, Silently
<1>8. ASSUME m.type = "list", OnList(p, m) PROVE Elsewhere(p) /\ heard' = heard /\ ReadsList(p, m)
  <2>1. /\ UNCHANGED <<conv, step, joined, shows, asked, menu, heard, speaker, requests>> /\ m.conv = conv[p]
        /\ listStep' = [listStep EXCEPT ![p] = m.step] /\ shownStep' = [shownStep EXCEPT ![p] = 0]
    BY <1>8 DEF OnList, ShownAgain, serviceVars, engineVars, hostGameVars
  <2>2. Elsewhere(p)
    BY <1>1, <1>3, <2>1 DEF Elsewhere, Alike, AllTypes, ScreenOK
  <2>3. listStep'[p] = m.step /\ shownStep'[p] = 0
    BY <2>1 DEF AllTypes, ScreenOK
  <2>. QED BY <1>8, <2>1, <2>2, <2>3 DEF ReadsList, Silently
<1>9. ASSUME m.type = "picked", OnPicked(p, m) PROVE Elsewhere(p) /\ heard' = heard /\ ReadsPicked(p, m)
  <2>1. /\ UNCHANGED <<conv, joined, listStep, shownStep, asked, menu, heard, speaker>> /\ m.conv = conv[p]
        /\ step' = [step EXCEPT ![p] = m.step]
        /\ shows' = [shows EXCEPT ![p] = IF MenuOpen(p) /\ joined[p] THEN "nothing" ELSE @]
    BY <1>9 DEF OnPicked, engineVars
  <2>2. PICK said \in BOOLEAN : Sends(p, When(p = Host /\ ~said, <<Options(conv[p], m.step)>>))
    BY <1>9 DEF OnPicked
  <2>3. PICK b \in BOOLEAN : b = (p = Host /\ ~said)
    OBVIOUS
  <2>4. Sends(p, When(b, <<Options(conv[p], m.step)>>))
    BY <2>2, <2>3
  <2>5. Sends1(p, "options") /\ \A q \in Players : q # p => requests'[q] = requests[q]
    BY <1>4, <2>4, SendsOptions
  <2>6. Elsewhere(p)
    BY <1>1, <1>3, <2>1, <2>5 DEF Elsewhere, Alike, AllTypes, ServiceOK, ScreenOK
  <2>7. step'[p] = m.step
    BY <2>1 DEF AllTypes, ServiceOK
  <2>. QED BY <1>9, <2>1, <2>5, <2>6, <2>7 DEF ReadsPicked
<1>10. ASSUME m.type = "closed", OnClosed(p, m) PROVE Elsewhere(p) /\ heard' = heard /\ ReadsClosed(p, m)
  <2>1. /\ UNCHANGED <<step, listStep, shownStep, shows, asked, heard, requests>> /\ m.conv = conv[p]
        /\ conv' = [conv EXCEPT ![p] = 0] /\ joined' = [joined EXCEPT ![p] = FALSE]
        /\ speaker' = [speaker EXCEPT ![p] = None] /\ menu' = [menu EXCEPT ![p] = "closed"]
    BY <1>10 DEF OnClosed, EndsHere, screenVars
  <2>2. Elsewhere(p)
    BY <1>1, <1>3, <2>1 DEF Elsewhere, Alike, AllTypes, ServiceOK, EngineOK
  <2>3. conv'[p] = 0 /\ joined'[p] = FALSE /\ speaker'[Host] \in {speaker[Host], None}
    BY <2>1 DEF AllTypes, ServiceOK, EngineOK
  <2>. QED BY <1>10, <2>1, <2>2, <2>3 DEF ReadsClosed, Silently
<1>11. ASSUME m.type = "open", OnOpen(p, m) PROVE Elsewhere(p) /\ heard' = heard /\ ReadsOpen(p, m)
  <2>1. /\ conv' = [conv EXCEPT ![p] = m.conv] /\ step' = [step EXCEPT ![p] = 1]
        /\ listStep' = [listStep EXCEPT ![p] = 0] /\ shownStep' = [shownStep EXCEPT ![p] = 0]
        /\ asked' = [asked EXCEPT ![p] = None] /\ UNCHANGED <<shows, heard>>
        /\ p = Host => /\ joined' = [joined EXCEPT ![p] = FALSE] /\ UNCHANGED <<speaker, menu>>
                       /\ Sends(p, When(speaker[Host] # None, <<Options(m.conv, 1)>>))
        /\ p # Host => OpensHere(p, m)
    BY <1>11, Zenon DEF OnOpen, engineVars
  <2>2. conv'[p] = m.conv /\ step'[p] = 1 /\ asked'[p] = None
    BY <2>1 DEF AllTypes, ServiceOK, ScreenOK
  <2>3. CASE p = Host
    <3>1. PICK b \in BOOLEAN : b = (speaker[Host] # None)
      OBVIOUS
    <3>2. Sends(p, When(b, <<Options(m.conv, 1)>>))
      BY <2>1, <2>3, <3>1
    <3>3. Sends1(p, "options") /\ \A q \in Players : q # p => requests'[q] = requests[q]
      BY <1>4, <3>2, SendsOptions
    <3>4. Elsewhere(p)
      BY <1>1, <1>3, <2>1, <2>3, <3>3 DEF Elsewhere, Alike, AllTypes, ServiceOK, ScreenOK
    <3>5. joined'[p] = FALSE
      BY <2>1, <2>3 DEF AllTypes, ServiceOK
    <3>. QED BY <1>11, <2>1, <2>2, <2>3, <3>3, <3>4, <3>5 DEF ReadsOpen
  <2>4. CASE p # Host
    <3>1. /\ joined' = [joined EXCEPT ![p] = FALSE] \/ joined' = [joined EXCEPT ![p] = TRUE]
          /\ speaker' = speaker \/ speaker' = [speaker EXCEPT ![p] = m.npc] \/ speaker' = [speaker EXCEPT ![p] = None]
          /\ menu' = menu \/ menu' = [menu EXCEPT ![p] = IF MenuOpen(p) THEN @ ELSE "coming"] \/ menu' = [menu EXCEPT ![p] = "closed"]
      <4>1. OpensHere(p, m)
        BY <2>1, <2>4
      <4>2. joined' = [joined EXCEPT ![p] = FALSE] \/ joined' = [joined EXCEPT ![p] = TRUE]
        BY <4>1 DEF OpensHere
      <4>3. speaker' = speaker \/ speaker' = [speaker EXCEPT ![p] = m.npc] \/ speaker' = [speaker EXCEPT ![p] = None]
        BY <4>1 DEF OpensHere, EndsHere, engineVars
      <4>4. menu' = menu \/ menu' = [menu EXCEPT ![p] = IF MenuOpen(p) THEN @ ELSE "coming"] \/ menu' = [menu EXCEPT ![p] = "closed"]
        BY <4>1 DEF OpensHere, EndsHere, engineVars
      <4>. QED BY <4>2, <4>3, <4>4
    <3>2. PICK k : k = Msg("close", m.conv, None, 0, FALSE)
      OBVIOUS
    <3>3. k \in Asks /\ k.type = "close" /\ Word(k, m.conv)
      <4>1. 0 \in 0 .. MaxSteps /\ None \in Npcs \union {None}
        BY BoundsAssumption
      <4>2. k \in Asks
        BY <1>4, <3>2, <4>1, MessageIs
      <4>. QED BY <3>2, <4>2 DEF Msg, Word
    <3>4. \/ asked[p] # m.npc /\ ~m.flag /\ joined' = [joined EXCEPT ![p] = FALSE] /\ UNCHANGED requests
          \/ (asked[p] = m.npc \/ m.flag) /\ joined' = [joined EXCEPT ![p] = TRUE] /\ UNCHANGED requests
          \/ (asked[p] = m.npc \/ m.flag) /\ joined' = [joined EXCEPT ![p] = FALSE] /\ Sends(p, <<k>>)
      <4>1. OpensHere(p, m)
        BY <2>1, <2>4
      <4>. QED BY <3>2, <4>1, Zenon DEF OpensHere, LeavesWhenItCannot
    <3>5. \A q \in Players : q # p => requests'[q] = requests[q]
      <4>1. <<k>> \in Seq(Asks)
        BY <3>3, Sends12
      <4>. QED BY <3>4, <4>1, SendsType DEF AllTypes
    <3>6. \A q \in Players : q # p => speaker'[q] = speaker[q] /\ menu'[q] = menu[q] /\ joined'[q] = joined[q]
      BY <3>1 DEF AllTypes, ServiceOK, EngineOK
    <3>7. Elsewhere(p)
      BY <1>1, <1>3, <2>1, <3>5, <3>6 DEF Elsewhere, Alike, AllTypes, ServiceOK, ScreenOK
    <3>8. \/ asked[p] # m.npc /\ ~m.flag /\ joined'[p] = FALSE /\ Silently(p)
          \/ (asked[p] = m.npc \/ m.flag) /\ joined'[p] = TRUE /\ Silently(p)
          \/ (asked[p] = m.npc \/ m.flag) /\ joined'[p] = FALSE /\ Sends(p, <<k>>)
      BY <3>4 DEF Silently, AllTypes, ServiceOK
    <3>9. speaker'[Host] = speaker[Host]
      BY <2>4, <3>6
    <3>. QED BY <1>11, <2>1, <2>2, <2>4, <3>3, <3>7, <3>8, <3>9 DEF ReadsOpen
  <2>. QED BY <2>3, <2>4
<1>12. m.type = "start" => p = Host
  <2>1. m \in Sent(notices[p])
    <3>1. notices[p] \in Seq(Tells)
      BY Channels
    <3>. QED BY <1>1, <3>1, SentRead
  <2>2. \A g \in Guests : ~Has(notices[g], "start")
    BY DEF AskInv
  <2>. QED BY <2>1, <2>2 DEF Has, Guests
<1>. QED BY <1>1, <1>2, <1>3, <1>5, <1>6, <1>7, <1>8, <1>9, <1>10, <1>11, <1>12

\* What the rules do with a request: they tell a player of an ask; they leave the conversation as it is; they give a list back;
\* they seat or unseat the player, or have its list, and tell it to those in it; they say a pick; they end it.
NothingTold == UNCHANGED <<talk, lastTalk>> /\ notices' = notices
Aside == UNCHANGED <<talk, lastTalk>> /\ \A q \in Players : \E e \in Seq(Tells) :
             notices'[q] = notices[q] \o e /\ \A n \in Sent(e) : n.type \in {"refused", "start"}
Ignored(p, m) ==
    \/ m.type = "options" /\ ~(p = Host /\ m.conv = talk.id /\ m.step = talk.step)
    \/ m.type = "pick" /\ (m.conv # talk.id \/ p \notin talk.players \/ ~talk.listed)
    \/ m.type = "close" /\ (m.conv # talk.id \/ p \notin talk.players)
    \/ m.type = "join" /\ (m.conv # talk.id \/ p \in talk.players)
Relisted(q) == \E o \in Tells : IsList(o, talk'.id) /\ o.step = talk'.step /\ notices'[q] = notices[q] \o <<o>>
GivesBack(p, m) ==
    /\ m.type = "pick" /\ UNCHANGED <<talk, lastTalk>> /\ talk.listed
    /\ Relisted(p) /\ \A q \in Players : q # p => notices'[q] = notices[q]
Merges(p, b) ==
    /\ talk' # NoTalk /\ talk'.id = talk.id /\ talk'.step = talk.step /\ lastTalk' = lastTalk /\ (talk.listed => talk'.listed)
    /\ \A q \in Players : q # p => (q \in talk'.players <=> q \in talk.players)
    /\ p \in talk'.players <=> b
    /\ \A q \in Players : /\ q \in talk'.players \cap Members /\ talk'.listed => Relisted(q)
                          /\ ~(q \in talk'.players \cap Members /\ talk'.listed) => notices'[q] = notices[q]
SaysPick ==
    /\ talk' # NoTalk /\ talk'.id = talk.id /\ talk'.step = talk.step + 1 /\ lastTalk' = lastTalk /\ ~talk'.listed
    /\ talk'.players = talk.players
    /\ \A q \in Members : \E o \in Tells : o.type = "picked" /\ o.conv = talk.id /\ o.step = talk.step + 1 /\ notices'[q] = notices[q] \o <<o>>
    /\ \A q \in Players \ Members : notices'[q] = notices[q]

\* What the rules do with what is said of a conversation.
Ruled(p, m) ==
    /\ m.type \in {"options", "pick", "close", "join"} /\ talk # NoTalk =>
         \/ talk' = NoTalk
         \/ NothingTold /\ Ignored(p, m)
         \/ GivesBack(p, m) /\ m.conv = talk.id /\ p \in talk.players
         \/ SaysPick /\ m.type = "pick"
         \/ Merges(p, m.type = "join") /\ m.type \in {"close", "join"} /\ Word(m, talk.id)
         \/ Merges(p, p \in talk.players) /\ m.type = "options" /\ talk'.listed
    /\ m.type \in {"options", "pick", "close", "join"} /\ talk = NoTalk => talk' = NoTalk

\* The list to everyone in it.
LEMMA MergeDoes ==
    ASSUME AllTypes, NEW t \in Talks, Merge(t), talk' = t, talk # NoTalk, t # NoTalk, t.id = talk.id, t.step = talk.step, lastTalk' = lastTalk,
           talk.listed => t.listed, NEW p, NEW b \in BOOLEAN, p \in t.players <=> b,
           \A q \in Players : q # p => (q \in t.players <=> q \in talk.players)
    PROVE  Merges(p, b)
<1>1. PICK o : o = ListNow(t)
  OBVIOUS
<1>2. o \in Tells /\ IsList(o, t.id) /\ o.step = t.step
  <2>1. o \in Tells
    BY <1>1, TalkTells
  <2>. QED BY <1>1, <2>1 DEF ListNow, Msg, IsList
<1>3. PICK e : e = When(t.listed, <<o>>) /\ e \in Seq(Tells)
  BY <1>2, Sends12
<1>4. Tell(t.players, e)
  BY <1>1, <1>3, Zenon DEF Merge
<1>5. \A q \in Players : notices'[q] = IF q \in t.players \cap Members THEN notices[q] \o e ELSE notices[q]
  BY <1>3, <1>4, TellType DEF AllTypes
<1>6. (t.listed => e = <<o>>) /\ (~t.listed => e = <<>>)
  BY <1>3 DEF When
<1>7. ASSUME NEW q \in Players
      PROVE  /\ q \in t.players \cap Members /\ t.listed => Relisted(q)
             /\ ~(q \in t.players \cap Members /\ t.listed) => notices'[q] = notices[q]
  <2>1. notices[q] \o <<>> = notices[q]
    BY Channels
  <2>2. CASE q \in t.players \cap Members /\ t.listed
    <3>1. notices'[q] = notices[q] \o <<o>>
      BY <1>5, <1>6, <2>2
    <3>. QED BY <1>2, <2>2, <3>1 DEF Relisted
  <2>3. CASE ~(q \in t.players \cap Members /\ t.listed)
    BY <1>5, <1>6, <2>1, <2>3
  <2>. QED BY <2>2, <2>3
<1>. QED BY <1>7 DEF Merges

\* A player out of the conversation.
LEMMA LeavesTalk ==
    ASSUME AllTypes, talk # NoTalk, NEW p \in Players, LeaveTalk(p), lastTalk' = lastTalk
    PROVE  talk' = NoTalk \/ Merges(p, FALSE) \/ (p \notin talk.players /\ NothingTold)
<1>1. CASE p \notin talk.players
  BY <1>1 DEF LeaveTalk, NothingTold
<1>2. CASE p \in talk.players /\ LastOut(p)
  BY <1>2 DEF LeaveTalk
<1>3. CASE p \in talk.players /\ ~LastOut(p)
  <2>1. talk' = [talk EXCEPT !.players = @ \ {p}] /\ Merge(talk')
    BY <1>3 DEF LeaveTalk
  <2>2. PICK t : t = talk'
    OBVIOUS
  <2>3. talk \in Talks
    BY DEF AllTypes, RulesOK
  <2>4. /\ t \in Talks /\ t.id = talk.id /\ t.step = talk.step /\ t.listed = talk.listed /\ t.players = talk.players \ {p}
        /\ t.npc = talk.npc
    BY <2>1, <2>2, <2>3 DEF Talks
  <2>5. talk.players # {p}
    BY <1>3 DEF LastOut
  <2>6. t # NoTalk
    BY <1>3, <2>4, <2>5 DEF NoTalk
  <2>7. Merge(t)
    BY <2>1, <2>2
  <2>8. Merges(p, FALSE)
    BY <2>2, <2>4, <2>6, <2>7, MergeDoes
  <2>. QED BY <2>8
<1>. QED BY <1>1, <1>2, <1>3

\* The rules read a request.
LEMMA RulesDo ==
    ASSUME AllTypes, IdsOK, NEW p \in Players, HostReads(p), NEW m, m = Head(requests[p]), ~Flag(requests[p]) \/ p = Host
    PROVE  /\ requests[p] # <<>> /\ requests'[p] = Tail(requests[p]) /\ UNCHANGED <<conn, gameVars>>
           /\ m.type = "opened" => OnOpened(m.npc, m.flag)
           /\ m.type = "start" => OnStart(p, m.npc) /\ Aside
           /\ m.type = "failed" => OnStartFailed(p, m.npc) /\ Aside
           /\ m.type \in {"options", "pick", "close", "join"} => hostAsked' = hostAsked /\ lastTalk' = lastTalk
           /\ Ruled(p, m)
<1>1. /\ m \in Asks /\ m \in Sent(requests[p]) /\ p \in Members /\ Handles(p, m)
  BY RequestRead
<1>2. requests[p] # <<>> /\ requests'[p] = Tail(requests[p]) /\ UNCHANGED <<conn, gameVars>>
  BY DEF HostReads, AllTypes, RequestsOK
<1>3. talk \in Talks /\ (talk.id = 0 => talk = NoTalk) /\ m.npc \in Npcs \union {None}
  BY <1>1 DEF AllTypes, RulesOK, IdsOK, Asks, Request
<1>4. \A q \in Players : notices[q] \in Seq(Tells) /\ notices[q] \o <<>> = notices[q]
  BY Channels
<1>5. NothingTold => Aside
  <2>1. <<>> \in Seq(Tells) /\ Sent(<<>>) = {}
    BY SentFew
  <2>. QED BY <1>4, <2>1 DEF NothingTold, Aside
<1>6. ASSUME NEW W, NEW o \in Tells, o.type \in {"refused", "start"}, Tell(W, <<o>>), UNCHANGED <<talk, lastTalk>> PROVE Aside
  <2>1. PICK e : e = <<o>> /\ e \in Seq(Tells) /\ Sent(e) = {o}
    <3>1. <<o>> \in Seq(Tells) /\ Sent(<<o>>) = {o}
      BY Sends12, SentFew
    <3>. QED BY <3>1
  <2>2. \A q \in Players : notices'[q] = IF q \in W \cap Members THEN notices[q] \o e ELSE notices[q]
    BY <1>6, <2>1, TellType DEF AllTypes
  <2>3. <<>> \in Seq(Tells) /\ Sent(<<>>) = {}
    BY SentFew
  <2>4. ASSUME NEW q \in Players
        PROVE  \E f \in Seq(Tells) : notices'[q] = notices[q] \o f /\ \A n \in Sent(f) : n.type \in {"refused", "start"}
    <3>1. CASE q \in W \cap Members
      BY <1>6, <2>1, <2>2, <3>1
    <3>2. CASE q \notin W \cap Members
      BY <1>4, <2>2, <2>3, <3>2
    <3>. QED BY <3>1, <3>2
  <2>. QED BY <1>6, <2>4 DEF Aside
<1>7. \A t \in {"start", "refused"} : Msg(t, 0, m.npc, 0, FALSE) \in Tells /\ Msg(t, 0, m.npc, 0, FALSE).type = t
  <2>1. 0 \in Nat /\ 0 \in 0 .. MaxSteps
    BY BoundsAssumption
  <2>2. ASSUME NEW t \in {"start", "refused"} PROVE Msg(t, 0, m.npc, 0, FALSE) \in Tells /\ Msg(t, 0, m.npc, 0, FALSE).type = t
    <3>1. PICK o : o = Msg(t, 0, m.npc, 0, FALSE)
      OBVIOUS
    <3>2. FALSE \in BOOLEAN
      OBVIOUS
    <3>3. o \in Tells
      BY <1>3, <2>1, <2>2, <3>1, <3>2, MessageIs
    <3>4. o.type = t
      BY <3>1 DEF Msg
    <3>. QED BY <3>1, <3>3, <3>4
  <2>. QED BY <2>2
<1>8. ASSUME m.type = "start" PROVE OnStart(p, m.npc) /\ Aside
  <2>1. OnStart(p, m.npc)
    BY <1>1, <1>8 DEF Handles
  <2>2. \/ NothingTold
        \/ Tell({p}, <<Msg("refused", 0, m.npc, 0, FALSE)>>) /\ UNCHANGED <<talk, lastTalk>>
        \/ Tell({Host}, <<Msg("start", 0, m.npc, 0, FALSE)>>) /\ UNCHANGED <<talk, lastTalk>>
    BY <2>1 DEF OnStart, NothingTold, ruleVars
  <2>. QED BY <1>5, <1>6, <1>7, <2>1, <2>2
<1>9. ASSUME m.type = "failed" PROVE OnStartFailed(p, m.npc) /\ Aside
  <2>1. OnStartFailed(p, m.npc)
    BY <1>1, <1>9 DEF Handles
  <2>2. \/ NothingTold
        \/ Tell({hostAsked.player}, <<Msg("refused", 0, m.npc, 0, FALSE)>>) /\ UNCHANGED <<talk, lastTalk>>
    BY <2>1 DEF OnStartFailed, NothingTold, ruleVars
  <2>. QED BY <1>5, <1>6, <1>7, <2>1, <2>2
<1>10. m.type = "opened" => OnOpened(m.npc, m.flag)
  BY <1>1 DEF Handles
<1>11. /\ m.type = "options" => OnOptions(p, m)
       /\ m.type = "pick" => OnPick(p, m)
       /\ m.type = "close" => OnClose(p, m)
       /\ m.type = "join" => OnJoin(p, m)
  BY <1>1 DEF Handles
<1>12. m.type \in {"options", "pick", "close", "join"} => hostAsked' = hostAsked /\ lastTalk' = lastTalk
  BY <1>11 DEF OnOptions, OnPick, OnClose, OnJoin, ruleVars
<1>13. ASSUME m.type \in {"options", "pick", "close", "join"}, talk = NoTalk PROVE talk' = NoTalk
  <2>1. talk.id = 0
    BY <1>13 DEF NoTalk
  <2>. QED BY <1>11, <1>13, <2>1 DEF OnOptions, OnPick, OnClose, OnJoin, ruleVars
<1>14. ASSUME m.type = "options", talk # NoTalk
       PROVE  (NothingTold /\ Ignored(p, m)) \/ (Merges(p, p \in talk.players) /\ talk'.listed)
  <2>1. OnOptions(p, m) /\ talk.id # 0
    BY <1>3, <1>11, <1>14
  <2>2. CASE m.conv = talk.id /\ m.step = talk.step /\ p = Host
    <3>1. talk' = [talk EXCEPT !.listed = TRUE] /\ Merge(talk') /\ lastTalk' = lastTalk
      BY <2>1, <2>2 DEF OnOptions
    <3>2. PICK t : t = talk'
      OBVIOUS
    <3>3. /\ t \in Talks /\ t.id = talk.id /\ t.step = talk.step /\ t.listed /\ t.players = talk.players
      BY <1>3, <3>1, <3>2 DEF Talks
    <3>4. t # NoTalk
      BY <3>3 DEF NoTalk
    <3>5. Merge(t)
      BY <3>1, <3>2
    <3>6. Merges(p, p \in talk.players)
      <4>1. PICK b \in BOOLEAN : b <=> p \in talk.players
        OBVIOUS
      <4>2. p \in t.players <=> b
        BY <3>3, <4>1
      <4>3. Merges(p, b)
        BY <1>14, <3>1, <3>2, <3>3, <3>4, <3>5, <4>2, MergeDoes
      <4>4. b = (p \in talk.players)
        BY <4>1
      <4>. QED BY <4>3, <4>4, Zenon
    <3>. QED BY <3>2, <3>3, <3>6
  <2>3. CASE ~(m.conv = talk.id /\ m.step = talk.step /\ p = Host)
    BY <1>14, <2>1, <2>3 DEF OnOptions, NothingTold, Ignored, ruleVars
  <2>. QED BY <2>2, <2>3
<1>15. ASSUME m.type = "join", talk # NoTalk
       PROVE  (NothingTold /\ Ignored(p, m)) \/ (Merges(p, TRUE) /\ Word(m, talk.id))
  <2>1. OnJoin(p, m)
    BY <1>11, <1>15
  <2>2. CASE m.conv = talk.id /\ p \notin talk.players
    <3>1. talk' = [talk EXCEPT !.players = @ \union {p}] /\ Merge(talk') /\ lastTalk' = lastTalk
      BY <1>15, <2>1, <2>2 DEF OnJoin
    <3>2. PICK t : t = talk'
      OBVIOUS
    <3>3. /\ t \in Talks /\ t.id = talk.id /\ t.step = talk.step /\ t.listed = talk.listed /\ t.players = talk.players \cup {p}
      BY <1>3, <3>1, <3>2 DEF Talks
    <3>4. t # NoTalk
      BY <3>3 DEF NoTalk
    <3>5. Merge(t)
      BY <3>1, <3>2
    <3>6. Merges(p, TRUE)
      BY <1>15, <3>1, <3>2, <3>3, <3>4, <3>5, MergeDoes
    <3>. QED BY <1>15, <2>2, <3>6 DEF Word
  <2>3. CASE ~(m.conv = talk.id /\ p \notin talk.players)
    BY <1>15, <2>1, <2>3 DEF OnJoin, NothingTold, Ignored, ruleVars
  <2>. QED BY <2>2, <2>3
<1>16. ASSUME m.type = "close", talk # NoTalk
       PROVE  talk' = NoTalk \/ (NothingTold /\ Ignored(p, m)) \/ (Merges(p, FALSE) /\ Word(m, talk.id))
  <2>1. OnClose(p, m)
    BY <1>11, <1>16
  <2>2. p # Host => ~m.flag
    BY <1>1, <1>16 DEF Flag
  <2>3. CASE p = Host /\ m.flag
    BY <1>16, <2>1, <2>3 DEF OnClose
  <2>4. CASE ~m.flag /\ m.conv = talk.id
    <3>1. LeaveTalk(p) /\ lastTalk' = lastTalk
      BY <1>16, <2>1, <2>4 DEF OnClose
    <3>2. talk' = NoTalk \/ Merges(p, FALSE) \/ (p \notin talk.players /\ NothingTold)
      BY <1>16, <3>1, LeavesTalk
    <3>. QED BY <1>16, <2>4, <3>2 DEF Word, Ignored
  <2>5. CASE ~(p = Host /\ m.flag) /\ m.conv # talk.id
    BY <1>16, <2>1, <2>5 DEF OnClose, NothingTold, Ignored
  <2>. QED BY <2>2, <2>3, <2>4, <2>5
<1>17. ASSUME m.type = "pick", talk # NoTalk
       PROVE  \/ NothingTold /\ Ignored(p, m)
              \/ GivesBack(p, m) /\ m.conv = talk.id /\ p \in talk.players
              \/ SaysPick
  <2>1. OnPick(p, m)
    BY <1>11, <1>17
  <2>2. CASE Says(p, m)
    <3>1. /\ talk' = [talk EXCEPT !.step = @ + 1, !.listed = FALSE] /\ lastTalk' = lastTalk
          /\ Tell(Players, <<Msg("picked", talk.id, None, talk.step + 1, FALSE)>>)
      BY <1>17, <2>1, <2>2 DEF OnPick
    <3>2. PICK o : o = Msg("picked", talk.id, None, talk.step + 1, FALSE)
      OBVIOUS
    <3>3. o \in Tells /\ o.type = "picked" /\ o.conv = talk.id /\ o.step = talk.step + 1
      <4>1. m.step < MaxSteps /\ m.step = talk.step
        BY <1>1, <1>17, <2>2 DEF Asks, Says
      <4>2. talk.id \in Nat /\ talk.step + 1 \in 0 .. MaxSteps /\ None \in Npcs \union {None}
        BY <1>3, <4>1, BoundsAssumption DEF Talks
      <4>3. o \in Tells
        BY <3>2, <4>2, MessageIs
      <4>. QED BY <3>2, <4>3 DEF Msg
    <3>4. PICK e : e = <<o>> /\ e \in Seq(Tells)
      BY <3>3, Sends12
    <3>5. Tell(Players, e)
      BY <3>1, <3>2, <3>4
    <3>6. \A q \in Players : notices'[q] = IF q \in Players \cap Members THEN notices[q] \o e ELSE notices[q]
      BY <3>4, <3>5, TellType DEF AllTypes
    <3>7. /\ talk'.id = talk.id /\ talk'.step = talk.step + 1 /\ talk'.listed = FALSE /\ talk'.players = talk.players
      BY <1>3, <3>1 DEF Talks
    <3>8. talk' # NoTalk
      <4>1. talk.id # 0
        BY <1>3, <1>17
      <4>. QED BY <3>7, <4>1 DEF NoTalk
    <3>9. \A q \in Members : notices'[q] = notices[q] \o <<o>>
      BY <3>4, <3>6 DEF Members
    <3>10. \A q \in Players \ Members : notices'[q] = notices[q]
      BY <3>6
    <3>. QED BY <3>1, <3>3, <3>7, <3>8, <3>9, <3>10 DEF SaysPick
  <2>3. CASE ~Says(p, m)
    <3>1. PICK b \in BOOLEAN : b = (m.conv = talk.id /\ ListBack(p))
      OBVIOUS
    <3>2. PICK o : o = ListNow(talk)
      OBVIOUS
    <3>3. Tell({p}, When(b, <<o>>)) /\ UNCHANGED <<talk, lastTalk>>
      BY <1>17, <2>1, <2>3, <3>1, <3>2 DEF OnPick, ruleVars
    <3>4. o \in Tells /\ IsList(o, talk.id) /\ o.step = talk.step
      <4>1. o \in Tells
        BY <1>3, <3>2, TalkTells
      <4>. QED BY <3>2, <4>1 DEF ListNow, Msg, IsList
    <3>5. PICK e : e = When(b, <<o>>) /\ e \in Seq(Tells)
      BY <3>4, Sends12
    <3>6. \A q \in Players : notices'[q] = IF q \in {p} \cap Members THEN notices[q] \o e ELSE notices[q]
      BY <3>3, <3>5, TellType DEF AllTypes
    <3>7. CASE b
      <4>1. e = <<o>>
        BY <3>5, <3>7 DEF When
      <4>2. notices'[p] = notices[p] \o <<o>> /\ \A q \in Players : q # p => notices'[q] = notices[q]
        BY <1>1, <3>6, <4>1
      <4>3. Relisted(p)
        BY <3>3, <3>4, <4>2 DEF Relisted
      <4>. QED BY <1>17, <3>1, <3>3, <3>7, <4>2, <4>3 DEF GivesBack, ListBack
    <3>8. CASE ~b
      <4>1. e = <<>>
        BY <3>5, <3>8 DEF When
      <4>2. \A q \in Players : notices'[q] = notices[q]
        BY <1>4, <3>6, <4>1
      <4>3. notices' = notices
        <5>1. notices' = [q \in Players |-> IF q \in {p} \intersect Members THEN notices[q] \o When(b, <<o>>) ELSE notices[q]]
          BY <3>3 DEF Tell
        <5>. QED BY <4>2, <5>1 DEF AllTypes, NoticesOK
      <4>. QED BY <1>17, <3>1, <3>3, <3>8, <4>3 DEF NothingTold, Ignored, ListBack
    <3>. QED BY <3>7, <3>8
  <2>. QED BY <2>2, <2>3
<1>18. ASSUME m.type \in {"options", "pick", "close", "join"}, talk # NoTalk
       PROVE  \/ talk' = NoTalk
              \/ NothingTold /\ Ignored(p, m)
              \/ GivesBack(p, m) /\ m.conv = talk.id /\ p \in talk.players
              \/ SaysPick /\ m.type = "pick"
              \/ Merges(p, m.type = "join") /\ m.type \in {"close", "join"} /\ Word(m, talk.id)
              \/ Merges(p, p \in talk.players) /\ m.type = "options" /\ talk'.listed
  <2>1. CASE m.type = "options"
    BY <1>14, <1>18, <2>1
  <2>2. CASE m.type = "pick"
    BY <1>17, <1>18, <2>2
  <2>3. CASE m.type = "close"
    <3>1. (m.type = "join") = FALSE
      BY <2>3
    <3>. QED BY <1>16, <1>18, <2>3, <3>1
  <2>4. CASE m.type = "join"
    <3>1. (m.type = "join") = TRUE
      BY <2>4
    <3>. QED BY <1>15, <1>18, <2>4, <3>1
  <2>. QED BY <1>18, <2>1, <2>2, <2>3, <2>4
<1>19. Ruled(p, m)
  BY <1>13, <1>18, Zenon DEF Ruled
<1>. QED BY <1>2, <1>8, <1>9, <1>10, <1>12, <1>19

\* A conversation is to begin: while a guest asks for it, no answer is behind its ask; and of an ask that is answered there is
\* one answer.
Begins == IsAsked \/ Turned \/ Has(requests[Host], "opened")
OneOpen(q) == \A m, n \in Sent(q) : m.type = "open" /\ n.type = "open" => m.conv = n.conv
AskFresh(p) == asked[p] # None =>
    /\ Begins => ~Of(notices[p], "refused", asked[p]) /\ ~Has(notices[p], "open")
    /\ Has(notices[p], "open") => ~Of(notices[p], "refused", asked[p])
    /\ OneOpen(notices[p])
FreshInv == \A p \in Members : AskFresh(p)

\* A step by which nothing begins and nothing is answered.
LEMMA FreshKept ==
    ASSUME FreshInv, Members' \subseteq Members, \A p \in Members' : asked'[p] \in {None, asked[p]},
           \A p \in Members' : \A m : m.type \in {"refused", "open"} /\ m \in Sent(notices'[p]) => m \in Sent(notices[p]),
           Begins' => Begins
    PROVE  FreshInv'
<1>. SUFFICES ASSUME NEW p \in Members', asked'[p] # None PROVE AskFresh(p)'
  BY DEF FreshInv, AskFresh
<1>1. AskFresh(p) /\ asked[p] = asked'[p]
  BY DEF FreshInv
<1>2. Of(notices'[p], "refused", asked[p]) => Of(notices[p], "refused", asked[p])
  BY DEF Of
<1>3. Has(notices'[p], "open") => Has(notices[p], "open")
  BY DEF Has
<1>4. OneOpen(notices[p]) => OneOpen(notices'[p])
  BY DEF OneOpen
<1>. QED BY <1>1, <1>2, <1>3, <1>4 DEF AskFresh

\* A step of a game that leaves its notices alone.
LEMMA FreshNothingBegun ==
    ASSUME AllTypes, AskInv, NothingBegun, UNCHANGED notices,
           \A p \in Members' : p \in Members \/ (conn[p] # "open" /\ asked'[p] = asked[p])
    PROVE  FreshInv'
<1>. SUFFICES ASSUME NEW p \in Members', asked'[p] # None PROVE AskFresh(p)'
  BY DEF FreshInv, AskFresh
<1>1. p \in Members
  BY DEF AskInv, Members
<1>2. notices'[p] = <<>>
  BY <1>1 DEF NothingBegun, Settled
<1>. QED BY <1>2, NothingIn DEF AskFresh, OneOpen

\* What a game does by itself.
LEMMA FreshLocal ==
    ASSUME AllTypes, HostInv, TalkInv, EndInv, FreshInv, Calm,
           \/ \E p \in Players : \/ GuestUpdate(p) \/ MenuComes(p) \/ MenuCloses(p) \/ Picks(p) \/ OpeningLate(p) \/ Join(p)
           \/ \E p \in Players, n \in Npcs : GuestTalks(p, n)
           \/ \E n \in Npcs, greet \in BOOLEAN : HostTalks(n, greet)
           \/ EngineEnds \/ EngineLists \/ HostUpdate
    PROVE  FreshInv'
<1>1. Host \in Players /\ (\A p \in Players : requests[p] \in Seq(Asks)) /\ AskInv
  BY Channels DEF TalkInv
<1>2. UNCHANGED notices
  BY LocalIds DEF EndInv
<1>3. ASSUME NEW p \in Players, Elsewhere(p), asked'[p] = asked[p], Begins' => Begins PROVE FreshInv'
  <2>1. Members' = Members
    BY <1>3 DEF Elsewhere, Members
  <2>2. \A q \in Members' : asked'[q] = asked[q]
    BY <1>3 DEF Elsewhere, Alike, Members
  <2>. QED BY <1>2, <1>3, <2>1, <2>2, FreshKept
<1>4. ASSUME NEW p \in Players, Elsewhere(p), asked'[p] = asked[p], heard' = heard, speaker'[Host] \in {speaker[Host], None},
             Has(requests'[Host], "opened") => Has(requests[Host], "opened")
      PROVE  FreshInv'
  <2>1. Begins' => Begins
    BY <1>4 DEF Begins, IsAsked, Turned, SpeakerChanged, Elsewhere
  <2>. QED BY <1>3, <1>4, <2>1
<1>5. ASSUME NEW p \in Players, NEW e \in Seq(Asks), \A a \in Sent(e) : a.type # "opened", Sends(p, e)
      PROVE  Has(requests'[Host], "opened") => Has(requests[Host], "opened")
  <2>1. requests'[p] = requests[p] \o e /\ \A q \in Players : q # p => requests'[q] = requests[q]
    BY <1>5, SendsType DEF AllTypes
  <2>2. Has(requests[p] \o e, "opened") <=> Has(requests[p], "opened") \/ Has(e, "opened")
    BY <1>1, HasSteps
  <2>3. ~Has(e, "opened")
    BY <1>5 DEF Has
  <2>. QED BY <1>1, <2>1, <2>2, <2>3
<1>6. ASSUME NEW p \in Players, MenuComes(p) \/ MenuCloses(p) \/ OpeningLate(p) \/ (p = Host /\ EngineEnds) PROVE FreshInv'
  <2>1. Elsewhere(p) /\ Steady(p) /\ speaker'[Host] \in {speaker[Host], None}
    BY <1>1, <1>6, MenuDoes
  <2>2. requests'[Host] = requests[Host]
    BY <1>1, <2>1 DEF Elsewhere, Alike, Steady
  <2>. QED BY <1>4, <2>1, <2>2 DEF Steady
<1>7. ASSUME NEW p \in Players, GuestUpdate(p) PROVE FreshInv'
  <2>1. Elsewhere(p) /\ p # Host /\ asked'[p] = asked[p] /\ heard' = heard
    BY <1>7, GuestUpdateDoes
  <2>. QED BY <1>1, <1>4, <2>1 DEF Elsewhere, Alike
<1>8. ASSUME NEW p \in Players, Picks(p) PROVE FreshInv'
  <2>1. /\ Elsewhere(p) /\ asked'[p] = asked[p] /\ heard' = heard /\ speaker'[Host] = speaker[Host]
        /\ \E a \in Asks : a.type = "pick" /\ Sends(p, <<a>>)
    BY <1>1, <1>8, PicksDoes
  <2>2. PICK a \in Asks : a.type = "pick" /\ Sends(p, <<a>>)
    BY <2>1
  <2>3. Sent(<<a>>) = {a} /\ <<a>> \in Seq(Asks)
    BY SentFew, Sends12
  <2>4. Has(requests'[Host], "opened") => Has(requests[Host], "opened")
    BY <1>5, <2>2, <2>3
  <2>. QED BY <1>4, <2>1, <2>4
<1>9. ASSUME EngineLists PROVE FreshInv'
  <2>1. /\ Elsewhere(Host) /\ asked'[Host] = asked[Host] /\ heard' = heard /\ speaker'[Host] = speaker[Host]
        /\ \E a \in Asks : a.type = "options" /\ Sends(Host, When(conv[Host] # 0, <<a>>))
    BY <1>1, <1>9, EngineListsDoes
  <2>2. PICK a \in Asks : a.type = "options" /\ Sends(Host, When(conv[Host] # 0, <<a>>))
    BY <2>1
  <2>3. Sent(<<a>>) = {a} /\ <<a>> \in Seq(Asks) /\ Sent(<<>>) = {} /\ <<>> \in Seq(Asks)
    BY SentFew, Sends12
  <2>4. PICK e : e = When(conv[Host] # 0, <<a>>) /\ e \in Seq(Asks) /\ Sent(e) \subseteq {a}
    BY <2>3 DEF When
  <2>5. Has(requests'[Host], "opened") => Has(requests[Host], "opened")
    BY <1>1, <1>5, <2>2, <2>4
  <2>. QED BY <1>1, <1>4, <2>1, <2>5
<1>10. ASSUME HostUpdate PROVE FreshInv'
  <2>1. Elsewhere(Host) /\ asked'[Host] = asked[Host] /\ heard' = speaker'[Host] /\ speaker'[Host] = speaker[Host]
    BY <1>1, <1>10, HostUpdateDoes
  <2>2. Has(requests'[Host], "opened") => Turned
    <3>1. PICK began \in BOOLEAN, ended \in BOOLEAN :
            (began <=> SpeakerChanged /\ speaker[Host] # None) /\ (ended <=> SpeakerChanged /\ speaker[Host] = None /\ conv[Host] # 0)
      OBVIOUS
    <3>2. PICK j, k, b, c :
            /\ j.type = "join" /\ k.type = "close" /\ b.type = "opened" /\ c.type = "close"
            /\ \A m : m \in Sent(requests'[Host]) <=> \/ m = j /\ Joins(Host)
                                                      \/ m = k /\ GoesOut(Host)
                                                      \/ m = b /\ began
                                                      \/ m = c /\ ended
      BY <1>10, <3>1, HostUpdateSays
    <3>. QED BY <3>1, <3>2 DEF Has, Turned
  <2>3. Begins' => Begins
    BY <2>1, <2>2 DEF Begins, IsAsked, Turned, SpeakerChanged, Elsewhere
  <2>. QED BY <1>1, <1>3, <2>1, <2>3
<1>11. ASSUME NEW p \in Players, NEW n \in Npcs, GuestTalks(p, n) PROVE FreshInv'
  <2>1. Elsewhere(p) /\ p # Host /\ (Steady(p) \/ NothingBegun)
    BY <1>1, <1>11, GuestTalksDoes
  <2>2. CASE Steady(p)
    BY <1>1, <1>4, <2>1, <2>2 DEF Elsewhere, Alike, Steady
  <2>3. CASE NothingBegun
    <3>1. Members' = Members
      BY <2>1 DEF Elsewhere, Members
    <3>. QED BY <1>1, <1>2, <2>3, <3>1, FreshNothingBegun
  <2>. QED BY <2>1, <2>2, <2>3
<1>12. ASSUME NEW n \in Npcs, NEW greet \in BOOLEAN, HostTalks(n, greet) PROVE FreshInv'
  <2>1. Elsewhere(Host) /\ Steady(Host) /\ (NothingBegun \/ speaker'[Host] = speaker[Host])
    BY <1>1, <1>12, HostTalksDoes
  <2>2. CASE speaker'[Host] = speaker[Host]
    BY <1>1, <1>4, <2>1, <2>2 DEF Steady
  <2>3. CASE NothingBegun
    <3>1. Members' = Members
      BY <2>1 DEF Elsewhere, Members
    <3>. QED BY <1>1, <1>2, <2>3, <3>1, FreshNothingBegun
  <2>. QED BY <2>1, <2>2, <2>3
<1>13. ASSUME NEW p \in Players, Join(p) PROVE FreshInv'
  <2>1. NothingBegun /\ conn[p] = "none" /\ conn' = [conn EXCEPT ![p] = "open"] /\ asked' = asked
    BY <1>13 DEF Join, gameVars
  <2>2. \A q \in Members' : q \in Members \/ (conn[q] # "open" /\ asked'[q] = asked[q])
    BY <2>1 DEF Members
  <2>. QED BY <1>1, <1>2, <2>1, <2>2, FreshNothingBegun
<1>. QED BY <1>1, <1>6, <1>7, <1>8, <1>9, <1>10, <1>11, <1>12, <1>13

\* A game reads a notice: its answer, or no answer.
LEMMA FreshReads ==
    ASSUME AllTypes, HostInv, TalkInv, EndInv, FreshInv, NEW p \in Players, GameReads(p)
    PROVE  FreshInv'
<1>1. Host \in Players /\ (\A q \in Players : requests[q] \in Seq(Asks)) /\ AskInv /\ StartInv
  BY Channels DEF TalkInv
<1>2. PICK m : m = Head(notices[p])
  OBVIOUS
<1>3. /\ Elsewhere(p) /\ heard' = heard /\ requests[Host] = <<>>
      /\ ReadsAside(p, m) \/ ReadsList(p, m) \/ ReadsPicked(p, m) \/ ReadsClosed(p, m) \/ ReadsOpen(p, m)
  BY <1>1, <1>2, ReadsDoes
<1>4. m \in Sent(notices[p]) /\ Sent(notices'[p]) \subseteq Sent(notices[p]) /\ \A q \in Players : q # p => notices'[q] = notices[q]
  BY <1>2, NoticeRead
<1>5. Members' = Members /\ Members \subseteq Players /\ hostAsked' = hostAsked
  BY <1>3 DEF Elsewhere, Members
<1>6. asked'[p] \in {None, asked[p]}
  BY <1>3 DEF ReadsAside, ReadsList, ReadsPicked, ReadsClosed, ReadsOpen
<1>7. \A q \in Members' : asked'[q] \in {None, asked[q]}
  BY <1>3, <1>5, <1>6 DEF Elsewhere, Alike
<1>8. Has(requests'[Host], "opened") => Has(requests[Host], "opened")
  <2>1. CASE p # Host
    BY <1>1, <1>3, <2>1 DEF Elsewhere, Alike
  <2>2. CASE p = Host
    <3>1. Silently(p) \/ \E t \in {"failed", "options"} : Sends1(p, t)
      BY <1>3, <2>2 DEF ReadsAside, ReadsList, ReadsPicked, ReadsClosed, ReadsOpen
    <3>2. CASE Silently(p)
      BY <2>2, <3>2 DEF Silently
    <3>3. CASE \E t \in {"failed", "options"} : Sends1(p, t)
      <4>1. PICK t \in {"failed", "options"}, d \in Seq(Asks) : requests'[p] = requests[p] \o d /\ \A n \in Sent(d) : n.type = t
        BY <3>3 DEF Sends1
      <4>2. Has(requests[p] \o d, "opened") <=> Has(requests[p], "opened") \/ Has(d, "opened")
        BY <1>1, <4>1, HasSteps
      <4>3. ~Has(d, "opened")
        BY <4>1 DEF Has
      <4>. QED BY <2>2, <4>1, <4>2, <4>3
    <3>. QED BY <3>1, <3>2, <3>3
  <2>. QED BY <2>1, <2>2
<1>9. speaker'[Host] \in {speaker[Host], None} \/ IsAsked
  <2>1. CASE m.type = "start"
    <3>1. m \in Sent(notices[Host])
      BY <1>1, <1>4, <2>1, Channels DEF AskInv, Has
    <3>. QED BY <1>1, <2>1, <3>1 DEF StartInv
  <2>2. CASE m.type # "start"
    BY <1>3, <2>2 DEF ReadsAside, ReadsList, ReadsPicked, ReadsClosed, ReadsOpen
  <2>. QED BY <2>1, <2>2
<1>10. Begins' => Begins
  BY <1>3, <1>5, <1>8, <1>9 DEF Begins, IsAsked, Turned, SpeakerChanged
<1>11. \A q \in Members' : \A n : n.type \in {"refused", "open"} /\ n \in Sent(notices'[q]) => n \in Sent(notices[q])
  BY <1>4, <1>5
<1>. QED BY <1>5, <1>7, <1>10, <1>11, FreshKept

\* A player leaves: it has not asked.
LEMMA FreshLeave ==
    ASSUME AllTypes, TalkInv, EndInv, FreshInv, NEW p \in Players, Leave(p)
    PROVE  FreshInv'
<1>1. Host \in Players /\ IdsOK /\ p \in Guests
  BY Channels, BoundsAssumption DEF EndInv, Leave, Guests
<1>2. /\ conn' = [conn EXCEPT ![p] = "closed"] /\ requests' = [requests EXCEPT ![p] = <<>>] /\ asked' = [asked EXCEPT ![p] = None]
      /\ speaker' = [speaker EXCEPT ![p] = None] /\ hostAsked' \in {NotAsked, hostAsked} /\ LeaveTalk(p)
      /\ heard' = heard /\ lastTalk' = lastTalk
  BY DEF Leave, EndsHere, hostGameVars
<1>3. Quiet(Speech) \/ Ends(Players)
  BY <1>1, <1>2, LeaveTalkDoes DEF AllTypes, IdsOK
<1>4. \A q \in Players : \A m : m.type \in {"start", "open", "refused"} => (m \in Sent(notices'[q]) <=> m \in Sent(notices[q]))
  BY <1>1, <1>3, NewsKept
<1>5. Members' \subseteq Members
  BY <1>2 DEF Members, AllTypes, EngineOK
<1>6. \A q \in Members' : asked'[q] \in {None, asked[q]}
  BY <1>2 DEF Members, AllTypes, ScreenOK
<1>7. speaker'[Host] = speaker[Host] /\ requests'[Host] = requests[Host]
  BY <1>1, <1>2 DEF Guests, AllTypes, EngineOK, RequestsOK
<1>8. Begins' => Begins
  BY <1>2, <1>7 DEF Begins, IsAsked, Turned, SpeakerChanged
<1>9. \A q \in Members' : \A n : n.type \in {"refused", "open"} /\ n \in Sent(notices'[q]) => n \in Sent(notices[q])
  BY <1>4 DEF Members
<1>. QED BY <1>5, <1>6, <1>8, <1>9, FreshKept

\* The rules read a request: an ask is forwarded, refused or answered.
LEMMA FreshRules ==
    ASSUME AllTypes, HostInv, TalkInv, EndInv, FreshInv, NEW p \in Players, HostReads(p)
    PROVE  FreshInv'
<1>1. Host \in Players /\ IdsOK /\ AskInv /\ StartInv /\ PendInv /\ (talk.id = 0 => talk = NoTalk)
  BY Channels DEF EndInv, TalkInv, IdsOK
<1>2. PICK m : m = Head(requests[p])
  OBVIOUS
<1>3. /\ m \in Asks /\ m \in Sent(requests[p]) /\ p \in Members /\ Handles(p, m) /\ (p # Host => requests[Host] = <<>>)
      /\ UNCHANGED <<conn, asked, heard, speaker>> /\ Members' = Members
      /\ \A q \in Players : q # p => requests'[q] = requests[q]
      /\ Sent(requests'[p]) \subseteq Sent(requests[p]) /\ Sent(requests[p]) \subseteq Sent(requests'[p]) \cup {m}
      /\ \A t : Once(requests[p], t) /\ m.type = t => ~Has(requests'[p], t)
  BY <1>2, RequestRead
<1>4. Has(requests'[Host], "opened") => Has(requests[Host], "opened")
  BY <1>1, <1>3 DEF Has
<1>5. Turned' <=> Turned
  BY <1>3 DEF Turned, SpeakerChanged
<1>6. ASSUME hostAsked' = hostAsked,
             \A q \in Players : \A n : n.type \in {"refused", "open"} /\ n \in Sent(notices'[q]) => n \in Sent(notices[q])
      PROVE  FreshInv'
  <2>1. Begins' => Begins
    BY <1>4, <1>5, <1>6 DEF Begins, IsAsked
  <2>2. \A q \in Members' : asked'[q] \in {None, asked[q]}
    BY <1>3
  <2>3. \A q \in Members' : \A n : n.type \in {"refused", "open"} /\ n \in Sent(notices'[q]) => n \in Sent(notices[q])
    BY <1>6 DEF Members
  <2>. QED BY <1>3, <2>1, <2>2, <2>3, FreshKept
<1>7. CASE m.type \in {"options", "pick", "close", "join"}
  <2>1. Quiet(Speech) \/ \E W : Ends(W)
    BY <1>1, <1>3, <1>7, HandlerDoes DEF AllTypes
  <2>2. \A q \in Players : \A n : n.type \in {"start", "open", "refused"} => (n \in Sent(notices'[q]) <=> n \in Sent(notices[q]))
    BY <1>1, <2>1, NewsKept
  <2>3. hostAsked' = hostAsked
    <3>1. /\ m.type = "options" => OnOptions(p, m)
          /\ m.type = "pick" => OnPick(p, m)
          /\ m.type = "close" => OnClose(p, m)
          /\ m.type = "join" => OnJoin(p, m)
      BY <1>3 DEF Handles
    <3>. QED BY <1>7, <3>1 DEF OnOptions, OnPick, OnClose, OnJoin, ruleVars
  <2>. QED BY <1>6, <2>2, <2>3
<1>8. CASE m.type = "start"
  <2>1. p \in Guests /\ Has(requests[p], "start")
    BY <1>1, <1>3, <1>8, Channels DEF AskInv, Has
  <2>2. m.npc = asked[p] /\ Clear(m.npc) /\ ~IsAsked /\ ~Has(notices[p], "open") /\ ~Has(notices[p], "refused")
    BY <1>1, <1>3, <1>8, <2>1 DEF StartInv, PendInv
  <2>3. m.npc \in Npcs \union {None} /\ requests'[Host] = <<>> /\ requests[Host] = <<>>
    BY <1>1, <1>3, <2>1, Channels DEF Asks, Request
  <2>4. OnStart(p, m.npc)
    BY <1>3, <1>8 DEF Handles
  <2>5. PICK r, s : r = Msg("refused", 0, m.npc, 0, FALSE) /\ s = Msg("start", 0, m.npc, 0, FALSE)
    OBVIOUS
  <2>6. /\ r \in Tells /\ r.type = "refused" /\ s \in Tells /\ s.type = "start"
    <3>1. 0 \in Nat /\ 0 \in 0 .. MaxSteps /\ FALSE \in BOOLEAN
      BY BoundsAssumption
    <3>2. r \in Tells /\ s \in Tells
      BY <2>3, <2>5, <3>1, MessageIs
    <3>. QED BY <2>5, <3>2 DEF Msg
  <2>7. CASE UNCHANGED <<notices, ruleVars>>
    BY <1>6, <2>7 DEF ruleVars
  <2>8. CASE Tell({p}, <<r>>) /\ UNCHANGED ruleVars
    <3>1. \A q \in Players : q # p => notices'[q] = notices[q]
      BY <1>1, <1>3, <2>6, <2>8, ToldOne
    <3>2. Sent(notices'[p]) = Sent(notices[p]) \cup {r}
      BY <1>1, <1>3, <2>6, <2>8, ToldOne
    <3>3. ~Begins'
      <4>1. ~Has(requests[Host], "opened") /\ ~Turned
        BY <2>2 DEF Clear, OpensSoon
      <4>. QED BY <1>4, <1>5, <2>2, <2>8, <4>1 DEF Begins, IsAsked, ruleVars
    <3>4. ASSUME NEW q \in Members', asked'[q] # None PROVE AskFresh(q)'
      <4>1. q \in Players /\ AskFresh(q) /\ asked'[q] = asked[q]
        BY <1>3 DEF FreshInv, Members
      <4>2. CASE q = p
        <5>1. ~Has(notices'[p], "open")
          BY <2>2, <2>6, <3>2 DEF Has
        <5>2. OneOpen(notices'[p])
          BY <5>1 DEF Has, OneOpen
        <5>. QED BY <3>3, <4>2, <5>1, <5>2 DEF AskFresh
      <4>3. CASE q # p
        <5>1. notices'[q] = notices[q]
          BY <3>1, <4>1, <4>3
        <5>. QED BY <3>3, <4>1, <5>1 DEF AskFresh
      <4>. QED BY <4>2, <4>3
    <3>. QED BY <3>4 DEF FreshInv, AskFresh
  <2>9. CASE Tell({Host}, <<s>>) /\ talk = NoTalk /\ UNCHANGED <<talk, lastTalk>>
    <3>1. \A q \in Players : q # Host => notices'[q] = notices[q]
      BY <1>1, <1>3, <2>6, <2>9, ToldOne, HostChannels
    <3>2. ASSUME NEW q \in Members', asked'[q] # None PROVE AskFresh(q)'
      <4>1. q \in Players /\ AskFresh(q) /\ asked'[q] = asked[q]
        BY <1>3 DEF FreshInv, Members
      <4>2. asked[p] # None /\ p \in Players
        BY <2>2 DEF Clear
      <4>3. q = p /\ q # Host
        BY <1>1, <2>1, <3>2, <4>1, <4>2 DEF AskInv, Guests
      <4>4. notices'[q] = notices[q]
        BY <3>1, <4>1, <4>3
      <4>5. ~Of(notices[q], "refused", asked[q])
        BY <2>2, <4>3 DEF Of, Has
      <4>. QED BY <2>2, <4>1, <4>3, <4>4, <4>5 DEF AskFresh, OneOpen, Has
    <3>. QED BY <3>2 DEF FreshInv, AskFresh
  <2>. QED BY <2>4, <2>5, <2>7, <2>8, <2>9 DEF OnStart
<1>9. CASE m.type = "failed"
  <2>1. p = Host
    BY <1>1, <1>3, <1>9, Channels DEF AskInv, Has
  <2>2. Has(requests[Host], "failed")
    BY <1>3, <1>9, <2>1 DEF Has
  <2>3. ~Turned /\ ~Has(requests[Host], "opened")
    BY <1>1, <2>2 DEF StartInv
  <2>4. OnStartFailed(p, m.npc)
    BY <1>3, <1>9 DEF Handles
  <2>5. CASE UNCHANGED <<notices, ruleVars>>
    BY <1>6, <2>5 DEF ruleVars
  <2>6. CASE /\ Tell({hostAsked.player}, <<Msg("refused", 0, m.npc, 0, FALSE)>>) /\ hostAsked' = NotAsked /\ hostAsked # NotAsked
             /\ UNCHANGED <<talk, lastTalk>>
    <3>1. PICK r : r = Msg("refused", 0, m.npc, 0, FALSE)
      OBVIOUS
    <3>2. r \in Tells /\ r.type = "refused"
      <4>1. 0 \in Nat /\ 0 \in 0 .. MaxSteps /\ FALSE \in BOOLEAN /\ m.npc \in Npcs \union {None}
        BY <1>3, BoundsAssumption DEF Asks, Request
      <4>2. r \in Tells
        BY <3>1, <4>1, MessageIs
      <4>. QED BY <3>1, <4>2 DEF Msg
    <3>3. PICK w : w = hostAsked.player /\ w \in Guests /\ asked[w] # None /\ ~Has(notices[w], "open")
      BY <1>1, <2>6, Channels DEF StartInv, IsAsked, PendInv
    <3>4. w \in Members /\ w \in Players
      BY <1>1, <3>3, Channels DEF AskInv, Members
    <3>5. Tell({w}, <<r>>)
      BY <2>6, <3>1, <3>3
    <3>6. \A q \in Players : q # w => notices'[q] = notices[q]
      BY <3>2, <3>4, <3>5, ToldOne
    <3>7. Sent(notices'[w]) = Sent(notices[w]) \cup {r}
      BY <3>2, <3>4, <3>5, ToldOne
    <3>8. ~Begins'
      BY <1>4, <1>5, <2>3, <2>6 DEF Begins, IsAsked
    <3>9. ASSUME NEW q \in Members', asked'[q] # None PROVE AskFresh(q)'
      <4>1. q \in Players /\ AskFresh(q) /\ asked'[q] = asked[q]
        BY <1>3 DEF FreshInv, Members
      <4>2. CASE q = w
        <5>1. ~Has(notices'[w], "open")
          BY <3>2, <3>3, <3>7 DEF Has
        <5>2. OneOpen(notices'[w])
          BY <5>1 DEF Has, OneOpen
        <5>. QED BY <3>8, <4>2, <5>1, <5>2 DEF AskFresh
      <4>3. CASE q # w
        <5>1. notices'[q] = notices[q]
          BY <3>6, <4>1, <4>3
        <5>. QED BY <3>8, <4>1, <5>1 DEF AskFresh
      <4>. QED BY <4>2, <4>3
    <3>. QED BY <3>9 DEF FreshInv, AskFresh
  <2>. QED BY <2>4, <2>5, <2>6 DEF OnStartFailed
<1>10. CASE m.type = "opened"
  <2>1. p = Host
    BY <1>3, <1>10, Channels DEF HostInv, Has
  <2>2. Has(requests[Host], "opened") /\ ~Has(requests'[Host], "opened")
    BY <1>3, <1>10, <2>1 DEF HostInv, Has
  <2>3. ~Turned
    BY <2>2 DEF HostInv, OpensSoon, Turned, SpeakerChanged
  <2>4. OnOpened(m.npc, m.flag) /\ m.npc \in Npcs /\ m.flag \in BOOLEAN
    BY <1>3, <1>10 DEF Handles, Asks, Request
  <2>5. hostAsked' = NotAsked
    BY <2>4 DEF OnOpened
  <2>6. ~Begins'
    BY <1>5, <2>2, <2>3, <2>5 DEF Begins, IsAsked
  <2>7. PICK o, c : o = OpenNow(m.npc, m.flag) /\ c = ClosedNow(talk)
    OBVIOUS
  <2>8. o \in Tells /\ o.type = "open" /\ c \in Tells /\ c.type = "closed"
    <3>1. o \in Tells /\ o.type = "open"
      BY <2>4, <2>7, OpenIs DEF AllTypes
    <3>2. talk \in Talks
      BY DEF AllTypes, RulesOK
    <3>3. c \in Tells
      BY <2>7, <3>2, TalkTells
    <3>. QED BY <2>7, <3>1, <3>3 DEF ClosedNow, Msg
  <2>9. ASSUME NEW q \in Members PROVE Sent(notices'[q]) \subseteq Sent(notices[q]) \cup {c, o}
    <3>1. PICK e : e = When(talk # NoTalk /\ q # Host, <<c>>)
      OBVIOUS
    <3>2. e \in Seq(Tells) /\ Sent(e) \subseteq {c}
      <4>1. Sent(<<c>>) = {c} /\ <<c>> \in Seq(Tells) /\ Sent(<<>>) = {} /\ <<>> \in Seq(Tells)
        BY <2>8, SentFew, Sends12
      <4>. QED BY <3>1, <4>1 DEF When
    <3>3. PICK d : d = <<o>> /\ d \in Seq(Tells) /\ Sent(d) = {o}
      <4>1. <<o>> \in Seq(Tells) /\ Sent(<<o>>) = {o}
        BY <2>8, SentFew, Sends12
      <4>. QED BY <4>1
    <3>4. q \in Players /\ notices[q] \in Seq(Tells)
      BY Channels DEF Members
    <3>5. notices'[q] = notices[q] \o e \o <<o>>
      BY <2>4, <2>7, <3>1, <3>4 DEF OnOpened, OpenNow
    <3>6. PICK f : f = notices[q] \o e /\ f \in Seq(Tells) /\ Sent(f) = Sent(notices[q]) \cup Sent(e)
      BY <3>2, <3>4, SentJoin
    <3>7. Sent(f \o d) = Sent(f) \cup Sent(d)
      <4>1. f \in Seq(Tells) /\ d \in Seq(Tells)
        BY <3>3, <3>6
      <4>. QED BY <4>1, SentJoin
    <3>. QED BY <3>2, <3>3, <3>5, <3>6, <3>7
  <2>10. ASSUME NEW q \in Members', asked'[q] # None PROVE AskFresh(q)'
    <3>1. q \in Members /\ AskFresh(q) /\ asked'[q] = asked[q]
      BY <1>3 DEF FreshInv
    <3>2. ~Of(notices[q], "refused", asked[q]) /\ ~Has(notices[q], "open")
      BY <2>2, <2>10, <3>1 DEF AskFresh, Begins
    <3>3. ~Of(notices'[q], "refused", asked[q])
      BY <2>8, <2>9, <3>1, <3>2 DEF Of
    <3>4. OneOpen(notices'[q])
      BY <2>8, <2>9, <3>1, <3>2 DEF OneOpen, Has
    <3>. QED BY <2>6, <3>1, <3>3, <3>4 DEF AskFresh
  <2>. QED BY <2>10 DEF FreshInv, AskFresh
<1>11. m.type \in {"start", "opened", "options", "pick", "close", "join", "failed"}
  BY <1>3 DEF Asks, Request
<1>. QED BY <1>7, <1>8, <1>9, <1>10, <1>11

\* The players the rules have in the conversation come to be those whose game takes itself to be in it.
Seated(p) ==
    /\ conv[p] = talk.id => Tallies(requests[p], talk.id, p \in talk.players, joined[p])
    /\ \A m \in Sent(notices[p]) : m.type = "open" /\ m.conv = talk.id =>
          Silent(requests[p], talk.id) /\ (p \in talk.players <=> p # Host /\ (asked[p] = m.npc \/ m.flag))
SeatInv ==
    /\ talk.players \subseteq Members
    /\ \A p \in Players : \A c \in Nat : lastTalk < c => Silent(requests[p], c)
    /\ \A p \in Guests : ~Flag(requests[p])
    /\ talk # NoTalk => \A p \in Members : Seated(p)

\* A player of whom nothing changes.
LEMMA SeatedKept ==
    ASSUME NEW p, Seated(p), talk'.id = talk.id, p \in talk'.players <=> p \in talk.players, requests'[p] = requests[p],
           conv'[p] = conv[p], joined'[p] = joined[p], asked'[p] = asked[p],
           \A m : m.type = "open" /\ m \in Sent(notices'[p]) => m \in Sent(notices[p])
    PROVE  Seated(p)'
<1>1. conv[p] = talk.id => Tallies(requests[p], talk.id, p \in talk'.players, joined[p])
  BY DEF Seated, Tallies
<1>. QED BY <1>1 DEF Seated

\* What is said, sent.
LEMMA SilentSays ==
    ASSUME NEW q \in Seq(Asks), NEW e \in Seq(Asks), NEW c
    PROVE  Silent(q \o e, c) <=> Silent(q, c) /\ Silent(e, c)
<1>1. Sent(q \o e) = Sent(q) \cup Sent(e)
  BY SentJoin
<1>. QED BY <1>1 DEF Silent

\* A game says something of the conversation it is in, or nothing.
LEMMA SeatSays ==
    ASSUME AllTypes, IdsOK, KnowInv, SeatInv, NEW p \in Players, Elsewhere(p), notices'[p] = notices[p], conv'[p] \in {0, conv[p]},
           NEW e \in Seq(Asks), requests'[p] = requests[p] \o e,
           \A c \in Nat : c # conv[p] => Silent(e, c), p = Host \/ ~Flag(e), asked'[p] = asked[p] \/ notices[p] = <<>>,
           conv'[p] = talk.id /\ talk # NoTalk /\ Tallies(requests[p], talk.id, p \in talk.players, joined[p])
             => Tallies(requests'[p], talk.id, p \in talk.players, joined'[p])
    PROVE  SeatInv'
<1>1. /\ Members' = Members /\ talk' = talk /\ lastTalk' = lastTalk
      /\ \A q \in Players : q # p => Alike(q)
  BY DEF Elsewhere, Members
<1>2. /\ \A q \in Players : requests[q] \in Seq(Asks) /\ notices[q] \in Seq(Tells) /\ conv[q] \in Nat
      /\ Guests \subseteq Players /\ Host \in Players
  BY Channels
<1>3. talk.id \in Nat /\ conv[p] <= lastTalk /\ lastTalk \in Nat /\ (talk.id = 0 => talk = NoTalk)
  BY <1>2 DEF IdsOK, Numbered, AllTypes, RulesOK, Talks
<1>4. \A c \in Nat : Silent(requests'[p], c) <=> Silent(requests[p], c) /\ Silent(e, c)
  BY <1>2, SilentSays
<1>5. ASSUME NEW q \in Players, NEW c \in Nat, lastTalk < c PROVE Silent(requests'[q], c)
  <2>1. CASE q = p
    <3>1. c # conv[p]
      BY <1>2, <1>3, <1>5
    <3>2. Silent(e, c) /\ Silent(requests[p], c)
      BY <1>5, <3>1 DEF SeatInv
    <3>. QED BY <1>4, <2>1, <3>2
  <2>2. CASE q # p
    BY <1>1, <1>5, <2>2 DEF SeatInv, Alike
  <2>. QED BY <2>1, <2>2
<1>6. ASSUME NEW q \in Guests PROVE ~Flag(requests'[q])
  <2>1. CASE q = p
    <3>1. ~Flag(e) /\ ~Flag(requests[p])
      BY <1>6, <2>1 DEF Guests, SeatInv
    <3>2. Flag(requests[p] \o e) <=> Flag(requests[p]) \/ Flag(e)
      BY <1>2, HasSteps
    <3>. QED BY <2>1, <3>1, <3>2
  <2>2. CASE q # p
    BY <1>1, <1>2, <1>6, <2>2 DEF SeatInv, Alike
  <2>. QED BY <2>1, <2>2
<1>7. ASSUME talk # NoTalk, NEW q \in Members PROVE Seated(q)'
  <2>1. Seated(q) /\ q \in Players
    BY <1>7 DEF SeatInv, Members
  <2>2. CASE q # p
    BY <1>1, <2>1, <2>2, SeatedKept DEF Alike
  <2>3. CASE q = p
    <3>1. ASSUME NEW m \in Sent(notices'[p]), m.type = "open", m.conv = talk.id
          PROVE  Silent(requests'[p], talk.id) /\ (p \in talk.players <=> p # Host /\ (asked'[p] = m.npc \/ m.flag))
      <4>1. Silent(requests[p], talk.id) /\ (p \in talk.players <=> p # Host /\ (asked[p] = m.npc \/ m.flag))
        BY <2>1, <2>3, <3>1 DEF Seated
      <4>2. conv[p] < m.conv
        BY <3>1 DEF KnowInv, Rising, Sent
      <4>3. asked'[p] = asked[p]
        <5>1. notices[p] # <<>>
          BY <3>1, NothingIn
        <5>. QED BY <5>1
      <4>. QED BY <1>2, <1>3, <1>4, <3>1, <4>1, <4>2, <4>3
    <3>2. ASSUME conv'[p] = talk.id PROVE Tallies(requests'[p], talk.id, p \in talk.players, joined'[p])
      <4>1. conv[p] = talk.id
        BY <1>3, <1>7, <3>2
      <4>. QED BY <1>7, <2>1, <2>3, <3>2, <4>1 DEF Seated
    <3>. QED BY <1>1, <2>3, <3>1, <3>2 DEF Seated
  <2>. QED BY <2>2, <2>3
<1>8. talk'.players \subseteq Members'
  BY <1>1 DEF SeatInv
<1>. QED BY <1>1, <1>5, <1>6, <1>7, <1>8 DEF SeatInv

\* An update: the player that joins or leaves says so.
LEMMA UpdateSays ==
    ASSUME AllTypes, NEW p \in Players, NEW e, e = JoinOrLeave(p), NEW s \in BOOLEAN
    PROVE  /\ e \in Seq(Asks) /\ ~Flag(e) /\ \A c : c # conv[p] => Silent(e, c)
           /\ conv[p] # 0 /\ Tallies(requests[p], conv[p], s, joined[p]) => Tallies(requests[p] \o e, conv[p], s, StaysJoined(p))
<1>1. PICK j \in Asks, k \in Asks :
        /\ Word(j, conv[p]) /\ j.type = "join" /\ Word(k, conv[p]) /\ k.type = "close"
        /\ Joins(p) => JoinOrLeave(p) = <<j>>
        /\ GoesOut(p) => JoinOrLeave(p) = <<k>>
        /\ ~Joins(p) /\ ~GoesOut(p) => JoinOrLeave(p) = <<>>
  BY JoinOrLeaveSays
<1>2. /\ Sent(<<j>>) = {j} /\ Sent(<<k>>) = {k} /\ Sent(<<>>) = {}
      /\ <<j>> \in Seq(Asks) /\ <<k>> \in Seq(Asks) /\ <<>> \in Seq(Asks)
  BY SentFew, Sends12
<1>3. requests[p] \in Seq(Asks) /\ joined[p] \in BOOLEAN /\ requests[p] \o <<>> = requests[p]
  BY Channels DEF AllTypes, ServiceOK
<1>4. e \in Seq(Asks) /\ Sent(e) \subseteq {j, k}
  BY <1>1, <1>2
<1>5. ~Flag(e)
  BY <1>4, JoinOrLeaveHas
<1>6. \A c : c # conv[p] => Silent(e, c)
  BY <1>1, <1>4 DEF Silent, Word
<1>7. ASSUME conv[p] # 0, Tallies(requests[p], conv[p], s, joined[p]) PROVE Tallies(requests[p] \o e, conv[p], s, StaysJoined(p))
  <2>1. CASE Joins(p)
    <3>1. StaysJoined(p) = TRUE
      BY <2>1 DEF StaysJoined, Joins
    <3>2. Tallies(requests[p] \o <<j>>, conv[p], s, TRUE)
      <4>1. requests[p] \in Seq(Asks) /\ j \in Asks /\ Word(j, conv[p]) /\ j.type = "join"
        BY <1>1, <1>3
      <4>. QED BY <4>1, TalliesSaid
    <3>. QED BY <1>1, <2>1, <3>1, <3>2
  <2>2. CASE GoesOut(p)
    <3>1. StaysJoined(p) = FALSE
      BY <2>2 DEF StaysJoined, GoesOut, InIt
    <3>2. Tallies(requests[p] \o <<k>>, conv[p], s, FALSE)
      <4>1. requests[p] \in Seq(Asks) /\ k \in Asks /\ Word(k, conv[p]) /\ k.type # "join"
        BY <1>1, <1>3
      <4>. QED BY <4>1, TalliesSaid
    <3>. QED BY <1>1, <2>2, <3>1, <3>2
  <2>3. CASE ~Joins(p) /\ ~GoesOut(p)
    <3>1. StaysJoined(p) <=> joined[p]
      BY <1>7, <2>3 DEF StaysJoined, Joins, GoesOut, InIt
    <3>2. Tallies(requests[p], conv[p], s, StaysJoined(p))
      BY <1>7, <3>1 DEF Tallies
    <3>. QED BY <1>1, <1>3, <2>3, <3>2
  <2>. QED BY <2>1, <2>2, <2>3
<1>. QED BY <1>4, <1>5, <1>6, <1>7

\* What a game does by itself.
LEMMA SeatLocal ==
    ASSUME AllTypes, HostInv, TalkInv, EndInv, SeatInv, Calm,
           \/ \E p \in Players : \/ GuestUpdate(p) \/ MenuComes(p) \/ MenuCloses(p) \/ Picks(p) \/ OpeningLate(p)
           \/ \E p \in Players, n \in Npcs : GuestTalks(p, n)
           \/ \E n \in Npcs, greet \in BOOLEAN : HostTalks(n, greet)
           \/ EngineEnds \/ EngineLists \/ HostUpdate
    PROVE  SeatInv'
<1>1. /\ Host \in Players /\ IdsOK /\ KnowInv /\ talk \in Talks /\ (talk.id = 0 => talk = NoTalk)
      /\ \A p \in Players : requests[p] \in Seq(Asks) /\ conv[p] \in Nat /\ requests[p] \o <<>> = requests[p]
  BY Channels DEF EndInv, TalkInv, IdsOK, AllTypes, RulesOK
<1>2. <<>> \in Seq(Asks) /\ Sent(<<>>) = {} /\ ~Flag(<<>>) /\ \A c : Silent(<<>>, c)
  BY NothingIn DEF Silent
<1>3. ASSUME NEW p \in Players, Elsewhere(p), Steady(p) PROVE SeatInv'
  <2>1. requests'[p] = requests[p] \o <<>>
    BY <1>1, <1>3 DEF Steady
  <2>2. Tallies(requests[p], talk.id, p \in talk.players, joined[p]) => Tallies(requests'[p], talk.id, p \in talk.players, joined'[p])
    BY <1>3 DEF Steady
  <2>3. notices'[p] = notices[p] /\ conv'[p] \in {0, conv[p]} /\ asked'[p] = asked[p]
    BY <1>3 DEF Steady
  <2>. QED BY <1>1, <1>2, <1>3, <2>1, <2>2, <2>3, SeatSays
<1>4. ASSUME NEW p \in Players, Elsewhere(p), notices'[p] = notices[p], conv'[p] = conv[p], joined'[p] = joined[p],
             asked'[p] = asked[p] \/ notices[p] = <<>>,
             NEW e \in Seq(Asks), requests'[p] = requests[p] \o e, \A m \in Sent(e) : m.type \in {"start", "pick", "options"}
      PROVE  SeatInv'
  <2>1. (\A c : Silent(e, c)) /\ ~Flag(e)
    BY <1>4 DEF Silent, Word, Flag
  <2>2. Tallies(requests[p], talk.id, p \in talk.players, joined[p]) => Tallies(requests[p] \o e, talk.id, p \in talk.players, joined[p])
    <3>1. PICK s \in BOOLEAN : s <=> p \in talk.players
      OBVIOUS
    <3>2. s = (p \in talk.players)
      BY <3>1
    <3>3. joined[p] \in BOOLEAN /\ requests[p] \in Seq(Asks) /\ Silent(e, talk.id)
      BY <1>1, <2>1 DEF AllTypes, ServiceOK
    <3>4. Tallies(requests[p], talk.id, s, joined[p]) => Tallies(requests[p] \o e, talk.id, s, joined[p])
      BY <3>3, TalliesSays
    <3>. QED BY <3>2, <3>4, Zenon
  <2>. QED BY <1>1, <1>4, <2>1, <2>2, SeatSays
<1>5. ASSUME NEW p \in Players, NEW a \in Asks, a.type \in {"start", "pick", "options"}, NEW b \in BOOLEAN, Sends(p, When(b, <<a>>))
      PROVE  \E e \in Seq(Asks) : requests'[p] = requests[p] \o e /\ \A m \in Sent(e) : m.type \in {"start", "pick", "options"}
  <2>1. Sent(<<a>>) = {a} /\ <<a>> \in Seq(Asks)
    BY SentFew, Sends12
  <2>2. PICK e : e = When(b, <<a>>) /\ e \in Seq(Asks) /\ Sent(e) \subseteq {a}
    BY <1>2, <2>1 DEF When
  <2>3. requests'[p] = requests[p] \o e
    BY <1>5, <2>2, SendsType DEF AllTypes
  <2>. QED BY <1>5, <2>2, <2>3
<1>6. ASSUME NEW p \in Players, MenuComes(p) \/ MenuCloses(p) \/ OpeningLate(p) \/ (p = Host /\ EngineEnds) PROVE SeatInv'
  <2>1. Elsewhere(p) /\ Steady(p)
    BY <1>1, <1>6, MenuDoes
  <2>. QED BY <1>3, <2>1
<1>7. ASSUME NEW p \in Players, GuestUpdate(p) PROVE SeatInv'
  <2>1. /\ Elsewhere(p) /\ p # Host /\ notices'[p] = notices[p] /\ asked'[p] = asked[p] /\ conv'[p] = conv[p]
        /\ joined'[p] = StaysJoined(p) /\ Sends(p, JoinOrLeave(p))
    BY <1>7, GuestUpdateDoes
  <2>20. PICK s \in BOOLEAN : s <=> p \in talk.players
    OBVIOUS
  <2>2. s = (p \in talk.players)
    BY <2>20
  <2>3. PICK e : e = JoinOrLeave(p)
    OBVIOUS
  <2>4. /\ e \in Seq(Asks) /\ ~Flag(e) /\ \A c : c # conv[p] => Silent(e, c)
        /\ conv[p] # 0 /\ Tallies(requests[p], conv[p], s, joined[p]) => Tallies(requests[p] \o e, conv[p], s, StaysJoined(p))
    BY <2>3, UpdateSays
  <2>5. requests'[p] = requests[p] \o e
    BY <2>1, <2>3, <2>4, SendsType DEF AllTypes
  <2>6. conv'[p] = talk.id /\ talk # NoTalk /\ Tallies(requests[p], talk.id, p \in talk.players, joined[p])
          => Tallies(requests'[p], talk.id, p \in talk.players, joined'[p])
    BY <1>1, <2>1, <2>2, <2>4, <2>5
  <2>. QED BY <1>1, <2>1, <2>4, <2>5, <2>6, SeatSays
<1>8. ASSUME HostUpdate PROVE SeatInv'
  <2>1. /\ Elsewhere(Host) /\ notices'[Host] = notices[Host] /\ asked'[Host] = asked[Host] /\ requests[Host] = <<>>
        /\ conv'[Host] \in {0, conv[Host]}
        /\ conv'[Host] # 0 => joined'[Host] = StaysJoined(Host) /\ Sends(Host, JoinOrLeave(Host))
    BY <1>1, <1>8, HostUpdateDoes
  <2>2. PICK e : e = requests'[Host] /\ e \in Seq(Asks)
    BY <1>1, <1>8, TalksType DEF AllTypes, RequestsOK
  <2>3. requests'[Host] = requests[Host] \o e
    <3>1. <<>> \o e = e
      BY <2>2
    <3>. QED BY <2>1, <2>2, <3>1
  <2>4. \A c : c # conv[Host] => Silent(e, c)
    <3>1. PICK began \in BOOLEAN, ended \in BOOLEAN :
            (began <=> SpeakerChanged /\ speaker[Host] # None) /\ (ended <=> SpeakerChanged /\ speaker[Host] = None /\ conv[Host] # 0)
      OBVIOUS
    <3>2. PICK j, k, b, c :
            /\ j.type = "join" /\ j.conv = conv[Host] /\ k.type = "close" /\ ~k.flag /\ k.conv = conv[Host]
            /\ b.type = "opened" /\ c.type = "close" /\ c.flag
            /\ \A m : m \in Sent(requests'[Host]) <=> \/ m = j /\ Joins(Host)
                                                      \/ m = k /\ GoesOut(Host)
                                                      \/ m = b /\ began
                                                      \/ m = c /\ ended
      BY <1>8, <3>1, HostUpdateSays
    <3>. QED BY <2>2, <3>2 DEF Silent, Word
  <2>5. conv'[Host] = talk.id /\ talk # NoTalk /\ Tallies(requests[Host], talk.id, Host \in talk.players, joined[Host])
          => Tallies(requests'[Host], talk.id, Host \in talk.players, joined'[Host])
    <3>1. SUFFICES ASSUME conv'[Host] = talk.id, talk # NoTalk, Tallies(requests[Host], talk.id, Host \in talk.players, joined[Host])
                   PROVE  Tallies(requests'[Host], talk.id, Host \in talk.players, joined'[Host])
      OBVIOUS
    <3>2. conv[Host] = talk.id /\ conv[Host] # 0
      BY <1>1, <2>1, <3>1
    <3>30. PICK s \in BOOLEAN : s <=> Host \in talk.players
      OBVIOUS
    <3>3. s = (Host \in talk.players)
      BY <3>30
    <3>4. PICK d : d = JoinOrLeave(Host)
      OBVIOUS
    <3>5. d \in Seq(Asks) /\ Tallies(requests[Host] \o d, conv[Host], s, StaysJoined(Host))
      BY <1>1, <3>1, <3>2, <3>3, <3>4, UpdateSays
    <3>6. requests'[Host] = requests[Host] \o d
      <4>1. conv'[Host] # 0
        BY <3>1, <3>2
      <4>2. Sends(Host, d)
        BY <2>1, <3>4, <4>1
      <4>. QED BY <1>1, <3>5, <4>2, SendsType DEF AllTypes
    <3>7. joined'[Host] = StaysJoined(Host)
      BY <2>1, <3>1, <3>2
    <3>8. Tallies(requests'[Host], talk.id, s, joined'[Host])
      BY <3>2, <3>5, <3>6, <3>7
    <3>. QED BY <3>3, <3>8, Zenon
  <2>. QED BY <1>1, <2>1, <2>2, <2>3, <2>4, <2>5, SeatSays
<1>9. ASSUME NEW p \in Players, Picks(p) PROVE SeatInv'
  <2>1. /\ Elsewhere(p) /\ notices'[p] = notices[p] /\ asked'[p] = asked[p] /\ conv'[p] = conv[p] /\ joined'[p] = joined[p]
        /\ \E a \in Asks : a.type = "pick" /\ Sends(p, <<a>>)
    BY <1>1, <1>9, PicksDoes
  <2>2. PICK a \in Asks : a.type = "pick" /\ Sends(p, <<a>>)
    BY <2>1
  <2>3. Sends(p, When(TRUE, <<a>>))
    <3>1. When(TRUE, <<a>>) = <<a>>
      BY DEF When
    <3>. QED BY <2>2, <3>1
  <2>4. PICK e \in Seq(Asks) : requests'[p] = requests[p] \o e /\ \A m \in Sent(e) : m.type \in {"start", "pick", "options"}
    BY <1>5, <2>2, <2>3
  <2>. QED BY <1>4, <2>1, <2>4
<1>10. ASSUME EngineLists PROVE SeatInv'
  <2>1. /\ Elsewhere(Host) /\ notices'[Host] = notices[Host] /\ asked'[Host] = asked[Host] /\ conv'[Host] = conv[Host]
        /\ joined'[Host] = joined[Host]
        /\ \E a \in Asks : a.type = "options" /\ Sends(Host, When(conv[Host] # 0, <<a>>))
    BY <1>1, <1>10, EngineListsDoes
  <2>2. PICK b \in BOOLEAN : b = (conv[Host] # 0)
    OBVIOUS
  <2>3. PICK a \in Asks : a.type = "options" /\ Sends(Host, When(b, <<a>>))
    BY <2>1, <2>2
  <2>4. PICK e \in Seq(Asks) : requests'[Host] = requests[Host] \o e /\ \A m \in Sent(e) : m.type \in {"start", "pick", "options"}
    BY <1>1, <1>5, <2>3
  <2>. QED BY <1>1, <1>4, <2>1, <2>4
<1>11. ASSUME NEW p \in Players, NEW n \in Npcs, GuestTalks(p, n) PROVE SeatInv'
  <2>1. /\ Elsewhere(p) /\ p \in Members
        /\ \/ Steady(p)
           \/ /\ NothingBegun /\ notices'[p] = notices[p] /\ conv'[p] = conv[p] /\ joined'[p] = joined[p]
              /\ \E a \in Asks : a.type = "start" /\ Sends(p, <<a>>)
    BY <1>1, <1>11, GuestTalksDoes
  <2>2. CASE Steady(p)
    BY <1>3, <2>1, <2>2
  <2>3. CASE /\ NothingBegun /\ notices'[p] = notices[p] /\ conv'[p] = conv[p] /\ joined'[p] = joined[p]
             /\ \E a \in Asks : a.type = "start" /\ Sends(p, <<a>>)
    <3>1. notices[p] = <<>>
      BY <2>1, <2>3 DEF NothingBegun, Settled
    <3>2. PICK a \in Asks : a.type = "start" /\ Sends(p, <<a>>)
      BY <2>3
    <3>3. Sends(p, When(TRUE, <<a>>))
      <4>1. When(TRUE, <<a>>) = <<a>>
        BY DEF When
      <4>. QED BY <3>2, <4>1
    <3>4. PICK e \in Seq(Asks) : requests'[p] = requests[p] \o e /\ \A m \in Sent(e) : m.type \in {"start", "pick", "options"}
      BY <1>5, <3>2, <3>3
    <3>. QED BY <1>4, <2>1, <2>3, <3>1, <3>4
  <2>. QED BY <2>1, <2>2, <2>3
<1>12. ASSUME NEW n \in Npcs, NEW greet \in BOOLEAN, HostTalks(n, greet) PROVE SeatInv'
  <2>1. Elsewhere(Host) /\ Steady(Host)
    BY <1>1, <1>12, HostTalksDoes
  <2>. QED BY <1>1, <1>3, <2>1
<1>. QED BY <1>1, <1>6, <1>7, <1>8, <1>9, <1>10, <1>11, <1>12

\* A game reads a notice: that it is in a conversation, or out of one.
LEMMA SeatReads ==
    ASSUME AllTypes, HostInv, TalkInv, EndInv, FreshInv, SeatInv, NEW p \in Players, GameReads(p)
    PROVE  SeatInv'
<1>1. /\ Host \in Players /\ IdsOK /\ KnowInv /\ AskInv /\ talk \in Talks /\ lastTalk \in Nat /\ (talk.id = 0 => talk = NoTalk)
      /\ \A q \in Players : requests[q] \in Seq(Asks) /\ conv[q] \in Nat /\ requests[q] \o <<>> = requests[q]
      /\ Guests \subseteq Players
  BY Channels DEF EndInv, TalkInv, IdsOK, AllTypes, RulesOK
<1>2. PICK m : m = Head(notices[p])
  OBVIOUS
<1>3. /\ Elsewhere(p) /\ m \in Tells /\ p \in Members
      /\ ReadsAside(p, m) \/ ReadsList(p, m) \/ ReadsPicked(p, m) \/ ReadsClosed(p, m) \/ ReadsOpen(p, m)
  BY <1>1, <1>2, ReadsDoes
<1>4. /\ m \in Sent(notices[p]) /\ Sent(notices'[p]) \subseteq Sent(notices[p])
      /\ m.type = "open" => m.conv \in 1 .. lastTalk /\ Rising(notices'[p], m.conv)
  BY <1>2, NoticeRead
<1>5. Members' = Members /\ talk' = talk /\ lastTalk' = lastTalk /\ \A q \in Players : q # p => Alike(q)
  BY <1>3 DEF Elsewhere, Members
<1>6. PICK e : /\ e \in Seq(Asks) /\ requests'[p] = requests[p] \o e /\ ~Flag(e)
               /\ \A c : (\A n \in Sent(e) : ~Word(n, c)) \/ (ReadsOpen(p, m) /\ c = m.conv)
               /\ (ReadsOpen(p, m) => Silent(e, m.conv) \/ (p # Host /\ (asked[p] = m.npc \/ m.flag) /\ joined'[p] = FALSE /\
                                                          \E k \in Asks : Word(k, m.conv) /\ k.type = "close" /\ e = <<k>>))
  <2>1. ASSUME Silently(p) PROVE /\ <<>> \in Seq(Asks) /\ requests'[p] = requests[p] \o <<>> /\ ~Flag(<<>>)
                                 /\ \A c : Silent(<<>>, c) /\ \A n \in Sent(<<>>) : ~Word(n, c)
    BY <1>1, <2>1, NothingIn DEF Silently, Silent
  <2>2. ASSUME NEW t, Sends1(p, t), t \in {"failed", "options"}
        PROVE  \E d \in Seq(Asks) : /\ requests'[p] = requests[p] \o d /\ ~Flag(d)
                                    /\ \A c : Silent(d, c) /\ \A n \in Sent(d) : ~Word(n, c)
    BY <2>2 DEF Sends1, Flag, Silent, Word
  <2>3. CASE ReadsAside(p, m) \/ ReadsList(p, m) \/ ReadsPicked(p, m) \/ ReadsClosed(p, m)
    <3>1. ~ReadsOpen(p, m)
      BY <2>3 DEF ReadsAside, ReadsList, ReadsPicked, ReadsClosed, ReadsOpen
    <3>2. Silently(p) \/ Sends1(p, "failed") \/ Sends1(p, "options")
      BY <2>3 DEF ReadsAside, ReadsList, ReadsPicked, ReadsClosed
    <3>. QED BY <2>1, <2>2, <3>1, <3>2
  <2>4. CASE ReadsOpen(p, m) /\ (Silently(p) \/ Sends1(p, "options"))
    BY <2>1, <2>2, <2>4
  <2>5. ASSUME ReadsOpen(p, m), p # Host, asked[p] = m.npc \/ m.flag, joined'[p] = FALSE,
               NEW k \in Asks, Word(k, m.conv), k.type = "close", Sends(p, <<k>>)
        PROVE  /\ <<k>> \in Seq(Asks) /\ requests'[p] = requests[p] \o <<k>> /\ ~Flag(<<k>>)
               /\ \A c : (\A n \in Sent(<<k>>) : ~Word(n, c)) \/ c = m.conv
    <3>1. PICK d : d = <<k>> /\ d \in Seq(Asks) /\ Sent(d) = {k}
      <4>1. Sent(<<k>>) = {k} /\ <<k>> \in Seq(Asks)
        BY SentFew, Sends12
      <4>. QED BY <4>1
    <3>2. requests'[p] = requests[p] \o d
      BY <2>5, <3>1, SendsType DEF AllTypes
    <3>3. ~Flag(d)
      BY <2>5, <3>1 DEF Flag, Word
    <3>4. \A c : (\A n \in Sent(d) : ~Word(n, c)) \/ c = m.conv
      BY <2>5, <3>1 DEF Word
    <3>. QED BY <3>1, <3>2, <3>3, <3>4
  <2>6. CASE ReadsOpen(p, m) /\ ~(Silently(p) \/ Sends1(p, "options"))
    <3>1. PICK k \in Asks : /\ p # Host /\ (asked[p] = m.npc \/ m.flag) /\ joined'[p] = FALSE
                            /\ Word(k, m.conv) /\ k.type = "close" /\ Sends(p, <<k>>)
      BY <2>6 DEF ReadsOpen
    <3>. QED BY <2>5, <2>6, <3>1
  <2>. QED BY <1>3, <2>3, <2>4, <2>6
<1>7. \A c : Silent(requests'[p], c) <=> Silent(requests[p], c) /\ Silent(e, c)
  BY <1>1, <1>6, SilentSays
<1>8. ASSUME NEW q \in Players, NEW c \in Nat, lastTalk < c PROVE Silent(requests'[q], c)
  <2>1. CASE q = p
    <3>1. ReadsOpen(p, m) => c # m.conv
      BY <1>1, <1>4, <1>8 DEF ReadsOpen
    <3>2. Silent(e, c)
      BY <1>6, <3>1 DEF Silent
    <3>. QED BY <1>7, <1>8, <2>1, <3>2 DEF SeatInv
  <2>2. CASE q # p
    BY <1>5, <1>8, <2>2 DEF SeatInv, Alike
  <2>. QED BY <2>1, <2>2
<1>9. ASSUME NEW q \in Guests PROVE ~Flag(requests'[q])
  <2>1. CASE q = p
    <3>1. Flag(requests[p] \o e) <=> Flag(requests[p]) \/ Flag(e)
      BY <1>1, <1>6, HasSteps
    <3>. QED BY <1>6, <1>9, <2>1, <3>1 DEF SeatInv
  <2>2. CASE q # p
    BY <1>1, <1>5, <1>9, <2>2 DEF SeatInv, Alike
  <2>. QED BY <2>1, <2>2
<1>10. ASSUME talk # NoTalk PROVE Seated(p)'
  <2>1. Seated(p) /\ AskFresh(p) /\ talk.id # 0 /\ talk.id \in Nat
    BY <1>1, <1>3, <1>10 DEF SeatInv, FreshInv, Talks
  <2>2. ASSUME NEW o \in Sent(notices'[p]), o.type = "open", o.conv = talk.id
        PROVE  Silent(requests'[p], talk.id) /\ (p \in talk.players <=> p # Host /\ (asked'[p] = o.npc \/ o.flag))
    <3>1. Silent(requests[p], talk.id) /\ (p \in talk.players <=> p # Host /\ (asked[p] = o.npc \/ o.flag)) /\ o \in Sent(notices[p])
      BY <1>4, <2>1, <2>2 DEF Seated
    <3>2. ReadsOpen(p, m) => m.conv # talk.id
      <4>1. ASSUME m.type = "open" PROVE m.conv < o.conv
        BY <1>4, <2>2, <4>1 DEF Rising, Sent
      <4>. QED BY <2>1, <2>2, <4>1, <1>4 DEF ReadsOpen
    <3>3. Silent(e, talk.id)
      BY <1>6, <3>2 DEF Silent
    <3>4. asked'[p] = asked[p] \/ asked[p] = None
      <4>1. CASE asked[p] # None /\ ReadsOpen(p, m)
        BY <1>4, <2>1, <2>2, <3>1, <3>2, <4>1 DEF AskFresh, OneOpen, ReadsOpen
      <4>2. CASE asked[p] # None /\ m.type = "refused" /\ asked[p] = m.npc
        BY <1>4, <2>1, <2>2, <3>1, <4>2 DEF AskFresh, Has, Of
      <4>. QED BY <1>3, <4>1, <4>2 DEF ReadsAside, ReadsList, ReadsPicked, ReadsClosed
    <3>5. asked[p] = None => asked'[p] = None
      BY <1>3 DEF ReadsAside, ReadsList, ReadsPicked, ReadsClosed, ReadsOpen
    <3>6. asked'[p] = asked[p]
      BY <3>4, <3>5
    <3>. QED BY <1>7, <3>1, <3>3, <3>6
  <2>3. ASSUME conv'[p] = talk.id PROVE Tallies(requests'[p], talk.id, p \in talk.players, joined'[p])
    <3>1. PICK s \in BOOLEAN : s <=> p \in talk.players
      OBVIOUS
    <3>2. s = (p \in talk.players)
      BY <3>1
    <3>3. CASE ReadsOpen(p, m)
      <4>1. m.conv = talk.id /\ m.type = "open"
        BY <2>3, <3>3 DEF ReadsOpen
      <4>2. Silent(requests[p], talk.id) /\ (s <=> p # Host /\ (asked[p] = m.npc \/ m.flag))
        BY <1>4, <2>1, <3>1, <4>1 DEF Seated
      <4>3. CASE Silent(e, m.conv)
        <5>1. Silent(requests'[p], talk.id)
          BY <1>7, <4>1, <4>2, <4>3
        <5>2. joined'[p] <=> s
          <6>1. \/ ~s /\ joined'[p] = FALSE
                \/ s /\ joined'[p] = TRUE
                \/ s /\ \E k \in Asks : Word(k, m.conv) /\ Sends(p, <<k>>)
            BY <3>3, <4>2 DEF ReadsOpen
          <6>2. ASSUME NEW k \in Asks, Word(k, m.conv), Sends(p, <<k>>) PROVE FALSE
            <7>1. PICK d : d = <<k>> /\ d \in Seq(Asks) /\ Sent(d) = {k}
              <8>1. Sent(<<k>>) = {k} /\ <<k>> \in Seq(Asks)
                BY SentFew, Sends12
              <8>. QED BY <8>1
            <7>2. requests'[p] = requests[p] \o d
              BY <6>2, <7>1, SendsType DEF AllTypes
            <7>3. Sent(requests'[p]) = Sent(requests[p]) \cup {k}
              <8>1. requests[p] \in Seq(Asks) /\ d \in Seq(Asks)
                BY <1>1, <7>1
              <8>2. Sent(requests[p] \o d) = Sent(requests[p]) \cup Sent(d)
                BY <8>1, SentJoin
              <8>. QED BY <7>1, <7>2, <8>2
            <7>. QED BY <4>1, <5>1, <6>2, <7>3 DEF Silent
          <6>. QED BY <6>1, <6>2
        <5>3. \A i \in DOMAIN requests'[p] : ~Word(requests'[p][i], talk.id)
          BY <5>1 DEF Silent, Sent
        <5>. QED BY <3>1, <5>2, <5>3 DEF Tallies
      <4>4. CASE ~Silent(e, m.conv)
        <5>1. PICK k \in Asks : Word(k, m.conv) /\ k.type = "close" /\ e = <<k>> /\ joined'[p] = FALSE
          BY <1>6, <3>3, <4>4
        <5>3. Tallies(requests[p] \o <<k>>, talk.id, s, FALSE)
          <6>1. requests[p] \in Seq(Asks) /\ k \in Asks /\ Word(k, talk.id) /\ s \in BOOLEAN /\ k.type # "join"
            BY <1>1, <4>1, <5>1
          <6>. QED BY <6>1, TalliesSaid
        <5>4. joined'[p] = FALSE
          BY <5>1
        <5>5. requests'[p] = requests[p] \o <<k>>
          BY <1>6, <5>1
        <5>. QED BY <3>2, <5>3, <5>4, <5>5, Zenon
      <4>. QED BY <4>3, <4>4
    <3>4. CASE ~ReadsOpen(p, m)
      <4>1. conv[p] = talk.id /\ joined'[p] = joined[p]
        BY <1>3, <2>1, <2>3, <3>4 DEF ReadsAside, ReadsList, ReadsPicked, ReadsClosed
      <4>2. Silent(e, talk.id)
        BY <1>6, <3>4 DEF Silent
      <4>3. Tallies(requests[p], talk.id, s, joined[p])
        BY <2>1, <3>2, <4>1 DEF Seated
      <4>4. joined[p] \in BOOLEAN /\ requests[p] \in Seq(Asks)
        BY <1>1 DEF AllTypes, ServiceOK
      <4>5. Tallies(requests[p] \o e, talk.id, s, joined[p])
        BY <1>6, <4>2, <4>3, <4>4, TalliesSays
      <4>. QED BY <1>6, <3>2, <4>1, <4>5, Zenon
    <3>. QED BY <3>3, <3>4
  <2>. QED BY <1>5, <2>2, <2>3 DEF Seated
<1>11. ASSUME talk # NoTalk, NEW q \in Members PROVE Seated(q)'
  <2>1. CASE q # p
    <3>1. Seated(q) /\ Alike(q)
      BY <1>5, <1>11, <2>1 DEF SeatInv, Members
    <3>. QED BY <1>5, <3>1, SeatedKept DEF Alike
  <2>. QED BY <1>10, <1>11, <2>1
<1>. QED BY <1>5, <1>8, <1>9, <1>11 DEF SeatInv

\* What is told of an ask opens nothing.
LEMMA AsideNews ==
    ASSUME AllTypes, Aside
    PROVE  \A q \in Players : \A n : n.type \notin {"refused", "start"} => (n \in Sent(notices'[q]) <=> n \in Sent(notices[q]))
<1>1. ASSUME NEW q \in Players, NEW n, n.type \notin {"refused", "start"} PROVE n \in Sent(notices'[q]) <=> n \in Sent(notices[q])
  <2>1. PICK e \in Seq(Tells) : notices'[q] = notices[q] \o e /\ \A o \in Sent(e) : o.type \in {"refused", "start"}
    BY DEF Aside
  <2>2. notices[q] \in Seq(Tells)
    BY Channels
  <2>3. Sent(notices[q] \o e) = Sent(notices[q]) \cup Sent(e)
    BY <2>1, <2>2, SentJoin
  <2>. QED BY <1>1, <2>1, <2>3
<1>. QED BY <1>1

\* The rules read what a player says: it is in the conversation or out of it.
LEMMA SeatRules ==
    ASSUME AllTypes, HostInv, TalkInv, EndInv, SeatInv, NEW p \in Players, HostReads(p), NEW m, m = Head(requests[p]), m.type # "opened"
    PROVE  SeatInv'
<1>. USE DEF Ruled
<1>1. /\ Host \in Players /\ IdsOK /\ talk \in Talks /\ (talk.id = 0 => talk = NoTalk)
      /\ \A q \in Players : requests[q] \in Seq(Asks)
      /\ Guests \subseteq Players
  BY Channels DEF EndInv, IdsOK, AllTypes, RulesOK
<1>2. /\ m \in Asks /\ m \in Sent(requests[p]) /\ p \in Members /\ Handles(p, m)
      /\ UNCHANGED <<conn, asked, conv, joined>> /\ Members' = Members
      /\ \A q \in Players : q # p => requests'[q] = requests[q]
      /\ Sent(requests'[p]) \subseteq Sent(requests[p])
  BY RequestRead
<1>3. ~Flag(requests[p]) \/ p = Host
  BY DEF SeatInv, Guests
<1>4. /\ requests[p] # <<>> /\ requests'[p] = Tail(requests[p])
      /\ m.type = "start" => Aside
      /\ m.type = "failed" => Aside
      /\ m.type \in {"options", "pick", "close", "join"} => lastTalk' = lastTalk
      /\ Ruled(p, m)
  BY <1>1, <1>3, RulesDo
<1>5. m.type \in {"start", "failed", "options", "pick", "close", "join"}
  BY <1>2 DEF Asks, Request
<1>6. lastTalk' = lastTalk
  BY <1>4, <1>5 DEF Aside
<1>7. \A q \in Players : \A n : n.type = "open" /\ n \in Sent(notices'[q]) => n \in Sent(notices[q])
  <2>1. CASE m.type \in {"start", "failed"}
    BY <1>4, <2>1, AsideNews
  <2>2. CASE m.type \in {"options", "pick", "close", "join"}
    <3>1. Quiet(Speech) \/ \E W : Ends(W)
      BY <1>1, <1>2, <2>2, HandlerDoes DEF AllTypes
    <3>. QED BY <1>1, <3>1, NewsKept
  <2>. QED BY <1>5, <2>1, <2>2
<1>8. ASSUME talk' # NoTalk
      PROVE  /\ talk # NoTalk /\ talk'.id = talk.id
             /\ \A q \in Players : q # p => (q \in talk'.players <=> q \in talk.players)
             /\ Word(m, talk.id) => (p \in talk'.players <=> m.type = "join")
             /\ ~Word(m, talk.id) => (p \in talk'.players <=> p \in talk.players)
  <2>1. CASE m.type \in {"start", "failed"}
    BY <1>4, <1>8, <2>1 DEF Aside, Word
  <2>2. CASE m.type \in {"options", "pick", "close", "join"}
    BY <1>4, <1>8, <2>2 DEF NothingTold, Ignored, GivesBack, SaysPick, Merges, Word
  <2>. QED BY <1>5, <2>1, <2>2
<1>9. talk'.players \subseteq Members'
  <2>1. CASE talk' = NoTalk
    BY <2>1 DEF NoTalk
  <2>2. CASE talk' # NoTalk
    <3>1. talk'.players \subseteq Players
      <4>1. AllTypes'
        BY HostReadsType
      <4>. QED BY <4>1 DEF AllTypes, RulesOK, Talks
    <3>. QED BY <1>2, <1>8, <2>2, <3>1 DEF SeatInv
  <2>. QED BY <2>1, <2>2
<1>10. ASSUME NEW q \in Players, NEW c \in Nat, lastTalk' < c PROVE Silent(requests'[q], c)
  BY <1>2, <1>6, <1>10 DEF SeatInv, Silent
<1>11. ASSUME NEW q \in Guests PROVE ~Flag(requests'[q])
  BY <1>1, <1>2, <1>11 DEF SeatInv, Flag
<1>12. ASSUME talk' # NoTalk, NEW q \in Members' PROVE Seated(q)'
  <2>1. Seated(q) /\ q \in Players
    BY <1>2, <1>8, <1>12 DEF SeatInv, Members
  <2>2. CASE q # p
    BY <1>2, <1>7, <1>8, <1>12, <2>1, <2>2, SeatedKept
  <2>3. CASE q = p
    <3>1. PICK s \in BOOLEAN : s <=> p \in talk.players
      OBVIOUS
    <3>2. s = (p \in talk.players)
      BY <3>1
    <3>3. joined[p] \in BOOLEAN /\ requests[p] \in Seq(Asks) /\ requests[p] # <<>>
      BY <1>1, <1>4 DEF AllTypes, ServiceOK
    <3>4. /\ Tallies(requests[p], talk.id, s, joined[p]) =>
               /\ ~Word(m, talk.id) => Tallies(Tail(requests[p]), talk.id, s, joined[p])
               /\ Word(m, talk.id) /\ m.type = "join" => Tallies(Tail(requests[p]), talk.id, TRUE, joined[p])
               /\ Word(m, talk.id) /\ m.type # "join" => Tallies(Tail(requests[p]), talk.id, FALSE, joined[p])
          /\ Silent(requests[p], talk.id) => Silent(Tail(requests[p]), talk.id) /\ ~Word(m, talk.id)
      BY <3>3, TalliesRead, SilentRead
    <3>5. ASSUME conv'[p] = talk'.id PROVE Tallies(requests'[p], talk'.id, p \in talk'.players, joined'[p])
      <4>1. Tallies(requests[p], talk.id, s, joined[p])
        BY <1>2, <1>8, <1>12, <2>1, <2>3, <3>2, <3>5 DEF Seated
      <4>2. Tallies(requests'[p], talk.id, p \in talk'.players, joined[p])
        <5>1. CASE Word(m, talk.id)
          <6>1. m.type = "join" => Tallies(requests'[p], talk.id, TRUE, joined[p])
            BY <1>4, <3>4, <4>1, <5>1
          <6>2. m.type # "join" => Tallies(requests'[p], talk.id, FALSE, joined[p])
            BY <1>4, <3>4, <4>1, <5>1
          <6>. QED BY <1>8, <1>12, <5>1, <6>1, <6>2 DEF Tallies
        <5>2. CASE ~Word(m, talk.id)
          <6>1. Tallies(requests'[p], talk.id, s, joined[p])
            BY <1>4, <3>4, <4>1, <5>2
          <6>. QED BY <1>8, <1>12, <3>1, <5>2, <6>1 DEF Tallies
        <5>. QED BY <5>1, <5>2
      <4>. QED BY <1>2, <1>8, <1>12, <4>2
    <3>6. ASSUME NEW o \in Sent(notices'[p]), o.type = "open", o.conv = talk'.id
          PROVE  Silent(requests'[p], talk'.id) /\ (p \in talk'.players <=> p # Host /\ (asked'[p] = o.npc \/ o.flag))
      <4>1. Silent(requests[p], talk.id) /\ (p \in talk.players <=> p # Host /\ (asked[p] = o.npc \/ o.flag))
        BY <1>7, <1>8, <1>12, <2>1, <2>3, <3>6 DEF Seated
      <4>. QED BY <1>2, <1>4, <1>8, <1>12, <3>4, <4>1
    <3>. QED BY <2>3, <3>5, <3>6 DEF Seated
  <2>. QED BY <2>2, <2>3
<1>. QED BY <1>9, <1>10, <1>11, <1>12 DEF SeatInv

\* A conversation opens: everybody is told, behind the end of the last.
ToldOpen(q, m) == \E e \in Seq(Tells), o \in Tells :
    /\ notices'[q] = notices[q] \o e \o <<o>> /\ \A n \in Sent(e) : n.type = "closed"
    /\ o.type = "open" /\ o.conv = lastTalk + 1 /\ o.npc = m.npc /\ o.flag = m.flag

\* The rules open one.
LEMMA OpensDo ==
    ASSUME AllTypes, HostInv, TalkInv, EndInv, NEW p \in Players, HostReads(p), NEW m, m = Head(requests[p]), m.type = "opened"
    PROVE  /\ p = Host /\ Has(requests[Host], "opened") /\ m.npc \in Npcs /\ m.flag \in BOOLEAN /\ lastTalk \in Nat
           /\ lastTalk' = lastTalk + 1 /\ talk' # NoTalk /\ talk'.id = lastTalk + 1 /\ talk'.step = 1 /\ talk'.listed = FALSE
           /\ \A q : q \in talk'.players <=> IF m.flag THEN q \in Members \ {Host} ELSE q = hostAsked.player /\ hostAsked.npc = m.npc
           /\ \A q \in Members : ToldOpen(q, m)
           /\ \A q \in Players \ Members : notices'[q] = notices[q]
<1>1. m \in Asks /\ m \in Sent(requests[p]) /\ p \in Members /\ Handles(p, m)
  BY RequestRead
<1>2. Host \in Players /\ Host \notin Guests /\ Guests \subseteq Players /\ (p = Host \/ p \in Guests)
  BY Channels
<1>3. p = Host /\ Has(requests[Host], "opened")
  BY <1>1, <1>2 DEF HostInv, Has
<1>4. m.npc \in Npcs /\ m.flag \in BOOLEAN
  <2>1. m.npc = heard /\ heard # None
    BY <1>1, <1>3 DEF TalkInv, RunInv, HostInv, OpensSoon
  <2>. QED BY <1>1, <2>1 DEF Asks, Request
<1>5. OnOpened(m.npc, m.flag)
  BY <1>1 DEF Handles
<1>6. Opens(m.npc, m.flag)
  <2>1. talk.id = 0 => talk = NoTalk
    BY DEF EndInv, IdsOK
  <2>2. ~Quiet(Chats) /\ ~Ends(Players) /\ ~Ends(Players \ {Host})
    <3>1. lastTalk' = lastTalk + 1 /\ lastTalk \in Nat
      BY <1>5 DEF OnOpened, AllTypes, RulesOK
    <3>. QED BY <3>1 DEF Quiet, Ends
  <2>. QED BY <1>1, <2>1, <2>2, HandlerDoes DEF AllTypes
<1>7. /\ lastTalk' = lastTalk + 1 /\ talk'.id = lastTalk + 1 /\ lastTalk \in Nat /\ talk'.step = 1 /\ talk'.listed = FALSE
  BY <1>5 DEF OnOpened, NoTalk, AllTypes, RulesOK
<1>11. \A q : q \in talk'.players <=> IF m.flag THEN q \in Members \ {Host} ELSE q = hostAsked.player /\ hostAsked.npc = m.npc
  BY <1>5 DEF OnOpened, NoTalk
<1>8. talk' # NoTalk
  BY <1>7 DEF NoTalk
<1>9. PICK o : o = OpenNow(m.npc, m.flag) /\ o \in Tells /\ o.type = "open" /\ o.conv = lastTalk + 1 /\ o.npc = m.npc /\ o.flag = m.flag
  BY <1>4, OpenIs DEF AllTypes
<1>10. ASSUME NEW q \in Members
       PROVE  \E e \in Seq(Tells) : notices'[q] = notices[q] \o e \o <<o>> /\ \A n \in Sent(e) : n.type = "closed"
  <2>1. PICK e \in Seq(Tells) : notices'[q] = notices[q] \o e \o <<OpenNow(m.npc, m.flag)>>
                                /\ \A n \in Sent(e) : n = ClosedNow(talk) /\ q # Host /\ talk # NoTalk
    BY <1>6 DEF Opens
  <2>2. \A n \in Sent(e) : n.type = "closed"
    BY <2>1 DEF ClosedNow, Msg
  <2>. QED BY <1>9, <2>1, <2>2
<1>12. \A q \in Members : ToldOpen(q, m)
  BY <1>9, <1>10 DEF ToldOpen
<1>. QED BY <1>3, <1>4, <1>6, <1>7, <1>8, <1>11, <1>12 DEF Opens

\* The conversation that opens: who asked for its NPC, or who was greeted, is in it, and nobody has said otherwise.
LEMMA SeatOpens ==
    ASSUME AllTypes, HostInv, TalkInv, EndInv, FreshInv, SeatInv, NEW p \in Players, HostReads(p), NEW m, m = Head(requests[p]), m.type = "opened"
    PROVE  SeatInv'
<1>1. /\ p = Host /\ Has(requests[Host], "opened") /\ m.npc \in Npcs /\ m.flag \in BOOLEAN /\ lastTalk \in Nat
      /\ lastTalk' = lastTalk + 1 /\ talk' # NoTalk /\ talk'.id = lastTalk + 1 /\ talk'.step = 1 /\ talk'.listed = FALSE
      /\ \A q : q \in talk'.players <=> IF m.flag THEN q \in Members \ {Host} ELSE q = hostAsked.player /\ hostAsked.npc = m.npc
      /\ \A q \in Members : ToldOpen(q, m)
      /\ \A q \in Players \ Members : notices'[q] = notices[q]
  BY OpensDo
<1>2. /\ UNCHANGED <<conn, asked, conv, joined>> /\ Members' = Members
      /\ \A q \in Players : Sent(requests'[q]) \subseteq Sent(requests[q])
  BY RequestRead
<1>3. /\ Host \in Players /\ Guests \subseteq Players /\ AskInv /\ StartInv /\ None \notin Npcs
      /\ \A q \in Players : q \in Guests <=> q # Host
      /\ \A q \in Players : Numbered(notices[q], conv[q], lastTalk) /\ notices[q] \in Seq(Tells)
  BY Channels, PlayersAssumption DEF TalkInv, EndInv, IdsOK, Guests
<1>4. ASSUME NEW q, ~m.flag, q \in talk'.players PROVE q \in Members /\ q # Host /\ asked[q] = m.npc
  <2>1. q = hostAsked.player /\ hostAsked.npc = m.npc
    BY <1>1, <1>4
  <2>2. IsAsked
    BY <1>1, <1>3, <2>1 DEF IsAsked, NotAsked
  <2>3. q \in Guests /\ asked[q] = m.npc
    BY <1>3, <2>1, <2>2 DEF StartInv
  <2>. QED BY <1>1, <1>3, <2>3 DEF AskInv, Members
<1>5. ASSUME NEW q \in Members, asked[q] = m.npc, ~m.flag PROVE q # Host /\ q \in talk'.players
  <2>1. asked[q] # None /\ q \in Players /\ q # Host
    BY <1>1, <1>3, <1>5 DEF AskInv, Members
  <2>2. AskOf(q) /\ ~Of(notices[q], "refused", asked[q]) /\ ~Has(notices[q], "open")
    BY <1>1, <1>3, <1>5, <2>1 DEF AskInv, FreshInv, AskFresh, Begins
  <2>3. ~Of(requests[q], "start", asked[q])
    BY <1>1, <1>3, <2>1 DEF Of, StartInv, Clear, OpensSoon
  <2>4. hostAsked = [player |-> q, npc |-> asked[q]]
    BY <2>2, <2>3 DEF AskOf
  <2>. QED BY <1>1, <1>5, <2>1, <2>4
<1>6. talk'.players \subseteq Members'
  BY <1>1, <1>2, <1>4
<1>7. ASSUME NEW q \in Players, NEW c \in Nat, lastTalk' < c PROVE Silent(requests'[q], c)
  <2>1. lastTalk < c
    BY <1>1, <1>7
  <2>. QED BY <1>2, <1>7, <2>1 DEF SeatInv, Silent
<1>8. ASSUME NEW q \in Guests PROVE ~Flag(requests'[q])
  BY <1>2, <1>3, <1>8 DEF SeatInv, Flag
<1>9. ASSUME NEW q \in Members' PROVE Seated(q)'
  <2>1. q \in Members /\ q \in Players
    BY <1>2 DEF Members
  <2>2. conv'[q] # talk'.id
    BY <1>1, <1>2, <1>3, <2>1 DEF Numbered
  <2>3. ASSUME NEW n \in Sent(notices'[q]), n.type = "open", n.conv = talk'.id
        PROVE  Silent(requests'[q], talk'.id) /\ (q \in talk'.players <=> q # Host /\ (asked'[q] = n.npc \/ n.flag))
    <3>1. Silent(requests[q], lastTalk + 1)
      BY <1>1, <2>1 DEF SeatInv
    <3>2. Silent(requests'[q], talk'.id)
      BY <1>1, <1>2, <2>1, <3>1 DEF Silent
    <3>3. PICK e \in Seq(Tells), o \in Tells :
            /\ notices'[q] = notices[q] \o e \o <<o>> /\ \A k \in Sent(e) : k.type = "closed"
            /\ o.type = "open" /\ o.conv = lastTalk + 1 /\ o.npc = m.npc /\ o.flag = m.flag
      BY <1>1, <2>1 DEF ToldOpen
    <3>4. PICK d : d = <<o>> /\ d \in Seq(Tells) /\ Sent(d) = {o}
      <4>1. Sent(<<o>>) = {o} /\ <<o>> \in Seq(Tells)
        BY SentFew, Sends12
      <4>. QED BY <4>1
    <3>5. PICK v : v = notices[q] \o e /\ v \in Seq(Tells) /\ Sent(v) = Sent(notices[q]) \cup Sent(e)
      <4>1. PICK b : b = notices[q] /\ b \in Seq(Tells) /\ e \in Seq(Tells)
        BY <1>3, <2>1
      <4>2. b \o e \in Seq(Tells) /\ Sent(b \o e) = Sent(b) \cup Sent(e)
        BY <4>1, SentJoin
      <4>. QED BY <4>1, <4>2
    <3>6. Sent(v \o d) = Sent(v) \cup Sent(d)
      <4>1. v \in Seq(Tells) /\ d \in Seq(Tells)
        BY <3>4, <3>5
      <4>. QED BY <4>1, SentJoin
    <3>7. n = o
      <4>1. n \notin Sent(e)
        BY <2>3, <3>3
      <4>2. n \notin Sent(notices[q])
        BY <1>1, <1>3, <2>1, <2>3 DEF Numbered
      <4>. QED BY <2>3, <3>3, <3>4, <3>5, <3>6, <4>1, <4>2
    <3>8. q \in talk'.players <=> q # Host /\ (asked[q] = m.npc \/ m.flag)
      <4>1. CASE m.flag
        BY <1>1, <2>1, <4>1
      <4>2. CASE ~m.flag
        BY <1>4, <1>5, <2>1, <4>2
      <4>. QED BY <4>1, <4>2
    <3>. QED BY <1>2, <3>2, <3>3, <3>7, <3>8
  <2>. QED BY <2>2, <2>3 DEF Seated
<1>. QED BY <1>6, <1>7, <1>8, <1>9 DEF SeatInv

\* A player leaves the session, and the conversation with it.
LEMMA SeatLeave ==
    ASSUME AllTypes, HostInv, TalkInv, EndInv, SeatInv, NEW p \in Players, Leave(p)
    PROVE  SeatInv'
<1>1. /\ Host \in Players /\ IdsOK /\ p \in Guests /\ Guests \subseteq Players /\ talk \in Talks /\ (talk.id = 0 => talk = NoTalk)
      /\ p # Host
  BY Channels, BoundsAssumption DEF EndInv, Leave, Guests, AllTypes, RulesOK, IdsOK
<1>2. /\ conn' = [conn EXCEPT ![p] = "closed"] /\ requests' = [requests EXCEPT ![p] = <<>>] /\ asked' = [asked EXCEPT ![p] = None]
      /\ conv' = [conv EXCEPT ![p] = 0] /\ joined' = [joined EXCEPT ![p] = FALSE] /\ LeaveTalk(p) /\ lastTalk' = lastTalk
  BY DEF Leave
<1>3. /\ \A q \in Players : q # p => requests'[q] = requests[q] /\ asked'[q] = asked[q] /\ conv'[q] = conv[q] /\ joined'[q] = joined[q]
      /\ requests'[p] = <<>>
  BY <1>2 DEF AllTypes, RequestsOK, ScreenOK, ServiceOK
<1>4. Members' = Members \ {p}
  BY <1>2 DEF Members, AllTypes, EngineOK
<1>5. \A q \in Players : \A n : n.type = "open" /\ n \in Sent(notices'[q]) => n \in Sent(notices[q])
  <2>1. Quiet(Speech) \/ Ends(Players)
    BY <1>1, <1>2, LeaveTalkDoes DEF AllTypes
  <2>. QED BY <1>1, <2>1, NewsKept
<1>6. ASSUME talk' # NoTalk
      PROVE  talk # NoTalk /\ talk'.id = talk.id /\ p \notin talk'.players /\ \A q \in Players : q # p => (q \in talk'.players <=> q \in talk.players)
  <2>1. talk # NoTalk
    BY <1>1, <1>2, <1>6 DEF LeaveTalk, NoTalk
  <2>2. Merges(p, FALSE) \/ (p \notin talk.players /\ NothingTold)
    BY <1>2, <1>6, <2>1, LeavesTalk
  <2>. QED BY <2>1, <2>2 DEF Merges, NothingTold
<1>7. talk'.players \subseteq Members'
  <2>1. CASE talk' = NoTalk
    BY <2>1 DEF NoTalk
  <2>2. CASE talk' # NoTalk
    <3>1. talk'.players \subseteq talk.players \cup {p}
      BY <1>1, <1>2 DEF LeaveTalk, Talks, NoTalk
    <3>. QED BY <1>4, <1>6, <2>2, <3>1 DEF SeatInv, Members
  <2>. QED BY <2>1, <2>2
<1>8. \A q \in Players : requests'[q] = requests[q] \/ (Sent(requests'[q]) = {} /\ q = p)
  BY <1>3, SentFew
<1>9. ASSUME NEW q \in Players, NEW c \in Nat, lastTalk' < c PROVE Silent(requests'[q], c)
  BY <1>2, <1>8, <1>9 DEF SeatInv, Silent
<1>10. ASSUME NEW q \in Guests PROVE ~Flag(requests'[q])
  BY <1>1, <1>8, <1>10 DEF SeatInv, Flag
<1>11. ASSUME talk' # NoTalk, NEW q \in Members' PROVE Seated(q)'
  <2>1. Seated(q) /\ q \in Players /\ q # p
    BY <1>4, <1>6, <1>11 DEF SeatInv, Members
  <2>. QED BY <1>3, <1>5, <1>6, <1>11, <2>1, SeatedKept
<1>. QED BY <1>7, <1>9, <1>10, <1>11 DEF SeatInv

\* Every step.
LEMMA SeatStep ==
    ASSUME AllTypes, AllTypes', HostInv, TalkInv, EndInv, FreshInv, SeatInv, Calm, [Next]_vars
    PROVE  FreshInv' /\ SeatInv'
<1>1. CASE \E p \in Players : HostReads(p)
  <2>1. PICK p \in Players : HostReads(p)
    BY <1>1
  <2>2. PICK m : m = Head(requests[p])
    OBVIOUS
  <2>3. SeatInv'
    BY <2>1, <2>2, SeatOpens, SeatRules
  <2>. QED BY <2>1, <2>3, FreshRules
<1>2. CASE \E p \in Players : GameReads(p)
  BY <1>2, FreshReads, SeatReads
<1>3. CASE \E p \in Players : Leave(p)
  BY <1>3, FreshLeave, SeatLeave
<1>4. CASE \E p \in Players : Join(p)
  <2>1. PICK p \in Players : Join(p)
    BY <1>4
  <2>2. talk' = NoTalk /\ UNCHANGED <<requests, lastTalk>>
    BY <2>1 DEF Join, ruleVars
  <2>3. SeatInv'
    BY <2>2 DEF SeatInv, NoTalk
  <2>. QED BY <2>1, <2>3, FreshLocal
<1>5. CASE \/ \E p \in Players : \/ GuestUpdate(p) \/ MenuComes(p) \/ MenuCloses(p) \/ Picks(p) \/ OpeningLate(p)
           \/ \E p \in Players, n \in Npcs : GuestTalks(p, n)
           \/ \E n \in Npcs, greet \in BOOLEAN : HostTalks(n, greet)
           \/ EngineEnds \/ EngineLists \/ HostUpdate
  BY <1>5, FreshLocal, SeatLocal
<1>6. CASE UNCHANGED vars
  <2>1. UNCHANGED <<conn, requests, notices, talk, lastTalk, hostAsked, asked, conv, joined, speaker, heard>>
    BY <1>6 DEF vars, gameVars, serviceVars, engineVars, hostGameVars, ruleVars
  <2>2. FreshInv'
    BY <2>1 DEF FreshInv, AskFresh, Members, Begins, IsAsked, Turned, SpeakerChanged
  <2>3. SeatInv'
    BY <2>1 DEF SeatInv, Seated, Members
  <2>. QED BY <2>2, <2>3
<1>. QED BY <1>1, <1>2, <1>3, <1>4, <1>5, <1>6 DEF Next

\* Each game comes to the step of the conversation, and reads no list of an earlier one at it.
StepsOn(p) == StepsTo(notices[p], talk.id, conv[p], step[p], talk.step) /\ Fresh(notices[p], talk.id, talk.step)
StepInv == talk # NoTalk => talk.step >= 1 /\ \A p \in Members : StepsOn(p)

\* What a game is told when the conversation goes on at its step: nothing, of an ask, or the step's list.
News(q) ==
    \/ notices'[q] = notices[q]
    \/ Relisted(q)
    \/ \E e \in Seq(Tells) : notices'[q] = notices[q] \o e /\ \A n \in Sent(e) : n.type \in {"refused", "start"}

\* It comes to that step.
LEMMA StepsOnTold ==
    ASSUME AllTypes, NEW q \in Players, StepsOn(q), talk'.id = talk.id, talk'.step = talk.step, conv'[q] = conv[q], step'[q] = step[q], News(q)
    PROVE  /\ StepsOn(q)'
           /\ Unturned(notices[q], talk.id) => Unturned(notices'[q], talk.id)
           /\ ListComes(notices[q], talk.id, talk.step) => ListComes(notices'[q], talk.id, talk.step)
           /\ Relisted(q) => ListComes(notices'[q], talk.id, talk.step)
           /\ \A m : m.type = "open" => (m \in Sent(notices'[q]) <=> m \in Sent(notices[q]))
<1>. DEFINE Kept == /\ StepsOn(q)'
                    /\ Unturned(notices[q], talk.id) => Unturned(notices'[q], talk.id)
                    /\ ListComes(notices[q], talk.id, talk.step) => ListComes(notices'[q], talk.id, talk.step)
                    /\ Relisted(q) => ListComes(notices'[q], talk.id, talk.step)
                    /\ \A m : m.type = "open" => (m \in Sent(notices'[q]) <=> m \in Sent(notices[q]))
<1>1. PICK b, c, t, v, s : b = notices[q] /\ c = talk.id /\ t = talk.step /\ v = conv[q] /\ s = step[q]
  OBVIOUS
<1>2. b \in Seq(Tells) /\ c \in Nat /\ StepsTo(b, c, v, s, t) /\ Fresh(b, c, t)
  BY <1>1, Channels DEF StepsOn, AllTypes, RulesOK, Talks
<1>3. \A e \in Seq(Tells) : Unturned(e, c) =>
        /\ StepsTo(b \o e, c, v, s, t)
        /\ (\A m \in Sent(e) : IsList(m, c) => m.step = t) => Fresh(b \o e, c, t)
        /\ (\A m \in Sent(e) : ~IsList(m, c)) => (ListComes(b, c, t) => ListComes(b \o e, c, t))
        /\ Unturned(b, c) => Unturned(b \o e, c)
  BY <1>2, StepsTold
<1>4. ASSUME NEW o \in Tells, IsList(o, c), o.step = t, notices'[q] = b \o <<o>> PROVE Kept
  <2>1. PICK d : d = <<o>> /\ d \in Seq(Tells) /\ Unturned(d, c) /\ Sent(d) = {o} /\ ListComes(b \o d, c, t)
    <3>1. b \in Seq(Tells) /\ o \in Tells /\ IsList(o, c) /\ o.step = t
      BY <1>2, <1>4
    <3>2. ListComes(b \o <<o>>, c, t) /\ <<o>> \in Seq(Tells) /\ Unturned(<<o>>, c) /\ Sent(<<o>>) = {o}
      BY <3>1, ListTold
    <3>. QED BY <3>2
  <2>2. StepsTo(b \o d, c, v, s, t) /\ Fresh(b \o d, c, t) /\ (Unturned(b, c) => Unturned(b \o d, c))
    BY <1>3, <1>4, <2>1
  <2>3. Sent(b \o d) = Sent(b) \cup {o}
    <3>1. b \in Seq(Tells) /\ d \in Seq(Tells)
      BY <1>2, <2>1
    <3>2. Sent(b \o d) = Sent(b) \cup Sent(d)
      BY <3>1, SentJoin
    <3>. QED BY <2>1, <3>2
  <2>4. notices'[q] = b \o d
    BY <1>4, <2>1
  <2>5. o.type # "open"
    BY <1>4 DEF IsList
  <2>. QED BY <1>1, <2>1, <2>2, <2>3, <2>4, <2>5 DEF StepsOn
<1>5. ASSUME NEW e \in Seq(Tells), notices'[q] = b \o e, \A n \in Sent(e) : n.type \in {"refused", "start"}, ~Relisted(q) PROVE Kept
  <2>1. Unturned(e, c) /\ \A n \in Sent(e) : ~IsList(n, c) /\ n.type # "open"
    BY <1>5 DEF Unturned, Turn, IsList
  <2>2. Sent(b \o e) = Sent(b) \cup Sent(e)
    BY <1>2, SentJoin
  <2>. QED BY <1>1, <1>3, <1>5, <2>1, <2>2 DEF StepsOn
<1>6. ASSUME notices'[q] = b, ~Relisted(q) PROVE Kept
  BY <1>1, <1>2, <1>6 DEF StepsOn
<1>. QED BY <1>1, <1>4, <1>5, <1>6 DEF News, Relisted

\* What a game does by itself.
LEMMA StepLocal ==
    ASSUME AllTypes, EndInv, StepInv, NEW p \in Players, Elsewhere(p), notices'[p] = notices[p], conv'[p] \in {0, conv[p]}, step'[p] = step[p]
    PROVE  StepInv'
<1>1. Members' = Members /\ talk' = talk /\ \A q \in Players : q # p => Alike(q)
  BY DEF Elsewhere, Members
<1>2. talk # NoTalk => talk.id # 0
  BY DEF EndInv, IdsOK
<1>3. ASSUME talk # NoTalk, NEW q \in Members PROVE StepsOn(q)'
  <2>1. StepsOn(q) /\ q \in Players
    BY <1>3 DEF StepInv, Members
  <2>2. notices'[q] = notices[q] /\ conv'[q] \in {0, conv[q]} /\ step'[q] = step[q]
    BY <1>1, <2>1 DEF Alike
  <2>. QED BY <1>1, <1>2, <1>3, <2>1, <2>2 DEF StepsOn, StepsTo
<1>. QED BY <1>1, <1>3 DEF StepInv

\* A game reads.
LEMMA StepReads ==
    ASSUME AllTypes, HostInv, TalkInv, EndInv, StepInv, NEW p \in Players, GameReads(p)
    PROVE  StepInv'
<1>1. PICK m : m = Head(notices[p])
  OBVIOUS
<1>2. /\ Elsewhere(p) /\ notices[p] # <<>> /\ notices'[p] = Tail(notices[p])
      /\ ReadsAside(p, m) \/ ReadsList(p, m) \/ ReadsPicked(p, m) \/ ReadsClosed(p, m) \/ ReadsOpen(p, m)
  BY <1>1, ReadsDoes DEF TalkInv
<1>3. Members' = Members /\ talk' = talk /\ \A q \in Players : q # p => Alike(q)
  BY <1>2 DEF Elsewhere, Members
<1>4. talk # NoTalk => talk.id # 0
  BY DEF EndInv, IdsOK
<1>5. ASSUME talk # NoTalk, p \in Members PROVE StepsOn(p)'
  <2>1. PICK q, c, v, s, t : q = notices[p] /\ c = talk.id /\ v = conv[p] /\ s = step[p] /\ t = talk.step
    OBVIOUS
  <2>2. q \in Seq(Tells) /\ q # <<>> /\ m = Head(q) /\ StepsTo(q, c, v, s, t) /\ Fresh(q, c, t)
    BY <1>1, <1>2, <1>5, <2>1, Channels DEF StepInv, StepsOn
  <2>3. /\ ~Turn(m, c) => StepsTo(Tail(q), c, v, s, t)
        /\ Turn(m, c) => StepsTo(Tail(q), c, c, StepOf(m), t) /\ \A w, r : w # c => StepsTo(Tail(q), c, w, r, t)
        /\ Fresh(Tail(q), c, t)
    BY <2>2, StepsRead
  <2>4. StepsTo(Tail(q), c, conv'[p], step'[p], t)
    <3>1. CASE ReadsAside(p, m)
      BY <2>1, <2>3, <3>1 DEF ReadsAside, Turn
    <3>2. CASE ReadsList(p, m)
      BY <2>1, <2>3, <3>2 DEF ReadsList, Turn
    <3>3. CASE ReadsPicked(p, m)
      BY <2>1, <2>3, <3>3 DEF ReadsPicked, Turn, StepsTo, StepOf
    <3>4. CASE ReadsClosed(p, m)
      BY <1>4, <1>5, <2>1, <2>3, <3>4 DEF ReadsClosed, Turn, StepsTo
    <3>5. CASE ReadsOpen(p, m)
      BY <2>1, <2>3, <3>5 DEF ReadsOpen, Turn, StepsTo, StepOf
    <3>. QED BY <1>2, <3>1, <3>2, <3>3, <3>4, <3>5
  <2>. QED BY <1>2, <1>3, <2>1, <2>3, <2>4 DEF StepsOn
<1>6. ASSUME talk # NoTalk, NEW q \in Members PROVE StepsOn(q)'
  <2>1. CASE q # p
    <3>1. StepsOn(q) /\ Alike(q)
      BY <1>3, <1>6, <2>1 DEF StepInv, Members
    <3>. QED BY <1>3, <3>1 DEF StepsOn, Alike
  <2>. QED BY <1>5, <1>6, <2>1
<1>. QED BY <1>3, <1>6 DEF StepInv

\* The rules read a request.
LEMMA StepRules ==
    ASSUME AllTypes, HostInv, TalkInv, EndInv, SeatInv, StepInv, NEW p \in Players, HostReads(p)
    PROVE  StepInv'
<1>. USE DEF Ruled
<1>1. PICK m : m = Head(requests[p])
  OBVIOUS
<1>2. m \in Asks /\ Members' = Members /\ p \in Members
  BY <1>1, RequestRead
<1>3. ~Flag(requests[p]) \/ p = Host
  BY DEF SeatInv, Guests
<1>4. /\ UNCHANGED <<conn, gameVars>>
      /\ m.type = "start" => Aside
      /\ m.type = "failed" => Aside
      /\ Ruled(p, m)
  BY <1>1, <1>3, RulesDo DEF EndInv
<1>5. UNCHANGED <<conv, step>>
  BY <1>4 DEF gameVars, serviceVars
<1>6. Members \subseteq Players /\ (\A q \in Members : notices[q] \in Seq(Tells)) /\ talk \in Talks
  BY Channels DEF Members, AllTypes, RulesOK
<1>7. ASSUME talk # NoTalk, talk' # NoTalk, talk'.id = talk.id, talk'.step = talk.step, \A q \in Players : News(q) PROVE StepInv'
  <2>1. ASSUME NEW q \in Members PROVE StepsOn(q)'
    <3>1. StepsOn(q) /\ q \in Players /\ News(q)
      BY <1>6, <1>7, <2>1 DEF StepInv
    <3>. QED BY <1>5, <1>7, <3>1, StepsOnTold
  <2>. QED BY <1>2, <1>7, <2>1 DEF StepInv
<1>8. CASE SaysPick /\ talk # NoTalk
  <2>1. ASSUME NEW q \in Members PROVE StepsOn(q)'
    <3>1. PICK o \in Tells : o.type = "picked" /\ o.conv = talk.id /\ o.step = talk.step + 1 /\ notices'[q] = notices[q] \o <<o>>
      BY <1>8, <2>1 DEF SaysPick
    <3>2. Turn(o, talk.id) /\ StepOf(o) = talk.step + 1
      BY <3>1 DEF Turn, StepOf
    <3>3. PICK b, c : b = notices[q] /\ c = talk.id /\ b \in Seq(Tells) /\ Turn(o, c)
      BY <1>6, <2>1, <3>2
    <3>4. \A v, s : StepsTo(b \o <<o>>, c, v, s, StepOf(o)) /\ Fresh(b \o <<o>>, c, StepOf(o))
      BY <3>3, TurnTold
    <3>. QED BY <1>8, <3>1, <3>2, <3>3, <3>4 DEF SaysPick, StepsOn
  <2>2. talk'.step >= 1
    BY <1>6, <1>8 DEF SaysPick, Talks
  <2>. QED BY <1>2, <2>1, <2>2 DEF StepInv
<1>9. CASE m.type = "opened"
  <2>1. /\ talk'.id = lastTalk + 1 /\ talk'.step = 1 /\ \A q \in Members : ToldOpen(q, m)
    BY <1>1, <1>9, OpensDo
  <2>2. ASSUME NEW q \in Members PROVE StepsOn(q)'
    <3>1. PICK e \in Seq(Tells), o \in Tells : notices'[q] = notices[q] \o e \o <<o>> /\ o.type = "open" /\ o.conv = lastTalk + 1
      BY <2>1, <2>2 DEF ToldOpen
    <3>2. PICK b, c : b = notices[q] \o e /\ c = talk'.id /\ b \in Seq(Tells) /\ Turn(o, c) /\ StepOf(o) = 1
      <4>1. notices[q] \in Seq(Tells) /\ e \in Seq(Tells)
        BY <1>6, <2>2
      <4>2. notices[q] \o e \in Seq(Tells)
        BY <4>1, SentJoin
      <4>. QED BY <2>1, <3>1, <4>2 DEF Turn, StepOf
    <3>3. \A v, s : StepsTo(b \o <<o>>, c, v, s, StepOf(o)) /\ Fresh(b \o <<o>>, c, StepOf(o))
      BY <3>2, TurnTold
    <3>. QED BY <2>1, <3>1, <3>2, <3>3 DEF StepsOn
  <2>. QED BY <1>2, <2>1, <2>2 DEF StepInv
<1>10. CASE m.type \in {"start", "failed"}
  <2>1. talk' = talk /\ \A q \in Players : News(q)
    BY <1>4, <1>10 DEF Aside, News
  <2>. QED BY <1>7, <2>1 DEF StepInv
<1>11. CASE m.type \in {"options", "pick", "close", "join"} /\ talk # NoTalk /\ talk' # NoTalk /\ ~SaysPick
  <2>1. \/ NothingTold \/ GivesBack(p, m) \/ Merges(p, m.type = "join") \/ Merges(p, p \in talk.players)
    BY <1>4, <1>11
  <2>2. talk'.id = talk.id /\ talk'.step = talk.step /\ \A q \in Players : News(q)
    BY <2>1 DEF NothingTold, GivesBack, Merges, News
  <2>. QED BY <1>7, <1>11, <2>2
<1>12. m.type \in {"start", "opened", "options", "pick", "close", "join", "failed"}
  BY <1>2 DEF Asks, Request
<1>. QED BY <1>4, <1>8, <1>9, <1>10, <1>11, <1>12 DEF StepInv

\* A player leaves.
LEMMA StepLeave ==
    ASSUME AllTypes, EndInv, StepInv, NEW p \in Players, Leave(p)
    PROVE  /\ StepInv'
           /\ talk' # NoTalk => talk # NoTalk /\ (Merges(p, FALSE) \/ NothingTold) /\ \A q \in Players : News(q)
<1>1. /\ conn' = [conn EXCEPT ![p] = "closed"] /\ step' = [step EXCEPT ![p] = 0]
      /\ conv' = [conv EXCEPT ![p] = 0] /\ LeaveTalk(p) /\ lastTalk' = lastTalk
  BY DEF Leave
<1>2. \A q \in Players : q # p => conv'[q] = conv[q] /\ step'[q] = step[q]
  BY <1>1 DEF AllTypes, ServiceOK
<1>3. Members' = Members \ {p}
  BY <1>1 DEF Members, AllTypes, EngineOK
<1>4. ASSUME talk' # NoTalk
      PROVE  /\ talk # NoTalk /\ talk'.id = talk.id /\ talk'.step = talk.step
             /\ (Merges(p, FALSE) \/ NothingTold) /\ \A q \in Players : News(q)
  <2>1. talk # NoTalk
    BY <1>1, <1>4 DEF LeaveTalk, NoTalk
  <2>2. Merges(p, FALSE) \/ NothingTold
    BY <1>1, <1>4, <2>1, LeavesTalk
  <2>. QED BY <2>1, <2>2 DEF Merges, NothingTold, News
<1>5. ASSUME talk' # NoTalk, NEW q \in Members' PROVE StepsOn(q)'
  <2>1. StepsOn(q) /\ q \in Players /\ q # p
    BY <1>3, <1>4, <1>5 DEF StepInv, Members
  <2>. QED BY <1>2, <1>4, <1>5, <2>1, StepsOnTold
<1>. QED BY <1>4, <1>5 DEF StepInv

\* A player out of the conversation, or who says so; what its game asks of the rules that brings the list again; and a menu that
\* shows the list, or is to.
Out(p) == p \notin talk.players \/ \E m \in Sent(requests[p]) : Word(m, talk.id) /\ m.type = "close"
AsksList(p, m) ==
    \/ m.type = "pick" /\ m.conv = talk.id
    \/ p = Host /\ m.type = "options" /\ m.conv = talk.id /\ m.step = talk.step
Pending(p) == \E m \in Sent(requests[p]) : AsksList(p, m)
Shown(p) == listStep[p] = talk.step /\ (MenuOpen(p) => shownStep[p] # talk.step \/ shows[p] = "party")
Coming(p) == ListComes(notices[p], talk.id, talk.step)

\* A player in the conversation gets the step's list, the host's once its menu is open.
Lists(p) ==
    /\ p \in talk.players /\ (\E m \in Sent(notices[p]) : m.type = "open" /\ m.conv = talk.id) => Coming(p)
    /\ conv[p] = talk.id /\ joined[p] /\ (p = Host => MenuOpen(p)) =>
          Out(p) \/ Coming(p) \/ Pending(p) \/ (Unturned(notices[p], talk.id) /\ Shown(p))
HostComes == menu[Host] = "coming" => ~joined[Host] \/ conv[Host] = 0
ListInv == HostComes /\ (talk # NoTalk /\ talk.listed => \A p \in Members : Lists(p))

\* A step of one game that reads nothing.
LEMMA ListsLocal ==
    ASSUME AllTypes, EndInv, StepInv, ListInv, NEW p \in Players, Elsewhere(p), notices'[p] = notices[p],
           \A m : m \in Sent(requests[p]) => m \in Sent(requests'[p]), HostComes',
           talk # NoTalk /\ p \in Members /\ Lists(p) /\ conv'[p] = talk.id /\ joined'[p] /\ (p = Host => menu'[p] = "open") =>
              Out(p)' \/ Coming(p)' \/ Pending(p)' \/ (Unturned(notices[p], talk.id) /\ Shown(p)')
    PROVE  ListInv'
<1>1. Members' = Members /\ talk' = talk /\ \A q \in Players : q # p => Alike(q)
  BY DEF Elsewhere, Members
<1>2. ASSUME talk # NoTalk, talk.listed, NEW q \in Members PROVE Lists(q)'
  <2>1. Lists(q) /\ q \in Players
    BY <1>2 DEF ListInv, Members
  <2>2. CASE q # p
    BY <1>1, <2>1, <2>2 DEF Lists, Alike, Coming, Out, Pending, AsksList, Shown, MenuOpen
  <2>3. CASE q = p
    BY <1>1, <1>2, <2>1, <2>3 DEF Lists, Coming, MenuOpen
  <2>. QED BY <2>2, <2>3
<1>. QED BY <1>1, <1>2 DEF ListInv

\* What a player in the conversation has asked for stays asked for.
LEMMA ListsKept ==
    ASSUME NEW p, talk' = talk, notices'[p] = notices[p], conv'[p] = conv[p], joined'[p] = joined[p],
           \A m : m \in Sent(requests[p]) => m \in Sent(requests'[p]),
           Lists(p), conv'[p] = talk.id, joined'[p], p = Host => MenuOpen(p)
    PROVE  Out(p)' \/ Coming(p)' \/ Pending(p)' \/ (Unturned(notices[p], talk.id) /\ Shown(p))
BY DEF Lists, Coming, Out, Pending, AsksList

\* What is sent is behind what was.
LEMMA SentBehind ==
    ASSUME AllTypes, NEW p \in Players, NEW e \in Seq(Asks), Sends(p, e)
    PROVE  /\ requests'[p] = requests[p] \o e
           /\ \A m : m \in Sent(requests'[p]) <=> m \in Sent(requests[p]) \/ m \in Sent(e)
<1>1. requests'[p] = requests[p] \o e /\ requests[p] \in Seq(Asks)
  BY SendsType, Channels DEF AllTypes
<1>2. Sent(requests[p] \o e) = Sent(requests[p]) \cup Sent(e)
  BY <1>1, SentJoin
<1>. QED BY <1>1, <1>2

\* A menu comes or goes: a guest's comes with the party's list, and the host's only while it is in no conversation.
LEMMA ListsMenu ==
    ASSUME AllTypes, EndInv, StepInv, ListInv, NEW p \in Players,
           MenuComes(p) \/ MenuCloses(p) \/ OpeningLate(p) \/ (p = Host /\ EngineEnds)
    PROVE  ListInv'
<1>1. /\ Elsewhere(p) /\ Steady(p)
      /\ \/ menu[p] = "coming" /\ menu'[p] = "open" /\ shows'[p] = FirstList(p)
         \/ menu[p] = "coming" /\ menu'[p] = "closed" /\ shows'[p] = shows[p] /\ p # Host
         \/ menu[p] = "open" /\ menu'[p] = "closed" /\ shows'[p] = shows[p] /\ ~Joins(p)
         \/ menu[p] = "closed" /\ menu'[p] = "closed" /\ shows'[p] = shows[p]
         \/ p = Host /\ menu'[p] = "closed" /\ shows'[p] = shows[p]
  BY MenuDoes, Channels
<1>2. talk' = talk /\ (talk # NoTalk => talk.id # 0) /\ Host \in Players
  BY <1>1, Channels DEF Elsewhere, EndInv, IdsOK
<1>3. HostComes'
  BY <1>1, <1>2 DEF HostComes, ListInv, Elsewhere, Alike
<1>4. ASSUME talk # NoTalk, p \in Members, Lists(p), conv'[p] = talk.id, joined'[p], p = Host => menu'[p] = "open"
      PROVE  Out(p)' \/ Coming(p)' \/ Pending(p)' \/ (Unturned(notices[p], talk.id) /\ Shown(p)')
  <2>1. conv[p] = talk.id /\ joined[p] /\ talk.id # 0
    BY <1>1, <1>2, <1>4 DEF Steady
  <2>2. p # Host
    <3>1. p = Host => menu[Host] = "coming"
      BY <1>1, <1>4
    <3>. QED BY <2>1, <3>1 DEF ListInv, HostComes
  <2>3. Out(p)' \/ Coming(p)' \/ Pending(p)' \/ (Unturned(notices[p], talk.id) /\ Shown(p))
    BY <1>1, <1>2, <1>4, <2>2, ListsKept DEF Steady
  <2>4. ASSUME Unturned(notices[p], talk.id), Shown(p), menu'[p] = "open" PROVE shows'[p] = "party"
    <3>1. menu[p] = "coming" /\ shows'[p] = FirstList(p)
      BY <1>1, <2>2, <2>4
    <3>2. step[p] = talk.step /\ talk.step # 0 /\ listStep[p] = talk.step
      BY <1>4, <2>1, <2>4 DEF StepInv, StepsOn, StepsTo, Shown
    <3>. QED BY <2>1, <2>2, <3>1, <3>2 DEF FirstList, PartyList
  <2>. QED BY <1>1, <1>2, <2>3, <2>4 DEF Shown, Steady, MenuOpen
<1>. QED BY <1>1, <1>3, <1>4, ListsLocal DEF Steady

\* An update: who joins is seated, or says it is out; a list that is due is shown.
LEMMA ListsUpdate ==
    ASSUME AllTypes, HostInv, EndInv, SeatInv, StepInv, ListInv, NEW p \in Players,
           GuestUpdate(p) \/ (p = Host /\ HostUpdate)
    PROVE  ListInv'
<1>1. /\ Elsewhere(p) /\ notices'[p] = notices[p] /\ step'[p] = step[p] /\ listStep'[p] = listStep[p]
      /\ conv'[p] \in {0, conv[p]}
      /\ conv'[p] # 0 => /\ joined'[p] = StaysJoined(p) /\ menu'[p] = menu[p] /\ Sends(p, JoinOrLeave(p))
                         /\ ShowsList(p) => shows'[p] = "party"
                         /\ ~ShowsList(p) => shownStep'[p] = shownStep[p] /\ shows'[p] = shows[p]
      /\ p = Host => menu'[p] = menu[p]
  BY GuestUpdateDoes, HostUpdateDoes, Channels
<1>2. /\ talk' = talk /\ (talk # NoTalk => talk.id # 0) /\ Host \in Players /\ joined[p] \in BOOLEAN
      /\ requests[p] \in Seq(Asks)
  BY <1>1, Channels DEF Elsewhere, EndInv, IdsOK, AllTypes, ServiceOK
<1>3. \A m : m \in Sent(requests[p]) => m \in Sent(requests'[p])
  <2>1. CASE p = Host /\ HostUpdate
    <3>1. requests[p] = <<>>
      BY <2>1, HostUpdateDoes, <1>2
    <3>. QED BY <3>1, NothingIn
  <2>2. CASE GuestUpdate(p)
    <3>1. Sends(p, JoinOrLeave(p))
      BY <2>2, GuestUpdateDoes
    <3>2. PICK e : e = JoinOrLeave(p) /\ e \in Seq(Asks)
      BY JoinOrLeaveHas
    <3>. QED BY <3>1, <3>2, SentBehind
  <2>. QED BY <2>1, <2>2
<1>4. HostComes'
  <2>1. CASE p = Host
    <3>1. ASSUME menu[Host] = "coming", conv'[Host] # 0 PROVE ~joined'[Host]
      <4>1. ~joined[Host] \/ conv[Host] = 0
        BY <3>1 DEF ListInv, HostComes
      <4>2. joined'[Host] = StaysJoined(Host) /\ conv[Host] # 0
        BY <1>1, <2>1, <3>1
      <4>. QED BY <3>1, <4>1, <4>2 DEF StaysJoined, InIt, MenuOpen
    <3>. QED BY <1>1, <2>1, <3>1 DEF HostComes
  <2>2. CASE p # Host
    BY <1>1, <1>2, <2>2 DEF Elsewhere, Alike, ListInv, HostComes
  <2>. QED BY <2>1, <2>2
<1>5. ASSUME talk # NoTalk, p \in Members, Lists(p), conv'[p] = talk.id, joined'[p], p = Host => menu'[p] = "open"
      PROVE  Out(p)' \/ Coming(p)' \/ Pending(p)' \/ (Unturned(notices[p], talk.id) /\ Shown(p)')
  <2>1. conv[p] = talk.id /\ conv[p] # 0 /\ joined'[p] = StaysJoined(p) /\ menu'[p] = menu[p]
    BY <1>1, <1>2, <1>5
  <2>2. CASE joined[p]
    <3>1. Out(p)' \/ Coming(p)' \/ Pending(p)' \/ (Unturned(notices[p], talk.id) /\ Shown(p))
      BY <1>1, <1>2, <1>3, <1>5, <2>1, <2>2 DEF Lists, Coming, Out, Pending, AsksList, MenuOpen
    <3>2. ASSUME Shown(p) PROVE Shown(p)'
      <4>1. listStep'[p] = talk.step /\ (menu[p] = "open" => shownStep[p] # talk.step \/ shows[p] = "party")
        BY <1>1, <3>2 DEF Shown, MenuOpen
      <4>2. shows'[p] = "party" \/ (shownStep'[p] = shownStep[p] /\ shows'[p] = shows[p])
        BY <1>1, <1>2, <1>5
      <4>. QED BY <1>2, <2>1, <4>1, <4>2 DEF Shown, MenuOpen
    <3>. QED BY <3>1, <3>2
  <2>3. CASE ~joined[p]
    <3>1. PICK s \in BOOLEAN : s <=> p \in talk.players
      OBVIOUS
    <3>2. s = (p \in talk.players)
      BY <3>1
    <3>3. joined[p] = FALSE
      BY <1>2, <2>3
    <3>4. Tallies(requests[p], talk.id, p \in talk.players, joined[p])
      BY <1>5, <2>1 DEF SeatInv, Seated
    <3>5. Tallies(requests[p], talk.id, s, FALSE)
      BY <3>2, <3>3, <3>4, Zenon
    <3>6. ~s \/ \E m \in Sent(requests[p]) : Word(m, talk.id) /\ m.type = "close"
      BY <1>2, <3>5, TalliesOut
    <3>. QED BY <1>2, <1>3, <3>1, <3>6 DEF Out
  <2>. QED BY <2>2, <2>3
<1>. QED BY <1>1, <1>3, <1>4, <1>5, ListsLocal

\* A pick, and the list of the next step: what they ask for is the list.
LEMMA ListsAsks ==
    ASSUME AllTypes, EndInv, StepInv, ListInv, NEW p \in Players, Picks(p) \/ (p = Host /\ EngineLists)
    PROVE  ListInv'
<1>1. Host \in Players
  BY Channels
<1>2. /\ Elsewhere(p) /\ notices'[p] = notices[p] /\ conv'[p] = conv[p] /\ step'[p] = step[p] /\ joined'[p] = joined[p] /\ menu'[p] = menu[p]
  <2>1. CASE Picks(p)
    BY <1>1, <2>1, PicksDoes
  <2>2. CASE p = Host /\ EngineLists
    BY <1>1, <2>2, EngineListsDoes
  <2>. QED BY <2>1, <2>2
<1>0. \E b \in Asks : /\ b.conv = conv[p] /\ (b.type = "pick" \/ (p = Host /\ b.type = "options" /\ b.step = step[p]))
                      /\ Sends(p, <<b>>) \/ (p = Host /\ Sends(p, When(conv[Host] # 0, <<b>>)))
  <2>1. CASE Picks(p)
    <3>1. PICK b \in Asks : b.type = "pick" /\ b.conv = conv[p] /\ Sends(p, <<b>>)
      BY <1>1, <2>1, PicksDoes
    <3>. QED BY <3>1, Zenon
  <2>2. CASE p = Host /\ EngineLists
    <3>1. PICK b \in Asks : b.type = "options" /\ b.conv = conv[Host] /\ b.step = step[Host] /\ Sends(Host, When(conv[Host] # 0, <<b>>))
      BY <1>1, <2>2, EngineListsDoes
    <3>2. Sends(p, When(conv[Host] # 0, <<b>>)) /\ b.conv = conv[p] /\ b.step = step[p]
      BY <2>2, <3>1
    <3>. QED BY <2>2, <3>1, <3>2, Zenon
  <2>. QED BY <2>1, <2>2
<1>3. PICK a \in Asks : /\ a.conv = conv[p] /\ (a.type = "pick" \/ (p = Host /\ a.type = "options" /\ a.step = step[p]))
                        /\ Sends(p, <<a>>) \/ (p = Host /\ Sends(p, When(conv[Host] # 0, <<a>>)))
  BY <1>0
<1>4. <<a>> \in Seq(Asks) /\ Sent(<<a>>) = {a} /\ <<>> \in Seq(Asks) /\ Sent(<<>>) = {}
  BY SentFew, Sends12
<1>5. PICK e : e \in Seq(Asks) /\ Sends(p, e) /\ (conv[p] # 0 => Sent(e) = {a})
  <2>1. CASE Sends(p, <<a>>)
    BY <1>4, <2>1
  <2>2. CASE p = Host /\ Sends(p, When(conv[Host] # 0, <<a>>))
    <3>1. PICK d : d = When(conv[Host] # 0, <<a>>)
      OBVIOUS
    <3>2. d \in Seq(Asks) /\ (conv[p] # 0 => Sent(d) = {a})
      BY <1>4, <2>2, <3>1 DEF When
    <3>3. Sends(p, d)
      BY <2>2, <3>1, Zenon
    <3>. QED BY <3>2, <3>3
  <2>. QED BY <1>3, <2>1, <2>2
<1>6. \A m : m \in Sent(requests'[p]) <=> m \in Sent(requests[p]) \/ m \in Sent(e)
  BY <1>5, SentBehind
<1>7. talk' = talk /\ (talk # NoTalk => talk.id # 0)
  BY <1>2 DEF Elsewhere, EndInv, IdsOK
<1>8. HostComes'
  BY <1>1, <1>2 DEF HostComes, ListInv, Elsewhere, Alike
<1>9. ASSUME talk # NoTalk, p \in Members, Lists(p), conv'[p] = talk.id, joined'[p], p = Host => menu'[p] = "open"
      PROVE  Out(p)' \/ Coming(p)' \/ Pending(p)' \/ (Unturned(notices[p], talk.id) /\ Shown(p)')
  <2>1. a \in Sent(requests'[p]) /\ a.conv = talk.id
    BY <1>2, <1>3, <1>5, <1>6, <1>7, <1>9
  <2>2. CASE a.type = "pick"
    BY <1>7, <2>1, <2>2 DEF Pending, AsksList
  <2>3. CASE p = Host /\ a.type = "options" /\ a.step = step[p]
    <3>1. Out(p)' \/ Coming(p)' \/ Pending(p)' \/ (Unturned(notices[p], talk.id) /\ Shown(p))
      BY <1>2, <1>6, <1>7, <1>9, ListsKept DEF MenuOpen
    <3>2. Unturned(notices[p], talk.id) => step[p] = talk.step
      BY <1>2, <1>9 DEF StepInv, StepsOn, StepsTo
    <3>. QED BY <1>7, <2>1, <2>3, <3>1, <3>2 DEF Pending, AsksList
  <2>. QED BY <1>3, <2>2, <2>3
<1>. QED BY <1>2, <1>6, <1>8, <1>9, ListsLocal

\* A player talks to an NPC: its menu is to come.
LEMMA ListsTalks ==
    ASSUME AllTypes, HostInv, EndInv, StepInv, ListInv, Calm, NEW p \in Players, NEW n \in Npcs,
           GuestTalks(p, n) \/ (p = Host /\ \E greet \in BOOLEAN : HostTalks(n, greet))
    PROVE  ListInv'
<1>1. Host \in Players
  BY Channels
<1>2. /\ Elsewhere(p) /\ notices'[p] = notices[p] /\ conv'[p] = conv[p] /\ joined'[p] = joined[p]
      /\ listStep'[p] = listStep[p] /\ shownStep'[p] = shownStep[p] /\ shows'[p] = shows[p]
      /\ menu'[p] = menu[p] \/ (~MenuOpen(p) /\ menu'[p] = "coming")
      /\ \A m : m \in Sent(requests[p]) => m \in Sent(requests'[p])
      /\ p = Host => ~GoesOut(Host)
  <2>1. CASE GuestTalks(p, n)
    <3>1. Elsewhere(p) /\ p # Host
      BY <1>1, <2>1, GuestTalksDoes
    <3>2. CASE Steady(p) /\ menu[p] = "closed" /\ menu'[p] = "coming" /\ shows'[p] = shows[p]
      BY <3>1, <3>2 DEF Steady, MenuOpen
    <3>3. CASE /\ notices'[p] = notices[p] /\ conv'[p] = conv[p] /\ joined'[p] = joined[p]
               /\ listStep'[p] = listStep[p] /\ shownStep'[p] = shownStep[p] /\ menu'[p] = menu[p]
               /\ shows'[p] = shows[p] /\ \E a \in Asks : Sends(p, <<a>>)
      <4>1. PICK a \in Asks : Sends(p, <<a>>)
        BY <3>3
      <4>2. <<a>> \in Seq(Asks)
        BY Sends12
      <4>3. \A m : m \in Sent(requests[p]) => m \in Sent(requests'[p])
        BY <4>1, <4>2, SentBehind
      <4>. QED BY <3>1, <3>3, <4>3
    <3>. QED BY <1>1, <2>1, <3>2, <3>3, GuestTalksDoes
  <2>2. CASE p = Host /\ \E greet \in BOOLEAN : HostTalks(n, greet)
    <3>1. Elsewhere(Host) /\ Steady(Host) /\ shows'[Host] = shows[Host] /\ ~GoesOut(Host)
          /\ (menu'[Host] = menu[Host] \/ (~MenuOpen(Host) /\ menu'[Host] = "coming"))
      BY <1>1, <2>2, HostTalksDoes
    <3>. QED BY <2>2, <3>1 DEF Steady
  <2>. QED BY <2>1, <2>2
<1>3. talk' = talk
  BY <1>2 DEF Elsewhere
<1>4. HostComes'
  <2>1. CASE p = Host
    BY <1>2, <2>1 DEF HostComes, ListInv, GoesOut, StillOpening, HostInv
  <2>2. CASE p # Host
    BY <1>1, <1>2, <2>2 DEF HostComes, ListInv, Elsewhere, Alike
  <2>. QED BY <2>1, <2>2
<1>5. ASSUME talk # NoTalk, p \in Members, Lists(p), conv'[p] = talk.id, joined'[p], p = Host => menu'[p] = "open"
      PROVE  Out(p)' \/ Coming(p)' \/ Pending(p)' \/ (Unturned(notices[p], talk.id) /\ Shown(p)')
  <2>1. p = Host => MenuOpen(p)
    BY <1>2, <1>5 DEF MenuOpen
  <2>2. Out(p)' \/ Coming(p)' \/ Pending(p)' \/ (Unturned(notices[p], talk.id) /\ Shown(p))
    BY <1>2, <1>3, <1>5, <2>1, ListsKept
  <2>. QED BY <1>2, <1>3, <2>2 DEF Shown, MenuOpen
<1>. QED BY <1>2, <1>4, <1>5, ListsLocal

\* A game reads: the list comes nearer, or is the one it shows next.
LEMMA ListsReads ==
    ASSUME AllTypes, HostInv, TalkInv, EndInv, StepInv, ListInv, NEW p \in Players, GameReads(p)
    PROVE  ListInv'
<1>1. PICK m : m = Head(notices[p])
  OBVIOUS
<1>2. /\ Elsewhere(p) /\ notices[p] # <<>> /\ notices'[p] = Tail(notices[p]) /\ requests[p] \in Seq(Asks)
      /\ ReadsAside(p, m) \/ ReadsList(p, m) \/ ReadsPicked(p, m) \/ ReadsClosed(p, m) \/ ReadsOpen(p, m)
  BY <1>1, ReadsDoes, Channels DEF TalkInv
<1>3. /\ Members' = Members /\ talk' = talk /\ (talk # NoTalk => talk.id # 0) /\ Host \in Players
      /\ \A q \in Players : q # p => Alike(q)
  BY <1>2, Channels DEF Elsewhere, Members, EndInv, IdsOK
<1>4. HostComes'
  <2>1. CASE p = Host
    BY <1>2, <2>1 DEF HostComes, ListInv, ReadsAside, ReadsList, ReadsPicked, ReadsClosed, ReadsOpen
  <2>2. CASE p # Host
    BY <1>3, <2>2 DEF HostComes, ListInv, Alike
  <2>. QED BY <2>1, <2>2
<1>5. ~ReadsOpen(p, m) => \A n : n \in Sent(requests[p]) => n \in Sent(requests'[p])
  <2>1. ASSUME NEW d \in Seq(Asks), requests'[p] = requests[p] \o d
        PROVE  \A n : n \in Sent(requests[p]) => n \in Sent(requests'[p])
    <3>1. Sent(requests[p] \o d) = Sent(requests[p]) \cup Sent(d)
      BY <1>2, SentJoin
    <3>. QED BY <2>1, <3>1
  <2>2. ~ReadsOpen(p, m) => requests'[p] = requests[p] \/ \E d \in Seq(Asks) : requests'[p] = requests[p] \o d
    BY <1>2 DEF ReadsAside, ReadsList, ReadsPicked, ReadsClosed, Silently, Sends1
  <2>. QED BY <2>1, <2>2
<1>6. ASSUME talk # NoTalk, talk.listed, p \in Members PROVE Lists(p)'
  <2>1. PICK q, c, t : q = notices[p] /\ c = talk.id /\ t = talk.step
    OBVIOUS
  <2>2. q \in Seq(Tells) /\ q # <<>> /\ m = Head(q) /\ StepsTo(q, c, conv[p], step[p], t) /\ Fresh(q, c, t) /\ Lists(p) /\ t \in Nat \ {0}
    BY <1>1, <1>2, <1>6, <2>1, Channels DEF StepInv, StepsOn, ListInv, AllTypes, RulesOK, Talks
  <2>3. /\ Unturned(q, c) => Unturned(Tail(q), c)
        /\ IsList(m, c) => m.step = t \/ ~Unturned(Tail(q), c)
        /\ ListComes(q, c, t) => \/ ListComes(Tail(q), c, t)
                                 \/ IsList(m, c) /\ m.step = t /\ Unturned(q, c)
    BY <2>2, StepsRead
  <2>4. m \in Sent(q) /\ Sent(Tail(q)) \subseteq Sent(q)
    BY <2>2, SentRead
  <2>5. ASSUME p \in talk.players, NEW n \in Sent(Tail(q)), n.type = "open", n.conv = c PROVE ListComes(Tail(q), c, t)
    <3>1. ListComes(q, c, t)
      BY <2>1, <2>2, <2>4, <2>5 DEF Lists, Coming
    <3>2. ~Unturned(q, c)
      BY <2>4, <2>5 DEF Unturned, Turn
    <3>. QED BY <2>3, <3>1, <3>2
  <2>6. ASSUME conv'[p] = c, joined'[p], p = Host => menu'[p] = "open"
        PROVE  Out(p)' \/ Coming(p)' \/ Pending(p)' \/ (Unturned(Tail(q), c) /\ Shown(p)')
    <3>1. CASE ReadsOpen(p, m)
      <4>1. m.type = "open" /\ m.conv = c
        BY <2>6, <3>1 DEF ReadsOpen
      <4>2. p \in talk.players => ListComes(q, c, t)
        BY <2>1, <2>2, <2>4, <4>1 DEF Lists, Coming
      <4>3. ~IsList(m, c)
        BY <4>1 DEF IsList
      <4>. QED BY <1>2, <1>3, <2>1, <2>3, <4>2, <4>3 DEF Out, Coming
    <3>2. CASE ReadsClosed(p, m)
      BY <1>3, <1>6, <2>1, <2>6, <3>2 DEF ReadsClosed
    <3>3. CASE ReadsAside(p, m) \/ ReadsList(p, m) \/ ReadsPicked(p, m)
      <4>1. conv'[p] = conv[p] /\ joined'[p] = joined[p] /\ menu'[p] = menu[p] /\ ~ReadsOpen(p, m)
        BY <3>3 DEF ReadsAside, ReadsList, ReadsPicked, ReadsOpen
      <4>2. Out(p) \/ ListComes(q, c, t) \/ Pending(p) \/ (Unturned(q, c) /\ Shown(p))
        BY <2>1, <2>2, <2>6, <4>1 DEF Lists, Coming, MenuOpen
      <4>3. (Out(p) => Out(p)') /\ (Pending(p) => Pending(p)')
        BY <1>3, <1>5, <4>1 DEF Out, Pending, AsksList
      <4>4. ListComes(Tail(q), c, t) => Coming(p)'
        BY <1>2, <1>3, <2>1 DEF Coming
      <4>5. CASE ReadsAside(p, m)
        <5>1. ~IsList(m, c) /\ (Shown(p) => Shown(p)')
          BY <1>3, <2>1, <2>6, <4>1, <4>5 DEF ReadsAside, IsList, Shown, MenuOpen
        <5>. QED BY <2>3, <4>2, <4>3, <4>4, <5>1
      <4>6. CASE ReadsPicked(p, m)
        <5>1. ~IsList(m, c) /\ ~Unturned(q, c)
          BY <2>1, <2>4, <2>6, <4>1, <4>6 DEF ReadsPicked, IsList, Unturned, Turn
        <5>. QED BY <2>3, <4>2, <4>3, <4>4, <5>1
      <4>7. CASE ReadsList(p, m)
        <5>1. IsList(m, c) /\ (m.step = t => Shown(p)')
          BY <1>3, <2>1, <2>2, <2>6, <4>1, <4>7 DEF ReadsList, IsList, Shown, MenuOpen
        <5>. QED BY <2>3, <4>2, <4>3, <4>4, <5>1
      <4>. QED BY <3>3, <4>5, <4>6, <4>7
    <3>. QED BY <1>2, <3>1, <3>2, <3>3
  <2>. QED BY <1>2, <1>3, <2>1, <2>5, <2>6 DEF Lists, Coming, MenuOpen
<1>7. ASSUME talk # NoTalk, talk.listed, NEW q \in Members PROVE Lists(q)'
  <2>1. CASE q # p
    <3>1. Lists(q) /\ Alike(q)
      BY <1>3, <1>7, <2>1 DEF ListInv, Members
    <3>. QED BY <1>3, <2>1, <3>1 DEF Lists, Alike, Coming, Out, Pending, AsksList, Shown, MenuOpen
  <2>. QED BY <1>6, <1>7, <2>1
<1>. QED BY <1>3, <1>4, <1>7 DEF ListInv

\* What a player in the conversation is told of it: its list, or nothing that takes it away.
OfLists(q, n) == AsksList(q, n) \/ (Word(n, talk.id) /\ n.type = "close")

\* It keeps or gets it.
LEMMA ListsTold ==
    ASSUME AllTypes, NEW q \in Players, StepsOn(q), talk'.id = talk.id, talk'.step = talk.step, News(q),
           conv'[q] = conv[q], step'[q] = step[q], joined'[q] = joined[q], menu'[q] = menu[q],
           listStep'[q] = listStep[q], shownStep'[q] = shownStep[q], shows'[q] = shows[q],
           \/ q \in talk'.players => Relisted(q)
           \/ Lists(q) /\ q \in talk.players /\ \A n : n \in Sent(requests[q]) /\ OfLists(q, n) => n \in Sent(requests'[q])
    PROVE  Lists(q)'
<1>1. /\ Unturned(notices[q], talk.id) => Unturned(notices'[q], talk.id)
      /\ Coming(q) => Coming(q)'
      /\ Relisted(q) => Coming(q)'
      /\ \A n : n.type = "open" => (n \in Sent(notices'[q]) <=> n \in Sent(notices[q]))
  BY StepsOnTold DEF Coming
<1>2. CASE q \notin talk'.players
  BY <1>2 DEF Lists, Out
<1>3. CASE Relisted(q)
  BY <1>1, <1>3 DEF Lists
<1>4. CASE Lists(q) /\ q \in talk.players /\ \A n : n \in Sent(requests[q]) /\ OfLists(q, n) => n \in Sent(requests'[q])
  <2>1. (Out(q) => Out(q)') /\ (Pending(q) => Pending(q)') /\ (Shown(q) => Shown(q)')
    BY <1>4 DEF Out, Pending, Shown, AsksList, OfLists, MenuOpen
  <2>. QED BY <1>1, <1>4, <2>1 DEF Lists, MenuOpen
<1>. QED BY <1>2, <1>3, <1>4

\* The rules read a request: the list goes again to those in it, or nobody's is taken away.
LEMMA ListsRules ==
    ASSUME AllTypes, HostInv, TalkInv, EndInv, SeatInv, StepInv, ListInv, NEW p \in Players, HostReads(p)
    PROVE  ListInv'
<1>. USE DEF Ruled
<1>1. PICK m : m = Head(requests[p])
  OBVIOUS
<1>2. /\ m \in Asks /\ Members' = Members /\ p \in Members /\ Members \subseteq Players
      /\ \A q \in Players : q # p => requests'[q] = requests[q]
      /\ Sent(requests[p]) \subseteq Sent(requests'[p]) \cup {m}
  BY <1>1, RequestRead DEF Members
<1>3. ~Flag(requests[p]) \/ p = Host
  BY DEF SeatInv, Guests
<1>4. /\ UNCHANGED <<conn, gameVars>>
      /\ m.type = "start" => Aside
      /\ m.type = "failed" => Aside
      /\ Ruled(p, m)
  BY <1>1, <1>3, RulesDo DEF EndInv
<1>5. UNCHANGED <<conv, step, joined, menu, listStep, shownStep, shows>>
  BY <1>4 DEF gameVars, serviceVars, screenVars, engineVars
<1>6. HostComes'
  BY <1>5 DEF HostComes, ListInv
<1>7. m.type \in {"start", "opened", "options", "pick", "close", "join", "failed"}
  BY <1>2 DEF Asks, Request
<1>8. m.type = "opened" => talk'.listed = FALSE
  BY <1>1, OpensDo
<1>9. ASSUME talk' # NoTalk, talk'.listed, NEW q \in Members PROVE Lists(q)'
  <2>1. ASSUME talk # NoTalk, talk'.id = talk.id, talk'.step = talk.step, News(q),
               \/ q \in talk'.players => Relisted(q)
               \/ Lists(q) /\ q \in talk.players /\ (q = p => ~OfLists(p, m))
        PROVE  Lists(q)'
    <3>1. StepsOn(q) /\ q \in Players
      BY <1>2, <1>9, <2>1 DEF StepInv
    <3>2. \/ q \in talk'.players => Relisted(q)
          \/ Lists(q) /\ q \in talk.players /\ \A n : n \in Sent(requests[q]) /\ OfLists(q, n) => n \in Sent(requests'[q])
      BY <1>2, <2>1, <3>1
    <3>. QED BY <1>5, <2>1, <3>1, <3>2, ListsTold
  <2>2. CASE m.type \in {"start", "failed"}
    <3>1. talk' = talk /\ News(q)
      BY <1>2, <1>4, <1>9, <2>2 DEF Aside, News
    <3>2. ~OfLists(p, m)
      BY <2>2 DEF OfLists, AsksList
    <3>. QED BY <1>9, <2>1, <3>1, <3>2 DEF ListInv
  <2>3. CASE m.type \in {"options", "pick", "close", "join"}
    <3>1. talk # NoTalk
      BY <1>4, <1>9, <2>3
    <3>2. CASE NothingTold /\ Ignored(p, m)
      <4>1. talk' = talk /\ News(q) /\ Lists(q)
        BY <1>2, <1>9, <3>1, <3>2 DEF NothingTold, News, ListInv
      <4>2. p \in talk.players => ~OfLists(p, m)
        BY <1>9, <3>2, <4>1 DEF Ignored, OfLists, AsksList, Word
      <4>. QED BY <1>9, <2>1, <3>1, <4>1, <4>2
    <3>3. CASE GivesBack(p, m)
      <4>1. talk' = talk /\ News(q) /\ Lists(q) /\ (q = p => Relisted(q))
        BY <1>2, <1>9, <3>1, <3>3 DEF GivesBack, News, ListInv
      <4>. QED BY <1>9, <2>1, <3>1, <4>1
    <3>4. CASE Merges(p, m.type = "join") \/ Merges(p, p \in talk.players)
      <4>1. talk'.id = talk.id /\ talk'.step = talk.step /\ News(q) /\ (q \in talk'.players => Relisted(q))
        BY <1>2, <1>9, <3>4 DEF Merges, News
      <4>. QED BY <2>1, <3>1, <4>1
    <3>5. ~SaysPick
      BY <1>9 DEF SaysPick
    <3>. QED BY <1>4, <1>9, <2>3, <3>1, <3>2, <3>3, <3>4, <3>5
  <2>. QED BY <1>7, <1>8, <1>9, <2>2, <2>3
<1>. QED BY <1>2, <1>6, <1>9 DEF ListInv

\* A player leaves: the list goes again to those who stay.
LEMMA ListsLeave ==
    ASSUME AllTypes, EndInv, StepInv, ListInv, NEW p \in Players, Leave(p)
    PROVE  ListInv'
<1>1. /\ conn' = [conn EXCEPT ![p] = "closed"] /\ step' = [step EXCEPT ![p] = 0] /\ requests' = [requests EXCEPT ![p] = <<>>]
      /\ conv' = [conv EXCEPT ![p] = 0] /\ joined' = [joined EXCEPT ![p] = FALSE] /\ menu' = [menu EXCEPT ![p] = "closed"]
      /\ listStep' = [listStep EXCEPT ![p] = 0] /\ shownStep' = [shownStep EXCEPT ![p] = 0] /\ shows' = [shows EXCEPT ![p] = "nothing"]
      /\ p \in Leavers
  BY DEF Leave, EndsHere
<1>2. \A q \in Players : q # p => /\ conv'[q] = conv[q] /\ step'[q] = step[q] /\ joined'[q] = joined[q] /\ menu'[q] = menu[q]
                                  /\ listStep'[q] = listStep[q] /\ shownStep'[q] = shownStep[q] /\ shows'[q] = shows[q]
                                  /\ requests'[q] = requests[q]
  BY <1>1 DEF AllTypes, ServiceOK, ScreenOK, EngineOK, RequestsOK
<1>3. Members' = Members \ {p} /\ Members \subseteq Players
  BY <1>1 DEF Members, AllTypes, EngineOK
<1>4. HostComes'
  <2>1. Host \in Players /\ p # Host
    BY <1>1, Channels, BoundsAssumption
  <2>. QED BY <1>2, <2>1 DEF HostComes, ListInv
<1>5. ASSUME talk' # NoTalk, talk'.listed, NEW q \in Members' PROVE Lists(q)'
  <2>1. talk # NoTalk /\ (Merges(p, FALSE) \/ NothingTold) /\ News(q) /\ q \in Players /\ q # p /\ q \in Members
    BY <1>3, <1>5, StepLeave
  <2>2. StepsOn(q) /\ talk'.id = talk.id /\ talk'.step = talk.step
    BY <2>1 DEF StepInv, Merges, NothingTold
  <2>3. \/ q \in talk'.players => Relisted(q)
        \/ Lists(q) /\ q \in talk.players /\ \A n : n \in Sent(requests[q]) /\ OfLists(q, n) => n \in Sent(requests'[q])
    <3>1. CASE Merges(p, FALSE)
      BY <1>5, <2>1, <3>1 DEF Merges
    <3>2. CASE NothingTold
      BY <1>2, <1>5, <2>1, <3>2 DEF NothingTold, ListInv
    <3>. QED BY <2>1, <3>1, <3>2
  <2>. QED BY <1>2, <2>1, <2>2, <2>3, ListsTold
<1>. QED BY <1>4, <1>5 DEF ListInv

\* Nothing has begun at the start.
SeatsInv == FreshInv /\ SeatInv /\ StepInv /\ ListInv

\* It holds then.
LEMMA SeatsInit == Init => SeatsInv
<1>. SUFFICES ASSUME Init PROVE SeatsInv
  OBVIOUS
<1>1. /\ Host \in Players /\ talk = NoTalk /\ talk.players = {} /\ Guests \subseteq Players /\ Members \subseteq Players
      /\ \A p \in Players : requests[p] = <<>> /\ conv[p] = 0 /\ asked[p] = None
  BY PlayersAssumption DEF Init, Guests, Members, NoTalk
<1>2. FreshInv
  BY <1>1 DEF FreshInv, AskFresh
<1>3. SeatInv
  BY <1>1, NothingIn DEF SeatInv, Silent
<1>. QED BY <1>1, <1>2, <1>3 DEF SeatsInv, StepInv, ListInv, HostComes

\* Every step keeps it.
LEMMA SeatsStep ==
    ASSUME AllTypes, AllTypes', HostInv, TalkInv, EndInv, SeatsInv, Calm, [Next]_vars
    PROVE  SeatsInv'
<1>1. FreshInv /\ SeatInv /\ StepInv /\ ListInv
  BY DEF SeatsInv
<1>2. FreshInv' /\ SeatInv'
  BY <1>1, SeatStep
<1>3. Host \in Players
  BY Channels
<1>4. StepInv' /\ ListInv'
  <2>1. CASE \E p \in Players : HostReads(p)
    BY <1>1, <2>1, StepRules, ListsRules
  <2>2. CASE \E p \in Players : GameReads(p)
    BY <1>1, <2>2, StepReads, ListsReads
  <2>3. CASE \E p \in Players : Leave(p)
    BY <1>1, <2>3, StepLeave, ListsLeave
  <2>4. CASE \E p \in Players : Join(p)
    <3>1. talk' = NoTalk /\ UNCHANGED gameVars
      BY <2>4 DEF Join, ruleVars
    <3>2. UNCHANGED <<joined, conv, menu>>
      BY <3>1 DEF gameVars, serviceVars, engineVars
    <3>. QED BY <1>1, <3>1, <3>2 DEF StepInv, ListInv, HostComes
  <2>5. CASE UNCHANGED vars
    <3>1. UNCHANGED <<conn, requests, notices, talk, conv, step, joined, menu, listStep, shownStep, shows>>
      BY <2>5 DEF vars, gameVars, serviceVars, screenVars, engineVars, ruleVars
    <3>2. StepInv'
      BY <1>1, <3>1 DEF StepInv, StepsOn, Members
    <3>3. ListInv'
      BY <1>1, <3>1 DEF ListInv, HostComes, Lists, Coming, Out, Pending, AsksList, Shown, MenuOpen, Members
    <3>. QED BY <3>2, <3>3
  <2>6. ASSUME NEW p \in Players, MenuComes(p) \/ MenuCloses(p) \/ OpeningLate(p) \/ (p = Host /\ EngineEnds) PROVE StepInv' /\ ListInv'
    <3>1. Elsewhere(p) /\ notices'[p] = notices[p] /\ conv'[p] = conv[p] /\ step'[p] = step[p]
      BY <1>3, <2>6, MenuDoes DEF Steady
    <3>. QED BY <1>1, <2>6, <3>1, StepLocal, ListsMenu
  <2>7. ASSUME NEW p \in Players, GuestUpdate(p) \/ (p = Host /\ HostUpdate) PROVE StepInv' /\ ListInv'
    <3>1. Elsewhere(p) /\ notices'[p] = notices[p] /\ conv'[p] \in {0, conv[p]} /\ step'[p] = step[p]
      BY <1>3, <2>7, GuestUpdateDoes, HostUpdateDoes
    <3>. QED BY <1>1, <2>7, <3>1, StepLocal, ListsUpdate
  <2>8. ASSUME NEW p \in Players, Picks(p) \/ (p = Host /\ EngineLists) PROVE StepInv' /\ ListInv'
    <3>1. Elsewhere(p) /\ notices'[p] = notices[p] /\ conv'[p] = conv[p] /\ step'[p] = step[p]
      BY <1>3, <2>8, PicksDoes, EngineListsDoes
    <3>. QED BY <1>1, <2>8, <3>1, StepLocal, ListsAsks
  <2>9. ASSUME NEW p \in Players, NEW n \in Npcs, GuestTalks(p, n) \/ (p = Host /\ \E greet \in BOOLEAN : HostTalks(n, greet))
        PROVE  StepInv' /\ ListInv'
    <3>1. Elsewhere(p) /\ notices'[p] = notices[p] /\ conv'[p] = conv[p] /\ step'[p] = step[p]
      BY <1>3, <2>9, GuestTalksDoes, HostTalksDoes DEF Steady
    <3>. QED BY <1>1, <2>9, <3>1, StepLocal, ListsTalks
  <2>. QED BY <1>3, <2>1, <2>2, <2>3, <2>4, <2>5, <2>6, <2>7, <2>8, <2>9, Zenon DEF Next
<1>. QED BY <1>2, <1>4 DEF SeatsInv

\* When nothing is under way, every game knows the conversation there is and is in it as the rules have it.
LEMMA SettledSeats ==
    ASSUME AllTypes, HostInv, TalkInv, EndInv, SeatsInv, EndIsHeard, Settled, NEW p \in Members
    PROVE  /\ p \in talk.players <=> joined[p] /\ conv[p] # 0
           /\ talk # NoTalk => conv[p] = talk.id
<1>1. /\ p \in Players /\ requests[p] = <<>> /\ notices[p] = <<>> /\ requests[Host] = <<>> /\ (talk # NoTalk => talk.id # 0)
      /\ (talk = NoTalk => talk.id = 0 /\ talk.players = {})
  <2>1. Host \in Members
    BY HostChannels DEF Members
  <2>. QED BY <2>1 DEF Settled, Members, EndInv, IdsOK, NoTalk
<1>2. CASE talk = NoTalk
  <2>1. DOMAIN notices[p] = {}
    BY <1>1
  <2>2. conv[p] = 0
    BY <1>1, <1>2, <2>1 DEF EndIsHeard
  <2>. QED BY <1>1, <1>2, <2>2
<1>3. CASE talk # NoTalk
  <2>1. Sent(notices[p]) = {} /\ ~Flag(requests[Host]) /\ ~Has(requests[Host], "opened") /\ Sent(requests[p]) = {}
    BY <1>1, NothingIn
  <2>2. conv[p] = talk.id
    BY <1>3, <2>1 DEF TalkInv, KnowInv, Knows
  <2>3. Tallies(requests[p], talk.id, p \in talk.players, joined[p])
    BY <1>3, <2>2 DEF SeatsInv, SeatInv, Seated
  <2>4. p \in talk.players <=> joined[p]
    BY <2>1, <2>3 DEF Tallies, Silent
  <2>. QED BY <1>1, <1>3, <2>2, <2>4
<1>. QED BY <1>2, <1>3

\* The players agree.
LEMMA SettledAgree ==
    ASSUME AllTypes, HostInv, TalkInv, EndInv, SeatsInv, EndIsHeard
    PROVE  SeatsAgree
<1>1. talk.players \subseteq Members
  BY DEF SeatsInv, SeatInv
<1>2. ASSUME Settled PROVE talk.players = {p \in Members : joined[p] /\ conv[p] # 0}
  BY <1>1, <1>2, SettledSeats
<1>. QED BY <1>2 DEF SeatsAgree

\* And their menus show the list: one that did not show it yet would show it at the next update.
LEMMA SettledMenus ==
    ASSUME AllTypes, HostInv, TalkInv, EndInv, SeatsInv, EndIsHeard
    PROVE  MenusShowTheList
<1>1. ASSUME Settled, NEW p \in talk.players
      PROVE  /\ conv[p] = talk.id /\ step[p] = talk.step
             /\ talk.listed /\ MenuOpen(p) => shows[p] = "party"
  <2>1. p \in Members /\ talk # NoTalk
    BY <1>1 DEF SeatsInv, SeatInv, NoTalk
  <2>2. conv[p] = talk.id /\ joined[p]
    BY <1>1, <2>1, SettledSeats
  <2>3. requests[p] = <<>> /\ notices[p] = <<>> /\ ~UpdateDue(p)
    BY <1>1, <2>1 DEF Settled
  <2>4. Sent(notices[p]) = {} /\ Sent(requests[p]) = {} /\ DOMAIN notices[p] = {}
    BY <2>3, NothingIn
  <2>5. step[p] = talk.step /\ talk.step >= 1
    <3>1. StepsOn(p) /\ talk.step >= 1
      BY <2>1 DEF SeatsInv, StepInv
    <3>2. Unturned(notices[p], talk.id)
      BY <2>4 DEF Unturned
    <3>. QED BY <2>2, <3>1, <3>2 DEF StepsOn, StepsTo
  <2>6. ASSUME talk.listed, MenuOpen(p) PROVE shows[p] = "party"
    <3>1. Lists(p)
      BY <2>1, <2>6 DEF SeatsInv, ListInv
    <3>2. ~Out(p) /\ ~Coming(p) /\ ~Pending(p)
      BY <1>1, <2>4 DEF Out, Coming, ListComes, Pending
    <3>3. Shown(p)
      BY <2>2, <2>6, <3>1, <3>2 DEF Lists
    <3>4. ASSUME shownStep[p] # talk.step PROVE FALSE
      <4>1. listStep[p] = talk.step /\ talk.step # 0
        BY <2>5, <3>3 DEF Shown
      <4>2. ShowsList(p)
        BY <2>2, <2>5, <2>6, <3>4, <4>1 DEF ShowsList, StaysJoined
      <4>. QED BY <2>3, <4>2 DEF UpdateDue
    <3>. QED BY <2>6, <3>3, <3>4 DEF Shown
  <2>. QED BY <2>2, <2>5, <2>6
<1>. QED BY <1>1 DEF MenusShowTheList

\* Every state a calm party comes to.
SeatsReached == AllTypes /\ EndInv /\ HostInv /\ TalkInv /\ SeatsInv

\* It comes to no other.
LEMMA SeatsReachedStep == ASSUME Calm, SeatsReached, [Next]_vars PROVE SeatsReached'
<1>1. AllTypes /\ EndInv /\ HostInv /\ TalkInv /\ SeatsInv /\ IdsOK
  BY DEF SeatsReached, EndInv
<1>2. AllTypes' /\ EndInv' /\ HostInv' /\ TalkInv'
  BY <1>1, NextTypes, EndStep, HostStep, TalkStep
<1>. QED BY <1>1, <1>2, SeatsStep DEF SeatsReached
\* It hears of each end.
LEMMA SeatsReachedHeard == SeatsReached => EndIsHeard
BY DEF SeatsReached, EndInv, HostInv, Hears, ComesTo, OverAfter, Over, EndIsHeard

\* Once nothing is under way the rules have in the conversation exactly the players whose games take themselves to be in it, when
\* talks begin and end one at a time (HostDialogue::OnJoin, OnClose, Leave against DialogueService::OnUpdate and the roles' OnOpen).
THEOREM TheSeatsAgree == ASSUME Calm PROVE Spec => []SeatsAgree
<1>1. Init => SeatsReached
  BY InitTypes, EndInit, TalkInit, SeatsInit DEF SeatsReached
<1>2. SeatsReached /\ [Next]_vars => SeatsReached'
  BY SeatsReachedStep
<1>3. SeatsReached => SeatsAgree
  BY SettledAgree, SeatsReachedHeard DEF SeatsReached
<1>. QED BY <1>1, <1>2, <1>3, PTL DEF Spec

\* And everyone in it is at the rules' step, its open menu showing the step's list, under the same (HostDialogue::Merge, OnPick;
\* DialogueService's OnList, OnPicked and OnUpdate).
THEOREM TheMenusShowTheList == ASSUME Calm PROVE Spec => []MenusShowTheList
<1>1. Init => SeatsReached
  BY InitTypes, EndInit, TalkInit, SeatsInit DEF SeatsReached
<1>2. SeatsReached /\ [Next]_vars => SeatsReached'
  BY SeatsReachedStep
<1>3. SeatsReached => MenusShowTheList
  BY SettledMenus, SeatsReachedHeard DEF SeatsReached
<1>. QED BY <1>1, <1>2, <1>3, PTL DEF Spec
=============================================================================
