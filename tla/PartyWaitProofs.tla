--------------------------- MODULE PartyWaitProofs ---------------------------
(***************************************************************************)
(* Proofs about PartyWait for every party, every choice of hours and any   *)
(* number of waits: type correctness, that a rest runs only with everyone, *)
(* that a guest's rows are on their way, and that every game completes its *)
(* own rest.                                                               *)
(***************************************************************************)
EXTENDS PartyWait, ChannelFacts

-----------------------------------------------------------------------------
\* Types.

ServiceTypes ==
    /\ id \in [Players -> Nat] /\ left \in [Players -> 0 .. 24]
    /\ steps \in [Players -> Seq(0 .. 24)]
    /\ pending \in [Players -> BOOLEAN] /\ cancelling \in [Players -> BOOLEAN]
    /\ ready \in [Players -> BOOLEAN] /\ running \in [Players -> BOOLEAN]
    /\ finished \in [Players -> BOOLEAN]
EngineTypes ==
    /\ menu \in [Players -> BOOLEAN] /\ begun \in [Players -> BOOLEAN]
    /\ rest \in [Players -> 0 .. 24]
WorldTypes ==
    /\ worldId \in [Players -> Nat] /\ worldDue \in [Players -> BOOLEAN]
    /\ owed \in [Players -> BOOLEAN]
ConnTypes ==
    /\ conn \in [Players -> {"none", "open", "lost", "dropped", "closed"}]
    /\ entered \in SUBSET Players
CountTypes == asks \in 0 .. MaxAsks /\ cancels \in 0 .. MaxCancels
RequestTypes == requests \in [Players -> Seq(Request)]
NoticeTypes == notices \in [Players -> Seq(Notice)]
HostTypes ==
    /\ wait \in [id: Nat, left: 0 .. 24, pending: SUBSET Players, running: BOOLEAN]
    /\ lastId \in Nat /\ completed \in 0 .. lastId

\* The types, by what keeps them.
LEMMA TypeParts ==
    TypeOK <=> /\ ServiceTypes /\ EngineTypes /\ WorldTypes /\ ConnTypes /\ CountTypes
               /\ RequestTypes /\ NoticeTypes /\ HostTypes
BY DEF TypeOK, ServiceTypes, EngineTypes, WorldTypes, ConnTypes, CountTypes, RequestTypes, NoticeTypes, HostTypes

\* The messages of the wait, each way (NotifyPartyWait, RequestPartyWait*).
LEMMA MessageTypes ==
    /\ \A h \in Hours : h \in 0 .. 24 /\ Start(h) \in Request
    /\ \A i \in Nat : Ready(i) \in Request /\ Stop(i) \in Request /\ AskWorld(i) \in Request
    /\ \A i \in Nat, v \in 0 .. 24 : Step(i, v) \in Request
    /\ \A m \in Request : m.id \in Nat /\ m.left \in 0 .. 24
                          /\ m.type \in {"start", "ready", "progress", "stop", "world"}
    /\ \A n \in Notice : n.id \in Nat /\ n.left \in 0 .. 24
    /\ \A i \in Nat, v \in 0 .. 24 :
         /\ Phase("preparing", i, v) \in Notice /\ Phase("running", i, v) \in Notice
         /\ Phase("progress", i, v) \in Notice /\ Phase("finished", i, v) \in Notice
         /\ Phase("world", i, 0) \in Notice
<1>1. \A h \in Hours : h \in 0 .. 24 /\ Start(h) \in Request
  BY HoursAssumption DEF Start, Request
<1>2. \A i \in Nat : Ready(i) \in Request /\ Stop(i) \in Request /\ AskWorld(i) \in Request
  BY DEF Ready, Stop, AskWorld, Request
<1>3. \A i \in Nat, v \in 0 .. 24 : Step(i, v) \in Request
  BY DEF Step, Request
<1>4. \A i \in Nat, v \in 0 .. 24 :
         /\ Phase("preparing", i, v) \in Notice /\ Phase("running", i, v) \in Notice
         /\ Phase("progress", i, v) \in Notice /\ Phase("finished", i, v) \in Notice
         /\ Phase("world", i, 0) \in Notice
  BY DEF Phase, Notice
<1>. QED BY <1>1, <1>2, <1>3, <1>4 DEF Request, Notice

\* What a game sends goes into its channel (TransportService::Send).
LEMMA SendsType ==
    ASSUME RequestTypes, NEW p \in Players, NEW msgs \in Seq(Request), Sends(p, msgs)
    PROVE  RequestTypes'
BY DEF RequestTypes, Sends

\* What is sent on a condition.
LEMMA WhenType ==
    ASSUME NEW condition \in BOOLEAN, NEW m \in Request
    PROVE  /\ When(condition, <<m>>) \in Seq(Request)
           /\ \A x \in Sent(When(condition, <<m>>)) : x = m /\ condition
           /\ condition => m \in Sent(When(condition, <<m>>))
<1>1. CASE condition
  <2>1. PICK t : t = <<m>>
    OBVIOUS
  <2>2. t \in Seq(Request) /\ Sent(t) = {m}
    BY <2>1, SentFew
  <2>. QED BY <1>1, <2>1, <2>2 DEF When
<1>2. CASE ~condition
  <2>1. PICK t : t = <<>>
    OBVIOUS
  <2>2. t \in Seq(Request) /\ Sent(t) = {}
    BY <2>1, SentFew
  <2>. QED BY <1>2, <2>1, <2>2 DEF When
<1>. QED BY <1>1, <1>2

\* What the host tells everyone (HostWait::Tell).
LEMMA TellType ==
    ASSUME NoticeTypes, NEW phases \in Seq(Notice), Tell(phases)
    PROVE  NoticeTypes'
BY DEF NoticeTypes, Tell

\* A sequence of one notice, and of two.
LEMMA NoticesType ==
    /\ \A m \in Notice : <<m>> \in Seq(Notice)
    /\ \A m, n \in Notice : Append(<<m>>, n) \in Seq(Notice)
OBVIOUS

\* The end of a wait (HostWait::End).
LEMMA EndType ==
    ASSUME HostTypes, NoticeTypes, End, lastId' = lastId, wait # NoWait => wait.id <= lastId
    PROVE  HostTypes' /\ NoticeTypes'
<1>1. ASSUME wait = NoWait PROVE HostTypes' /\ NoticeTypes'
  BY <1>1 DEF End, HostTypes, NoticeTypes
<1>2. ASSUME wait # NoWait PROVE HostTypes' /\ NoticeTypes'
  <2>1. wait.id \in Nat /\ wait.left \in 0 .. 24 /\ wait.id \in 0 .. lastId
    BY <1>2 DEF HostTypes
  <2>2. Phase("finished", wait.id, wait.left) \in Notice
    BY <2>1, MessageTypes
  <2>3. NoticeTypes'
    BY <1>2, <2>2, NoticesType, TellType DEF End
  <2>4. NoWait \in [id: Nat, left: 0 .. 24, pending: SUBSET Players, running: BOOLEAN]
    BY DEF NoWait
  <2>. QED BY <1>2, <2>1, <2>3, <2>4 DEF End, HostTypes
<1>. QED BY <1>1, <1>2

\* A reset leaves the types (WaitService::Reset).
LEMMA ResetType ==
    ASSUME ServiceTypes, EngineTypes, NEW p \in Players, Reset(p), rest' \in [Players -> 0 .. 24]
    PROVE  ServiceTypes' /\ EngineTypes'
<1>1. id' \in [Players -> Nat] /\ left' \in [Players -> 0 .. 24]
  BY DEF ServiceTypes, Reset
<1>2. steps' \in [Players -> Seq(0 .. 24)]
  BY DEF ServiceTypes, Reset
<1>3. pending' \in [Players -> BOOLEAN] /\ cancelling' \in [Players -> BOOLEAN] /\ ready' \in [Players -> BOOLEAN]
  BY DEF ServiceTypes, Reset
<1>4. running' \in [Players -> BOOLEAN] /\ finished' \in [Players -> BOOLEAN]
  BY DEF ServiceTypes, Reset
<1>5. menu' \in [Players -> BOOLEAN] /\ begun' \in [Players -> BOOLEAN]
  BY DEF EngineTypes, Reset
<1>. QED BY <1>1, <1>2, <1>3, <1>4, <1>5 DEF ServiceTypes, EngineTypes

\* The rows a closing menu asks for (GuestWait::OnMenu).
LEMMA ClosingType ==
    ASSUME EngineTypes, WorldTypes, NEW p \in Players, MenuCloses(p)
    PROVE  WorldTypes'
<1>1. worldId' \in [Players -> Nat]
  BY DEF WorldTypes, MenuCloses
<1>2. worldDue' \in [Players -> BOOLEAN]
  BY DEF WorldTypes, EngineTypes, MenuCloses
<1>3. owed' \in [Players -> BOOLEAN]
  BY DEF WorldTypes, EngineTypes, MenuCloses
<1>. QED BY <1>1, <1>2, <1>3 DEF WorldTypes

\* What keeps the types by itself: the wait that runs has an id that was given.
IdGiven == wait # NoWait => wait.id <= lastId
AllTypes ==
    /\ ServiceTypes /\ EngineTypes /\ WorldTypes /\ ConnTypes /\ CountTypes
    /\ RequestTypes /\ NoticeTypes /\ HostTypes /\ IdGiven
gameTypes == <<serviceVars, engineVars, worldVars>>

\* Steps that leave variables alone leave their types.
LEMMA KeptTypes ==
    /\ ServiceTypes /\ UNCHANGED serviceVars => ServiceTypes'
    /\ EngineTypes /\ UNCHANGED engineVars => EngineTypes'
    /\ WorldTypes /\ UNCHANGED worldVars => WorldTypes'
    /\ ConnTypes /\ UNCHANGED connVars => ConnTypes'
    /\ CountTypes /\ UNCHANGED <<asks, cancels>> => CountTypes'
    /\ RequestTypes /\ UNCHANGED requests => RequestTypes'
    /\ NoticeTypes /\ UNCHANGED notices => NoticeTypes'
    /\ HostTypes /\ IdGiven /\ UNCHANGED hostVars => HostTypes' /\ IdGiven'
<1>1. ServiceTypes /\ UNCHANGED serviceVars => ServiceTypes'
  BY Zenon DEF ServiceTypes, serviceVars
<1>2. EngineTypes /\ UNCHANGED engineVars => EngineTypes'
  BY Zenon DEF EngineTypes, engineVars
<1>3. WorldTypes /\ UNCHANGED worldVars => WorldTypes'
  BY Zenon DEF WorldTypes, worldVars
<1>4. ConnTypes /\ UNCHANGED connVars => ConnTypes'
  BY Zenon DEF ConnTypes, connVars
<1>5. CountTypes /\ UNCHANGED <<asks, cancels>> => CountTypes'
  BY Zenon DEF CountTypes
<1>6. RequestTypes /\ UNCHANGED requests => RequestTypes'
  BY Zenon DEF RequestTypes
<1>7. NoticeTypes /\ UNCHANGED notices => NoticeTypes'
  BY Zenon DEF NoticeTypes
<1>8. HostTypes /\ IdGiven /\ UNCHANGED hostVars => HostTypes' /\ IdGiven'
  BY DEF HostTypes, IdGiven, hostVars, NoWait
<1>. QED BY <1>1, <1>2, <1>3, <1>4, <1>5, <1>6, <1>7, <1>8

\* The rules' answers leave the types (HostWait::OnCommand).
LEMMA ActedType ==
    ASSUME HostTypes, NoticeTypes, IdGiven, NEW p \in Players, NEW m \in Request, Acted(p, m)
    PROVE  HostTypes' /\ NoticeTypes' /\ IdGiven'
<1>0. lastId \in Nat /\ m.left \in 0 .. 24 /\ m.id \in Nat /\ wait.id \in Nat /\ wait.left \in 0 .. 24
      /\ completed \in Nat /\ Members \subseteq Players /\ NoWait.id = 0
      /\ NoWait \in [id: Nat, left: 0 .. 24, pending: SUBSET Players, running: BOOLEAN]
  BY MessageTypes DEF HostTypes, Members, NoWait
<1>1. ASSUME OnStart(m) PROVE HostTypes' /\ NoticeTypes' /\ IdGiven'
  <2>0. lastId + 1 \in Nat
    BY <1>0
  <2>1. Phase("preparing", lastId + 1, m.left) \in Notice
    BY <1>0, <2>0, MessageTypes
  <2>2. NoticeTypes'
    BY <1>1, <2>1, NoticesType, TellType DEF OnStart
  <2>. QED BY <1>0, <1>1, <2>2 DEF OnStart, HostTypes, IdGiven
<1>2. ASSUME ForThisWait(m), OnReady(p) PROVE HostTypes' /\ NoticeTypes' /\ IdGiven'
  <2>1. Phase("running", wait.id, wait.left) \in Notice
    BY <1>0, MessageTypes
  <2>2. NoticeTypes'
    <3>1. CASE LastAsked(p)
      BY <1>2, <2>1, <3>1, NoticesType, TellType DEF OnReady
    <3>2. CASE ~LastAsked(p)
      BY <1>2, <3>2 DEF OnReady, NoticeTypes
    <3>. QED BY <3>1, <3>2
  <2>3. wait' \in [id: Nat, left: 0 .. 24, pending: SUBSET Players, running: BOOLEAN] /\ wait'.id = wait.id
    <3>1. LastAsked(p) \in BOOLEAN
      BY DEF LastAsked
    <3>. QED BY <1>2, <3>1 DEF OnReady, HostTypes
  <2>. QED BY <1>2, <2>2, <2>3 DEF OnReady, HostTypes, IdGiven, ForThisWait
<1>3. ASSUME ForThisWait(m), OnProgress(p, m.left) PROVE HostTypes' /\ NoticeTypes' /\ IdGiven'
  <2>0. 0 \in 0 .. 24
    OBVIOUS
  <2>1. Phase("progress", wait.id, m.left) \in Notice /\ Phase("finished", wait.id, 0) \in Notice
    BY <1>0, <2>0, MessageTypes
  <2>2. wait.id <= lastId /\ lastId' = lastId
    BY <1>3 DEF ForThisWait, IdGiven, OnProgress
  <2>3. ASSUME m.left # 0 PROVE HostTypes' /\ NoticeTypes' /\ IdGiven'
    <3>1. NoticeTypes'
      BY <1>3, <2>1, <2>3, NoticesType, TellType DEF OnProgress
    <3>2. wait' \in [id: Nat, left: 0 .. 24, pending: SUBSET Players, running: BOOLEAN] /\ wait'.id = wait.id
      BY <1>0, <1>3, <2>3 DEF OnProgress, HostTypes
    <3>. QED BY <1>3, <2>2, <2>3, <3>1, <3>2 DEF OnProgress, HostTypes, IdGiven
  <2>4. ASSUME m.left = 0 PROVE HostTypes' /\ NoticeTypes' /\ IdGiven'
    <3>1. NoticeTypes'
      BY <1>3, <2>1, <2>4, NoticesType, TellType DEF OnProgress
    <3>. QED BY <1>0, <1>3, <2>2, <2>4, <3>1 DEF OnProgress, HostTypes, IdGiven
  <2>. QED BY <2>3, <2>4
<1>4. ASSUME End, UNCHANGED lastId PROVE HostTypes' /\ NoticeTypes' /\ IdGiven'
  BY <1>0, <1>4, EndType DEF End, IdGiven
<1>5. ASSUME OnWorldRequest(p, m.id) PROVE HostTypes' /\ NoticeTypes' /\ IdGiven'
  <2>1. Phase("world", m.id, 0) \in Notice
    BY <1>0, MessageTypes
  <2>2. NoticeTypes'
    BY <1>5, <2>1 DEF OnWorldRequest, NoticeTypes
  <2>. QED BY <1>5, <2>2, KeptTypes DEF OnWorldRequest
<1>. QED BY <1>1, <1>2, <1>3, <1>4, <1>5 DEF Acted

\* The types are kept by every step.
LEMMA TypeStep == ASSUME AllTypes, Next PROVE AllTypes'
<1>. USE DEF AllTypes
<1>0. \A p \in Players : /\ id[p] \in Nat /\ worldId[p] \in Nat /\ left[p] \in 0 .. 24 /\ rest[p] \in 0 .. 24
                         /\ requests[p] \in Seq(Request) /\ notices[p] \in Seq(Notice)
                         /\ steps[p] \in Seq(0 .. 24)
  BY DEF ServiceTypes, EngineTypes, WorldTypes, RequestTypes, NoticeTypes
<1>0a. \A p \in Players : menu[p] \in BOOLEAN /\ worldDue[p] \in BOOLEAN /\ begun[p] \in BOOLEAN
  BY DEF EngineTypes, WorldTypes
<1>1. ASSUME NEW p \in Players, HostReads(p) PROVE AllTypes'
  <2>1. PICK m \in Request : m = Head(requests[p])
    BY <1>0, <1>1, ReadFacts DEF HostReads
  <2>2. RequestTypes'
    <3>1. Tail(requests[p]) \in Seq(Request) /\ requests' = [requests EXCEPT ![p] = Tail(requests[p])]
      BY <1>0, <1>1, ReadFacts DEF HostReads
    <3>2. PICK t : t = Tail(requests[p])
      OBVIOUS
    <3>. QED BY <3>1, <3>2 DEF RequestTypes
  <2>3. HostTypes' /\ NoticeTypes' /\ IdGiven'
    <3>1. ASSUME Acted(p, m) PROVE HostTypes' /\ NoticeTypes' /\ IdGiven'
      BY <3>1, ActedType
    <3>2. ASSUME UNCHANGED <<notices, hostVars>> PROVE HostTypes' /\ NoticeTypes' /\ IdGiven'
      BY <3>2, KeptTypes
    <3>. QED BY <1>1, <2>1, <3>1, <3>2 DEF HostReads
  <2>. QED BY <1>1, <2>2, <2>3, KeptTypes DEF HostReads, gameVars
<1>2. ASSUME NEW p \in Players, GameReads(p) PROVE AllTypes'
  <2>1. PICK m \in Notice : m = Head(notices[p])
    BY <1>0, <1>2, ReadFacts DEF GameReads
  <2>1a. m.id \in Nat /\ m.left \in 0 .. 24
    BY MessageTypes
  <2>2. NoticeTypes'
    <3>1. Tail(notices[p]) \in Seq(Notice) /\ notices' = [notices EXCEPT ![p] = Tail(notices[p])]
      BY <1>0, <1>2, ReadFacts DEF GameReads
    <3>2. PICK t : t = Tail(notices[p])
      OBVIOUS
    <3>. QED BY <3>1, <3>2 DEF NoticeTypes
  <2>3. ASSUME OnPreparing(p, m) PROVE RequestTypes' /\ ServiceTypes' /\ EngineTypes' /\ WorldTypes'
    <3>1. RequestTypes'
      <4>1. PICK fit \in BOOLEAN : Sends(p, When(~(~cancelling[p] /\ fit), <<Stop(m.id)>>))
        BY <2>3 DEF OnPreparing
      <4>2. When(~(~cancelling[p] /\ fit), <<Stop(m.id)>>) \in Seq(Request)
        BY <2>1a, MessageTypes, WhenType
      <4>. QED BY <4>1, <4>2, SendsType
    <3>2. id' \in [Players -> Nat] /\ left' \in [Players -> 0 .. 24] /\ steps' \in [Players -> Seq(0 .. 24)]
      BY <2>1a, <2>3 DEF OnPreparing, ServiceTypes
    <3>3. pending' \in [Players -> BOOLEAN] /\ cancelling' \in [Players -> BOOLEAN] /\ ready' \in [Players -> BOOLEAN]
      BY <2>3 DEF OnPreparing, ServiceTypes
    <3>4. running' \in [Players -> BOOLEAN] /\ finished' \in [Players -> BOOLEAN]
      BY <2>3 DEF OnPreparing, ServiceTypes
    <3>5. menu' \in [Players -> BOOLEAN] /\ begun' \in [Players -> BOOLEAN]
      BY <2>3 DEF OnPreparing, EngineTypes
    <3>6. WorldTypes'
      BY <2>1a, <2>3 DEF OnPreparing, WorldTypes, CellsLeft
    <3>7. rest' = rest
      BY <2>3 DEF OnPreparing
    <3>. QED BY <3>1, <3>2, <3>3, <3>4, <3>5, <3>6, <3>7 DEF ServiceTypes, EngineTypes
  <2>4. ASSUME OnRunning(p, m) PROVE RequestTypes' /\ ServiceTypes' /\ EngineTypes' /\ WorldTypes'
    <3>1. running' \in [Players -> BOOLEAN] /\ begun' \in [Players -> BOOLEAN]
      BY <2>4 DEF OnRunning, ServiceTypes, EngineTypes
    <3>2. rest' \in [Players -> 0 .. 24]
      BY <2>4, <1>0 DEF OnRunning, EngineTypes
    <3>. QED BY <2>4, <3>1, <3>2, KeptTypes, Zenon DEF OnRunning, ServiceTypes, EngineTypes
  <2>5. ASSUME OnHostProgress(p, m) PROVE RequestTypes' /\ ServiceTypes' /\ EngineTypes' /\ WorldTypes'
    <3>1. left' \in [Players -> 0 .. 24]
      BY <2>5, <2>1a DEF OnHostProgress, ServiceTypes
    <3>2. steps' \in [Players -> Seq(0 .. 24)]
      BY <2>5, <2>1a, <1>0 DEF OnHostProgress, ServiceTypes
    <3>. QED BY <2>5, <3>1, <3>2, KeptTypes, Zenon DEF OnHostProgress, ServiceTypes
  <2>6. ASSUME OnFinished(p, m) PROVE RequestTypes' /\ ServiceTypes' /\ EngineTypes' /\ WorldTypes'
    <3>1. finished' \in [Players -> BOOLEAN]
      BY <2>6 DEF OnFinished, ServiceTypes
    <3>2. worldDue' \in [Players -> BOOLEAN]
      BY <2>6 DEF OnFinished, WorldTypes
    <3>. QED BY <2>6, <3>1, <3>2, KeptTypes, Zenon DEF OnFinished, ServiceTypes, WorldTypes
  <2>7. ASSUME OnWorld(p, m) PROVE RequestTypes' /\ ServiceTypes' /\ EngineTypes' /\ WorldTypes'
    <3>1. owed' \in [Players -> BOOLEAN]
      BY <2>7 DEF OnWorld, WorldTypes
    <3>. QED BY <2>7, <3>1, KeptTypes, Zenon DEF OnWorld, WorldTypes
  <2>8. ASSUME UNCHANGED <<requests, serviceVars, engineVars, worldVars>>
        PROVE  RequestTypes' /\ ServiceTypes' /\ EngineTypes' /\ WorldTypes'
    BY <2>8, KeptTypes
  <2>9. RequestTypes' /\ ServiceTypes' /\ EngineTypes' /\ WorldTypes'
    BY <1>2, <2>1, <2>3, <2>4, <2>5, <2>6, <2>7, <2>8 DEF GameReads
  <2>. QED BY <1>2, <2>2, <2>9, KeptTypes DEF GameReads
<1>3. ASSUME NEW p \in Players, Join(p) PROVE AllTypes'
  <2>1. ConnTypes'
    BY <1>3 DEF Join, ConnTypes
  <2>. QED BY <1>3, <2>1, KeptTypes DEF Join, gameVars
<1>4. ASSUME NEW p \in Players, Enter(p) PROVE AllTypes'
  <2>1. ConnTypes'
    BY <1>4 DEF Enter, ConnTypes
  <2>2. End /\ lastId' = lastId
    BY <1>4 DEF Enter, ArrivalEnds
  <2>3. HostTypes' /\ NoticeTypes' /\ IdGiven'
    BY <2>2, EndType DEF End, IdGiven
  <2>. QED BY <1>4, <2>1, <2>3, KeptTypes DEF Enter, gameVars
<1>5. ASSUME NEW p \in Players, HostLosesGuest(p) PROVE AllTypes'
  <2>1. ConnTypes'
    BY <1>5 DEF HostLosesGuest, ConnTypes
  <2>2. End /\ lastId' = lastId
    BY <1>5 DEF HostLosesGuest
  <2>3. HostTypes' /\ NoticeTypes' /\ IdGiven'
    BY <2>2, EndType DEF End, IdGiven
  <2>4. RequestTypes'
    BY <1>5 DEF HostLosesGuest, RequestTypes
  <2>. QED BY <1>5, <2>1, <2>3, <2>4, KeptTypes DEF HostLosesGuest, gameVars
<1>6. ASSUME NEW p \in Players, GameLosesHost(p) PROVE AllTypes'
  <2>1. ConnTypes'
    BY <1>6 DEF GameLosesHost, ConnTypes
  <2>2. NoticeTypes' /\ rest' \in [Players -> 0 .. 24]
    BY <1>6 DEF GameLosesHost, NoticeTypes, EngineTypes
  <2>3. WorldTypes'
    BY <1>6 DEF GameLosesHost, WorldTypes
  <2>4. ServiceTypes' /\ EngineTypes'
    BY <1>6, <2>2, ResetType DEF GameLosesHost
  <2>. QED BY <1>6, <2>1, <2>2, <2>3, <2>4, KeptTypes DEF GameLosesHost
<1>7. ASSUME NEW p \in Players, Cancel(p) PROVE AllTypes'
  <2>1. RequestTypes'
    <3>1. Stop(id[p]) \in Request
      BY <1>0, MessageTypes
    <3>2. <<Stop(id[p])>> \in Seq(Request)
      BY <3>1
    <3>. QED BY <1>7, <3>2, SendsType, KeptTypes DEF Cancel
  <2>2. cancelling' \in [Players -> BOOLEAN]
    BY <1>7 DEF Cancel, ServiceTypes
  <2>3. ServiceTypes'
    BY <1>7, <2>2, Zenon DEF Cancel, ServiceTypes
  <2>4. CountTypes'
    BY <1>7, BoundsAssumption DEF Cancel, CountTypes
  <2>. QED BY <1>7, <2>1, <2>3, <2>4, KeptTypes DEF Cancel
<1>8. ASSUME NEW p \in Players, AnswerLate(p) PROVE AllTypes'
  <2>1. ServiceTypes' /\ EngineTypes'
    BY <1>8, ResetType DEF AnswerLate, EngineTypes
  <2>2. WorldTypes'
    BY <1>8, ClosingType DEF AnswerLate
  <2>3. RequestTypes'
    BY <1>0, <1>0a, <1>8, MessageTypes, WhenType, SendsType DEF AnswerLate, Asking
  <2>. QED BY <1>8, <2>1, <2>2, <2>3, KeptTypes DEF AnswerLate
<1>9. ASSUME NEW p \in Players, Load(p) PROVE AllTypes'
  <2>1. rest' \in [Players -> 0 .. 24]
    BY <1>9 DEF Load, EngineTypes
  <2>2. ServiceTypes' /\ EngineTypes'
    BY <1>9, <2>1, ResetType DEF Load
  <2>3. WorldTypes'
    BY <1>9 DEF Load, WorldTypes
  <2>4. RequestTypes'
    BY <1>0, <1>9, MessageTypes, WhenType, SendsType DEF Load
  <2>. QED BY <1>9, <2>2, <2>3, <2>4, KeptTypes DEF Load
<1>10. ASSUME NEW p \in Players, NEW h \in Hours, Ask(p, h) PROVE AllTypes'
  <2>1. RequestTypes'
    <3>1. <<Start(h)>> \in Seq(Request)
      BY MessageTypes
    <3>. QED BY <1>10, <3>1, SendsType DEF Ask
  <2>2. pending' \in [Players -> BOOLEAN] /\ menu' \in [Players -> BOOLEAN]
    BY <1>10 DEF Ask, ServiceTypes, EngineTypes
  <2>3. ServiceTypes' /\ EngineTypes'
    BY <1>10, <2>2, Zenon DEF Ask, ServiceTypes, EngineTypes
  <2>4. CountTypes'
    BY <1>10, BoundsAssumption DEF Ask, CountTypes
  <2>. QED BY <1>10, <2>1, <2>3, <2>4, KeptTypes DEF Ask
<1>11. ASSUME NEW p \in Players, NEW menuReady \in BOOLEAN, Update(p, menuReady) PROVE AllTypes'
  <2>1. rest' \in [Players -> 0 .. 24]
    <3>1. steps[p] # <<>> => steps[p][Len(steps[p])] \in 0 .. 24
      BY <1>0, SMTT(30)
    <3>2. PICK v \in 0 .. 24 : rest' = [rest EXCEPT ![p] = v]
      BY <1>0, <1>11, <3>1 DEF Update, Applied
    <3>. QED BY <3>2 DEF EngineTypes
  <2>2. When(menuReady, <<Ready(id[p])>>) \in Seq(Request)
    BY <1>0, MessageTypes, WhenType
  <2>3. ASSUME finished[p] PROVE RequestTypes' /\ ServiceTypes' /\ EngineTypes' /\ WorldTypes'
    <3>1. ServiceTypes' /\ EngineTypes'
      BY <1>11, <2>1, <2>3, ResetType DEF Update
    <3>2. WorldTypes'
      BY <1>11, <2>3, ClosingType DEF Update
    <3>3. When(Asking(p, worldDue[p]), <<AskWorld(worldId[p])>>) \in Seq(Request)
      BY <1>0, <1>0a, MessageTypes, WhenType DEF Asking
    <3>4. (When(menuReady, <<Ready(id[p])>>) \o When(Asking(p, worldDue[p]), <<AskWorld(worldId[p])>>)) \in Seq(Request)
      BY <2>2, <3>3, SentJoin, Zenon
    <3>5. RequestTypes'
      BY <1>11, <2>3, <3>4, SendsType DEF Update
    <3>. QED BY <3>1, <3>2, <3>5
  <2>4. ASSUME ~finished[p] PROVE RequestTypes' /\ ServiceTypes' /\ EngineTypes' /\ WorldTypes'
    <3>1. RequestTypes'
      BY <1>11, <2>2, <2>4, SendsType DEF Update
    <3>2. ready' \in [Players -> BOOLEAN]
      <4>1. ready' = [ready EXCEPT ![p] = ready[p] \/ menuReady]
        BY <1>11, <2>4 DEF Update
      <4>2. (ready[p] \/ menuReady) \in BOOLEAN
        OBVIOUS
      <4>. QED BY <4>1, <4>2, Zenon DEF ServiceTypes
    <3>3. steps' \in [Players -> Seq(0 .. 24)]
      <4>1. steps' = [steps EXCEPT ![p] = <<>>]
        BY <1>11, <2>4, Zenon DEF Update
      <4>. QED BY <4>1 DEF ServiceTypes
    <3>. QED BY <1>11, <2>1, <2>4, <3>1, <3>2, <3>3, KeptTypes, Zenon DEF Update, ServiceTypes, EngineTypes
  <2>. QED BY <1>11, <2>3, <2>4, KeptTypes DEF Update
<1>12. ASSUME NativeStep PROVE AllTypes'
  <2>1. PICK v \in StepTo(Host) :
          /\ rest' = [rest EXCEPT ![Host] = v]
          /\ left' = [left EXCEPT ![Host] = IF id[Host] # 0 /\ running[Host] /\ v < left[Host] THEN v ELSE @]
          /\ Sends(Host, When(id[Host] # 0 /\ running[Host] /\ v < left[Host], <<Step(id[Host], v)>>))
    BY <1>12 DEF NativeStep
  <2>1a. Host \in Players /\ rest[Host] \in 0 .. 24
    BY <1>0, PlayersAssumption
  <2>2. v \in 0 .. 24 /\ Host \in Players
    BY <2>1a DEF StepTo
  <2>3. rest' \in [Players -> 0 .. 24]
    BY <2>1, <2>2 DEF EngineTypes
  <2>4. left' \in [Players -> 0 .. 24]
    BY <2>1, <2>2 DEF ServiceTypes
  <2>5. RequestTypes'
    <3>1. (id[Host] # 0 /\ running[Host] /\ v < left[Host]) \in BOOLEAN
      BY <2>2 DEF ServiceTypes
    <3>2. When(id[Host] # 0 /\ running[Host] /\ v < left[Host], <<Step(id[Host], v)>>) \in Seq(Request)
      BY <1>0, <2>2, <3>1, MessageTypes, WhenType
    <3>. QED BY <2>1, <2>2, <3>2, SendsType
  <2>6. ServiceTypes' /\ EngineTypes'
    BY <1>12, <2>3, <2>4, Zenon DEF NativeStep, ServiceTypes, EngineTypes
  <2>. QED BY <1>12, <2>5, <2>6, KeptTypes DEF NativeStep
<1>13. ASSUME Stall PROVE AllTypes'
  <2>1. End /\ lastId' = lastId
    BY <1>13 DEF Stall
  <2>2. HostTypes' /\ NoticeTypes' /\ IdGiven'
    BY <2>1, EndType DEF End, IdGiven
  <2>. QED BY <1>13, <2>2, KeptTypes DEF Stall, gameVars
<1>. QED BY <1>1, <1>2, <1>3, <1>4, <1>5, <1>6, <1>7, <1>8, <1>9, <1>10, <1>11, <1>12, <1>13, Zenon DEF Next

\* Every variable keeps its type (HostWait.h, WaitService.h, GuestWait.h: the members' types).
THEOREM WaitTypes == Spec => []AllTypes
<1>1. Init => AllTypes
  BY PlayersAssumption, BoundsAssumption
     DEF Init, AllTypes, ServiceTypes, EngineTypes, WorldTypes, ConnTypes, CountTypes, RequestTypes, NoticeTypes,
         HostTypes, IdGiven, NoWait
<1>2. AllTypes /\ [Next]_vars => AllTypes'
  <2>1. ASSUME AllTypes, UNCHANGED vars PROVE AllTypes'
    BY <2>1, KeptTypes DEF AllTypes, vars, gameVars
  <2>. QED BY <2>1, TypeStep
<1>. QED BY <1>1, <1>2, PTL DEF Spec

\* The type invariant that the run checks.
THEOREM TypeCorrect == Spec => []TypeOK
<1>1. AllTypes => TypeOK
  BY TypeParts DEF AllTypes
<1>. QED BY <1>1, WaitTypes, PTL

-----------------------------------------------------------------------------
\* The invariant.  It is what every step keeps, and the properties follow from it.

Increasing(s) ==
    \A n, k \in DOMAIN s : n < k /\ s[n].phase = "preparing" /\ s[k].phase = "preparing" => s[n].id < s[k].id

Preparing(p) == {n \in Sent(notices[p]) : n.phase = "preparing"}

\* The host's ids: the last wait is the one that runs, or the one that ended.
HostOK ==
    /\ IF wait = NoWait THEN completed = lastId ELSE wait.id = lastId /\ completed + 1 = lastId
    /\ wait.running => wait.pending = {}
    /\ entered \subseteq Members

\* Nothing names a wait that was not begun, nor an end that has not come.
IdsOK(p) ==
    /\ id[p] <= lastId /\ worldId[p] <= lastId
    /\ \A m \in Sent(requests[p]) :
         m.id <= lastId /\ (m.type = "world" => 1 <= m.id /\ m.id <= completed)
    /\ \A n \in Sent(notices[p]) :
         1 <= n.id /\ n.id <= lastId /\ (n.phase = "finished" => n.id <= completed)
    /\ conn[p] = "none" =>
         id[p] = 0 /\ worldId[p] = 0 /\ ~owed[p] /\ requests[p] = <<>> /\ notices[p] = <<>>

\* A native rest follows what its service has heard of the host's.
RestFollows(p) ==
    /\ steps[p] = <<>> => rest[p] = left[p]
    /\ steps[p] # <<>> => steps[p][Len(steps[p])] = left[p] /\ left[p] <= rest[p]

ServiceOK(p) ==
    /\ pending[p] => id[p] = 0
    /\ finished[p] => id[p] <= completed
    /\ ready[p] => menu[p]
    /\ running[p] => id[p] # 0 /\ menu[p] /\ begun[p] /\ RestFollows(p)
    /\ steps[p] # <<>> => running[p] /\ p # Host
    /\ worldDue[p] => p # Host /\ 1 <= worldId[p] /\ worldId[p] <= completed
    /\ owed[p] => p # Host

\* New waits come in order, each after what the game is in and after what it has said.
OrderOK(p) ==
    /\ Increasing(notices[p])
    /\ \A n \in Preparing(p) :
         /\ id[p] < n.id
         /\ \A m \in Sent(requests[p]) : m.type = "ready" => m.id < n.id
         /\ \A k \in Sent(notices[p]) : k.phase = "running" => k.id # n.id

\* The word that a rest runs finds the menu open.
RunningOK(p) == \A n \in Sent(notices[p]) : n.phase = "running" /\ n.id = id[p] => menu[p]

\* A player the host does not wait for holds to the wait, or has taken its word back.
Holds(p) == (id[p] = lastId /\ ready[p]) \/ Stop(lastId) \in Sent(requests[p])
ReadySent(p) == \E m \in Sent(requests[p]) : m.type = "ready" /\ m.id = lastId
WordOK(p) ==
    Online(p) /\ wait # NoWait =>
        /\ ReadySent(p) => Holds(p)
        /\ p \in entered /\ p \notin wait.pending => Holds(p)
        /\ (p \notin wait.pending \/ ReadySent(p)) /\ id[p] = lastId => ready[p]
        /\ \A n \in Preparing(p) : n.id = lastId => p \in wait.pending

\* A game that knows an older wait has the last one on its way.
LastIsComing(p) ==
    Online(p) /\ ((worldId[p] # 0 /\ worldId[p] < lastId) \/ \E n \in Preparing(p) : n.id < lastId) =>
        \E n \in Preparing(p) : n.id = lastId
RowsOK(p) ==
    Online(p) /\ owed[p] =>
        \/ AskWorld(worldId[p]) \in Sent(requests[p])
        \/ \E n \in Sent(notices[p]) : \/ n.phase = "world" /\ n.id = worldId[p]
                                       \/ n.phase = "preparing" /\ n.id > worldId[p]

PlayerOK(p) ==
    IdsOK(p) /\ ServiceOK(p) /\ OrderOK(p) /\ RunningOK(p) /\ WordOK(p) /\ LastIsComing(p) /\ RowsOK(p)
WaitInv == HostOK /\ \A p \in Players : PlayerOK(p)

\* What is known of one player and of the host, as numbers and sets.
LEMMA PlayerTypes ==
    ASSUME AllTypes, NEW p \in Players
    PROVE  /\ id[p] \in Nat /\ worldId[p] \in Nat /\ left[p] \in 0 .. 24 /\ rest[p] \in 0 .. 24
           /\ lastId \in Nat /\ completed \in Nat /\ wait.id \in Nat /\ wait.left \in 0 .. 24
           /\ requests[p] \in Seq(Request) /\ notices[p] \in Seq(Notice) /\ steps[p] \in Seq(0 .. 24)
           /\ \A m \in Sent(requests[p]) : m \in Request /\ m.id \in Nat
           /\ \A n \in Sent(notices[p]) : n \in Notice /\ n.id \in Nat
<1>1. /\ id[p] \in Nat /\ worldId[p] \in Nat /\ left[p] \in 0 .. 24 /\ rest[p] \in 0 .. 24
      /\ lastId \in Nat /\ completed \in Nat /\ wait.id \in Nat /\ wait.left \in 0 .. 24
      /\ requests[p] \in Seq(Request) /\ notices[p] \in Seq(Notice) /\ steps[p] \in Seq(0 .. 24)
  BY DEF AllTypes, ServiceTypes, EngineTypes, WorldTypes, RequestTypes, NoticeTypes, HostTypes
<1>2. Sent(requests[p]) \subseteq Request /\ Sent(notices[p]) \subseteq Notice
  BY <1>1, SentFew
<1>. QED BY <1>1, <1>2, MessageTypes

\* The fields of the messages.
LEMMA MessageFields ==
    /\ \A i : /\ Ready(i).type = "ready" /\ Ready(i).id = i
              /\ Stop(i).type = "stop" /\ Stop(i).id = i
              /\ AskWorld(i).type = "world" /\ AskWorld(i).id = i
    /\ \A i, v : Step(i, v).type = "progress" /\ Step(i, v).id = i
    /\ \A h : Start(h).type = "start" /\ Start(h).id = 0
    /\ \A f, i, v : Phase(f, i, v).phase = f /\ Phase(f, i, v).id = i /\ Phase(f, i, v).left = v
    /\ \A m \in Request : m.type = "world" /\ m.left = 0 => m = AskWorld(m.id)
BY DEF Ready, Stop, AskWorld, Step, Start, Phase, Request

\* A step that leaves a player and the host alone leaves what is known of the player.
Alone(p) ==
    /\ conn'[p] = conn[p] /\ (p \in entered' <=> p \in entered)
    /\ id'[p] = id[p] /\ left'[p] = left[p] /\ steps'[p] = steps[p] /\ pending'[p] = pending[p]
    /\ ready'[p] = ready[p] /\ running'[p] = running[p] /\ finished'[p] = finished[p]
    /\ menu'[p] = menu[p] /\ begun'[p] = begun[p] /\ rest'[p] = rest[p]
    /\ worldId'[p] = worldId[p] /\ worldDue'[p] = worldDue[p] /\ owed'[p] = owed[p]
    /\ requests'[p] = requests[p] /\ notices'[p] = notices[p]

\* A step that leaves a game's service, menu and channels alone keeps what is said of it.
LEMMA AloneKept ==
    ASSUME NEW p \in Players, PlayerOK(p), Alone(p), UNCHANGED hostVars
    PROVE  PlayerOK(p)'
<1>1. IdsOK(p)'
  BY Zenon DEF PlayerOK, Alone, hostVars, IdsOK
<1>2. ServiceOK(p)'
  BY Zenon DEF PlayerOK, Alone, hostVars, ServiceOK, RestFollows
<1>3. OrderOK(p)' /\ RunningOK(p)'
  BY Zenon DEF PlayerOK, Alone, hostVars, OrderOK, RunningOK, Preparing
<1>4. WordOK(p)'
  BY Zenon DEF PlayerOK, Alone, hostVars, WordOK, Preparing, Online, Holds, ReadySent, NoWait
<1>5. LastIsComing(p)' /\ RowsOK(p)'
  BY SMT DEF PlayerOK, Alone, hostVars, LastIsComing, RowsOK, Online, Preparing
<1>. QED BY <1>1, <1>2, <1>3, <1>4, <1>5 DEF PlayerOK

\* One player's game is all that a step of it changes.
LEMMA OnlyOne ==
    ASSUME WaitInv, NEW p \in Players, \A q \in Players \ {p} : Alone(q), UNCHANGED hostVars,
           entered' = entered, Members' = Members, PlayerOK(p)'
    PROVE  WaitInv'
<1>1. HostOK'
  BY DEF WaitInv, HostOK, hostVars, NoWait
<1>2. ASSUME NEW q \in Players PROVE PlayerOK(q)'
  <2>1. CASE q = p
    BY <2>1
  <2>2. CASE q # p
    BY <2>2, AloneKept DEF WaitInv
  <2>. QED BY <2>1, <2>2
<1>. QED BY <1>1, <1>2 DEF WaitInv

\* A sequence of one request.
LEMMA RequestsType == \A m \in Request : <<m>> \in Seq(Request)
OBVIOUS

\* The value of a changed function.
LEMMA At == ASSUME NEW S, NEW f \in [Players -> S], NEW p \in Players, NEW v
            PROVE  [f EXCEPT ![p] = v][p] = v /\ \A q \in Players \ {p} : [f EXCEPT ![p] = v][q] = f[q]
OBVIOUS

\* What a game sends: to its own channel, after what is there (TransportService::Send).
LEMMA SendsSent ==
    ASSUME AllTypes, NEW p \in Players, NEW msgs \in Seq(Request), Sends(p, msgs)
    PROVE  /\ Sent(requests'[p]) = Sent(requests[p]) \cup Sent(msgs)
           /\ \A q \in Players \ {p} : requests'[q] = requests[q]
<1>1. requests \in [Players -> Seq(Request)] /\ requests[p] \in Seq(Request)
  BY DEF AllTypes, RequestTypes
<1>2. PICK r : r = requests[p] \o msgs
  OBVIOUS
<1>3. Sent(r) = Sent(requests[p]) \cup Sent(msgs)
  BY <1>1, <1>2, SentJoin, SMT
<1>4. requests' = [requests EXCEPT ![p] = r]
  BY <1>2, Zenon DEF Sends
<1>. QED BY <1>1, <1>3, <1>4

\* A player's request for a wait (WaitService::Request).
LEMMA AskKeeps ==
    ASSUME AllTypes, WaitInv, NEW p \in Players, NEW h \in Hours, Ask(p, h)
    PROVE  WaitInv'
<1>1. Sent(requests'[p]) = Sent(requests[p]) \cup {Start(h)} /\ \A q \in Players \ {p} : requests'[q] = requests[q]
  <2>1. PICK msgs : msgs = <<Start(h)>>
    OBVIOUS
  <2>2. msgs \in Seq(Request) /\ Sent(msgs) = {Start(h)}
    BY <2>1, MessageTypes, RequestsType, SentFew
  <2>. QED BY <2>1, <2>2, SendsSent DEF Ask
<1>2. /\ menu'[p] = TRUE /\ pending'[p] = TRUE /\ id[p] = 0
      /\ \A q \in Players \ {p} : menu'[q] = menu[q] /\ pending'[q] = pending[q]
  BY At DEF Ask, AllTypes, ServiceTypes, EngineTypes
<1>3. /\ UNCHANGED <<conn, entered, id, left, steps, ready, running, finished, begun, rest, worldId, worldDue, owed, notices>>
      /\ UNCHANGED hostVars
  BY DEF Ask, connVars, worldVars
<1>4. \A q \in Players \ {p} : Alone(q)
  BY <1>1, <1>2, <1>3, Zenon DEF Alone
<1>5. Members' = Members
  BY <1>3 DEF Members
<1>6. PlayerOK(p)
  BY DEF WaitInv
<1>7. IdsOK(p)'
  BY <1>1, <1>2, <1>3, <1>6, PlayerTypes, MessageFields DEF PlayerOK, IdsOK, hostVars, Ask, Online
<1>8. ServiceOK(p)'
  BY <1>1, <1>2, <1>3, <1>6 DEF PlayerOK, ServiceOK, RestFollows, hostVars
<1>9. OrderOK(p)' /\ RunningOK(p)'
  BY <1>1, <1>2, <1>3, <1>6, MessageFields DEF PlayerOK, OrderOK, RunningOK, Preparing
<1>10. WordOK(p)'
  BY <1>1, <1>2, <1>3, <1>6, MessageFields DEF PlayerOK, WordOK, Online, Holds, ReadySent, Preparing, hostVars
<1>11. LastIsComing(p)' /\ RowsOK(p)'
  BY <1>1, <1>2, <1>3, <1>6 DEF PlayerOK, LastIsComing, RowsOK, Preparing, Online, hostVars
<1>. QED BY <1>3, <1>4, <1>5, <1>7, <1>8, <1>9, <1>10, <1>11, OnlyOne DEF PlayerOK

\* A player's cancel (WaitService::Cancel).
LEMMA CancelKeeps ==
    ASSUME AllTypes, WaitInv, NEW p \in Players, Cancel(p)
    PROVE  WaitInv'
<1>1. /\ Sent(requests[p]) \subseteq Sent(requests'[p])
      /\ \A m \in Sent(requests'[p]) : m \in Sent(requests[p]) \/ m = Stop(id[p])
      /\ conn[p] = "open"
      /\ \A q \in Players \ {p} : requests'[q] = requests[q]
  <2>1. PICK msgs : msgs = <<Stop(id[p])>>
    OBVIOUS
  <2>2. msgs \in Seq(Request) /\ Sent(msgs) = {Stop(id[p])}
    BY <2>1, PlayerTypes, MessageTypes, RequestsType, SentFew
  <2>. QED BY <2>1, <2>2, SendsSent DEF Cancel, Online
<1>2. /\ UNCHANGED <<conn, entered, id, left, steps, pending, ready, running, finished, menu, begun, rest,
                     worldId, worldDue, owed, notices>>
      /\ UNCHANGED hostVars
  BY DEF Cancel, connVars, worldVars, engineVars
<1>3. \A q \in Players \ {p} : Alone(q)
  BY <1>1, <1>2, Zenon DEF Alone
<1>4. Members' = Members
  BY <1>2 DEF Members
<1>5. PlayerOK(p)
  BY DEF WaitInv
<1>6. IdsOK(p)'
  BY <1>1, <1>2, <1>5, PlayerTypes, MessageFields DEF PlayerOK, IdsOK, hostVars
<1>7. ServiceOK(p)'
  BY <1>2, <1>5, Zenon DEF PlayerOK, ServiceOK, RestFollows, hostVars
<1>8. OrderOK(p)' /\ RunningOK(p)'
  BY <1>1, <1>2, <1>5, MessageFields DEF PlayerOK, OrderOK, RunningOK, Preparing
<1>9. WordOK(p)'
  BY <1>1, <1>2, <1>5, MessageFields DEF PlayerOK, WordOK, Online, Holds, ReadySent, Preparing, hostVars
<1>10. LastIsComing(p)' /\ RowsOK(p)'
  BY <1>1, <1>2, <1>5 DEF PlayerOK, LastIsComing, RowsOK, Preparing, Online, hostVars
<1>. QED BY <1>2, <1>3, <1>4, <1>6, <1>7, <1>8, <1>9, <1>10, OnlyOne DEF PlayerOK

\* A native step of the host's rest (WaitService::Stepped).
LEMMA NativeStepKeeps ==
    ASSUME AllTypes, WaitInv, NativeStep
    PROVE  WaitInv'
<1>0. Host \in Players
  BY PlayersAssumption
<1>1. PICK v \in StepTo(Host) :
          /\ rest' = [rest EXCEPT ![Host] = v]
          /\ left' = [left EXCEPT ![Host] = IF id[Host] # 0 /\ running[Host] /\ v < left[Host] THEN v ELSE @]
          /\ Sends(Host, When(id[Host] # 0 /\ running[Host] /\ v < left[Host], <<Step(id[Host], v)>>))
  BY DEF NativeStep
<1>2. v \in 0 .. 24 /\ v < rest[Host]
  <2>1. rest[Host] \in 0 .. 24
    BY <1>0, PlayerTypes
  <2>. QED BY <2>1 DEF StepTo
<1>3. /\ Sent(requests[Host]) \subseteq Sent(requests'[Host])
      /\ \A m \in Sent(requests'[Host]) : m \in Sent(requests[Host]) \/ m = Step(id[Host], v)
      /\ \A q \in Players \ {Host} : requests'[q] = requests[q]
  <2>1. (id[Host] # 0 /\ running[Host] /\ v < left[Host]) \in BOOLEAN /\ Step(id[Host], v) \in Request
    BY <1>0, <1>2, PlayerTypes, MessageTypes DEF AllTypes, ServiceTypes
  <2>2. PICK msgs : msgs = When(id[Host] # 0 /\ running[Host] /\ v < left[Host], <<Step(id[Host], v)>>)
    OBVIOUS
  <2>3. msgs \in Seq(Request) /\ \A x \in Sent(msgs) : x = Step(id[Host], v)
    BY <2>1, <2>2, WhenType
  <2>. QED BY <1>0, <1>1, <2>2, <2>3, SendsSent
<1>4. /\ UNCHANGED <<conn, entered, id, steps, pending, ready, running, finished, menu, begun,
                     worldId, worldDue, owed, notices>>
      /\ UNCHANGED hostVars
  BY DEF NativeStep, connVars, worldVars
<1>5. /\ rest'[Host] = v /\ left'[Host] = IF id[Host] # 0 /\ running[Host] /\ v < left[Host] THEN v ELSE left[Host]
      /\ \A q \in Players \ {Host} : rest'[q] = rest[q] /\ left'[q] = left[q]
  BY <1>0, <1>1, At DEF AllTypes, ServiceTypes, EngineTypes
<1>6. \A q \in Players \ {Host} : Alone(q)
  BY <1>3, <1>4, <1>5, Zenon DEF Alone
<1>7. Members' = Members
  BY <1>4 DEF Members
<1>8. PlayerOK(Host)
  BY <1>0 DEF WaitInv
<1>9. IdsOK(Host)'
  <2>1. conn[Host] = "none" => requests'[Host] = <<>>
    <3>1. conn[Host] = "none" => id[Host] = 0
      BY <1>8 DEF PlayerOK, IdsOK
    <3>2. id[Host] = 0 => When(id[Host] # 0 /\ running[Host] /\ v < left[Host], <<Step(id[Host], v)>>) = <<>>
      BY Zenon DEF When
    <3>3. conn[Host] = "none" => requests[Host] = <<>>
      BY <1>8 DEF PlayerOK, IdsOK
    <3>4. conn[Host] = "none" => requests' = [requests EXCEPT ![Host] = <<>> \o <<>>]
      BY <1>1, <3>1, <3>2, <3>3, Zenon DEF Sends
    <3>. QED BY <1>0, <3>4, At DEF AllTypes, RequestTypes
  <2>. QED BY <2>1, <1>0, <1>3, <1>4, <1>8, PlayerTypes, MessageFields DEF PlayerOK, IdsOK, hostVars
<1>10. ServiceOK(Host)'
  BY <1>0, <1>2, <1>4, <1>5, <1>8, PlayerTypes DEF PlayerOK, ServiceOK, RestFollows, hostVars
<1>11. OrderOK(Host)' /\ RunningOK(Host)'
  BY <1>3, <1>4, <1>8, MessageFields DEF PlayerOK, OrderOK, RunningOK, Preparing
<1>12. WordOK(Host)'
  BY <1>3, <1>4, <1>8, MessageFields DEF PlayerOK, WordOK, Online, Holds, ReadySent, Preparing, hostVars
<1>13. LastIsComing(Host)' /\ RowsOK(Host)'
  BY <1>3, <1>4, <1>8 DEF PlayerOK, LastIsComing, RowsOK, Preparing, Online, hostVars
<1>. QED BY <1>0, <1>4, <1>6, <1>7, <1>9, <1>10, <1>11, <1>12, <1>13, OnlyOne DEF PlayerOK

\* A reset touches one game (WaitService::Reset).
LEMMA ResetAt ==
    ASSUME AllTypes, NEW p \in Players, Reset(p)
    PROVE  /\ id'[p] = 0 /\ left'[p] = 0 /\ steps'[p] = <<>> /\ ~pending'[p] /\ ~ready'[p] /\ ~running'[p]
           /\ ~finished'[p] /\ ~menu'[p] /\ ~begun'[p]
           /\ \A q \in Players \ {p} :
                /\ id'[q] = id[q] /\ left'[q] = left[q] /\ steps'[q] = steps[q] /\ pending'[q] = pending[q]
                /\ ready'[q] = ready[q] /\ running'[q] = running[q] /\ finished'[q] = finished[q]
                /\ menu'[q] = menu[q] /\ begun'[q] = begun[q]
<1>1. id'[p] = 0 /\ left'[p] = 0 /\ \A q \in Players \ {p} : id'[q] = id[q] /\ left'[q] = left[q]
  BY At DEF Reset, AllTypes, ServiceTypes
<1>2. steps'[p] = <<>> /\ \A q \in Players \ {p} : steps'[q] = steps[q]
  BY At DEF Reset, AllTypes, ServiceTypes
<1>3. /\ ~pending'[p] /\ ~ready'[p] /\ \A q \in Players \ {p} : pending'[q] = pending[q] /\ ready'[q] = ready[q]
  BY At DEF Reset, AllTypes, ServiceTypes
<1>4. /\ ~running'[p] /\ ~finished'[p]
      /\ \A q \in Players \ {p} : running'[q] = running[q] /\ finished'[q] = finished[q]
  BY At DEF Reset, AllTypes, ServiceTypes
<1>5. ~menu'[p] /\ ~begun'[p] /\ \A q \in Players \ {p} : menu'[q] = menu[q] /\ begun'[q] = begun[q]
  BY At DEF Reset, AllTypes, EngineTypes
<1>. QED BY <1>1, <1>2, <1>3, <1>4, <1>5

\* What a menu that closes leaves of the rows (GuestWait::OnMenu).
LEMMA ClosesAt ==
    ASSUME AllTypes, NEW p \in Players, MenuCloses(p)
    PROVE  /\ worldId' = worldId
           /\ worldDue'[p] => worldDue[p]
           /\ owed'[p] => owed[p] \/ Asking(p, worldDue[p])
           /\ \A q \in Players \ {p} : worldDue'[q] = worldDue[q] /\ owed'[q] = owed[q]
BY At DEF MenuCloses, AllTypes, WorldTypes, Asking

\* A reset of a game that has said what it must keeps what is known of its player.
LEMMA ResetKeeps ==
    ASSUME AllTypes, WaitInv, NEW p \in Players, Reset(p), Online(p), UNCHANGED hostVars, UNCHANGED connVars,
           notices' = notices, \A q \in Players \ {p} : requests'[q] = requests[q] /\ rest'[q] = rest[q],
           Sent(requests[p]) \subseteq Sent(requests'[p]),
           \A m \in Sent(requests'[p]) : \/ m \in Sent(requests[p])
                                         \/ m = Ready(id[p]) /\ (wait # NoWait => id[p] # lastId)
                                         \/ m = Stop(id[p])
                                         \/ worldDue[p] /\ m = AskWorld(worldId[p]),
           wait # NoWait /\ id[p] = lastId => Stop(lastId) \in Sent(requests'[p]),
           worldId'[p] = worldId[p] \/ (worldId'[p] = 0 /\ ~worldDue'[p] /\ ~owed'[p]),
           worldDue'[p] => worldDue[p],
           owed'[p] => owed[p] \/ (worldDue[p] /\ AskWorld(worldId[p]) \in Sent(requests'[p])),
           \A q \in Players \ {p} : worldId'[q] = worldId[q] /\ worldDue'[q] = worldDue[q] /\ owed'[q] = owed[q]
    PROVE  WaitInv'
<1>1. conn' = conn /\ entered' = entered /\ conn[p] = "open"
  BY DEF connVars, Online
<1>2. \A q \in Players \ {p} : Alone(q)
  BY <1>1, ResetAt, SMT DEF Alone
<1>3. Members' = Members
  BY <1>1 DEF Members
<1>4. PlayerOK(p) /\ HostOK
  BY DEF WaitInv
<1>5. id'[p] = 0 /\ id[p] \in Nat /\ worldId[p] \in Nat /\ lastId \in Nat /\ completed \in Nat
  BY ResetAt, PlayerTypes
<1>6. wait # NoWait => lastId # 0
  BY <1>4, <1>5 DEF HostOK
<1>7. IdsOK(p)'
  BY <1>1, <1>4, <1>5, MessageFields DEF PlayerOK, IdsOK, ServiceOK, hostVars
<1>8. ServiceOK(p)'
  BY <1>4, <1>5, ResetAt DEF PlayerOK, ServiceOK, hostVars
<1>9. OrderOK(p)' /\ RunningOK(p)'
  <2>1. \A n \in Sent(notices[p]) : n.id \in Nat /\ 1 <= n.id
    BY <1>4, PlayerTypes DEF PlayerOK, IdsOK
  <2>. QED BY <2>1, <1>4, <1>5, MessageFields DEF PlayerOK, OrderOK, RunningOK, Preparing
<1>10. WordOK(p)'
  <2>1. ASSUME wait # NoWait PROVE ReadySent(p)' => ReadySent(p)
    BY <2>1, MessageFields DEF ReadySent, hostVars
  <2>. QED BY <2>1, <1>1, <1>4, <1>5, <1>6, MessageFields DEF PlayerOK, WordOK, Online, Holds, Preparing, hostVars
<1>11. LastIsComing(p)'
  BY <1>1, <1>4, <1>5 DEF PlayerOK, LastIsComing, Preparing, Online, hostVars
<1>12. RowsOK(p)'
  BY <1>1, <1>4 DEF PlayerOK, RowsOK, Online
<1>. QED BY <1>1, <1>2, <1>3, <1>7, <1>8, <1>9, <1>10, <1>11, <1>12, OnlyOne DEF PlayerOK

\* A request that is never answered (WaitService::OnUpdate).
LEMMA AnswerLateKeeps ==
    ASSUME AllTypes, WaitInv, NEW p \in Players, AnswerLate(p)
    PROVE  WaitInv'
<1>1. PICK msgs : msgs = When(Asking(p, worldDue[p]), <<AskWorld(worldId[p])>>)
  OBVIOUS
<1>2. /\ msgs \in Seq(Request) /\ \A x \in Sent(msgs) : x = AskWorld(worldId[p]) /\ worldDue[p]
      /\ Asking(p, worldDue[p]) => AskWorld(worldId[p]) \in Sent(msgs) /\ worldDue[p]
  <2>1. Asking(p, worldDue[p]) \in BOOLEAN /\ AskWorld(worldId[p]) \in Request /\ (Asking(p, worldDue[p]) => worldDue[p])
    BY PlayerTypes, MessageTypes DEF Asking
  <2>. QED BY <1>1, <2>1, WhenType
<1>3. Sent(requests'[p]) = Sent(requests[p]) \cup Sent(msgs) /\ \A q \in Players \ {p} : requests'[q] = requests[q]
  BY <1>1, <1>2, SendsSent DEF AnswerLate
<1>4. id[p] = 0 /\ (wait # NoWait => lastId # 0)
  BY PlayerTypes DEF AnswerLate, WaitInv, PlayerOK, ServiceOK, HostOK
<1>5. Reset(p) /\ Online(p) /\ UNCHANGED hostVars /\ UNCHANGED connVars /\ notices' = notices /\ rest' = rest
  BY DEF AnswerLate
<1>6. MenuCloses(p)
  BY DEF AnswerLate
<1>. QED BY <1>2, <1>3, <1>4, <1>5, <1>6, ClosesAt, ResetKeeps

\* A load (WaitService and GuestWait, OnGameLoaded).
LEMMA LoadKeeps ==
    ASSUME AllTypes, WaitInv, NEW p \in Players, Load(p)
    PROVE  WaitInv'
<1>1. PICK msgs : msgs = When(id[p] # 0, <<Stop(id[p])>>)
  OBVIOUS
<1>2. /\ msgs \in Seq(Request) /\ \A x \in Sent(msgs) : x = Stop(id[p])
      /\ id[p] # 0 => Stop(id[p]) \in Sent(msgs)
  BY <1>1, PlayerTypes, MessageTypes, WhenType
<1>3. Sent(requests'[p]) = Sent(requests[p]) \cup Sent(msgs) /\ \A q \in Players \ {p} : requests'[q] = requests[q]
  BY <1>1, <1>2, SendsSent DEF Load
<1>4. wait # NoWait => lastId # 0
  BY PlayerTypes DEF WaitInv, HostOK
<1>5. Reset(p) /\ Online(p) /\ UNCHANGED hostVars /\ UNCHANGED connVars /\ notices' = notices
  BY DEF Load
<1>6. /\ worldId'[p] = 0 /\ ~worldDue'[p] /\ ~owed'[p]
      /\ \A q \in Players \ {p} : worldId'[q] = worldId[q] /\ worldDue'[q] = worldDue[q] /\ owed'[q] = owed[q]
      /\ \A q \in Players \ {p} : rest'[q] = rest[q]
  BY At DEF Load, AllTypes, WorldTypes, EngineTypes
<1>. QED BY <1>2, <1>3, <1>4, <1>5, <1>6, ResetKeeps

\* A game that loses its connection (every OnDisconnected).
LEMMA GameLosesHostKeeps ==
    ASSUME AllTypes, WaitInv, NEW p \in Players, GameLosesHost(p)
    PROVE  WaitInv'
<1>1. /\ conn[p] \in {"open", "dropped"} /\ conn'[p] = IF conn[p] = "open" THEN "lost" ELSE "closed"
      /\ \A q \in Players \ {p} : conn'[q] = conn[q]
  BY At DEF GameLosesHost, Online, AllTypes, ConnTypes
<1>2. notices'[p] = <<>> /\ \A q \in Players \ {p} : notices'[q] = notices[q]
  BY At DEF GameLosesHost, AllTypes, NoticeTypes
<1>3. /\ worldId'[p] = 0 /\ ~worldDue'[p] /\ ~owed'[p]
      /\ \A q \in Players \ {p} : worldId'[q] = worldId[q] /\ worldDue'[q] = worldDue[q] /\ owed'[q] = owed[q]
      /\ \A q \in Players \ {p} : rest'[q] = rest[q]
  BY At DEF GameLosesHost, AllTypes, WorldTypes, EngineTypes
<1>4. Reset(p) /\ entered' = entered /\ requests' = requests /\ UNCHANGED hostVars
  BY DEF GameLosesHost
<1>5. \A q \in Players \ {p} : Alone(q)
  BY <1>1, <1>2, <1>3, <1>4, ResetAt, Zenon DEF Alone
<1>6. Members' = Members
  <2>1. \A q \in Players : conn'[q] \in {"open", "lost"} <=> conn[q] \in {"open", "lost"}
    BY <1>1
  <2>. QED BY <2>1 DEF Members
<1>7. PlayerOK(p)
  BY DEF WaitInv
<1>8. Sent(notices'[p]) = {} /\ DOMAIN notices'[p] = {}
  BY <1>2, SentFew
<1>9. IdsOK(p)'
  BY <1>1, <1>3, <1>4, <1>7, <1>8, ResetAt, PlayerTypes DEF PlayerOK, IdsOK, hostVars
<1>10. ServiceOK(p)'
  BY <1>3, <1>4, <1>7, ResetAt, PlayerTypes DEF PlayerOK, ServiceOK, hostVars
<1>11. OrderOK(p)' /\ RunningOK(p)'
  BY <1>8 DEF OrderOK, RunningOK, Preparing, Increasing
<1>12. WordOK(p)' /\ LastIsComing(p)' /\ RowsOK(p)'
  BY <1>1 DEF WordOK, LastIsComing, RowsOK, Online
<1>. QED BY <1>4, <1>5, <1>6, <1>9, <1>10, <1>11, <1>12, OnlyOne DEF PlayerOK

\* The update makes the last of the native steps, so that the rest is where its service is
\* (WaitService::OnUpdate, WaitBridge::Apply).
LEMMA UpdateCompletes ==
    ASSUME AllTypes, WaitInv, NEW p \in Players, NEW menuReady \in BOOLEAN, Update(p, menuReady)
    PROVE  running[p] => rest'[p] = left[p]
<1>0. PlayerOK(p)
  BY DEF WaitInv
<1>1. rest'[p] = IF Applied(p) /\ steps[p][Len(steps[p])] < rest[p] THEN steps[p][Len(steps[p])] ELSE rest[p]
  BY At DEF Update, AllTypes, EngineTypes
<1>2. CASE steps[p] = <<>>
  <2>1. ~Applied(p)
    BY <1>2, Zenon DEF Applied
  <2>2. rest'[p] = rest[p]
    BY <1>1, <2>1, Zenon
  <2>3. running[p] => rest[p] = left[p]
    BY <1>0, <1>2, Zenon DEF PlayerOK, ServiceOK, RestFollows
  <2>. QED BY <2>2, <2>3, Zenon
<1>3. CASE steps[p] # <<>>
  <2>1. PICK v : v = steps[p][Len(steps[p])]
    OBVIOUS
  <2>2. ASSUME running[p] PROVE rest'[p] = left[p]
    <3>1. Applied(p) /\ v = left[p] /\ left[p] <= rest[p]
      BY <1>0, <1>3, <2>1, <2>2 DEF PlayerOK, ServiceOK, RestFollows, Applied, Driver
    <3>2. rest'[p] = IF v < rest[p] THEN v ELSE rest[p]
      BY <1>1, <2>1, <3>1
    <3>3. left[p] \in 0 .. 24 /\ rest[p] \in 0 .. 24
      BY PlayerTypes
    <3>. QED BY <3>1, <3>2, <3>3
  <2>. QED BY <2>2
<1>. QED BY <1>2, <1>3

\* The service's update, in a menu found ready or after a wait that is over (WaitService::OnUpdate).
LEMMA UpdateKeeps ==
    ASSUME AllTypes, WaitInv, NEW p \in Players, NEW menuReady \in BOOLEAN, Update(p, menuReady)
    PROVE  WaitInv'
<1>0. /\ PlayerOK(p) /\ HostOK /\ Online(p) /\ conn[p] = "open"
      /\ UNCHANGED hostVars /\ UNCHANGED connVars /\ conn' = conn /\ entered' = entered /\ notices' = notices
      /\ menuReady => id[p] # 0 /\ ~ready[p] /\ menu[p]
  BY DEF WaitInv, Update, Online, connVars
<1>1. PICK told : told = When(menuReady, <<Ready(id[p])>>)
  OBVIOUS
<1>2. /\ told \in Seq(Request) /\ \A x \in Sent(told) : x = Ready(id[p]) /\ menuReady
      /\ menuReady => Ready(id[p]) \in Sent(told)
  BY <1>1, PlayerTypes, MessageTypes, WhenType
<1>3. \A q \in Players \ {p} : rest'[q] = rest[q]
  BY At DEF Update, AllTypes, EngineTypes
<1>4. ASSUME finished[p] PROVE WaitInv'
  <2>1. PICK msgs : msgs = When(Asking(p, worldDue[p]), <<AskWorld(worldId[p])>>)
    OBVIOUS
  <2>2. /\ msgs \in Seq(Request) /\ \A x \in Sent(msgs) : x = AskWorld(worldId[p]) /\ worldDue[p]
        /\ Asking(p, worldDue[p]) => AskWorld(worldId[p]) \in Sent(msgs) /\ worldDue[p]
    <3>1. Asking(p, worldDue[p]) \in BOOLEAN /\ AskWorld(worldId[p]) \in Request /\ (Asking(p, worldDue[p]) => worldDue[p])
      BY PlayerTypes, MessageTypes DEF Asking
    <3>. QED BY <2>1, <3>1, WhenType
  <2>3. PICK both : both = told \o msgs
    OBVIOUS
  <2>4. both \in Seq(Request) /\ Sent(both) = Sent(told) \cup Sent(msgs)
    BY <1>2, <2>2, <2>3, SentJoin, Zenon
  <2>5. Reset(p) /\ MenuCloses(p) /\ Sends(p, both)
    BY <1>1, <1>4, <2>1, <2>3, Zenon DEF Update
  <2>6. Sent(requests'[p]) = Sent(requests[p]) \cup Sent(both) /\ \A q \in Players \ {p} : requests'[q] = requests[q]
    BY <2>4, <2>5, SendsSent
  <2>7. wait # NoWait => id[p] # lastId
    BY <1>0, <1>4, PlayerTypes DEF PlayerOK, ServiceOK, HostOK
  <2>. QED BY <1>0, <1>2, <1>3, <2>2, <2>4, <2>5, <2>6, <2>7, ClosesAt, ResetKeeps
<1>5. ASSUME ~finished[p] PROVE WaitInv'
  <2>1. /\ Sent(requests'[p]) = Sent(requests[p]) \cup Sent(told)
        /\ \A q \in Players \ {p} : requests'[q] = requests[q]
    BY <1>1, <1>2, <1>5, SendsSent DEF Update
  <2>2. /\ UNCHANGED <<id, left, pending, running, finished, menu, begun, worldId, worldDue, owed>>
    BY <1>5 DEF Update, worldVars
  <2>3. (ready'[p] <=> ready[p] \/ menuReady) /\ \A q \in Players \ {p} : ready'[q] = ready[q]
    <3>1. ready' = [ready EXCEPT ![p] = ready[p] \/ menuReady]
      BY <1>5, Zenon DEF Update
    <3>2. ready \in [Players -> BOOLEAN]
      BY DEF AllTypes, ServiceTypes
    <3>. QED BY <3>1, <3>2, At, Zenon
  <2>4. steps'[p] = <<>> /\ \A q \in Players \ {p} : steps'[q] = steps[q]
    <3>1. steps' = [steps EXCEPT ![p] = <<>>]
      BY <1>5, Zenon DEF Update
    <3>2. steps \in [Players -> Seq(0 .. 24)]
      BY DEF AllTypes, ServiceTypes
    <3>. QED BY <3>1, <3>2, At, Zenon
  <2>6. \A q \in Players \ {p} : Alone(q)
    BY <1>0, <1>3, <2>1, <2>2, <2>3, <2>4, Zenon DEF Alone
  <2>7. Members' = Members
    BY <1>0 DEF Members
  <2>8. IdsOK(p)'
    BY <1>0, <1>2, <2>1, <2>2, PlayerTypes, MessageFields DEF PlayerOK, IdsOK, hostVars
  <2>9. ServiceOK(p)'
    <3>1. running[p] => rest'[p] = left[p]
      BY UpdateCompletes
    <3>. QED BY <3>1, <1>0, <2>2, <2>3, <2>4 DEF PlayerOK, ServiceOK, RestFollows, hostVars
  <2>10. OrderOK(p)' /\ RunningOK(p)'
    <3>1. \A m \in Sent(requests'[p]) : m.type = "ready" => m \in Sent(requests[p]) \/ m.id = id[p]
      BY <1>2, <2>1, MessageFields
    <3>. QED BY <3>1, <1>0, <2>2 DEF PlayerOK, OrderOK, RunningOK, Preparing
  <2>11. WordOK(p)'
    <3>1. ReadySent(p)' => ReadySent(p) \/ (menuReady /\ id[p] = lastId)
      BY <1>0, <1>2, <2>1, MessageFields DEF ReadySent, hostVars
    <3>2. Holds(p) => Holds(p)'
      BY <1>0, <2>1, <2>2, <2>3 DEF Holds, hostVars
    <3>3. menuReady /\ id[p] = lastId => Holds(p)'
      BY <1>0, <2>2, <2>3 DEF Holds, hostVars
    <3>. QED BY <3>1, <3>2, <3>3, <1>0, <2>2, <2>3 DEF PlayerOK, WordOK, Online, Preparing, hostVars
  <2>12. LastIsComing(p)' /\ RowsOK(p)'
    BY <1>0, <2>1, <2>2 DEF PlayerOK, LastIsComing, RowsOK, Preparing, Online, hostVars
  <2>. QED BY <1>0, <2>6, <2>7, <2>8, <2>9, <2>10, <2>11, <2>12, OnlyOne DEF PlayerOK
<1>. QED BY <1>4, <1>5

\* A channel whose waits come in order, without its oldest message.
LEMMA ReadIncreasing ==
    ASSUME NEW s \in Seq(Notice), NEW t, FirstTaken(s, t), Increasing(s)
    PROVE  /\ Increasing(t)
           /\ \A n \in Sent(t) : n.phase = "preparing" /\ Head(s).phase = "preparing" => Head(s).id < n.id
<1>1. Increasing(t)
  BY DEF FirstTaken, Increasing
<1>2. ASSUME NEW n \in Sent(t), n.phase = "preparing", Head(s).phase = "preparing"
      PROVE  Head(s).id < n.id
  <2>1. PICK i \in DOMAIN t : n = t[i]
    BY DEF Sent
  <2>2. i \in Nat /\ i + 1 \in DOMAIN s /\ n = s[i + 1] /\ 1 \in DOMAIN s /\ Head(s) = s[1] /\ 1 < i + 1
    BY <2>1 DEF FirstTaken
  <2>. QED BY <1>2, <2>2 DEF Increasing
<1>. QED BY <1>1, <1>2

\* Reading takes the oldest notice out of one channel (TransportService, in order).
LEMMA ReadsAt ==
    ASSUME AllTypes, WaitInv, NEW p \in Players, GameReads(p), NEW m, m = Head(notices[p])
    PROVE  /\ m \in Notice /\ m \in Sent(notices[p]) /\ m.id \in Nat
           /\ Sent(notices'[p]) \subseteq Sent(notices[p]) /\ Sent(notices[p]) \subseteq Sent(notices'[p]) \cup {m}
           /\ Increasing(notices'[p])
           /\ \A n \in Sent(notices'[p]) : n.phase = "preparing" /\ m.phase = "preparing" => m.id < n.id
           /\ \A q \in Players \ {p} : notices'[q] = notices[q]
           /\ conn[p] = "open" /\ conn' = conn /\ entered' = entered /\ UNCHANGED hostVars
<1>1. notices[p] \in Seq(Notice) /\ notices[p] # <<>> /\ notices \in [Players -> Seq(Notice)]
  BY DEF GameReads, AllTypes, NoticeTypes
<1>2. PICK t : t = Tail(notices[p])
  OBVIOUS
<1>3. FirstTaken(notices[p], t) /\ m \in Notice
  BY <1>1, <1>2, ReadFacts, Zenon
<1>4. notices' = [notices EXCEPT ![p] = t]
  BY <1>2, Zenon DEF GameReads
<1>5. notices'[p] = t /\ \A q \in Players \ {p} : notices'[q] = notices[q]
  BY <1>1, <1>4, At, Zenon
<1>6. Increasing(notices[p])
  BY DEF WaitInv, PlayerOK, OrderOK
<1>7. m \in Sent(notices[p]) /\ Sent(t) \subseteq Sent(notices[p]) /\ Sent(notices[p]) \subseteq Sent(t) \cup {m}
  BY <1>3, ReadSent, Zenon
<1>8. Increasing(t) /\ \A n \in Sent(t) : n.phase = "preparing" /\ m.phase = "preparing" => m.id < n.id
  BY <1>1, <1>3, <1>6, ReadIncreasing, Zenon
<1>9. conn[p] = "open" /\ conn' = conn /\ entered' = entered /\ UNCHANGED hostVars
  BY DEF GameReads, Online, connVars
<1>. QED BY <1>3, <1>5, <1>7, <1>8, <1>9, MessageTypes

\* A notice that begins no wait leaves the ids, the order and the word as they were.
LEMMA ReadKeeps ==
    ASSUME AllTypes, WaitInv, NEW p \in Players, GameReads(p), NEW m, m = Head(notices[p]), m.phase # "preparing",
           id'[p] = id[p], worldId'[p] = worldId[p], ready'[p] = ready[p], menu'[p] = menu[p],
           requests'[p] = requests[p], owed'[p] => owed[p] /\ ~(m.phase = "world" /\ m.id = worldId[p]),
           ServiceOK(p)', \A q \in Players \ {p} : Alone(q)
    PROVE  WaitInv'
<1>1. PlayerOK(p)
  BY DEF WaitInv
<1>2. Members' = Members
  BY ReadsAt DEF Members
<1>3. IdsOK(p)'
  BY <1>1, ReadsAt DEF PlayerOK, IdsOK, hostVars
<1>4. OrderOK(p)' /\ RunningOK(p)'
  BY <1>1, ReadsAt DEF PlayerOK, OrderOK, RunningOK, Preparing
<1>5. WordOK(p)'
  BY <1>1, ReadsAt DEF PlayerOK, WordOK, Online, Holds, ReadySent, Preparing, hostVars
<1>6. LastIsComing(p)'
  BY <1>1, ReadsAt, SMTT(30) DEF PlayerOK, LastIsComing, Online, Preparing, hostVars
<1>7. RowsOK(p)'
  BY <1>1, ReadsAt DEF PlayerOK, RowsOK, Online
<1>. QED BY <1>2, <1>3, <1>4, <1>5, <1>6, <1>7, ReadsAt, OnlyOne DEF PlayerOK

\* The notice of a new wait (WaitService::OnState, GuestWait::OnState).
LEMMA OnPreparingKeeps ==
    ASSUME AllTypes, WaitInv, NEW p \in Players, GameReads(p), NEW m, m = Head(notices[p]), m.phase = "preparing",
           OnPreparing(p, m)
    PROVE  WaitInv'
<1>1. PlayerOK(p) /\ HostOK
  BY DEF WaitInv
<1>2. m \in Preparing(p) /\ id[p] < m.id /\ m.id <= lastId /\ 1 <= m.id /\ m.id \in Nat /\ lastId \in Nat /\ completed \in Nat
  BY <1>1, ReadsAt, PlayerTypes DEF PlayerOK, OrderOK, IdsOK, Preparing
<1>3. /\ Sent(requests[p]) \subseteq Sent(requests'[p])
      /\ \A x \in Sent(requests'[p]) : x \in Sent(requests[p]) \/ x = Stop(m.id)
      /\ \A q \in Players \ {p} : requests'[q] = requests[q]
  <2>1. PICK fit \in BOOLEAN : Sends(p, When(~(~cancelling[p] /\ fit), <<Stop(m.id)>>))
    BY DEF OnPreparing
  <2>2. PICK msgs : msgs = When(~(~cancelling[p] /\ fit), <<Stop(m.id)>>)
    OBVIOUS
  <2>3. msgs \in Seq(Request) /\ \A x \in Sent(msgs) : x = Stop(m.id)
    BY <1>2, <2>2, MessageTypes, WhenType
  <2>. QED BY <2>1, <2>2, <2>3, SendsSent
<1>4. /\ id'[p] = m.id /\ left'[p] = m.left /\ steps'[p] = <<>>
      /\ \A q \in Players \ {p} : id'[q] = id[q] /\ left'[q] = left[q] /\ steps'[q] = steps[q]
  BY At DEF OnPreparing, AllTypes, ServiceTypes
<1>5. /\ ~pending'[p] /\ ~ready'[p] /\ ~running'[p] /\ ~finished'[p]
      /\ \A q \in Players \ {p} : /\ pending'[q] = pending[q] /\ ready'[q] = ready[q]
                                  /\ running'[q] = running[q] /\ finished'[q] = finished[q]
  BY At DEF OnPreparing, AllTypes, ServiceTypes
<1>6. \A q \in Players \ {p} : menu'[q] = menu[q] /\ begun'[q] = begun[q] /\ rest'[q] = rest[q]
  BY At DEF OnPreparing, AllTypes, EngineTypes
<1>7. /\ worldId'[p] = m.id /\ ~worldDue'[p] /\ ~owed'[p]
      /\ \A q \in Players \ {p} : worldId'[q] = worldId[q] /\ worldDue'[q] = worldDue[q] /\ owed'[q] = owed[q]
  BY At DEF OnPreparing, AllTypes, WorldTypes, CellsLeft
<1>8. \A q \in Players \ {p} : Alone(q)
  BY <1>3, <1>4, <1>5, <1>6, <1>7, ReadsAt, SMT DEF Alone
<1>9. Members' = Members
  BY ReadsAt DEF Members
<1>10. IdsOK(p)'
  BY <1>1, <1>2, <1>3, <1>4, <1>7, ReadsAt, MessageFields DEF PlayerOK, IdsOK, hostVars
<1>11. ServiceOK(p)'
  BY <1>4, <1>5, <1>7 DEF ServiceOK
<1>12. OrderOK(p)' /\ RunningOK(p)'
  <2>1. Increasing(notices'[p])
    BY ReadsAt
  <2>2. ASSUME NEW n \in Preparing(p)'
        PROVE  /\ id'[p] < n.id
               /\ \A x \in Sent(requests'[p]) : x.type = "ready" => x.id < n.id
               /\ \A k \in Sent(notices'[p]) : k.phase = "running" => k.id # n.id
    <3>1. n \in Preparing(p) /\ m.id < n.id
      BY ReadsAt DEF Preparing
    <3>2. \A x \in Sent(requests'[p]) : x.type = "ready" => x \in Sent(requests[p])
      BY <1>3, MessageFields
    <3>3. \A k \in Sent(notices'[p]) : k \in Sent(notices[p])
      BY ReadsAt
    <3>. QED BY <1>1, <1>4, <3>1, <3>2, <3>3 DEF PlayerOK, OrderOK
  <2>3. RunningOK(p)'
    <3>1. \A k \in Sent(notices'[p]) : k \in Sent(notices[p])
      BY ReadsAt
    <3>. QED BY <1>1, <1>2, <1>4, <3>1 DEF PlayerOK, OrderOK, RunningOK
  <2>. QED BY <2>1, <2>2, <2>3 DEF OrderOK
<1>13. ~ReadySent(p) /\ ~ReadySent(p)'
  <2>1. \A x \in Sent(requests[p]) : x.type = "ready" => x.id \in Nat /\ x.id < m.id
    BY <1>1, <1>2, PlayerTypes DEF PlayerOK, OrderOK
  <2>. QED BY <1>2, <1>3, <2>1, ReadsAt, MessageFields DEF ReadySent, hostVars
<1>14. WordOK(p)'
  <2>1. m.id # lastId => (Holds(p) => Holds(p)')
    BY <1>2, <1>3, <1>4, PlayerTypes, ReadsAt DEF Holds, hostVars
  <2>. QED BY <1>1, <1>2, <1>4, <1>13, <2>1, ReadsAt DEF PlayerOK, WordOK, Online, Preparing, hostVars
<1>15. LastIsComing(p)'
  <2>1. ASSUME m.id = lastId PROVE LastIsComing(p)'
    <3>1. \A n \in Preparing(p)' : n.id \in Nat /\ m.id < n.id /\ n.id <= lastId
      BY <1>1, ReadsAt, PlayerTypes DEF PlayerOK, IdsOK, Preparing
    <3>2. lastId' = lastId
      BY ReadsAt DEF hostVars
    <3>. QED BY <1>2, <1>7, <2>1, <3>1, <3>2 DEF LastIsComing
  <2>2. ASSUME m.id # lastId PROVE LastIsComing(p)'
    <3>1. m.id < lastId /\ lastId' = lastId /\ conn[p] = "open"
      BY <1>2, <2>2, ReadsAt DEF hostVars
    <3>2. PICK n \in Preparing(p) : n.id = lastId
      BY <1>1, <1>2, <3>1 DEF PlayerOK, LastIsComing, Online
    <3>3. n \in Preparing(p)'
      BY <3>1, <3>2, ReadsAt DEF Preparing
    <3>. QED BY <3>1, <3>2, <3>3 DEF LastIsComing
  <2>. QED BY <2>1, <2>2
<1>16. RowsOK(p)'
  BY <1>7 DEF RowsOK
<1>. QED BY <1>8, <1>9, <1>10, <1>11, <1>12, <1>14, <1>15, <1>16, ReadsAt, OnlyOne DEF PlayerOK

\* Every notice that a game reads (WaitService::OnState, GuestWait).
LEMMA GameReadsKeeps ==
    ASSUME AllTypes, WaitInv, NEW p \in Players, GameReads(p)
    PROVE  WaitInv'
<1>0. PICK m : m = Head(notices[p])
  OBVIOUS
<1>1. /\ IdsOK(p) /\ ServiceOK(p) /\ OrderOK(p) /\ RunningOK(p)
      /\ m \in Sent(notices[p]) /\ m.id \in Nat /\ m.left \in 0 .. 24 /\ completed' = completed
      /\ conn' = conn /\ entered' = entered /\ \A q \in Players \ {p} : notices'[q] = notices[q]
  BY <1>0, ReadsAt, MessageTypes DEF WaitInv, PlayerOK, hostVars
<1>2. ASSUME m.phase = "running", OnRunning(p, m) PROVE WaitInv'
  <2>1. /\ UNCHANGED <<requests, id, left, steps, pending, ready, finished, menu, worldId, worldDue, owed>>
        /\ m.id = id[p] /\ id[p] # 0 /\ ~running[p]
    BY <1>2 DEF OnRunning, worldVars
  <2>2. menu[p] /\ steps[p] = <<>>
    BY <1>1, <1>2, <2>1 DEF RunningOK, ServiceOK
  <2>3. running'[p] /\ \A q \in Players \ {p} : running'[q] = running[q]
    BY <1>2, At DEF OnRunning, AllTypes, ServiceTypes
  <2>4. begun'[p] /\ rest'[p] = left[p] /\ \A q \in Players \ {p} : begun'[q] = begun[q] /\ rest'[q] = rest[q]
    BY <1>2, <2>2, At DEF OnRunning, AllTypes, EngineTypes
  <2>5. \A q \in Players \ {p} : Alone(q)
    BY <1>1, <2>1, <2>3, <2>4, Zenon DEF Alone
  <2>6. ServiceOK(p)'
    BY <1>1, <2>1, <2>2, <2>3, <2>4 DEF ServiceOK, RestFollows
  <2>. QED BY <1>0, <1>2, <2>1, <2>5, <2>6, ReadKeeps
<1>3. ASSUME m.phase = "progress", OnHostProgress(p, m) PROVE WaitInv'
  <2>1. /\ UNCHANGED <<requests, id, pending, ready, running, finished, menu, begun, rest, worldId, worldDue, owed>>
        /\ running[p] /\ p # Host /\ m.left < left[p]
    BY <1>3 DEF OnHostProgress, worldVars, engineVars, Driver
  <2>2. left'[p] = m.left /\ \A q \in Players \ {p} : left'[q] = left[q]
    BY <1>3, At DEF OnHostProgress, AllTypes, ServiceTypes
  <2>3. steps'[p] # <<>> /\ steps'[p][Len(steps'[p])] = m.left /\ \A q \in Players \ {p} : steps'[q] = steps[q]
    <3>1. PICK s : s = Append(steps[p], m.left)
      OBVIOUS
    <3>2. s # <<>> /\ s[Len(s)] = m.left
      BY <1>1, <3>1, PlayerTypes
    <3>3. steps' = [steps EXCEPT ![p] = s] /\ steps \in [Players -> Seq(0 .. 24)]
      BY <1>3, <3>1, Zenon DEF OnHostProgress, AllTypes, ServiceTypes
    <3>. QED BY <3>2, <3>3, At, Zenon
  <2>4. \A q \in Players \ {p} : Alone(q)
    BY <1>1, <2>1, <2>2, <2>3, Zenon DEF Alone
  <2>5. left[p] <= rest[p]
    <3>1. rest[p] = left[p] \/ left[p] <= rest[p]
      BY <1>1, <2>1 DEF ServiceOK, RestFollows
    <3>2. rest[p] \in 0 .. 24
      BY PlayerTypes
    <3>. QED BY <3>1, <3>2
  <2>6. m.left <= rest[p]
    <3>1. rest[p] \in 0 .. 24 /\ left[p] \in 0 .. 24
      BY PlayerTypes
    <3>. QED BY <1>1, <2>1, <2>5, <3>1
  <2>7. ServiceOK(p)'
    BY <1>1, <2>1, <2>2, <2>3, <2>6 DEF ServiceOK, RestFollows
  <2>. QED BY <1>0, <1>3, <2>1, <2>4, <2>7, ReadKeeps
<1>4. ASSUME m.phase = "finished", OnFinished(p, m) PROVE WaitInv'
  <2>1. UNCHANGED <<requests, id, left, steps, pending, ready, running, menu, begun, rest, worldId, owed>>
    BY <1>4 DEF OnFinished, engineVars
  <2>2. /\ finished'[p] => finished[p] \/ m.id = id[p]
        /\ \A q \in Players \ {p} : finished'[q] = finished[q]
    BY <1>4, At DEF OnFinished, AllTypes, ServiceTypes
  <2>3. /\ worldDue'[p] => worldDue[p] \/ (p # Host /\ worldId[p] # 0 /\ m.id = worldId[p])
        /\ \A q \in Players \ {p} : worldDue'[q] = worldDue[q]
    BY <1>4, At DEF OnFinished, AllTypes, WorldTypes
  <2>4. \A q \in Players \ {p} : Alone(q)
    BY <1>1, <2>1, <2>2, <2>3, Zenon DEF Alone
  <2>5. ServiceOK(p)'
    <3>1. m.id <= completed /\ 1 <= m.id
      BY <1>1, <1>4 DEF IdsOK
    <3>. QED BY <1>1, <2>1, <2>2, <2>3, <3>1 DEF ServiceOK, RestFollows
  <2>. QED BY <1>0, <1>4, <2>1, <2>4, <2>5, ReadKeeps
<1>5. ASSUME m.phase = "world", OnWorld(p, m) PROVE WaitInv'
  <2>1. UNCHANGED <<requests, id, left, steps, pending, ready, running, finished, menu, begun, rest, worldId, worldDue>>
    BY <1>5 DEF OnWorld, engineVars, serviceVars
  <2>2. (owed'[p] => owed[p] /\ m.id # worldId[p]) /\ \A q \in Players \ {p} : owed'[q] = owed[q]
    BY <1>5, At DEF OnWorld, AllTypes, WorldTypes
  <2>3. \A q \in Players \ {p} : Alone(q)
    BY <1>1, <2>1, <2>2, Zenon DEF Alone
  <2>4. ServiceOK(p)'
    BY <1>1, <2>1, <2>2 DEF ServiceOK, RestFollows
  <2>. QED BY <1>0, <1>5, <2>1, <2>2, <2>3, <2>4, ReadKeeps
<1>6. ASSUME m.phase # "preparing", m.phase # "world", UNCHANGED <<requests, serviceVars, engineVars, worldVars>>
      PROVE  WaitInv'
  <2>1. UNCHANGED <<requests, id, left, steps, pending, ready, running, finished, menu, begun, rest, worldId, worldDue, owed>>
    BY <1>6 DEF engineVars, serviceVars, worldVars
  <2>2. \A q \in Players \ {p} : Alone(q)
    BY <1>1, <2>1, Zenon DEF Alone
  <2>3. ServiceOK(p)'
    BY <1>1, <2>1 DEF ServiceOK, RestFollows
  <2>. QED BY <1>0, <1>6, <2>1, <2>2, <2>3, ReadKeeps
<1>7. m.phase = "preparing" => m.id # id[p]
  BY <1>1, PlayerTypes DEF OrderOK, Preparing
<1>8. m.phase = "preparing" /\ OnPreparing(p, m) => WaitInv'
  BY <1>0, OnPreparingKeeps
<1>. QED BY <1>0, <1>2, <1>3, <1>4, <1>5, <1>6, <1>7, <1>8 DEF GameReads

\* Waits put into a channel after older ones keep its order.
LEMMA JoinIncreasing ==
    ASSUME NEW s, NEW t, NEW r, Joined(s, t, r), Increasing(s), Increasing(t),
           \A n \in Sent(s), k \in Sent(t) : n.phase = "preparing" /\ k.phase = "preparing" => n.id < k.id
    PROVE  Increasing(r)
<1>1. ASSUME NEW i \in DOMAIN r, NEW j \in DOMAIN r, i < j, r[i].phase = "preparing", r[j].phase = "preparing"
      PROVE  r[i].id < r[j].id
  <2>0. i \in Nat /\ j \in Nat /\ Len(s) \in Nat
    BY DEF Joined
  <2>1. CASE i \in DOMAIN s /\ j \in DOMAIN s
    BY <1>1, <2>1 DEF Joined, Increasing
  <2>2. CASE i \in DOMAIN s /\ j \notin DOMAIN s
    <3>1. r[i] \in Sent(s) /\ r[j] \in Sent(t)
      BY <2>2 DEF Joined, Sent
    <3>. QED BY <1>1, <3>1
  <2>3. CASE i \notin DOMAIN s /\ j \in DOMAIN s
    <3>1. j < i
      BY <2>3 DEF Joined
    <3>. QED BY <1>1, <2>0, <3>1
  <2>4. CASE i \notin DOMAIN s /\ j \notin DOMAIN s
    <3>1. /\ i - Len(s) \in DOMAIN t /\ r[i] = t[i - Len(s)]
          /\ j - Len(s) \in DOMAIN t /\ r[j] = t[j - Len(s)]
      BY <2>4 DEF Joined
    <3>2. i - Len(s) < j - Len(s)
      BY <1>1, <2>0
    <3>. QED BY <1>1, <3>1, <3>2 DEF Increasing
  <2>. QED BY <2>1, <2>2, <2>3, <2>4
<1>. QED BY <1>1 DEF Increasing

\* What the host tells everyone: after what is there (HostWait::Tell).
LEMMA TellAt ==
    ASSUME AllTypes, WaitInv, NEW q \in Players, NEW phases \in Seq(Notice), Tell(phases), Increasing(phases),
           \A n \in Sent(notices[q]), k \in Sent(phases) :
              n.phase = "preparing" /\ k.phase = "preparing" => n.id < k.id
    PROVE  /\ Online(q) => Sent(notices'[q]) = Sent(notices[q]) \cup Sent(phases)
           /\ ~Online(q) => notices'[q] = notices[q]
           /\ Increasing(notices'[q])
<1>1. notices[q] \in Seq(Notice) /\ Increasing(notices[q])
  BY DEF AllTypes, NoticeTypes, WaitInv, PlayerOK, OrderOK
<1>2. PICK r : r = notices[q] \o phases
  OBVIOUS
<1>3. Joined(notices[q], phases, r)
  BY <1>1, <1>2, JoinFacts, Zenon
<1>4. Sent(r) = Sent(notices[q]) \cup Sent(phases)
  BY <1>3, JoinedSent, Zenon
<1>5. Increasing(r)
  BY <1>1, <1>3, JoinIncreasing
<1>6. notices'[q] = IF Online(q) THEN r ELSE notices[q]
  BY <1>2, Zenon DEF Tell
<1>7. CASE Online(q)
  BY <1>4, <1>5, <1>6, <1>7, Zenon
<1>8. CASE ~Online(q)
  BY <1>1, <1>6, <1>8, Zenon
<1>. QED BY <1>7, <1>8

\* A short word to everyone.
LEMMA ShortWords ==
    /\ \A m \in Notice : /\ <<m>> \in Seq(Notice) /\ Sent(<<m>>) = {m} /\ Increasing(<<m>>)
    /\ \A m, n \in Notice : /\ Append(<<m>>, n) \in Seq(Notice) /\ Sent(Append(<<m>>, n)) = {m, n}
                            /\ n.phase # "preparing" => Increasing(Append(<<m>>, n))
<1>1. ASSUME NEW m \in Notice PROVE Sent(<<m>>) = {m} /\ <<m>> \in Seq(Notice)
  BY NoticesType, SentFew
<1>2. ASSUME NEW m \in Notice PROVE Increasing(<<m>>)
  BY DEF Increasing
<1>3. ASSUME NEW m \in Notice, NEW n \in Notice
      PROVE  /\ Append(<<m>>, n) \in Seq(Notice) /\ Sent(Append(<<m>>, n)) = {m, n}
             /\ n.phase # "preparing" => Increasing(Append(<<m>>, n))
  <2>1. PICK s, t, r : s = <<m>> /\ t = <<n>> /\ r = Append(s, n)
    OBVIOUS
  <2>2. s \in Seq(Notice) /\ Sent(s) = {m} /\ Sent(t) = {n} /\ Increasing(s) /\ Increasing(t)
    BY <1>1, <1>2, <2>1
  <2>3. Joined(s, t, r) /\ r \in Seq(Notice)
    BY <2>1, <2>2, AppendFacts
  <2>4. Sent(r) = {m, n}
    BY <2>2, <2>3, JoinedSent
  <2>5. n.phase # "preparing" => Increasing(r)
    BY <2>2, <2>3, JoinIncreasing
  <2>. QED BY <2>1, <2>3, <2>4, <2>5
<1>. QED BY <1>1, <1>2, <1>3

\* A step of the host's that begins no wait, as one player's game may come to see it.
Quiet(q) ==
    /\ conn'[q] = conn[q] \/ conn'[q] \in {"dropped", "closed"}
    /\ Sent(requests'[q]) \subseteq Sent(requests[q])
    /\ Sent(notices[q]) \subseteq Sent(notices'[q]) /\ Increasing(notices'[q])
    /\ \A n \in Sent(notices'[q]) :
         \/ n \in Sent(notices[q])
         \/ /\ n.phase # "preparing" /\ 1 <= n.id /\ n.id <= lastId
            /\ n.phase = "finished" => n.id <= completed'
            /\ n.phase = "running" => /\ n.id = lastId /\ (id[q] = lastId => menu[q])
                                      /\ \A k \in Preparing(q) : k.id # lastId
    /\ conn'[q] = "none" => requests'[q] = requests[q] /\ notices'[q] = notices[q]
    /\ conn'[q] = "open" /\ owed[q] /\ AskWorld(worldId[q]) \in Sent(requests[q]) =>
         \/ AskWorld(worldId[q]) \in Sent(requests'[q])
         \/ \E n \in Sent(notices'[q]) : \/ n.phase = "world" /\ n.id = worldId[q]
                                         \/ n.phase = "preparing" /\ n.id > worldId[q]

\* A step of the host that changes the games' channels only keeps the invariant, if each game's
\* is told enough.
LEMMA QuietKeeps ==
    ASSUME AllTypes, WaitInv, UNCHANGED gameVars, lastId' = lastId, completed' \in Nat, completed <= completed',
           HostOK', \A q \in Players : Quiet(q) /\ WordOK(q)'
    PROVE  WaitInv'
<1>1. ASSUME NEW q \in Players PROVE PlayerOK(q)'
  <2>1. UNCHANGED <<id, left, steps, pending, ready, running, finished, menu, begun, rest, worldId, worldDue, owed>>
    BY DEF gameVars, serviceVars, engineVars, worldVars
  <2>2. PlayerOK(q) /\ Quiet(q) /\ WordOK(q)'
    BY DEF WaitInv
  <2>3. /\ id[q] \in Nat /\ worldId[q] \in Nat /\ completed \in Nat /\ lastId \in Nat
        /\ \A x \in Sent(requests[q]) : x.id \in Nat
        /\ \A n \in Sent(notices[q]) : n.id \in Nat
    BY PlayerTypes
  <2>4. IdsOK(q)'
    <3>1. /\ id'[q] <= lastId' /\ worldId'[q] <= lastId'
          /\ \A x \in Sent(requests'[q]) :
               x.id <= lastId' /\ (x.type = "world" => 1 <= x.id /\ x.id <= completed')
      BY <2>1, <2>2, <2>3 DEF PlayerOK, IdsOK, Quiet
    <3>2. \A n \in Sent(notices'[q]) :
             1 <= n.id /\ n.id <= lastId' /\ (n.phase = "finished" => n.id <= completed')
      BY <2>2, <2>3 DEF PlayerOK, IdsOK, Quiet
    <3>3. conn'[q] = "none" =>
             id'[q] = 0 /\ worldId'[q] = 0 /\ ~owed'[q] /\ requests'[q] = <<>> /\ notices'[q] = <<>>
      BY <2>1, <2>2 DEF PlayerOK, IdsOK, Quiet
    <3>. QED BY <3>1, <3>2, <3>3 DEF IdsOK
  <2>5. ServiceOK(q)'
    BY <2>1, <2>2, <2>3 DEF PlayerOK, ServiceOK, RestFollows
  <2>6. OrderOK(q)'
    <3>1. Preparing(q)' = Preparing(q)
      BY <2>2 DEF Quiet, Preparing
    <3>2. Increasing(notices'[q])
      BY <2>2 DEF Quiet
    <3>3. ASSUME NEW n \in Preparing(q)
          PROVE  /\ id'[q] < n.id
                 /\ \A x \in Sent(requests'[q]) : x.type = "ready" => x.id < n.id
                 /\ \A k \in Sent(notices'[q]) : k.phase = "running" => k.id # n.id
      BY <2>1, <2>2 DEF PlayerOK, OrderOK, Quiet
    <3>. QED BY <3>1, <3>2, <3>3 DEF OrderOK
  <2>7. RunningOK(q)'
    BY <2>1, <2>2 DEF PlayerOK, RunningOK, Quiet
  <2>8. LastIsComing(q)'
    <3>1. Preparing(q)' = Preparing(q)
      BY <2>2 DEF Quiet, Preparing
    <3>2. Online(q)' => Online(q)
      BY <2>2 DEF Quiet, Online
    <3>. QED BY <2>1, <2>2, <3>1, <3>2 DEF PlayerOK, LastIsComing
  <2>9. RowsOK(q)'
    <3>1. Online(q)' => Online(q) /\ conn'[q] = "open"
      BY <2>2 DEF Quiet, Online
    <3>. QED BY <2>1, <2>2, <3>1 DEF PlayerOK, RowsOK, Quiet
  <2>. QED BY <2>2, <2>4, <2>5, <2>6, <2>7, <2>8, <2>9 DEF PlayerOK
<1>. QED BY <1>1 DEF WaitInv

\* The end of a wait, as the games hear it (HostWait::End).
LEMMA EndAt ==
    ASSUME AllTypes, WaitInv, End
    PROVE  /\ wait' = NoWait /\ completed' = lastId /\ completed <= lastId /\ lastId \in Nat
           /\ \A q \in Players :
                /\ Sent(notices[q]) \subseteq Sent(notices'[q]) /\ Increasing(notices'[q])
                /\ \A n \in Sent(notices'[q]) : \/ n \in Sent(notices[q])
                                                \/ n.phase = "finished" /\ n.id = lastId /\ 1 <= n.id
                /\ ~Online(q) => notices'[q] = notices[q]
<1>1. HostOK /\ \A q \in Players : Increasing(notices[q])
  BY DEF WaitInv, PlayerOK, OrderOK
<1>2. lastId \in Nat /\ completed \in Nat /\ wait.id \in Nat /\ wait.left \in 0 .. 24
  BY DEF AllTypes, HostTypes
<1>3. CASE wait = NoWait
  BY <1>1, <1>2, <1>3 DEF End, HostOK
<1>4. CASE wait # NoWait
  <2>1. PICK m : m = Phase("finished", wait.id, wait.left)
    OBVIOUS
  <2>1a. wait.id = lastId /\ completed + 1 = lastId
    BY <1>1, <1>4 DEF HostOK
  <2>1b. m.phase = "finished" /\ m.id = wait.id
    BY <2>1 DEF Phase
  <2>1c. m \in Notice
    BY <1>2, <2>1, MessageTypes
  <2>2. m \in Notice /\ m.phase = "finished" /\ m.id = lastId /\ 1 <= m.id /\ completed + 1 = lastId
    BY <1>2, <2>1a, <2>1b, <2>1c
  <2>3. Tell(<<m>>) /\ wait' = NoWait /\ completed' = lastId
    BY <1>1, <1>4, <2>1 DEF End, HostOK
  <2>4. \A q \in Players : /\ Online(q) => Sent(notices'[q]) = Sent(notices[q]) \cup {m}
                           /\ ~Online(q) => notices'[q] = notices[q]
                           /\ Increasing(notices'[q])
    <3>1. PICK phases : phases = <<m>>
      OBVIOUS
    <3>2. phases \in Seq(Notice) /\ Sent(phases) = {m} /\ Increasing(phases) /\ Tell(phases)
      BY <2>2, <2>3, <3>1, ShortWords
    <3>. QED BY <2>2, <3>2, TellAt
  <2>. QED BY <1>2, <2>2, <2>3, <2>4
<1>. QED BY <1>3, <1>4

\* Nobody acts for its player's readiness (HostWait's timeout).
LEMMA StallKeeps ==
    ASSUME AllTypes, WaitInv, Stall
    PROVE  WaitInv'
<1>1. End /\ lastId' = lastId /\ requests' = requests /\ conn' = conn /\ entered' = entered /\ UNCHANGED gameVars
  BY DEF Stall, connVars
<1>2. \A q \in Players : Quiet(q) /\ WordOK(q)'
  BY <1>1, EndAt DEF Quiet, WordOK, Online
<1>3. HostOK'
  BY <1>1, EndAt DEF WaitInv, HostOK, Members, NoWait
<1>. QED BY <1>1, <1>2, <1>3, EndAt, PlayerTypes, QuietKeeps DEF AllTypes, HostTypes

\* A character arrives (HostAuthority::PlayerEntered).
LEMMA EnterKeeps ==
    ASSUME AllTypes, WaitInv, NEW p \in Players, Enter(p)
    PROVE  WaitInv'
<1>1. /\ End /\ lastId' = lastId /\ requests' = requests /\ conn' = conn /\ UNCHANGED gameVars
      /\ entered' = entered \cup {p} /\ p \in Members
  BY DEF Enter, ArrivalEnds
<1>2. \A q \in Players : Quiet(q) /\ WordOK(q)'
  BY <1>1, EndAt DEF Quiet, WordOK, Online
<1>3. HostOK'
  BY <1>1, EndAt DEF WaitInv, HostOK, Members, NoWait
<1>. QED BY <1>1, <1>2, <1>3, EndAt, PlayerTypes, QuietKeeps DEF AllTypes, HostTypes

\* The host notices that a guest is gone (HostAuthority's disconnect handler).
LEMMA HostLosesGuestKeeps ==
    ASSUME AllTypes, WaitInv, NEW p \in Players, HostLosesGuest(p)
    PROVE  WaitInv'
<1>1. /\ End /\ lastId' = lastId /\ UNCHANGED gameVars
      /\ entered' = entered \ {p} /\ p \in Members
  BY DEF HostLosesGuest
<1>2. requests'[p] = <<>> /\ \A q \in Players \ {p} : requests'[q] = requests[q]
  BY At DEF HostLosesGuest, AllTypes, RequestTypes
<1>3. conn'[p] \in {"dropped", "closed"} /\ \A q \in Players \ {p} : conn'[q] = conn[q]
  BY At DEF HostLosesGuest, AllTypes, ConnTypes
<1>4. Sent(requests'[p]) = {}
  BY <1>2, SentFew
<1>5. ASSUME NEW q \in Players PROVE Quiet(q) /\ WordOK(q)'
  <2>1. WordOK(q)'
    BY <1>1, EndAt DEF WordOK
  <2>2. CASE q = p
    BY <1>1, <1>3, <1>4, <2>1, <2>2, EndAt DEF Quiet
  <2>3. CASE q # p
    BY <1>1, <1>2, <1>3, <2>1, <2>3, EndAt DEF Quiet, Online
  <2>. QED BY <2>1, <2>2, <2>3
<1>6. HostOK'
  BY <1>1, <1>3, EndAt DEF WaitInv, HostOK, Members, NoWait
<1>. QED BY <1>1, <1>5, <1>6, EndAt, PlayerTypes, QuietKeeps DEF AllTypes, HostTypes

\* A connection is accepted (HostSession::OnAuthentication).
LEMMA JoinKeeps ==
    ASSUME AllTypes, WaitInv, NEW p \in Players, Join(p)
    PROVE  WaitInv'
<1>1. /\ conn[p] = "none" /\ conn'[p] = "open" /\ \A q \in Players \ {p} : conn'[q] = conn[q]
  BY At DEF Join, AllTypes, ConnTypes
<1>2. /\ UNCHANGED <<entered, id, left, steps, pending, ready, running, finished, menu, begun, rest,
                     worldId, worldDue, owed, requests, notices>>
      /\ UNCHANGED hostVars
  BY DEF Join, gameVars, serviceVars, engineVars, worldVars
<1>3. \A q \in Players \ {p} : Alone(q)
  BY <1>1, <1>2, Zenon DEF Alone
<1>4. /\ PlayerOK(p) /\ HostOK /\ id[p] = 0 /\ worldId[p] = 0 /\ ~owed[p] /\ requests[p] = <<>> /\ notices[p] = <<>>
      /\ p \notin entered /\ lastId \in Nat /\ completed \in Nat
  BY <1>1, PlayerTypes DEF WaitInv, PlayerOK, IdsOK, HostOK, Members
<1>5. Sent(requests[p]) = {} /\ Sent(notices[p]) = {}
  BY <1>4, SentFew
<1>6. IdsOK(p)' /\ ServiceOK(p)'
  BY <1>1, <1>2, <1>4 DEF PlayerOK, IdsOK, ServiceOK, RestFollows, hostVars
<1>7. OrderOK(p)' /\ RunningOK(p)'
  BY <1>2, <1>4 DEF PlayerOK, OrderOK, RunningOK, Preparing
<1>8. WordOK(p)'
  <2>1. wait # NoWait => lastId # 0
    BY <1>4 DEF HostOK
  <2>. QED BY <1>2, <1>4, <1>5, <2>1 DEF WordOK, ReadySent, Preparing, hostVars
<1>9. LastIsComing(p)' /\ RowsOK(p)'
  BY <1>2, <1>4, <1>5 DEF LastIsComing, RowsOK, Preparing, hostVars
<1>10. PlayerOK(p)'
  BY <1>6, <1>7, <1>8, <1>9 DEF PlayerOK
<1>11. ASSUME NEW q \in Players PROVE PlayerOK(q)'
  BY <1>2, <1>3, <1>10, AloneKept DEF WaitInv
<1>12. HostOK'
  <2>1. Members \subseteq Members'
    BY <1>1 DEF Members
  <2>. QED BY <1>2, <1>4, <2>1 DEF HostOK, hostVars, NoWait
<1>. QED BY <1>11, <1>12 DEF WaitInv

\* The host reads the oldest request of a player (HostNetwork, in order).
LEMMA HostReadsAt ==
    ASSUME AllTypes, NEW p \in Players, HostReads(p), NEW m, m = Head(requests[p])
    PROVE  /\ m \in Request /\ m \in Sent(requests[p]) /\ m.id \in Nat /\ m.left \in 0 .. 24
           /\ Sent(requests'[p]) \subseteq Sent(requests[p]) /\ Sent(requests[p]) \subseteq Sent(requests'[p]) \cup {m}
           /\ \A q \in Players \ {p} : requests'[q] = requests[q]
           /\ p \in Members /\ conn' = conn /\ entered' = entered /\ UNCHANGED gameVars
<1>1. requests[p] \in Seq(Request) /\ requests[p] # <<>> /\ requests \in [Players -> Seq(Request)]
  BY DEF HostReads, AllTypes, RequestTypes
<1>2. PICK t : t = Tail(requests[p])
  OBVIOUS
<1>3. FirstTaken(requests[p], t) /\ m \in Request
  BY <1>1, <1>2, ReadFacts, Zenon
<1>4. requests' = [requests EXCEPT ![p] = t]
  BY <1>2, Zenon DEF HostReads
<1>5. requests'[p] = t /\ \A q \in Players \ {p} : requests'[q] = requests[q]
  BY <1>1, <1>4, At, Zenon
<1>6. m \in Sent(requests[p]) /\ Sent(t) \subseteq Sent(requests[p]) /\ Sent(requests[p]) \subseteq Sent(t) \cup {m}
  BY <1>3, ReadSent, Zenon
<1>7. p \in Members /\ conn' = conn /\ entered' = entered /\ UNCHANGED gameVars
  BY DEF HostReads, connVars
<1>. QED BY <1>3, <1>5, <1>6, <1>7, MessageTypes

\* What is left of the requests for rows when another request is read.
LEMMA OtherRequests ==
    ASSUME AllTypes, NEW p \in Players, HostReads(p), NEW m, m = Head(requests[p]), NEW q \in Players
    PROVE  /\ Sent(requests'[q]) \subseteq Sent(requests[q])
           /\ \A x \in Sent(requests[q]) : x # m => x \in Sent(requests'[q])
           /\ conn'[q] = "none" => requests'[q] = requests[q]
<1>1. CASE q = p
  BY <1>1, HostReadsAt DEF Members
<1>2. CASE q # p
  BY <1>2, HostReadsAt
<1>. QED BY <1>1, <1>2

\* A request that changes neither who is asked nor which wait it is leaves every player's word.
LEMMA WordKept ==
    ASSUME AllTypes, WaitInv, NEW p \in Players, HostReads(p), NEW m, m = Head(requests[p]), NEW q \in Players,
           lastId' = lastId, wait' # NoWait => wait # NoWait /\ wait'.pending = wait.pending,
           wait' # NoWait => m # Stop(lastId), Preparing(q)' = Preparing(q)
    PROVE  WordOK(q)'
<1>1. WordOK(q) /\ id' = id /\ ready' = ready /\ conn' = conn /\ entered' = entered
  BY HostReadsAt DEF WaitInv, PlayerOK, gameVars, serviceVars
<1>2. ASSUME Online(q)', wait' # NoWait
      PROVE  /\ ReadySent(q)' => Holds(q)'
             /\ q \in entered' /\ q \notin wait'.pending => Holds(q)'
             /\ (q \notin wait'.pending \/ ReadySent(q)') /\ id'[q] = lastId' => ready'[q]
             /\ \A n \in Preparing(q)' : n.id = lastId' => q \in wait'.pending
  <2>1. Online(q) /\ wait # NoWait /\ wait'.pending = wait.pending /\ m # Stop(lastId)
    BY <1>1, <1>2 DEF Online
  <2>2. ReadySent(q)' => ReadySent(q)
    BY OtherRequests DEF ReadySent
  <2>3. Holds(q) => Holds(q)'
    BY <1>1, <2>1, OtherRequests DEF Holds
  <2>. QED BY <1>1, <2>1, <2>2, <2>3 DEF WordOK
<1>. QED BY <1>2 DEF WordOK

\* Why the rules return early on a cancel and on a request for rows (HostWait's guards).
LEMMA IgnoredWhy ==
    ASSUME NEW p, NEW m, Ignored(p, m)
    PROVE  /\ m.type = "stop" => ~ForThisWait(m)
           /\ m.type = "world" => wait # NoWait \/ completed = 0 \/ m.id # completed \/ p = Host
<1>1. ASSUME m.type = "stop" PROVE ~ForThisWait(m)
  BY <1>1, Zenon DEF Ignored
<1>2. ASSUME m.type = "world" PROVE wait # NoWait \/ completed = 0 \/ m.id # completed \/ p = Host
  BY <1>2, Zenon DEF Ignored
<1>. QED BY <1>1, <1>2

\* A request that the rules do not act on (HostWait's early returns).
LEMMA IgnoredKeeps ==
    ASSUME AllTypes, WaitInv, NEW p \in Players, HostReads(p), NEW m, m = Head(requests[p]),
           Ignored(p, m), UNCHANGED <<notices, hostVars>>
    PROVE  WaitInv'
<1>1. /\ HostOK /\ lastId \in Nat /\ completed \in Nat
      /\ lastId' = lastId /\ wait' = wait /\ completed' = completed /\ notices' = notices
  BY PlayerTypes DEF WaitInv, hostVars
<1>2. m \in Request /\ m \in Sent(requests[p]) /\ p \in Members /\ conn' = conn /\ entered' = entered /\ UNCHANGED gameVars
  BY HostReadsAt
<1>3. m = Stop(lastId) => wait = NoWait
  BY <1>1, <1>2, IgnoredWhy, MessageFields DEF ForThisWait, HostOK
<1>4. ASSUME NEW q \in Players PROVE WordOK(q)'
  <2>1. Preparing(q)' = Preparing(q)
    BY <1>1 DEF Preparing
  <2>. QED BY <1>1, <1>3, <2>1, WordKept
<1>5. ASSUME NEW q \in Players PROVE Quiet(q)
  <2>1. Increasing(notices[q])
    BY DEF WaitInv, PlayerOK, OrderOK
  <2>2. ASSUME q = p, conn'[q] = "open", owed[q], m = AskWorld(worldId[q]), m \in Sent(requests[q])
        PROVE  \E n \in Sent(notices[q]) : n.phase = "preparing" /\ n.id > worldId[q]
    <3>1. PlayerOK(q) /\ q # Host /\ m.type = "world" /\ m.id = worldId[q] /\ worldId[q] \in Nat
      BY <2>2, MessageFields, PlayerTypes DEF WaitInv, PlayerOK, ServiceOK
    <3>2. 1 <= worldId[q] /\ worldId[q] <= completed
      BY <2>2, <3>1 DEF PlayerOK, IdsOK
    <3>3. worldId[q] < lastId
      <4>1. CASE wait # NoWait
        BY <1>1, <3>1, <3>2, <4>1 DEF HostOK
      <4>2. CASE wait = NoWait
        BY <1>1, <2>2, <3>1, <3>2, <4>2, IgnoredWhy DEF HostOK
      <4>. QED BY <4>1, <4>2
    <3>4. PICK n \in Preparing(q) : n.id = lastId
      BY <1>1, <1>2, <2>2, <3>1, <3>2, <3>3 DEF PlayerOK, LastIsComing, Online
    <3>. QED BY <1>1, <3>1, <3>3, <3>4 DEF Preparing
  <2>3. \A x \in Sent(requests[q]) : q # p => x \in Sent(requests'[q])
    BY HostReadsAt
  <2>. QED BY <1>1, <1>2, <2>1, <2>2, <2>3, OtherRequests DEF Quiet
<1>6. HostOK'
  BY <1>1, <1>2 DEF HostOK, Members, NoWait
<1>. QED BY <1>1, <1>2, <1>4, <1>5, <1>6, QuietKeeps

\* What a request that is not for rows leaves of those that are.
LEMMA RowsStillAsked ==
    ASSUME AllTypes, NEW p \in Players, HostReads(p), NEW m, m = Head(requests[p]), m.type # "world", NEW q \in Players,
           NEW i, AskWorld(i) \in Sent(requests[q])
    PROVE  AskWorld(i) \in Sent(requests'[q])
BY OtherRequests, MessageFields

\* A cancel or a failure (HostWait::OnCancel).
LEMMA StopKeeps ==
    ASSUME AllTypes, WaitInv, NEW p \in Players, HostReads(p), NEW m, m = Head(requests[p]), m.type = "stop",
           End, lastId' = lastId
    PROVE  WaitInv'
<1>1. conn' = conn /\ entered' = entered /\ UNCHANGED gameVars
  BY HostReadsAt
<1>2. ASSUME NEW q \in Players PROVE Quiet(q) /\ WordOK(q)'
  <2>1. WordOK(q)'
    BY EndAt DEF WordOK
  <2>2. AskWorld(worldId[q]) \in Sent(requests[q]) => AskWorld(worldId[q]) \in Sent(requests'[q])
    BY RowsStillAsked
  <2>3. /\ Sent(requests'[q]) \subseteq Sent(requests[q])
        /\ conn'[q] = "none" => requests'[q] = requests[q]
    BY OtherRequests
  <2>. QED BY <1>1, <2>1, <2>2, <2>3, EndAt DEF Quiet, Online
<1>3. HostOK'
  BY <1>1, EndAt DEF WaitInv, HostOK, Members, NoWait
<1>. QED BY <1>1, <1>2, <1>3, EndAt, PlayerTypes, QuietKeeps DEF AllTypes, HostTypes

\* The progress of the host's own rest, and its end (HostWait::OnProgress).
LEMMA ProgressKeeps ==
    ASSUME AllTypes, WaitInv, NEW p \in Players, HostReads(p), NEW m, m = Head(requests[p]), m.type = "progress",
           ForThisWait(m), OnProgress(p, m.left)
    PROVE  WaitInv'
<1>1. /\ conn' = conn /\ entered' = entered /\ UNCHANGED gameVars /\ lastId' = lastId /\ m.left \in 0 .. 24
      /\ m # Stop(lastId) /\ wait # NoWait
  BY HostReadsAt, MessageFields DEF OnProgress, ForThisWait
<1>2. /\ wait.id = lastId /\ completed + 1 = lastId /\ lastId \in Nat /\ completed \in Nat /\ HostOK
      /\ wait \in [id: Nat, left: 0 .. 24, pending: SUBSET Players, running: BOOLEAN]
  BY <1>1, PlayerTypes DEF WaitInv, HostOK, AllTypes, HostTypes
<1>3. PICK step, end : step = Phase("progress", lastId, m.left) /\ end = Phase("finished", lastId, 0)
  OBVIOUS
<1>4. /\ step \in Notice /\ step.phase = "progress" /\ step.id = lastId
      /\ end \in Notice /\ end.phase = "finished" /\ end.id = lastId
  <2>1. step.phase = "progress" /\ step.id = lastId /\ end.phase = "finished" /\ end.id = lastId
    BY <1>3 DEF Phase
  <2>2. 0 \in 0 .. 24
    OBVIOUS
  <2>. QED BY <1>1, <1>2, <1>3, <2>1, <2>2, MessageTypes
<1>5. ASSUME m.left # 0 PROVE WaitInv'
  <2>1. wait' = [wait EXCEPT !.left = m.left] /\ Tell(<<step>>) /\ completed' = completed
    BY <1>2, <1>3, <1>5 DEF OnProgress
  <2>2. wait'.id = wait.id /\ wait'.pending = wait.pending /\ wait'.running = wait.running /\ wait' # NoWait
    BY <1>2, <1>5, <2>1 DEF NoWait
  <2>3. \A q \in Players : /\ Online(q) => Sent(notices'[q]) = Sent(notices[q]) \cup {step}
                           /\ ~Online(q) => notices'[q] = notices[q]
                           /\ Increasing(notices'[q])
    <3>1. PICK phases : phases = <<step>>
      OBVIOUS
    <3>2. phases \in Seq(Notice) /\ Sent(phases) = {step} /\ Increasing(phases) /\ Tell(phases)
      BY <1>4, <2>1, <3>1, ShortWords
    <3>. QED BY <1>4, <3>2, TellAt, ZenonT(30)
  <2>4. ASSUME NEW q \in Players PROVE Quiet(q) /\ WordOK(q)'
    <3>1. Preparing(q)' = Preparing(q)
      BY <1>4, <2>3 DEF Preparing
    <3>2. WordOK(q)'
      BY <1>1, <2>2, <3>1, WordKept
    <3>3. AskWorld(worldId[q]) \in Sent(requests[q]) => AskWorld(worldId[q]) \in Sent(requests'[q])
      BY RowsStillAsked
    <3>4. /\ Sent(requests'[q]) \subseteq Sent(requests[q])
          /\ conn'[q] = "none" => requests'[q] = requests[q]
      BY OtherRequests
    <3>5. 1 <= lastId
      BY <1>2
    <3>. QED BY <1>1, <1>2, <1>4, <2>3, <3>2, <3>3, <3>4, <3>5 DEF Quiet, Online
  <2>5. HostOK'
    BY <1>1, <1>2, <2>1, <2>2 DEF HostOK, Members, NoWait
  <2>. QED BY <1>1, <1>2, <2>1, <2>4, <2>5, QuietKeeps
<1>6. ASSUME m.left = 0 PROVE WaitInv'
  <2>1. wait' = NoWait /\ Tell(Append(<<step>>, end)) /\ completed' = lastId
    BY <1>2, <1>3, <1>6 DEF OnProgress
  <2>2. \A q \in Players : /\ Online(q) => Sent(notices'[q]) = Sent(notices[q]) \cup {step, end}
                           /\ ~Online(q) => notices'[q] = notices[q]
                           /\ Increasing(notices'[q])
    <3>1. PICK phases : phases = Append(<<step>>, end)
      OBVIOUS
    <3>2. phases \in Seq(Notice) /\ Sent(phases) = {step, end} /\ Increasing(phases) /\ Tell(phases)
      BY <1>4, <2>1, <3>1, ShortWords
    <3>. QED BY <1>4, <3>2, TellAt, ZenonT(30)
  <2>3. ASSUME NEW q \in Players PROVE Quiet(q) /\ WordOK(q)'
    <3>1. WordOK(q)'
      BY <2>1 DEF WordOK
    <3>2. AskWorld(worldId[q]) \in Sent(requests[q]) => AskWorld(worldId[q]) \in Sent(requests'[q])
      BY RowsStillAsked
    <3>3. /\ Sent(requests'[q]) \subseteq Sent(requests[q])
          /\ conn'[q] = "none" => requests'[q] = requests[q]
      BY OtherRequests
    <3>4. 1 <= lastId
      BY <1>2
    <3>. QED BY <1>1, <1>2, <1>4, <2>1, <2>2, <3>1, <3>2, <3>3, <3>4 DEF Quiet, Online
  <2>4. HostOK'
    BY <1>1, <1>2, <2>1 DEF HostOK, Members, NoWait
  <2>. QED BY <1>1, <1>2, <2>1, <2>3, <2>4, QuietKeeps
<1>. QED BY <1>5, <1>6

\* A guest's request for the host's rows (HostWait::OnWorldRequest).
LEMMA WorldRequestKeeps ==
    ASSUME AllTypes, WaitInv, NEW p \in Players, HostReads(p), NEW m, m = Head(requests[p]), m.type = "world",
           OnWorldRequest(p, m.id)
    PROVE  WaitInv'
<1>1. /\ conn' = conn /\ entered' = entered /\ UNCHANGED gameVars /\ UNCHANGED hostVars /\ wait = NoWait
      /\ p \in Members /\ m.id \in Nat /\ m.id = completed /\ completed # 0 /\ p # Host
  BY HostReadsAt DEF OnWorldRequest
<1>2. completed = lastId /\ lastId \in Nat /\ completed \in Nat /\ HostOK
  BY <1>1, PlayerTypes DEF WaitInv, HostOK
<1>3. PICK n : n = Phase("world", m.id, 0)
  OBVIOUS
<1>4. n \in Notice /\ n.phase = "world" /\ n.id = m.id
  <2>1. n.phase = "world" /\ n.id = m.id
    BY <1>3 DEF Phase
  <2>2. 0 \in 0 .. 24
    OBVIOUS
  <2>. QED BY <1>1, <1>3, <2>1, <2>2, MessageTypes
<1>5. /\ Sent(notices'[p]) = Sent(notices[p]) \cup {n} /\ Increasing(notices'[p])
      /\ \A q \in Players \ {p} : notices'[q] = notices[q]
  <2>1. notices[p] \in Seq(Notice) /\ notices \in [Players -> Seq(Notice)] /\ Increasing(notices[p])
    BY DEF AllTypes, NoticeTypes, WaitInv, PlayerOK, OrderOK
  <2>2. PICK t, r : t = <<n>> /\ r = Append(notices[p], n)
    OBVIOUS
  <2>3. Joined(notices[p], t, r) /\ Sent(t) = {n} /\ Increasing(t)
    BY <1>4, <2>1, <2>2, AppendFacts, ShortWords
  <2>4. Sent(r) = Sent(notices[p]) \cup {n} /\ Increasing(r)
    BY <1>4, <2>1, <2>3, JoinedSent, JoinIncreasing
  <2>5. notices' = [notices EXCEPT ![p] = r]
    BY <1>3, <2>2, Zenon DEF OnWorldRequest
  <2>. QED BY <2>1, <2>4, <2>5, At
<1>6. ASSUME NEW q \in Players PROVE Quiet(q) /\ WordOK(q)'
  <2>1. WordOK(q)'
    BY <1>1 DEF WordOK, hostVars
  <2>2. Increasing(notices[q])
    BY DEF WaitInv, PlayerOK, OrderOK
  <2>3. AskWorld(worldId[q]) \in Sent(requests[q]) =>
          AskWorld(worldId[q]) \in Sent(requests'[q]) \/ (q = p /\ m.id = worldId[q])
    <3>1. ASSUME AskWorld(worldId[q]) \in Sent(requests[q]), AskWorld(worldId[q]) \notin Sent(requests'[q])
          PROVE  q = p /\ m.id = worldId[q]
      <4>1. q = p
        BY <3>1, HostReadsAt
      <4>2. m = AskWorld(worldId[q])
        BY <3>1, OtherRequests
      <4>. QED BY <4>1, <4>2, MessageFields
    <3>. QED BY <3>1
  <2>4. /\ Sent(requests'[q]) \subseteq Sent(requests[q])
        /\ conn'[q] = "none" => requests'[q] = requests[q]
    BY OtherRequests
  <2>5. 1 <= lastId
    BY <1>1, <1>2
  <2>6. CASE q = p
    BY <1>1, <1>2, <1>4, <1>5, <2>1, <2>3, <2>4, <2>5, <2>6 DEF Quiet, Members
  <2>7. CASE q # p
    BY <1>1, <1>5, <2>1, <2>2, <2>3, <2>4, <2>7 DEF Quiet
  <2>. QED BY <2>6, <2>7
<1>7. HostOK'
  BY <1>1, <1>2 DEF HostOK, Members, NoWait, hostVars
<1>. QED BY <1>1, <1>2, <1>6, <1>7, QuietKeeps DEF hostVars

\* A player says that it is ready; the last of those asked starts the rest (HostWait::OnReady).
LEMMA ReadyKeeps ==
    ASSUME AllTypes, WaitInv, NEW p \in Players, HostReads(p), NEW m, m = Head(requests[p]), m.type = "ready",
           ForThisWait(m), OnReady(p)
    PROVE  WaitInv'
<1>1. /\ conn' = conn /\ entered' = entered /\ UNCHANGED gameVars /\ lastId' = lastId /\ completed' = completed
      /\ m \in Sent(requests[p]) /\ m.id = wait.id /\ p \in Members /\ wait # NoWait /\ p \in wait.pending
      /\ m # Stop(lastId)
  BY HostReadsAt, MessageFields DEF OnReady, ForThisWait
<1>2. /\ wait.id = lastId /\ completed + 1 = lastId /\ lastId \in Nat /\ completed \in Nat /\ wait.left \in 0 .. 24
      /\ HostOK /\ \A q \in Players : PlayerOK(q)
      /\ wait \in [id: Nat, left: 0 .. 24, pending: SUBSET Players, running: BOOLEAN]
  BY <1>1, PlayerTypes DEF WaitInv, HostOK, AllTypes, HostTypes
<1>3. /\ wait'.id = lastId /\ wait'.pending = wait.pending \ {p} /\ wait'.running = LastAsked(p) /\ wait' # NoWait
  <2>1. wait'.id = lastId /\ wait'.pending = wait.pending \ {p} /\ wait'.running = LastAsked(p)
    BY <1>2 DEF OnReady
  <2>2. lastId # 0
    BY <1>2
  <2>. QED BY <2>1, <2>2 DEF NoWait
<1>4. \A n \in Preparing(p) : n.id # lastId
  <2>1. \A n \in Preparing(p) : m.id < n.id /\ n.id \in Nat /\ m.id \in Nat
    BY <1>1, <1>2, PlayerTypes DEF PlayerOK, OrderOK, Preparing
  <2>. QED BY <1>1, <1>2, <2>1
<1>5. ReadySent(p)
  BY <1>1, <1>2 DEF ReadySent
<1>6. PICK word : word = Phase("running", lastId, wait.left)
  OBVIOUS
<1>7. word \in Notice /\ word.phase = "running" /\ word.id = lastId
  <2>1. word.phase = "running" /\ word.id = lastId
    BY <1>6 DEF Phase
  <2>. QED BY <1>2, <1>6, <2>1, MessageTypes
<1>8. \A q \in Players : /\ Sent(notices[q]) \subseteq Sent(notices'[q]) /\ Increasing(notices'[q])
                         /\ \A n \in Sent(notices'[q]) : \/ n \in Sent(notices[q])
                                                         \/ n = word /\ Online(q) /\ LastAsked(p)
                         /\ ~Online(q) => notices'[q] = notices[q]
  <2>1. ASSUME LastAsked(p)
        PROVE  \A q \in Players : /\ Online(q) => Sent(notices'[q]) = Sent(notices[q]) \cup {word}
                                  /\ ~Online(q) => notices'[q] = notices[q]
                                  /\ Increasing(notices'[q])
    <3>1. PICK phases : phases = <<word>>
      OBVIOUS
    <3>2. phases \in Seq(Notice) /\ Sent(phases) = {word} /\ Increasing(phases) /\ Tell(phases)
      BY <1>2, <1>6, <1>7, <2>1, <3>1, ShortWords DEF OnReady
    <3>. QED BY <1>7, <3>2, TellAt, SMTT(30)
  <2>2. ASSUME ~LastAsked(p) PROVE notices' = notices
    BY <2>2 DEF OnReady
  <2>3. \A q \in Players : Increasing(notices[q])
    BY <1>2 DEF PlayerOK, OrderOK
  <2>4. CASE LastAsked(p)
    BY <2>1, <2>4
  <2>5. CASE ~LastAsked(p)
    BY <2>2, <2>3, <2>5
  <2>. QED BY <2>4, <2>5
<1>9. ASSUME NEW q \in Players PROVE WordOK(q)'
  <2>1. id' = id /\ ready' = ready /\ PlayerOK(q)
    BY <1>1, <1>2 DEF gameVars, serviceVars
  <2>2. Preparing(q)' = Preparing(q)
    BY <1>7, <1>8 DEF Preparing
  <2>3. Holds(q) => Holds(q)'
    BY <1>1, <2>1, OtherRequests DEF Holds
  <2>4. ReadySent(q)' => ReadySent(q)
    BY <1>1, OtherRequests DEF ReadySent
  <2>5. q \notin wait'.pending => q \notin wait.pending \/ ReadySent(q)
    BY <1>3, <1>5
  <2>6. \A n \in Preparing(q)' : n.id = lastId' => n \in Preparing(q) /\ n.id = lastId /\ q # p
    BY <1>1, <1>4, <2>2
  <2>7. Online(q)' => Online(q)
    BY <1>1 DEF Online
  <2>8. ASSUME Online(q)
        PROVE  /\ ReadySent(q) => Holds(q)
               /\ q \in entered /\ q \notin wait.pending => Holds(q)
               /\ (q \notin wait.pending \/ ReadySent(q)) /\ id[q] = lastId => ready[q]
               /\ \A n \in Preparing(q) : n.id = lastId => q \in wait.pending
    BY <1>1, <2>1, <2>8 DEF PlayerOK, WordOK
  <2>. QED BY <1>1, <1>3, <2>1, <2>3, <2>4, <2>5, <2>6, <2>7, <2>8 DEF WordOK
<1>10. ASSUME NEW q \in Players PROVE Quiet(q)
  <2>1. ASSUME Online(q), LastAsked(p)
        PROVE  (id[q] = lastId => menu[q]) /\ \A k \in Preparing(q) : k.id # lastId
    <3>1. q \notin wait.pending \/ (q = p /\ ReadySent(q))
      BY <1>5, <2>1 DEF LastAsked
    <3>2. WordOK(q) /\ ServiceOK(q)
      BY <1>2 DEF PlayerOK
    <3>. QED BY <1>1, <1>4, <2>1, <3>1, <3>2 DEF WordOK, ServiceOK
  <2>2. AskWorld(worldId[q]) \in Sent(requests[q]) => AskWorld(worldId[q]) \in Sent(requests'[q])
    BY RowsStillAsked
  <2>3. /\ Sent(requests'[q]) \subseteq Sent(requests[q])
        /\ conn'[q] = "none" => requests'[q] = requests[q]
    BY OtherRequests
  <2>4. 1 <= lastId
    BY <1>2
  <2>5. conn'[q] = "none" => notices'[q] = notices[q]
    BY <1>1, <1>8 DEF Online
  <2>6. ASSUME NEW n \in Sent(notices'[q]), n \notin Sent(notices[q])
        PROVE  /\ n.phase = "running" /\ 1 <= n.id /\ n.id <= lastId /\ n.id = lastId
               /\ (id[q] = lastId => menu[q]) /\ \A k \in Preparing(q) : k.id # lastId
    <3>1. n = word /\ Online(q) /\ LastAsked(p)
      BY <1>8, <2>6
    <3>. QED BY <1>2, <1>7, <2>1, <2>4, <3>1
  <2>7. Sent(notices[q]) \subseteq Sent(notices'[q]) /\ Increasing(notices'[q])
    BY <1>8
  <2>. QED BY <1>1, <2>2, <2>3, <2>5, <2>6, <2>7 DEF Quiet
<1>11. HostOK'
  <2>1. wait'.running => wait'.pending = {}
    BY <1>3 DEF LastAsked
  <2>. QED BY <1>1, <1>2, <1>3, <2>1 DEF HostOK, Members
<1>. QED BY <1>1, <1>2, <1>9, <1>10, <1>11, QuietKeeps

\* A new wait: everyone who is connected is asked (HostWait::OnStart).
LEMMA StartKeeps ==
    ASSUME AllTypes, WaitInv, NEW p \in Players, HostReads(p), NEW m, m = Head(requests[p]), m.type = "start",
           OnStart(m)
    PROVE  WaitInv'
<1>1. /\ conn' = conn /\ entered' = entered /\ UNCHANGED gameVars /\ m.left \in 0 .. 24
      /\ wait = NoWait /\ lastId' = lastId + 1 /\ completed' = completed
      /\ wait' = [id |-> lastId + 1, left |-> m.left, pending |-> Members, running |-> FALSE]
  BY HostReadsAt DEF OnStart
<1>2. HostOK /\ completed = lastId /\ lastId \in Nat /\ lastId + 1 \in Nat
  BY <1>1, PlayerTypes DEF WaitInv, HostOK
<1>3. PICK new : new = Phase("preparing", lastId + 1, m.left)
  OBVIOUS
<1>4. new \in Notice /\ new.phase = "preparing" /\ new.id = lastId + 1
  <2>1. new.phase = "preparing" /\ new.id = lastId + 1
    BY <1>3 DEF Phase
  <2>. QED BY <1>1, <1>2, <1>3, <2>1, MessageTypes
<1>5. \A q \in Players : /\ Online(q) => Sent(notices'[q]) = Sent(notices[q]) \cup {new}
                         /\ ~Online(q) => notices'[q] = notices[q]
                         /\ Increasing(notices'[q])
  <2>1. PICK phases : phases = <<new>>
    OBVIOUS
  <2>2. phases \in Seq(Notice) /\ Sent(phases) = {new} /\ Increasing(phases) /\ Tell(phases)
    BY <1>3, <1>4, <2>1, ShortWords DEF OnStart
  <2>3. \A q \in Players : \A n \in Sent(notices[q]) : n.id < new.id
    BY <1>2, <1>4, PlayerTypes DEF WaitInv, PlayerOK, IdsOK
  <2>. QED BY <2>2, <2>3, TellAt
<1>6. ASSUME NEW q \in Players PROVE PlayerOK(q)'
  <2>1. /\ UNCHANGED <<id, left, steps, pending, ready, running, finished, menu, begun, rest, worldId, worldDue, owed>>
        /\ PlayerOK(q) /\ Increasing(notices'[q])
    BY <1>1, <1>5 DEF WaitInv, gameVars, serviceVars, engineVars, worldVars
  <2>2. /\ id[q] \in Nat /\ worldId[q] \in Nat /\ id[q] <= lastId /\ worldId[q] <= lastId
        /\ \A x \in Sent(requests[q]) : x.id \in Nat /\ x.id <= lastId
        /\ \A n \in Sent(notices[q]) : n.id \in Nat /\ 1 <= n.id /\ n.id <= lastId
    BY <2>1, PlayerTypes DEF PlayerOK, IdsOK
  <2>3. /\ Sent(requests'[q]) \subseteq Sent(requests[q])
        /\ conn'[q] = "none" => requests'[q] = requests[q]
    BY OtherRequests
  <2>4. \A n \in Sent(notices'[q]) : n \in Sent(notices[q]) \/ (n = new /\ Online(q))
    BY <1>5
  <2>5. IdsOK(q)'
    <3>1. \A n \in Sent(notices'[q]) : 1 <= n.id /\ n.id <= lastId' /\ (n.phase = "finished" => n.id <= completed')
      BY <1>1, <1>2, <1>4, <2>1, <2>2, <2>4 DEF PlayerOK, IdsOK
    <3>2. conn'[q] = "none" =>
             id'[q] = 0 /\ worldId'[q] = 0 /\ ~owed'[q] /\ requests'[q] = <<>> /\ notices'[q] = <<>>
      BY <1>1, <1>5, <2>1, <2>3 DEF PlayerOK, IdsOK, Online
    <3>3. /\ id'[q] <= lastId' /\ worldId'[q] <= lastId'
          /\ \A x \in Sent(requests'[q]) :
               x.id <= lastId' /\ (x.type = "world" => 1 <= x.id /\ x.id <= completed')
      BY <1>1, <1>2, <2>1, <2>2, <2>3 DEF PlayerOK, IdsOK
    <3>. QED BY <3>1, <3>2, <3>3 DEF IdsOK
  <2>6. ServiceOK(q)'
    BY <1>1, <2>1 DEF PlayerOK, ServiceOK, RestFollows
  <2>7. OrderOK(q)'
    <3>1. ASSUME NEW n \in Preparing(q)'
          PROVE  /\ id'[q] < n.id
                 /\ \A x \in Sent(requests'[q]) : x.type = "ready" => x.id < n.id
                 /\ \A k \in Sent(notices'[q]) : k.phase = "running" => k.id # n.id
      <4>1. CASE n \in Sent(notices[q])
        <5>1. n \in Preparing(q) /\ n.id <= lastId /\ n.id \in Nat
          BY <2>2, <4>1 DEF Preparing
        <5>. QED BY <1>2, <1>4, <2>1, <2>3, <2>4, <5>1 DEF PlayerOK, OrderOK
      <4>2. CASE n = new
        BY <1>2, <1>4, <2>1, <2>2, <2>3, <2>4, <4>2
      <4>. QED BY <2>4, <4>1, <4>2 DEF Preparing
    <3>. QED BY <2>1, <3>1 DEF OrderOK
  <2>8. RunningOK(q)'
    BY <1>4, <2>1, <2>4 DEF PlayerOK, RunningOK
  <2>9. WordOK(q)'
    <3>1. ~ReadySent(q)'
      BY <1>1, <1>2, <2>2, <2>3 DEF ReadySent
    <3>2. q \in entered => q \in Members
      BY <1>2 DEF HostOK
    <3>3. Online(q)' => q \in Members
      BY <1>1 DEF Online, Members
    <3>. QED BY <1>1, <3>1, <3>2, <3>3 DEF WordOK
  <2>10. LastIsComing(q)'
    <3>1. Online(q)' => new \in Preparing(q)' /\ new.id = lastId'
      BY <1>1, <1>4, <1>5 DEF Online, Preparing
    <3>. QED BY <3>1 DEF LastIsComing
  <2>11. RowsOK(q)'
    <3>1. AskWorld(worldId[q]) \in Sent(requests[q]) => AskWorld(worldId[q]) \in Sent(requests'[q])
      BY RowsStillAsked
    <3>2. Online(q)' => Online(q) /\ Sent(notices[q]) \subseteq Sent(notices'[q])
      BY <1>1, <1>5 DEF Online
    <3>. QED BY <2>1, <3>1, <3>2 DEF PlayerOK, RowsOK
  <2>. QED BY <2>5, <2>6, <2>7, <2>8, <2>9, <2>10, <2>11 DEF PlayerOK
<1>7. HostOK'
  <2>1. wait'.id = lastId' /\ wait' # NoWait /\ ~wait'.running /\ completed' + 1 = lastId'
    BY <1>1, <1>2 DEF NoWait
  <2>. QED BY <1>1, <1>2, <2>1 DEF HostOK, Members
<1>. QED BY <1>6, <1>7 DEF WaitInv

\* Everything the host reads (HostWait::OnCommand, OnWorldRequest).
LEMMA HostReadsKeeps ==
    ASSUME AllTypes, WaitInv, NEW p \in Players, HostReads(p)
    PROVE  WaitInv'
<1>1. PICK m : m = Head(requests[p])
  OBVIOUS
<1>2. CASE Acted(p, m)
  <2>1. CASE m.type = "start" /\ OnStart(m)
    BY <1>1, <2>1, StartKeeps
  <2>2. CASE m.type = "ready" /\ ForThisWait(m) /\ OnReady(p)
    BY <1>1, <2>2, ReadyKeeps
  <2>3. CASE m.type = "progress" /\ ForThisWait(m) /\ OnProgress(p, m.left)
    BY <1>1, <2>3, ProgressKeeps
  <2>4. CASE m.type = "stop" /\ ForThisWait(m) /\ End /\ UNCHANGED lastId
    BY <1>1, <2>4, StopKeeps
  <2>5. CASE m.type = "world" /\ OnWorldRequest(p, m.id)
    BY <1>1, <2>5, WorldRequestKeeps
  <2>. QED BY <1>2, <2>1, <2>2, <2>3, <2>4, <2>5 DEF Acted
<1>3. CASE Ignored(p, m) /\ UNCHANGED <<notices, hostVars>>
  BY <1>1, <1>3, IgnoredKeeps
<1>. QED BY <1>1, <1>2, <1>3, Zenon DEF HostReads

\* The invariant holds at first: nobody rests, and nothing is on its way.
LEMMA InvInit == Init => WaitInv
<1>1. ASSUME Init PROVE WaitInv
  <2>1. /\ wait = NoWait /\ lastId = 0 /\ completed = 0 /\ entered = {}
        /\ \A p \in Players : /\ id[p] = 0 /\ steps[p] = <<>> /\ ~pending[p] /\ ~ready[p] /\ ~running[p] /\ ~finished[p]
                              /\ worldId[p] = 0 /\ ~worldDue[p] /\ ~owed[p]
                              /\ requests[p] = <<>> /\ notices[p] = <<>>
    BY <1>1 DEF Init
  <2>2. HostOK
    BY <2>1 DEF HostOK, NoWait
  <2>3. ASSUME NEW p \in Players PROVE PlayerOK(p)
    <3>1. Sent(requests[p]) = {} /\ Sent(notices[p]) = {} /\ DOMAIN notices[p] = {}
      BY <2>1, SentFew
    <3>2. IdsOK(p)
      BY <2>1, <3>1 DEF IdsOK
    <3>3. ServiceOK(p) /\ OrderOK(p) /\ RunningOK(p)
      BY <2>1, <3>1 DEF ServiceOK, OrderOK, RunningOK, Increasing, Preparing
    <3>4. WordOK(p) /\ LastIsComing(p) /\ RowsOK(p)
      BY <2>1, <3>1 DEF WordOK, LastIsComing, RowsOK, Preparing
    <3>. QED BY <3>2, <3>3, <3>4 DEF PlayerOK
  <2>. QED BY <2>2, <2>3 DEF WaitInv
<1>. QED BY <1>1

\* Every step keeps the invariant.
LEMMA InvStep == ASSUME AllTypes, WaitInv, [Next]_vars PROVE WaitInv'
<1>1. ASSUME UNCHANGED vars PROVE WaitInv'
  <2>1. /\ UNCHANGED <<conn, entered, id, left, steps, pending, ready, running, finished, menu, begun, rest,
                       worldId, worldDue, owed, requests, notices>>
        /\ UNCHANGED hostVars
    BY <1>1 DEF vars, connVars, gameVars, serviceVars, engineVars, worldVars
  <2>2. \A q \in Players : PlayerOK(q)'
    BY <2>1, AloneKept, Zenon DEF Alone, WaitInv
  <2>3. HostOK'
    BY <2>1 DEF WaitInv, HostOK, Members, hostVars, NoWait
  <2>. QED BY <2>2, <2>3 DEF WaitInv
<1>2. ASSUME Next PROVE WaitInv'
  <2>1. CASE \E p \in Players : \/ HostReads(p) \/ GameReads(p)
                                \/ Join(p) \/ Enter(p) \/ HostLosesGuest(p) \/ GameLosesHost(p)
                                \/ Cancel(p) \/ AnswerLate(p) \/ Load(p)
    BY <2>1, HostReadsKeeps, GameReadsKeeps, JoinKeeps, EnterKeeps, HostLosesGuestKeeps, GameLosesHostKeeps,
       CancelKeeps, AnswerLateKeeps, LoadKeeps
  <2>2. CASE \E p \in Players, h \in Hours : Ask(p, h)
    BY <2>2, AskKeeps
  <2>3. CASE \E p \in Players, menuReady \in BOOLEAN : Update(p, menuReady)
    BY <2>3, UpdateKeeps
  <2>4. CASE NativeStep
    BY <2>4, NativeStepKeeps
  <2>5. CASE Stall
    BY <2>5, StallKeeps
  <2>. QED BY <1>2, <2>1, <2>2, <2>3, <2>4, <2>5 DEF Next
<1>. QED BY <1>1, <1>2

\* The inductive invariant holds in every state (HostWait, WaitService, GuestWait together).
THEOREM Invariant == Spec => []WaitInv
<1>1. AllTypes /\ WaitInv /\ [Next]_vars => WaitInv'
  BY InvStep
<1>. QED BY <1>1, InvInit, WaitTypes, PTL DEF Spec

\* A rest runs only while every character's game is ready for this very wait and holds to it, or has
\* just said that it cannot (HostWait::OnReady starts it, any Cancel or Failed ends it).
THEOREM RestIsShared == Spec => []RunsTogether
<1>1. AllTypes /\ WaitInv => RunsTogether
  <2>1. ASSUME AllTypes, WaitInv, wait.running, NEW p \in entered, Online(p)
        PROVE  (id[p] = wait.id /\ ready[p]) \/ StopSent(p, wait.id)
    <3>1. wait # NoWait /\ wait.pending = {} /\ wait.id = lastId /\ p \in Players
      BY <2>1 DEF WaitInv, HostOK, NoWait, Members
    <3>2. Holds(p)
      BY <2>1, <3>1 DEF WaitInv, PlayerOK, WordOK
    <3>. QED BY <3>1, <3>2 DEF Holds, StopSent, Sent
  <2>. QED BY <2>1 DEF RunsTogether
<1>. QED BY <1>1, Invariant, WaitTypes, PTL

\* A guest that waits for the host's rows will get them, or a newer wait is on its way to it
\* (GuestWait::RequestWorld, HostWait::OnWorldRequest).
THEOREM RowsAreNeverForgotten == Spec => []RowsAreOnTheirWay
<1>1. WaitInv => RowsAreOnTheirWay
  <2>1. ASSUME WaitInv, NEW p \in Players, Online(p), owed[p]
        PROVE  \/ \E n \in DOMAIN requests[p] : requests[p][n] = AskWorld(worldId[p])
               \/ \E n \in DOMAIN notices[p] : \/ notices[p][n].phase = "world" /\ notices[p][n].id = worldId[p]
                                               \/ notices[p][n].phase = "preparing" /\ notices[p][n].id > worldId[p]
    <3>1. RowsOK(p)
      BY <2>1 DEF WaitInv, PlayerOK
    <3>. QED BY <2>1, <3>1 DEF RowsOK, Sent
  <2>. QED BY <2>1 DEF RowsAreOnTheirWay
<1>. QED BY <1>1, Invariant, PTL

\* A game is done with a wait whose countdown it heard run out only with its own player's rest complete
\* (WaitService::OnUpdate applies the last native step before it closes the menu).
THEOREM EveryoneRests == Spec => RestIsComplete
<1>1. ASSUME AllTypes, WaitInv, [Next]_vars, NEW p \in Players, running[p], left[p] = 0, id[p] # 0, id'[p] = 0, Online(p)'
      PROVE  rest'[p] = 0
  <2>0. id \in [Players -> Nat]
    BY <1>1 DEF AllTypes, ServiceTypes
  <2>1. ASSUME NEW q \in Players, NEW menuReady \in BOOLEAN, Update(q, menuReady) PROVE rest'[p] = 0
    <3>1. q = p
      <4>1. ASSUME q # p PROVE id'[p] = id[p]
        <5>1. CASE finished[q]
          BY <1>1, <2>1, <4>1, <5>1, ResetAt DEF Update
        <5>2. CASE ~finished[q]
          BY <2>1, <5>2 DEF Update
        <5>. QED BY <5>1, <5>2
      <4>. QED BY <1>1, <4>1
    <3>. QED BY <1>1, <2>1, <3>1, UpdateCompletes
  <2>2. ASSUME NEW q \in Players, AnswerLate(q) PROVE rest'[p] = 0
    <3>1. q = p
      BY <1>1, <2>2, ResetAt DEF AnswerLate
    <3>2. id[q] = 0
      BY <1>1, <2>2 DEF AnswerLate, WaitInv, PlayerOK, ServiceOK
    <3>. QED BY <1>1, <3>1, <3>2
  <2>3. ASSUME NEW q \in Players, Load(q) PROVE rest'[p] = 0
    <3>1. q = p
      BY <1>1, <2>3, ResetAt DEF Load
    <3>. QED BY <1>1, <2>3, <3>1, At DEF Load, AllTypes, EngineTypes
  <2>4. ASSUME NEW q \in Players, GameLosesHost(q) PROVE FALSE
    <3>1. q = p
      BY <1>1, <2>4, ResetAt DEF GameLosesHost
    <3>2. conn'[p] \in {"lost", "closed"}
      BY <1>1, <2>4, <3>1, At DEF GameLosesHost, AllTypes, ConnTypes
    <3>. QED BY <1>1, <3>2 DEF Online
  <2>5. ASSUME NEW q \in Players, GameReads(q) PROVE FALSE
    <3>1. PICK m : m = Head(notices[q])
      OBVIOUS
    <3>2. id' = id \/ (m.phase = "preparing" /\ id' = [id EXCEPT ![q] = m.id])
      BY <2>5, <3>1 DEF GameReads, OnPreparing, OnRunning, OnHostProgress, OnFinished, OnWorld, serviceVars
    <3>3. 1 <= m.id
      BY <1>1, <2>5, <3>1, ReadsAt DEF WaitInv, PlayerOK, IdsOK
    <3>. QED BY <1>1, <2>0, <3>2, <3>3, At
  <2>6. ASSUME id' = id PROVE FALSE
    BY <1>1, <2>6
  <2>7. CASE Next
    <3>1. ASSUME NEW q \in Players, HostReads(q) \/ Join(q) \/ Enter(q) \/ HostLosesGuest(q) \/ Cancel(q) PROVE FALSE
      BY <2>6, <3>1 DEF HostReads, Join, Enter, HostLosesGuest, Cancel, gameVars, serviceVars
    <3>2. ASSUME NEW q \in Players, NEW h \in Hours, Ask(q, h) PROVE FALSE
      BY <2>6, <3>2 DEF Ask
    <3>3. ASSUME NativeStep \/ Stall PROVE FALSE
      BY <2>6, <3>3 DEF NativeStep, Stall, gameVars, serviceVars
    <3>. QED BY <2>1, <2>2, <2>3, <2>4, <2>5, <2>7, <3>1, <3>2, <3>3, Zenon DEF Next
  <2>8. CASE UNCHANGED vars
    BY <2>6, <2>8 DEF vars, gameVars, serviceVars
  <2>. QED BY <1>1, <2>7, <2>8
<1>2. AllTypes /\ WaitInv /\ [Next]_vars =>
        [\A p \in Players : running[p] /\ left[p] = 0 /\ id[p] # 0 /\ id'[p] = 0 /\ Online(p)' => rest'[p] = 0]_vars
  BY <1>1
<1>. QED BY <1>2, Invariant, WaitTypes, PTL DEF Spec, RestIsComplete
=============================================================================
