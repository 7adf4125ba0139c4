--------------------------- MODULE JoinFlowProofs ---------------------------
(***************************************************************************)
(* Proofs about JoinFlow for every set of guests and slots, any length of  *)
(* a save and any number of joins, loads, retries and lost connections:    *)
(* types, that the host and the games agree on who plays, that who plays   *)
(* is in the host's world, and that a game that waits for the host has     *)
(* something coming.                                                       *)
(***************************************************************************)
EXTENDS JoinFlow, ChannelFacts

-----------------------------------------------------------------------------
(* What a game can be at.                                                  *)

\* A reconnect that waits has a try left (JoinService::kReconnectTries).
Sound(r) == r \in Games /\ (r.step = "reconnectWait" => r.tries < Tries)

\* No connection, or one that is not there yet, has no slot and no session; and a game that makes a
\* character, loads, places its player or waits to reconnect has no connection.
Off(r) == r.link = "none" /\ r.slot = 0 /\ r.online = FALSE
Wired(r) ==
    /\ r.link \in {"none", "dialing"} => r.slot = 0 /\ r.online = FALSE
    /\ r.step \in {"creating", "loading", "placing", "reconnectWait"} => r.link = "none"
Shape(r) == Sound(r) /\ Wired(r)

\* What a game does by itself: it stays in the session over the slot it has, or leaves its slot.
Keeps(r, q) == Shape(q) /\ (q.slot = 0 \/ (q.slot = r.slot /\ q.online = r.online))

\* The values some steps give a game.
LEMMA SomeValues ==
    /\ NoSave \in [of: Worlds, have: 0 .. Blocks] /\ 0 \in Worlds /\ 0 \in 0 .. Tries /\ 0 < Tries
    /\ {"idle", "connecting", "joining", "reconnecting", "reconnectWait", "receiving", "placing",
      "creating", "loading", "checking"} \subseteq Steps
BY BoundsAssumption DEF NoSave, Worlds, Steps

\* A game with one field changed.
LEMMA Changed ==
    ASSUME NEW r \in Games
    PROVE  /\ \A v \in Steps : [r EXCEPT !.step = v] \in Games
           /\ \A v \in BOOLEAN : [r EXCEPT !.brought = v] \in Games
           /\ \A v \in 0 .. Tries : [r EXCEPT !.tries = v] \in Games
           /\ \A v \in {"none", "dialing", "open", "refused"} : [r EXCEPT !.link = v] \in Games
           /\ \A v \in Worlds : [r EXCEPT !.world = v] \in Games
           /\ \A v \in [of: Worlds, have: 0 .. Blocks] : [r EXCEPT !.save = v] \in Games
           /\ \A v \in {"no", "pending", "finished"} : [r EXCEPT !.ending = v] \in Games
<1>1. \A v \in Steps : [r EXCEPT !.step = v] \in Games
  BY DEF Games
<1>2. \A v \in BOOLEAN : [r EXCEPT !.brought = v] \in Games
  BY DEF Games
<1>3. \A v \in 0 .. Tries : [r EXCEPT !.tries = v] \in Games
  BY DEF Games
<1>4. \A v \in {"none", "dialing", "open", "refused"} : [r EXCEPT !.link = v] \in Games
  BY DEF Games
<1>5. \A v \in Worlds : [r EXCEPT !.world = v] \in Games
  BY DEF Games
<1>6. \A v \in [of: Worlds, have: 0 .. Blocks] : [r EXCEPT !.save = v] \in Games
  BY DEF Games
<1>7. \A v \in {"no", "pending", "finished"} : [r EXCEPT !.ending = v] \in Games
  BY DEF Games
<1>. QED BY <1>1, <1>2, <1>3, <1>4, <1>5, <1>6, <1>7, Zenon

\* A game without a connection is as it should be, whatever its step.
LEMMA OffShape == ASSUME NEW r, Sound(r), Off(r) PROVE Shape(r)
BY DEF Shape, Wired, Off

\* Leaving a connection (TransportService::Close).
LEMMA GoneShape ==
    ASSUME NEW r, Sound(r)
    PROVE  /\ Sound(Gone(r)) /\ Off(Gone(r)) /\ Shape(Gone(r))
           /\ Gone(r).step = r.step /\ Gone(r).tries = r.tries
<1>1. PICK q : q = Gone(r)
  OBVIOUS
<1>2. q \in Games /\ q.step = r.step /\ q.tries = r.tries /\ q.link = "none" /\ q.slot = 0 /\ q.online = FALSE
  BY <1>1 DEF Gone, Games, Sound
<1>3. Sound(q) /\ Off(q)
  BY <1>2 DEF Sound, Off
<1>. QED BY <1>1, <1>2, <1>3, OffShape

\* JoinService::Fail leaves the slot.
LEMMA FailShape ==
    ASSUME NEW r, Shape(r)
    PROVE  Shape(Fail(r)) /\ Fail(r).slot = 0 /\ (Off(r) => Off(Fail(r)))
<1>1. PICK idle : idle = [r EXCEPT !.step = "idle", !.save = NoSave]
  OBVIOUS
<1>2. /\ idle \in Games /\ idle.step = "idle" /\ idle.link = r.link /\ idle.slot = r.slot
      /\ idle.online = r.online
  <2>1. r \in Games
    BY DEF Shape, Sound
  <2>2. PICK q : q = [r EXCEPT !.step = "idle"]
    OBVIOUS
  <2>3. q \in Games /\ idle = [q EXCEPT !.save = NoSave]
    BY <1>1, <2>1, <2>2, SomeValues, Changed, Zenon
  <2>4. idle \in Games
    BY <2>3, SomeValues, Changed, Zenon
  <2>. QED BY <1>1, <2>1, <2>4 DEF Games
<1>3. Sound(idle)
  BY <1>2 DEF Sound
<1>4. CASE r.link \in {"open", "refused"}
  <2>1. Fail(r) = Gone(idle)
    BY <1>1, <1>4, Zenon DEF Fail
  <2>. QED BY <1>3, <2>1, GoneShape DEF Off
<1>5. CASE r.link \notin {"open", "refused"}
  <2>1. Fail(r) = idle
    BY <1>1, <1>5, Zenon DEF Fail
  <2>2. r.link \in {"none", "dialing"}
    BY <1>5 DEF Shape, Sound, Games
  <2>3. idle.slot = 0 /\ idle.online = FALSE
    BY <1>2, <2>2 DEF Shape, Wired
  <2>4. Shape(idle)
    BY <1>2, <1>3, <2>3 DEF Shape, Wired
  <2>. QED BY <1>2, <2>1, <2>3, <2>4 DEF Off
<1>. QED BY <1>4, <1>5

\* SessionService::End changes nothing of the connection.
LEMMA EndShape ==
    ASSUME NEW r, Sound(r)
    PROVE  Sound(End(r)) /\ (Off(r) => Off(End(r))) /\ End(r).step = r.step /\ End(r).tries = r.tries
<1>1. PICK q : q = [r EXCEPT !.ending = "pending"]
  OBVIOUS
<1>2. q \in Games /\ q.step = r.step /\ q.tries = r.tries /\ q.link = r.link /\ q.slot = r.slot /\ q.online = r.online
  BY <1>1 DEF Sound, Games
<1>3. End(r) \in {q, r}
  BY <1>1 DEF End
<1>. QED BY <1>2, <1>3 DEF Sound, Off

\* SessionService::Finish leaves the session.
LEMMA FinishShape ==
    ASSUME NEW r, Sound(r)
    PROVE  Shape(Finish(r)) /\ Finish(r).slot = 0
<1>1. PICK q : q = [r EXCEPT !.ending = "finished", !.step = "idle", !.tries = 0, !.brought = FALSE,
                             !.save = NoSave, !.world = 0]
  OBVIOUS
<1>2. q \in Games /\ q.step = "idle"
  <2>1. r \in Games
    BY DEF Sound
  <2>2. PICK q1 : q1 = [r EXCEPT !.ending = "finished"]
    OBVIOUS
  <2>3. PICK q2 : q2 = [q1 EXCEPT !.step = "idle"]
    OBVIOUS
  <2>4. PICK q3 : q3 = [q2 EXCEPT !.tries = 0]
    OBVIOUS
  <2>5. PICK q4 : q4 = [q3 EXCEPT !.brought = FALSE]
    OBVIOUS
  <2>6. PICK q5 : q5 = [q4 EXCEPT !.save = NoSave]
    OBVIOUS
  <2>7. q = [q5 EXCEPT !.world = 0]
    BY <1>1, <2>2, <2>3, <2>4, <2>5, <2>6, Zenon
  <2>8. q1 \in Games
    BY <2>1, <2>2, Changed
  <2>9. q2 \in Games
    BY <2>3, <2>8, SomeValues, Changed
  <2>10. q3 \in Games
    BY <2>4, <2>9, SomeValues, Changed
  <2>11. q4 \in Games
    BY <2>5, <2>10, Changed
  <2>12. q5 \in Games
    BY <2>6, <2>11, SomeValues, Changed
  <2>13. q \in Games
    BY <2>7, <2>12, SomeValues, Changed
  <2>. QED BY <1>1, <2>1, <2>13 DEF Games
<1>3. Sound(q) /\ Finish(r) = Gone(q)
  BY <1>1, <1>2 DEF Sound, Finish
<1>. QED BY <1>3, GoneShape DEF Off

\* A reconnect is tried again while tries are left (JoinService::Retry).
LEMMA RetryShape ==
    ASSUME NEW r, Sound(r)
    PROVE  Sound(Retry(r)) /\ (Off(r) => Off(Retry(r)))
<1>1. PICK w, i : w = [r EXCEPT !.step = "reconnectWait"] /\ i = [r EXCEPT !.step = "idle"]
  OBVIOUS
<1>2. /\ w \in Games /\ w.step = "reconnectWait" /\ w.tries = r.tries /\ (Off(r) => Off(w))
      /\ i \in Games /\ i.step = "idle" /\ (Off(r) => Off(i))
  <2>1. r \in Games
    BY DEF Sound
  <2>2. w \in Games /\ w.step = "reconnectWait" /\ w.tries = r.tries /\ i \in Games /\ i.step = "idle"
    BY <1>1, <2>1, SomeValues, SMTT(30) DEF Games
  <2>3. Off(r) => Off(w) /\ Off(i)
    BY <1>1, <2>1, SMTT(30) DEF Games, Off
  <2>. QED BY <2>2, <2>3
<1>3. CASE r.tries < Tries
  <2>1. Retry(r) = w
    BY <1>1, <1>3, Zenon DEF Retry
  <2>. QED BY <1>2, <1>3, <2>1 DEF Sound
<1>4. CASE ~(r.tries < Tries)
  <2>1. Retry(r) = End(i)
    BY <1>1, <1>4, Zenon DEF Retry
  <2>2. Sound(i)
    BY <1>2 DEF Sound
  <2>. QED BY <1>2, <2>1, <2>2, EndShape
<1>. QED BY <1>3, <1>4

\* A player that lost its connection gets all its tries (JoinService::StartReconnect).
LEMMA StartReconnectShape ==
    ASSUME NEW r, Sound(r), Off(r)
    PROVE  Sound(StartReconnect(r)) /\ Off(StartReconnect(r))
<1>1. PICK q : q = StartReconnect(r)
  OBVIOUS
<1>2. q \in Games /\ q.tries = 0 /\ Off(q)
  <2>1. r \in Games
    BY DEF Sound
  <2>2. q \in Games /\ q.tries = 0 /\ q.link = r.link /\ q.slot = r.slot /\ q.online = r.online
    <3>1. PICK q1 : q1 = [r EXCEPT !.step = "reconnectWait"]
      OBVIOUS
    <3>2. PICK q2 : q2 = [q1 EXCEPT !.tries = 0]
      OBVIOUS
    <3>3. q = [q2 EXCEPT !.brought = FALSE]
      BY <1>1, <3>1, <3>2, Zenon DEF StartReconnect
    <3>4. q1 \in Games
      BY <2>1, <3>1, SomeValues, Changed
    <3>5. q2 \in Games
      BY <3>2, <3>4, SomeValues, Changed
    <3>6. q \in Games
      BY <3>3, <3>5, Changed
    <3>. QED BY <2>1, <3>1, <3>2, <3>3, <3>4, <3>5, <3>6 DEF Games
  <2>. QED BY <2>2 DEF Off
<1>. QED BY <1>1, <1>2, SomeValues DEF Sound

\* However a connection ends, its game has none (JoinService::OnDisconnected).
LEMMA DisconnectedShape ==
    ASSUME NEW r, Shape(r), NEW why
    PROVE  Shape(Disconnected(r, why)) /\ Disconnected(r, why).slot = 0
<1>1. PICK gone : gone = Gone(r)
  OBVIOUS
<1>2. Sound(gone) /\ Off(gone) /\ Shape(gone)
  BY <1>1, GoneShape DEF Shape
<1>3. /\ Shape(Fail(gone)) /\ Fail(gone).slot = 0
      /\ Shape(StartReconnect(gone)) /\ StartReconnect(gone).slot = 0
      /\ Shape(End(gone)) /\ End(gone).slot = 0
      /\ Shape(Retry(gone)) /\ Retry(gone).slot = 0 /\ gone.slot = 0
  <2>1. Off(StartReconnect(gone)) /\ Off(End(gone)) /\ Off(Retry(gone))
    BY <1>2, StartReconnectShape, EndShape, RetryShape
  <2>2. Sound(StartReconnect(gone)) /\ Sound(End(gone)) /\ Sound(Retry(gone))
    BY <1>2, StartReconnectShape, EndShape, RetryShape
  <2>3. Shape(StartReconnect(gone)) /\ Shape(End(gone)) /\ Shape(Retry(gone))
    BY <2>1, <2>2, OffShape
  <2>. QED BY <1>2, <2>1, <2>3, FailShape DEF Off
<1>4. Disconnected(r, why) \in {gone, Fail(gone), StartReconnect(gone), End(gone), Retry(gone)}
  BY <1>1, Zenon DEF Disconnected
<1>. QED BY <1>2, <1>3, <1>4

\* A game dials from a state without a connection (JoinService::JoinSession).
LEMMA ConnectShape ==
    ASSUME NEW r \in Games, Off(r), NEW step \in {"connecting", "joining", "reconnecting"}
    PROVE  Shape(Connect(r, step)) /\ Connect(r, step).slot = 0
<1>1. PICK q : q = Connect(r, step)
  OBVIOUS
<1>2. q \in Games /\ q.step = step /\ q.link = "dialing" /\ q.slot = 0 /\ q.online = FALSE
  <2>1. r \in Games
    OBVIOUS
  <2>2. q \in Games /\ q.step = step /\ q.link = "dialing" /\ q.slot = r.slot /\ q.online = r.online
    <3>1. PICK q1 : q1 = [r EXCEPT !.step = step]
      OBVIOUS
    <3>2. PICK q2 : q2 = [q1 EXCEPT !.link = "dialing"]
      OBVIOUS
    <3>3. q = [q2 EXCEPT !.save = NoSave]
      BY <1>1, <3>1, <3>2, Zenon DEF Connect
    <3>4. q1 \in Games
      BY <2>1, <3>1, SomeValues, Changed
    <3>5. q2 \in Games
      BY <3>2, <3>4, Changed
    <3>6. q \in Games
      BY <3>3, <3>5, SomeValues, Changed
    <3>. QED BY <2>1, <3>1, <3>2, <3>3, <3>4, <3>5, <3>6 DEF Games
  <2>. QED BY <2>2 DEF Off
<1>. QED BY <1>1, <1>2 DEF Shape, Sound, Wired

\* An answer to the request to join (JoinService::OnAuthentication): "accepted" puts the game in the session, and no
\* other answer does.
LEMMA AuthenticationShape ==
    ASSUME NEW r, Shape(r), r.slot # 0, NEW what
    PROVE  LET q == Authentication(r, what) IN
           /\ Shape(q) /\ (q.slot = 0 \/ q.slot = r.slot)
           /\ what = "accepted" => q.online = TRUE
           /\ what # "accepted" /\ q.slot # 0 => q.online = r.online
<1>. DEFINE q == Authentication(r, what)
<1>1. r \in Games /\ Sound(r) /\ r.link \in {"open", "refused"} /\ r.step \notin {"reconnectWait", "creating", "loading", "placing"}
  BY DEF Shape, Sound, Wired, Games
<1>2. CASE what = "accepted"
  <2>1. PICK a : a = [r EXCEPT !.online = TRUE]
    OBVIOUS
  <2>2. PICK b : b = [a EXCEPT !.ending = "no"]
    OBVIOUS
  <2>3. PICK st : st = IF r.step \in {"joining", "reconnecting"} THEN "idle" ELSE r.step
    OBVIOUS
  <2>4. a \in Games /\ a.step = r.step /\ a.link = r.link /\ a.slot = r.slot /\ a.online = TRUE
    BY <1>1, <2>1 DEF Games
  <2>5. b \in Games
    BY <2>2, <2>4, Changed
  <2>6. b.step = r.step /\ b.link = r.link /\ b.slot = r.slot /\ b.online = TRUE
    BY <2>2, <2>4 DEF Games
  <2>7. st \in Steps /\ st \in {"idle", r.step}
    BY <1>1, <2>3, SomeValues DEF Games
  <2>8. q = [b EXCEPT !.step = st]
    <3>1. q = [r EXCEPT !.online = TRUE, !.ending = "no", !.step = IF @ \in {"joining", "reconnecting"} THEN "idle" ELSE @]
      BY <1>2, Zenon DEF Authentication
    <3>2. q = [b EXCEPT !.step = IF b.step \in {"joining", "reconnecting"} THEN "idle" ELSE b.step]
      BY <2>1, <2>2, <3>1, Zenon
    <3>. QED BY <2>3, <2>6, <3>2, Zenon
  <2>9. q \in Games
    BY <2>5, <2>7, <2>8, Changed
  <2>10. q.step = st /\ q.link = r.link /\ q.slot = r.slot /\ q.online = TRUE
    <3>. HIDE DEF q
    <3>. QED BY <2>5, <2>6, <2>8 DEF Games
  <2>. HIDE DEF q
  <2>11. Shape(q)
    BY <1>1, <2>7, <2>9, <2>10 DEF Shape, Sound, Wired
  <2>. QED BY <1>2, <2>10, <2>11 DEF q
<1>3. CASE what # "accepted"
  <2>1. PICK receiving, refused, creating :
            /\ receiving = [r EXCEPT !.step = "receiving"] /\ refused = [r EXCEPT !.link = "refused"]
            /\ creating = [r EXCEPT !.step = "creating"]
    OBVIOUS
  <2>2. q \in {r, Fail(r), receiving, refused, Gone(creating)}
    BY <1>3, <2>1, Zenon DEF Authentication
  <2>3. /\ Shape(receiving) /\ receiving.slot = r.slot /\ receiving.online = r.online
        /\ Shape(refused) /\ refused.slot = r.slot /\ refused.online = r.online
    <3>1. receiving \in Games /\ refused \in Games
      BY <1>1, <2>1, SomeValues, Changed
    <3>2. /\ receiving.step = "receiving" /\ receiving.link = r.link /\ receiving.slot = r.slot
          /\ receiving.online = r.online
          /\ refused.step = r.step /\ refused.link = "refused" /\ refused.slot = r.slot /\ refused.online = r.online
      BY <1>1, <2>1 DEF Games
    <3>. QED BY <1>1, <3>1, <3>2 DEF Shape, Sound, Wired
  <2>4. Shape(Gone(creating)) /\ Gone(creating).slot = 0
    <3>1. creating \in Games /\ creating.step = "creating"
      <4>1. creating \in Games
        BY <1>1, <2>1, SomeValues, Changed
      <4>2. creating.step = "creating"
        BY <1>1, <2>1 DEF Games
      <4>. QED BY <4>1, <4>2
    <3>2. Sound(creating)
      BY <3>1 DEF Sound
    <3>. QED BY <3>2, GoneShape DEF Off
  <2>5. Shape(Fail(r)) /\ Fail(r).slot = 0
    BY FailShape
  <2>. HIDE DEF q
  <2>6. Shape(q) /\ (q.slot = 0 \/ (q.slot = r.slot /\ q.online = r.online))
    BY <2>2, <2>3, <2>4, <2>5
  <2>. QED BY <1>3, <2>6 DEF q
<1>. QED BY <1>2, <1>3

\* The party's reload, whatever a game is at (JoinService::OnPartyReload).
LEMMA PartyReloadShape ==
    ASSUME NEW r, Shape(r), r.slot # 0
    PROVE  Keeps(r, PartyReload(r)) /\ PartyReload(r).slot = r.slot
<1>1. r \in Games /\ r.link \in {"open", "refused"}
  BY DEF Shape, Sound, Wired, Games
<1>2. PICK a : a = [r EXCEPT !.step = "receiving"]
  OBVIOUS
<1>3. PICK b : b = [a EXCEPT !.save = NoSave]
  OBVIOUS
<1>4. PICK v : v = (r.brought \/ r.online)
  OBVIOUS
<1>5. PICK q : q = [b EXCEPT !.brought = v]
  OBVIOUS
<1>6. v \in BOOLEAN
  BY <1>1, <1>4 DEF Games
<1>7. a \in Games /\ a.step = "receiving" /\ a.link = r.link /\ a.slot = r.slot /\ a.online = r.online /\ a.brought = r.brought
  BY <1>1, <1>2, SomeValues, Changed DEF Games
<1>8. b \in Games /\ b.step = "receiving" /\ b.link = r.link /\ b.slot = r.slot /\ b.online = r.online /\ b.brought = r.brought
  BY <1>3, <1>7, SomeValues, Changed DEF Games
<1>9. q \in Games /\ q.step = "receiving" /\ q.link = r.link /\ q.slot = r.slot /\ q.online = r.online
  BY <1>5, <1>6, <1>8, Changed DEF Games
<1>10. PartyReload(r) = q
  <2>1. PartyReload(r) = [b EXCEPT !.brought = b.brought \/ r.online]
    BY <1>2, <1>3, Zenon DEF PartyReload
  <2>. QED BY <1>4, <1>5, <1>8, <2>1, Zenon
<1>. QED BY <1>1, <1>9, <1>10 DEF Keeps, Shape, Sound, Wired

\* A block of the save (JoinService::OnSaveChunk): the last one ends the connection.
LEMMA SaveChunkShape ==
    ASSUME NEW r, Shape(r), r.slot # 0, NEW block \in Notices, NEW written \in BOOLEAN
    PROVE  Keeps(r, SaveChunk(r, block, written))
<1>1. r \in Games /\ Sound(r)
  BY DEF Shape, Sound
<1>2. PICK save : save = Add(r.save, block)
  OBVIOUS
<1>3. save \in [of: Worlds, have: 0 .. Blocks]
  BY <1>2 DEF Add, Notices
<1>4. PICK more, whole : more = [r EXCEPT !.save = save] /\ whole = [r EXCEPT !.step = "loading", !.save = save]
  OBVIOUS
<1>5. Keeps(r, r) /\ Keeps(r, Fail(r))
  BY FailShape DEF Keeps
<1>6. Keeps(r, more)
  <2>1. more \in Games
    BY <1>1, <1>3, <1>4, Changed
  <2>2. more.step = r.step /\ more.tries = r.tries /\ more.link = r.link /\ more.slot = r.slot /\ more.online = r.online
    BY <1>1, <1>4 DEF Games
  <2>. QED BY <2>1, <2>2 DEF Keeps, Shape, Sound, Wired
<1>7. Keeps(r, Gone(whole)) /\ Keeps(r, Fail(Gone(whole)))
  <2>1. PICK a : a = [r EXCEPT !.step = "loading"]
    OBVIOUS
  <2>2. a \in Games /\ a.step = "loading"
    BY <1>1, <2>1, SomeValues, Changed, SMTT(20) DEF Games
  <2>3. whole = [a EXCEPT !.save = save]
    BY <1>4, <2>1, Zenon
  <2>4. whole \in Games /\ whole.step = "loading"
    BY <1>3, <2>2, <2>3, Changed DEF Games
  <2>5. Sound(whole)
    BY <2>4 DEF Sound
  <2>6. Shape(Gone(whole)) /\ Gone(whole).slot = 0
    BY <2>5, GoneShape DEF Off
  <2>. QED BY <2>6, FailShape DEF Keeps
<1>8. SaveChunk(r, block, written) \in {r, Fail(r), more, Gone(whole), Fail(Gone(whole))}
  BY <1>2, <1>4, Zenon DEF SaveChunk
<1>. QED BY <1>5, <1>6, <1>7, <1>8

\* What any notice does to a game: being kicked ends its connection, being accepted puts it in the session, and
\* no other puts it in or leaves it there out.
LEMMA HeardShape ==
    ASSUME NEW r, Shape(r), r.slot # 0, NEW notice \in Notices, NEW written \in BOOLEAN
    PROVE  LET q == Heard(r, notice, written) IN
           /\ Shape(q) /\ (q.slot = 0 \/ q.slot = r.slot)
           /\ notice.what = "kicked" => q.slot = 0
           /\ notice.what = "accepted" => q.online = TRUE
           /\ notice.what # "accepted" /\ q.slot # 0 => q.online = r.online
<1>1. CASE notice.what \in {"kicked", "hostLeft"}
  <2>1. Heard(r, notice, written) = Disconnected(r, notice.what)
    BY <1>1, Zenon DEF Heard
  <2>. QED BY <1>1, <2>1, DisconnectedShape
<1>2. CASE notice.what = "reload"
  <2>1. Heard(r, notice, written) = PartyReload(r)
    BY <1>2 DEF Heard
  <2>. QED BY <1>2, <2>1, PartyReloadShape DEF Keeps
<1>3. CASE notice.what = "block"
  <2>1. Heard(r, notice, written) = SaveChunk(r, notice, written)
    BY <1>3 DEF Heard
  <2>. QED BY <1>3, <2>1, SaveChunkShape DEF Keeps
<1>4. CASE notice.what \notin {"kicked", "hostLeft", "reload", "block"}
  <2>1. Heard(r, notice, written) = Authentication(r, notice.what)
    BY <1>4 DEF Heard
  <2>. QED BY <1>4, <2>1, AuthenticationShape
<1>. QED BY <1>1, <1>2, <1>3, <1>4

-----------------------------------------------------------------------------
(* What a guest's game does by itself.                                     *)

\* Setting one thing that has nothing to do with the connection.
LEMMA SetShape ==
    ASSUME NEW r, Shape(r), NEW q \in Games, q.link = r.link, q.slot = r.slot, q.online = r.online,
           q.step = r.step, q.tries = r.tries
    PROVE  Shape(q) /\ Keeps(r, q)
BY DEF Shape, Sound, Wired, Keeps

\* A game with no connection has neither slot nor session.
LEMMA NoLinkIsOff == ASSUME NEW r, Shape(r), r.link = "none" PROVE Off(r)
BY DEF Shape, Wired, Off

\* The steps of a game on its own keep it as it should be.
LEMMA JoinKeeps ==
    ASSUME NEW g \in Guests, Shape(game[g]), NEW brought \in BOOLEAN, Join(g, brought)
    PROVE  \E q : Becomes(g, q) /\ Keeps(game[g], q)
<1>1. PICK r, x : r = game[g] /\ x = [r EXCEPT !.brought = brought]
  OBVIOUS
<1>2. r \in Games /\ Off(r)
  BY <1>1, NoLinkIsOff DEF Join, Shape, Sound
<1>3. x \in Games /\ x.link = r.link /\ x.slot = r.slot /\ x.online = r.online
  BY <1>1, <1>2, Changed DEF Games
<1>4. Off(x)
  BY <1>2, <1>3 DEF Off
<1>5. Becomes(g, Connect(x, "connecting"))
  BY <1>1, Zenon DEF Join
<1>. QED BY <1>3, <1>4, <1>5, ConnectShape DEF Keeps

\* A dial that came to nothing, or a connection found gone (Client::OnDisconnected).
LEMMA LostKeeps ==
    ASSUME NEW g \in Guests, Shape(game[g]), Lost(g)
    PROVE  \E q : Becomes(g, q) /\ Keeps(game[g], q)
BY DisconnectedShape DEF Lost, Keeps

\* A line that goes: the game's own end does not know yet.
LEMMA BreakKeeps ==
    ASSUME NEW g \in Guests, Shape(game[g]), Break(g)
    PROVE  \E q : Becomes(g, q) /\ Keeps(game[g], q)
<1>1. PICK r, q : r = game[g] /\ q = [r EXCEPT !.slot = 0]
  OBVIOUS
<1>2. r \in Games
  BY <1>1 DEF Shape, Sound
<1>3. q \in Games /\ q.step = r.step /\ q.tries = r.tries /\ q.link = r.link /\ q.slot = 0 /\ q.online = r.online
  BY <1>1, <1>2, SMTT(20) DEF Games
<1>4. Keeps(r, q)
  BY <1>1, <1>3 DEF Keeps, Shape, Sound, Wired
<1>. QED BY <1>1, <1>4 DEF Break

\* A character made: the game dials again, or gives up (JoinService::FinishCreation).
LEMMA CreatedKeeps ==
    ASSUME NEW g \in Guests, Shape(game[g]), Created(g)
    PROVE  \E q : Becomes(g, q) /\ Keeps(game[g], q)
<1>1. PICK r, x : r = game[g] /\ x = [r EXCEPT !.brought = TRUE]
  OBVIOUS
<1>2. r \in Games /\ Off(r)
  BY <1>1, NoLinkIsOff DEF Created, Shape, Sound, Wired
<1>3. x \in Games /\ x.link = r.link /\ x.slot = r.slot /\ x.online = r.online
  <2>1. x \in Games
    BY <1>1, <1>2, Changed, Zenon
  <2>2. x.link = r.link /\ x.slot = r.slot /\ x.online = r.online
    BY <1>1, <1>2 DEF Games
  <2>. QED BY <2>1, <2>2
<1>4. Off(x)
  BY <1>2, <1>3 DEF Off
<1>5. Becomes(g, Connect(x, "connecting")) \/ Becomes(g, Fail(r))
  BY <1>1, Zenon DEF Created
<1>. QED BY <1>1, <1>3, <1>4, <1>5, ConnectShape, FailShape DEF Keeps

\* The save loaded: the game dials to join, or places its player first, or gives up (JoinService::Arrive).
LEMMA LoadedKeeps ==
    ASSUME NEW g \in Guests, Shape(game[g]), Loaded(g)
    PROVE  \E q : Becomes(g, q) /\ Keeps(game[g], q)
<1>1. PICK r, x : r = game[g] /\ x = [r EXCEPT !.world = r.save.of]
  OBVIOUS
<1>2. PICK in : in = [x EXCEPT !.save = NoSave]
  OBVIOUS
<1>3. PICK y : y = [in EXCEPT !.brought = FALSE]
  OBVIOUS
<1>4. PICK z : z = [y EXCEPT !.step = "placing"]
  OBVIOUS
<1>5. r \in Games /\ Off(r) /\ r.step = "loading"
  BY <1>1, NoLinkIsOff DEF Loaded, Shape, Sound, Wired
<1>6. r.save.of \in Worlds
  BY <1>5 DEF Games
<1>7. x \in Games /\ x.step = "loading" /\ x.link = r.link /\ x.slot = r.slot /\ x.online = r.online
  BY <1>1, <1>5, <1>6, Changed, SMTT(20) DEF Games
<1>8. in \in Games /\ in.step = "loading" /\ in.link = r.link /\ in.slot = r.slot /\ in.online = r.online
  BY <1>2, <1>7, SomeValues, Changed, SMTT(20) DEF Games
<1>9. y \in Games /\ y.step = "loading" /\ y.link = r.link /\ y.slot = r.slot /\ y.online = r.online
  <2>1. y \in Games
    BY <1>3, <1>8, Changed, Zenon
  <2>2. y.step = in.step /\ y.link = in.link /\ y.slot = in.slot /\ y.online = in.online
    BY <1>3, <1>8 DEF Games
  <2>. QED BY <1>8, <2>1, <2>2
<1>10. z \in Games /\ z.step = "placing" /\ z.link = r.link /\ z.slot = r.slot /\ z.online = r.online
  BY <1>4, <1>9, SomeValues, Changed, SMTT(20) DEF Games
<1>11. Shape(in) /\ Off(y) /\ Shape(z) /\ z.slot = 0
  <2>1. Off(in) /\ Off(y) /\ Off(z)
    BY <1>5, <1>8, <1>9, <1>10 DEF Off
  <2>2. Sound(in) /\ Sound(z)
    BY <1>8, <1>10 DEF Sound
  <2>. QED BY <2>1, <2>2, OffShape DEF Off
<1>12. in = [r EXCEPT !.world = r.save.of, !.save = NoSave]
  BY <1>1, <1>2, Zenon
<1>13. Becomes(g, Connect(y, "joining")) \/ Becomes(g, z) \/ Becomes(g, Fail(in))
  <2>1. \/ Becomes(g, Connect([in EXCEPT !.brought = FALSE], "joining"))
        \/ Becomes(g, [in EXCEPT !.brought = FALSE, !.step = "placing"])
        \/ Becomes(g, Fail(in))
    BY <1>1, <1>12, Zenon DEF Loaded
  <2>2. z = [in EXCEPT !.brought = FALSE, !.step = "placing"]
    BY <1>3, <1>4, Zenon
  <2>. QED BY <1>3, <2>1, <2>2, Zenon
<1>. QED BY <1>9, <1>11, <1>13, ConnectShape, FailShape DEF Keeps

\* The save that does not load.
LEMMA LoadFailsKeeps ==
    ASSUME NEW g \in Guests, Shape(game[g]), LoadFails(g)
    PROVE  \E q : Becomes(g, q) /\ Keeps(game[g], q)
BY FailShape DEF LoadFails, Keeps

\* A player placed: the game dials to join.
LEMMA PlacedKeeps ==
    ASSUME NEW g \in Guests, Shape(game[g]), Placed(g)
    PROVE  \E q : Becomes(g, q) /\ Keeps(game[g], q)
<1>1. game[g] \in Games /\ Off(game[g])
  BY NoLinkIsOff DEF Placed, Shape, Sound, Wired
<1>. QED BY <1>1, ConnectShape DEF Placed, Keeps

\* A step that took too long: the game gives up, or tries again (JoinService::OnUpdate).
LEMMA TimeoutKeeps ==
    ASSUME NEW g \in Guests, Shape(game[g]), Timeout(g)
    PROVE  \E q : Becomes(g, q) /\ Keeps(game[g], q)
<1>1. PICK r : r = game[g]
  OBVIOUS
<1>2. r.step \in {"connecting", "checking", "receiving", "loading", "placing", "joining", "reconnecting"}
  BY <1>1 DEF Timeout, Shape, Sound, Games, Steps
<1>3. TimedOut(r) \in {Fail(r), Gone(Retry(r))}
  BY <1>2, Zenon DEF TimedOut
<1>4. Sound(Retry(r))
  BY <1>1, RetryShape DEF Shape
<1>5. Shape(TimedOut(r)) /\ TimedOut(r).slot = 0
  BY <1>1, <1>3, <1>4, FailShape, GoneShape DEF Off
<1>. QED BY <1>1, <1>5 DEF Timeout, Keeps

\* The next try, which there is (JoinService::Reconnect).
LEMMA ReconnectKeeps ==
    ASSUME NEW g \in Guests, Shape(game[g]), Reconnect(g)
    PROVE  \E q : Becomes(g, q) /\ Keeps(game[g], q)
<1>1. PICK r, x : r = game[g] /\ x = [r EXCEPT !.tries = r.tries + 1]
  OBVIOUS
<1>2. r \in Games /\ Off(r) /\ r.tries < Tries
  BY <1>1, NoLinkIsOff DEF Reconnect, Shape, Sound, Wired
<1>3. r.tries + 1 \in 0 .. Tries
  BY <1>2, BoundsAssumption DEF Games
<1>4. x \in Games /\ x.link = r.link /\ x.slot = r.slot /\ x.online = r.online
  BY <1>1, <1>2, <1>3, Changed DEF Games
<1>5. Off(x)
  BY <1>2, <1>4 DEF Off
<1>6. Becomes(g, Connect(x, "reconnecting"))
  BY <1>1, Zenon DEF Reconnect
<1>. QED BY <1>4, <1>5, <1>6, ConnectShape DEF Keeps

\* A session that ends (SessionService::OnUpdate).
LEMMA FinishKeeps ==
    ASSUME NEW g \in Guests, Shape(game[g]), FinishSession(g)
    PROVE  \E q : Becomes(g, q) /\ Keeps(game[g], q)
BY FinishShape DEF FinishSession, Keeps, Shape

\* Quitting to the menu, heard or ignored (SessionService::OnMenu).
LEMMA QuitKeeps ==
    ASSUME NEW g \in Guests, Shape(game[g]), Quit(g)
    PROVE  \E q : Becomes(g, q) /\ Keeps(game[g], q)
<1>1. PICK r, x : r = game[g] /\ x = [r EXCEPT !.world = 0]
  OBVIOUS
<1>2. r \in Games
  BY <1>1 DEF Shape, Sound
<1>3. x \in Games
  BY <1>1, <1>2, SomeValues, Changed
<1>4. x.step = r.step /\ x.tries = r.tries /\ x.link = r.link /\ x.slot = r.slot /\ x.online = r.online
  BY <1>1, <1>2 DEF Games
<1>5. Keeps(r, x)
  BY <1>1, <1>3, <1>4, SetShape
<1>6. Becomes(g, x) \/ Becomes(g, Finish(r))
  BY <1>1, Zenon DEF Quit
<1>. QED BY <1>1, <1>5, <1>6, FinishShape DEF Keeps, Shape

-----------------------------------------------------------------------------
(* The invariant.                                                          *)

Counts == joins \in 0 .. MaxJoins /\ breaks \in 0 .. MaxBreaks /\ excused \subseteq Guests

ListenerOK ==
    /\ hosting \in BOOLEAN /\ peer \in [Slots -> Guests \cup {Nobody}]
    /\ alive \subseteq Slots /\ ask \in [Slots -> Asks] /\ notices \in [Slots -> Seq(Notices)]
    /\ players \subseteq Slots /\ receivers \in [Slots -> [of: Worlds, next: 0 .. Blocks]]
    /\ kept \in [Slots -> Asks]

ReloadOK ==
    /\ hostWorld \in Worlds /\ saves \in Worlds /\ checkpoint \in Worlds
    /\ asked \in BOOLEAN /\ read \in BOOLEAN /\ loading \in BOOLEAN

\* Something of this kind is on its way to a slot.
Coming(s, what) == \E m \in Sent(notices[s]) : m.what = what

\* A slot nobody holds has no row in the rules, and nothing is on its way to it.
Free(s) ==
    /\ s \notin alive /\ s \notin players /\ ask[s] = "none" /\ receivers[s].next = 0
    /\ hosting => Sent(notices[s]) = {}

\* A player's game is in the session or hears that it is; a game that is no player is out of it and stays out,
\* or hears that its connection ends.
Seated(s) ==
    /\ s \in players => game[peer[s]].online = TRUE \/ Coming(s, "accepted")
    /\ s \notin players => \/ game[peer[s]].online = FALSE /\ ~Coming(s, "accepted")
                           \/ Coming(s, "kicked")

\* A game's slot is its own, and once the host has ended the session nobody has one there.
Seats ==
    /\ \A g \in Guests : Shape(game[g])
    /\ hosting => \A g \in Guests : game[g].slot # 0 => peer[game[g].slot] = g
    /\ ~hosting => \A s \in Slots : peer[s] = Nobody
    /\ \A s \in Slots : peer[s] = Nobody => Free(s)
    /\ \A s \in Slots : peer[s] # Nobody /\ game[peer[s]].slot = s => Seated(s)

GamesOK == game \in [Guests -> Games]
JoinInv == Counts /\ ListenerOK /\ ReloadOK /\ GamesOK /\ Seats

\* The invariant has the types in it.
LEMMA JoinTypes == ASSUME JoinInv PROVE TypeOK
BY DEF JoinInv, Counts, ListenerOK, ReloadOK, GamesOK, TypeOK

\* And it is the agreement where nothing is on its way: neither notice that could mend a difference is there.
LEMMA JoinAgrees == ASSUME JoinInv PROVE PlayersAgree
<1>1. ASSUME NEW s \in Slots, Quiet(s) PROVE s \in players <=> game[peer[s]].online
  <2>1. Seated(s) /\ Sent(notices[s]) = {}
    BY <1>1, SentFew DEF JoinInv, Seats, Quiet
  <2>2. peer[s] \in Guests
    BY <1>1 DEF JoinInv, ListenerOK, Quiet
  <2>3. game[peer[s]].online \in BOOLEAN
    BY <2>2 DEF JoinInv, GamesOK, Games
  <2>. QED BY <2>1, <2>3 DEF Seated, Coming
<1>. QED BY <1>1, Zenon DEF PlayersAgree

-----------------------------------------------------------------------------
(* A game's step.                                                          *)

\* A game that keeps its slot and session, or leaves its slot, keeps the invariant.
LEMMA GameMoves ==
    ASSUME JoinInv, NEW g \in Guests, NEW q, Becomes(g, q), Keeps(game[g], q), hostUntouched' = hostUntouched, Counts'
    PROVE  JoinInv'
<1>1. /\ hosting' = hosting /\ peer' = peer /\ alive' = alive /\ ask' = ask /\ notices' = notices
      /\ hostWorld' = hostWorld /\ players' = players /\ receivers' = receivers /\ reloadVars' = reloadVars /\ kept' = kept
  BY Zenon DEF hostUntouched
<1>2. ListenerOK' /\ ReloadOK'
  BY <1>1 DEF JoinInv, ListenerOK, ReloadOK, reloadVars
<1>3. game \in [Guests -> Games] /\ game' = [game EXCEPT ![g] = q] /\ q \in Games
  BY DEF JoinInv, GamesOK, Becomes, Keeps, Shape, Sound
<1>4. GamesOK'
  BY <1>3 DEF GamesOK
<1>5. game'[g] = q /\ \A h \in Guests \ {g} : game'[h] = game[h]
  BY <1>3
<1>6. \A h \in Guests : Shape(game'[h])
  BY <1>5 DEF JoinInv, Seats, Keeps
<1>7. \A h \in Guests : \/ game'[h].slot = 0
                        \/ game'[h].slot = game[h].slot /\ game'[h].online = game[h].online
  BY <1>5 DEF Keeps
<1>8. hosting' => \A h \in Guests : game'[h].slot # 0 => peer'[game'[h].slot] = h
  BY <1>1, <1>7 DEF JoinInv, Seats
<1>9. \A s \in Slots : peer'[s] = Nobody => Free(s)'
  BY <1>1 DEF JoinInv, Seats, Free
<1>10. ASSUME NEW s \in Slots, peer'[s] # Nobody, game'[peer'[s]].slot = s PROVE Seated(s)'
  <2>1. peer[s] \in Guests /\ s # 0
    BY <1>1, <1>10, BoundsAssumption DEF JoinInv, ListenerOK
  <2>2. game[peer[s]].slot = s /\ game'[peer[s]].online = game[peer[s]].online
    BY <1>1, <1>7, <1>10, <2>1
  <2>3. Seated(s)
    BY <1>1, <1>10, <2>2 DEF JoinInv, Seats
  <2>. QED BY <1>1, <2>2, <2>3 DEF Seated, Coming
<1>11. ~hosting' => \A s \in Slots : peer'[s] = Nobody
  BY <1>1 DEF JoinInv, Seats
<1>12. Seats'
  BY <1>6, <1>8, <1>9, <1>10, <1>11, Zenon DEF Seats
<1>. QED BY <1>2, <1>4, <1>12 DEF JoinInv

\* A game reads what its slot was sent.
LEMMA ReadKeeps ==
    ASSUME JoinInv, NEW g \in Guests, Read(g)
    PROVE  JoinInv'
<1>1. PICK r, s : r = game[g] /\ s = game[g].slot
  OBVIOUS
<1>2. /\ hosting' = hosting /\ peer' = peer /\ alive' = alive /\ ask' = ask /\ hostWorld' = hostWorld
      /\ players' = players /\ receivers' = receivers /\ reloadVars' = reloadVars /\ kept' = kept
      /\ joins' = joins /\ breaks' = breaks /\ excused' = excused
  BY Zenon DEF Read
<1>3. s # 0 /\ notices[s] # <<>> /\ notices' = [notices EXCEPT ![s] = Tail(notices[s])]
  BY <1>1, Zenon DEF Read
<1>4. PICK written \in BOOLEAN : Becomes(g, Heard(r, Head(notices[s]), written))
  BY <1>1, Zenon DEF Read
<1>5. Shape(r) /\ r \in Games /\ r.slot = s
  BY <1>1 DEF JoinInv, Seats, Shape, Sound
<1>6. s \in Slots /\ notices[s] \in Seq(Notices)
  BY <1>3, <1>5 DEF Games, JoinInv, ListenerOK
<1>7. PICK m, u : m = Head(notices[s]) /\ u = Tail(notices[s])
  OBVIOUS
<1>8. m \in Notices /\ u \in Seq(Notices) /\ Sent(u) \subseteq Sent(notices[s]) /\ Sent(notices[s]) \subseteq Sent(u) \cup {m}
  BY <1>3, <1>6, <1>7, SentRead, Zenon
<1>9. PICK q : q = Heard(r, m, written)
  OBVIOUS
<1>10. /\ Shape(q) /\ (q.slot = 0 \/ q.slot = s)
       /\ m.what = "kicked" => q.slot = 0
       /\ m.what = "accepted" => q.online = TRUE
       /\ m.what # "accepted" /\ q.slot # 0 => q.online = r.online
  BY <1>3, <1>5, <1>8, <1>9, HeardShape
<1>11. game \in [Guests -> Games] /\ game' = [game EXCEPT ![g] = q]
  BY <1>4, <1>7, <1>9 DEF Becomes, JoinInv, GamesOK
<1>12. game'[g] = q /\ \A h \in Guests \ {g} : game'[h] = game[h]
  BY <1>11
<1>13. notices'[s] = u /\ (\A t \in Slots \ {s} : notices'[t] = notices[t]) /\ notices' \in [Slots -> Seq(Notices)]
  BY <1>3, <1>6, <1>7, <1>8 DEF JoinInv, ListenerOK
<1>14. ListenerOK' /\ ReloadOK' /\ Counts'
  BY <1>2, <1>13 DEF JoinInv, ListenerOK, ReloadOK, Counts, reloadVars
<1>15. GamesOK'
  BY <1>10, <1>11 DEF GamesOK, Shape, Sound
<1>16. \A h \in Guests : Shape(game'[h])
  BY <1>10, <1>12 DEF JoinInv, Seats
<1>17. hosting' => \A h \in Guests : game'[h].slot # 0 => peer'[game'[h].slot] = h
  BY <1>1, <1>2, <1>10, <1>12 DEF JoinInv, Seats
<1>18. ASSUME NEW t \in Slots, peer'[t] = Nobody PROVE Free(t)'
  <2>1. Free(t)
    BY <1>2, <1>18 DEF JoinInv, Seats
  <2>2. hosting => Sent(notices'[t]) = {}
    BY <1>8, <1>13, <2>1 DEF Free
  <2>. QED BY <1>2, <2>1, <2>2 DEF Free
<1>19. ASSUME NEW t \in Slots, peer'[t] # Nobody, game'[peer'[t]].slot = t PROVE Seated(t)'
  <2>1. peer[t] \in Guests /\ hosting
    BY <1>2, <1>19 DEF JoinInv, ListenerOK, Seats
  <2>2. CASE peer[t] = g
    <3>1. t = s /\ q.slot # 0
      BY <1>2, <1>3, <1>10, <1>12, <1>19, <2>2, BoundsAssumption
    <3>2. Seated(s)
      <4>1. peer[s] # Nobody /\ game[peer[s]].slot = s
        BY <1>1, <2>2, <3>1, GuestsAssumption
      <4>. QED BY <1>6, <4>1 DEF JoinInv, Seats
    <3>3. game[peer[s]] = r /\ game'[peer'[s]] = q /\ players' = players /\ peer[s] = g
      BY <1>1, <1>2, <1>12, <2>2, <3>1
    <3>4. ASSUME s \in players PROVE q.online = TRUE \/ \E n \in Sent(u) : n.what = "accepted"
      BY <1>8, <1>10, <3>1, <3>2, <3>3, <3>4 DEF Seated, Coming
    <3>5. ASSUME s \notin players
          PROVE  \/ q.online = FALSE /\ ~(\E n \in Sent(u) : n.what = "accepted")
                 \/ \E n \in Sent(u) : n.what = "kicked"
      <4>1. CASE \E n \in Sent(notices[s]) : n.what = "kicked"
        BY <1>8, <1>10, <3>1, <4>1
      <4>2. CASE r.online = FALSE /\ ~(\E n \in Sent(notices[s]) : n.what = "accepted")
        <5>1. m \in Sent(notices[s])
          BY <1>3, <1>6, <1>7, SentRead, Zenon
        <5>. QED BY <1>8, <1>10, <3>1, <4>2, <5>1
      <4>. QED BY <3>2, <3>3, <3>5, <4>1, <4>2 DEF Seated, Coming
    <3>. QED BY <1>13, <3>1, <3>3, <3>4, <3>5 DEF Seated, Coming
  <2>3. CASE peer[t] # g
    <3>1. game'[peer'[t]] = game[peer[t]] /\ game[peer[t]].slot = t
      BY <1>2, <1>12, <1>19, <2>1, <2>3
    <3>2. t # s
      BY <1>1, <1>3, <2>1, <2>3 DEF JoinInv, Seats
    <3>3. Seated(t) /\ notices'[t] = notices[t]
      BY <1>2, <1>13, <1>19, <3>1, <3>2 DEF JoinInv, Seats
    <3>. QED BY <1>2, <3>1, <3>3 DEF Seated, Coming
  <2>. QED BY <2>2, <2>3
<1>20. ~hosting' => \A t \in Slots : peer'[t] = Nobody
  BY <1>2 DEF JoinInv, Seats
<1>21. Seats'
  BY <1>16, <1>17, <1>18, <1>19, <1>20, Zenon DEF Seats
<1>. QED BY <1>14, <1>15, <1>21 DEF JoinInv

\* The slot a new connection gets: the first that nobody has.
LEMMA FirstFree ==
    ASSUME NEW s, s = CHOOSE t \in Slots : peer[t] = Nobody /\ \A u \in Slots : peer[u] = Nobody => t <= u,
           \E t \in Slots : peer[t] = Nobody
    PROVE  s \in Slots /\ peer[s] = Nobody /\ s # 0
<1>1. PICK F : F = {t \in Slots : peer[t] = Nobody}
  OBVIOUS
<1>2. F # {} /\ F \subseteq Nat
  BY <1>1, BoundsAssumption
<1>3. PICK t \in F : \A u \in F : ~(<<u, t>> \in OpToRel(<, Nat))
  BY <1>2, NatLessThanWellFounded, WFMin, Zenon
<1>4. \A u \in F : t <= u
  <2>1. ASSUME NEW u \in F PROVE t <= u
    <3>1. ~(<<u, t>> \in OpToRel(<, Nat)) /\ u \in Nat /\ t \in Nat
      BY <1>2, <1>3
    <3>2. ~(u < t)
      BY <3>1 DEF OpToRel
    <3>3. u \in Nat /\ t \in Nat
      BY <3>1
    <3>. QED BY <3>2, <3>3
  <2>. QED BY <2>1
<1>5. \E v \in Slots : peer[v] = Nobody /\ \A u \in Slots : peer[u] = Nobody => v <= u
  BY <1>1, <1>4
<1>6. s \in Slots /\ peer[s] = Nobody
  BY <1>5, Zenon
<1>. QED BY <1>6, BoundsAssumption

\* A game's connection is taken in (Server::OnConnected): the first free slot is its own.
LEMMA DialKeeps ==
    ASSUME JoinInv, NEW g \in Guests, Dial(g)
    PROVE  JoinInv'
<1>1. PICK r, s : /\ r = game[g]
                  /\ s = CHOOSE t \in Slots : peer[t] = Nobody /\ \A u \in Slots : peer[u] = Nobody => t <= u
  OBVIOUS
<1>2. s \in Slots /\ peer[s] = Nobody /\ s # 0
  <2>1. \E t \in Slots : peer[t] = Nobody
    BY DEF Dial
  <2>. QED BY <1>1, <2>1, FirstFree
<1>3. PICK q : q = [r EXCEPT !.link = "open", !.slot = s, !.step = IF @ = "connecting" THEN "checking" ELSE @]
  OBVIOUS
<1>4. /\ hosting /\ r.link = "dialing" /\ Becomes(g, q)
      /\ peer' = [peer EXCEPT ![s] = g] /\ alive' = alive \cup {s} /\ ask' = [ask EXCEPT ![s] = AskOf(r)]
      /\ excused' = IF kept[s] # "none" THEN excused \cup {g} ELSE excused
      /\ joins' = joins /\ breaks' = breaks /\ hosting' = hosting /\ notices' = notices /\ hostWorld' = hostWorld
      /\ players' = players /\ receivers' = receivers /\ reloadVars' = reloadVars /\ kept' = kept
  BY <1>1, <1>3, Zenon DEF Dial
<1>5. Shape(r) /\ r \in Games /\ r.online = FALSE /\ r.slot = 0
  BY <1>1, <1>4 DEF JoinInv, Seats, Shape, Sound, Wired
<1>6. q \in Games /\ q.link = "open" /\ q.slot = s /\ q.online = FALSE /\ q.tries = r.tries
      /\ q.step \in {"checking", r.step}
  <2>1. PICK a : a = [r EXCEPT !.link = "open"]
    OBVIOUS
  <2>2. PICK b : b = [a EXCEPT !.slot = s]
    OBVIOUS
  <2>3. PICK st : st = IF r.step = "connecting" THEN "checking" ELSE r.step
    OBVIOUS
  <2>4. a \in Games /\ a.link = "open" /\ a.step = r.step /\ a.online = r.online /\ a.tries = r.tries
    BY <1>5, <2>1, Changed, SMTT(20) DEF Games
  <2>5. b \in Games /\ b.link = "open" /\ b.step = r.step /\ b.online = r.online /\ b.tries = r.tries /\ b.slot = s
    BY <1>2, <2>2, <2>4, SMTT(20) DEF Games
  <2>6. q = [b EXCEPT !.step = st]
    <3>1. q = [b EXCEPT !.step = IF b.step = "connecting" THEN "checking" ELSE b.step]
      BY <1>3, <2>1, <2>2, Zenon
    <3>. QED BY <2>3, <2>5, <3>1, Zenon
  <2>7. st \in Steps /\ st \in {"checking", r.step}
    BY <1>5, <2>3, SomeValues DEF Games
  <2>8. q \in Games
    BY <2>5, <2>6, <2>7, Changed, Zenon
  <2>. QED BY <1>5, <2>5, <2>6, <2>7, <2>8 DEF Games
<1>7. Shape(q)
  BY <1>4, <1>5, <1>6 DEF Shape, Sound, Wired
<1>8. game \in [Guests -> Games] /\ game' = [game EXCEPT ![g] = q]
  BY <1>4 DEF Becomes, JoinInv, GamesOK
<1>9. GamesOK' /\ game'[g] = q /\ \A h \in Guests \ {g} : game'[h] = game[h]
  BY <1>6, <1>8 DEF GamesOK
<1>10. AskOf(r) \in Asks
  BY Zenon DEF AskOf, Asks
<1>11. ListenerOK' /\ ReloadOK' /\ Counts'
  <2>1. ListenerOK'
    BY <1>2, <1>4, <1>10 DEF JoinInv, ListenerOK
  <2>2. ReloadOK'
    BY <1>4 DEF JoinInv, ReloadOK, reloadVars
  <2>3. Counts'
    BY <1>4 DEF JoinInv, Counts
  <2>. QED BY <2>1, <2>2, <2>3
<1>12. peer'[s] = g /\ \A t \in Slots \ {s} : peer'[t] = peer[t]
  BY <1>2, <1>4 DEF JoinInv, ListenerOK
<1>13. \A h \in Guests : Shape(game'[h])
  BY <1>7, <1>9 DEF JoinInv, Seats
<1>14. \A h \in Guests : game'[h].slot # 0 => peer'[game'[h].slot] = h
  <2>1. ASSUME NEW h \in Guests \ {g}, game[h].slot # 0 PROVE peer'[game[h].slot] = h
    <3>1. peer[game[h].slot] = h /\ game[h].slot \in Slots
      BY <1>4, <2>1 DEF JoinInv, Seats, Shape, Sound, Games
    <3>2. game[h].slot # s
      BY <1>2, <3>1, GuestsAssumption
    <3>. QED BY <1>12, <3>1, <3>2
  <2>. QED BY <1>6, <1>9, <1>12, <2>1
<1>15. ASSUME NEW t \in Slots, peer'[t] = Nobody PROVE Free(t)'
  <2>1. t # s
    BY <1>12, <1>15, GuestsAssumption
  <2>2. Free(t)
    BY <1>12, <1>15, <2>1 DEF JoinInv, Seats
  <2>3. ask'[t] = ask[t]
    BY <1>4, <2>1 DEF JoinInv, ListenerOK
  <2>. QED BY <1>4, <2>1, <2>2, <2>3 DEF Free
<1>16. ASSUME NEW t \in Slots, peer'[t] # Nobody, game'[peer'[t]].slot = t PROVE Seated(t)'
  <2>1. CASE t = s
    <3>1. Free(s)
      BY <1>2 DEF JoinInv, Seats
    <3>2. s \notin players' /\ Sent(notices'[s]) = {} /\ game'[peer'[s]].online = FALSE
      BY <1>4, <1>6, <1>9, <1>12, <3>1 DEF Free
    <3>. QED BY <2>1, <3>2 DEF Seated, Coming
  <2>2. CASE t # s
    <3>1. peer'[t] = peer[t] /\ peer[t] \in Guests /\ peer[t] # g
      BY <1>6, <1>9, <1>12, <1>16, <2>2 DEF JoinInv, ListenerOK
    <3>2. game'[peer'[t]] = game[peer[t]]
      BY <1>9, <3>1
    <3>3. Seated(t)
      BY <1>16, <3>1, <3>2 DEF JoinInv, Seats
    <3>. QED BY <1>4, <3>2, <3>3 DEF Seated, Coming
  <2>. QED BY <2>1, <2>2
<1>17. Seats'
  BY <1>4, <1>13, <1>14, <1>15, <1>16, Zenon DEF Seats
<1>. QED BY <1>9, <1>11, <1>17 DEF JoinInv

\* Whatever a game does by itself but for taking its slot and reading: it keeps its slot or leaves it.
LEMMA GameKeepsSlot ==
    ASSUME JoinInv, NEW g \in Guests, GuestStep(g), ~Dial(g), ~Read(g)
    PROVE  hostUntouched' = hostUntouched /\ \E q : Becomes(g, q) /\ Keeps(game[g], q)
<1>1. Shape(game[g])
  BY DEF JoinInv, Seats
<1>2. ASSUME NEW brought \in BOOLEAN, Join(g, brought)
      PROVE  hostUntouched' = hostUntouched /\ \E q : Becomes(g, q) /\ Keeps(game[g], q)
  <2>1. hostUntouched' = hostUntouched
    BY <1>2, Zenon DEF Join
  <2>. QED BY <1>1, <1>2, <2>1, JoinKeeps
<1>3. CASE Lost(g)
  <2>1. hostUntouched' = hostUntouched
    BY <1>3, Zenon DEF Lost
  <2>. QED BY <1>1, <1>3, <2>1, LostKeeps
<1>4. CASE Break(g)
  <2>1. hostUntouched' = hostUntouched
    BY <1>4, Zenon DEF Break
  <2>. QED BY <1>1, <1>4, <2>1, BreakKeeps
<1>5. CASE Created(g)
  <2>1. hostUntouched' = hostUntouched
    BY <1>5, Zenon DEF Created
  <2>. QED BY <1>1, <1>5, <2>1, CreatedKeeps
<1>6. CASE Loaded(g)
  <2>1. hostUntouched' = hostUntouched
    BY <1>6, Zenon DEF Loaded
  <2>. QED BY <1>1, <1>6, <2>1, LoadedKeeps
<1>7. CASE LoadFails(g)
  <2>1. hostUntouched' = hostUntouched
    BY <1>7, Zenon DEF LoadFails
  <2>. QED BY <1>1, <1>7, <2>1, LoadFailsKeeps
<1>8. CASE Placed(g)
  <2>1. hostUntouched' = hostUntouched
    BY <1>8, Zenon DEF Placed
  <2>. QED BY <1>1, <1>8, <2>1, PlacedKeeps
<1>9. CASE Timeout(g)
  <2>1. hostUntouched' = hostUntouched
    BY <1>9, Zenon DEF Timeout
  <2>. QED BY <1>1, <1>9, <2>1, TimeoutKeeps
<1>10. CASE Reconnect(g)
  <2>1. hostUntouched' = hostUntouched
    BY <1>10, Zenon DEF Reconnect
  <2>. QED BY <1>1, <1>10, <2>1, ReconnectKeeps
<1>11. CASE FinishSession(g)
  <2>1. hostUntouched' = hostUntouched
    BY <1>11, Zenon DEF FinishSession
  <2>. QED BY <1>1, <1>11, <2>1, FinishKeeps
<1>12. CASE Quit(g)
  <2>1. hostUntouched' = hostUntouched
    BY <1>12, Zenon DEF Quit
  <2>. QED BY <1>1, <1>12, <2>1, QuitKeeps
<1>. QED BY <1>2, <1>3, <1>4, <1>5, <1>6, <1>7, <1>8, <1>9, <1>10, <1>11, <1>12, Zenon DEF GuestStep

\* Whatever a game does.
LEMMA GuestStepKeeps ==
    ASSUME JoinInv, NEW g \in Guests, GuestStep(g)
    PROVE  JoinInv'
<1>1. Shape(game[g])
  BY DEF JoinInv, Seats
<1>2. ASSUME NEW q, Becomes(g, q), Keeps(game[g], q), hostUntouched' = hostUntouched,
             joins' \in 0 .. MaxJoins, breaks' \in 0 .. MaxBreaks, excused' \subseteq Guests
      PROVE  JoinInv'
  BY <1>2, GameMoves DEF Counts
<1>3. /\ joins \in 0 .. MaxJoins /\ breaks \in 0 .. MaxBreaks /\ excused \subseteq Guests
      /\ excused \cup {g} \subseteq Guests /\ excused \ {g} \subseteq Guests
  BY DEF JoinInv, Counts
<1>4. ASSUME NEW brought \in BOOLEAN, Join(g, brought) PROVE JoinInv'
  <2>1. joins' \in 0 .. MaxJoins
    BY <1>3, <1>4, BoundsAssumption DEF Join
  <2>2. breaks' = breaks /\ excused' = excused \ {g} /\ hostUntouched' = hostUntouched
    BY <1>4, Zenon DEF Join
  <2>. QED BY <1>1, <1>2, <1>3, <1>4, <2>1, <2>2, JoinKeeps
<1>5. CASE Lost(g)
  <2>1. joins' = joins /\ breaks' = breaks /\ excused' \in {excused, excused \cup {g}} /\ hostUntouched' = hostUntouched
    BY <1>5, Zenon DEF Lost
  <2>. QED BY <1>1, <1>2, <1>3, <1>5, <2>1, LostKeeps
<1>6. CASE Break(g)
  <2>1. breaks' \in 0 .. MaxBreaks
    BY <1>3, <1>6, BoundsAssumption DEF Break
  <2>2. joins' = joins /\ excused' = excused /\ hostUntouched' = hostUntouched
    BY <1>6, Zenon DEF Break
  <2>. QED BY <1>1, <1>2, <1>3, <1>6, <2>1, <2>2, BreakKeeps
<1>7. CASE Created(g)
  <2>1. joins' = joins /\ breaks' = breaks /\ excused' = excused /\ hostUntouched' = hostUntouched
    BY <1>7, Zenon DEF Created
  <2>. QED BY <1>1, <1>2, <1>3, <1>7, <2>1, CreatedKeeps
<1>8. CASE Loaded(g)
  <2>1. joins' = joins /\ breaks' = breaks /\ excused' = excused /\ hostUntouched' = hostUntouched
    BY <1>8, Zenon DEF Loaded
  <2>. QED BY <1>1, <1>2, <1>3, <1>8, <2>1, LoadedKeeps
<1>9. CASE LoadFails(g)
  <2>1. joins' = joins /\ breaks' = breaks /\ excused' = excused /\ hostUntouched' = hostUntouched
    BY <1>9, Zenon DEF LoadFails
  <2>. QED BY <1>1, <1>2, <1>3, <1>9, <2>1, LoadFailsKeeps
<1>10. CASE Placed(g)
  <2>1. joins' = joins /\ breaks' = breaks /\ excused' = excused /\ hostUntouched' = hostUntouched
    BY <1>10, Zenon DEF Placed
  <2>. QED BY <1>1, <1>2, <1>3, <1>10, <2>1, PlacedKeeps
<1>11. CASE Timeout(g)
  <2>1. joins' = joins /\ breaks' = breaks /\ excused' \in {excused, excused \cup {g}} /\ hostUntouched' = hostUntouched
    BY <1>11, Zenon DEF Timeout
  <2>. QED BY <1>1, <1>2, <1>3, <1>11, <2>1, TimeoutKeeps
<1>12. CASE Reconnect(g)
  <2>1. joins' = joins /\ breaks' = breaks /\ excused' = excused /\ hostUntouched' = hostUntouched
    BY <1>12, Zenon DEF Reconnect
  <2>. QED BY <1>1, <1>2, <1>3, <1>12, <2>1, ReconnectKeeps
<1>13. CASE FinishSession(g)
  <2>1. joins' = joins /\ breaks' = breaks /\ excused' = excused /\ hostUntouched' = hostUntouched
    BY <1>13, Zenon DEF FinishSession
  <2>. QED BY <1>1, <1>2, <1>3, <1>13, <2>1, FinishKeeps
<1>14. CASE Quit(g)
  <2>1. joins' = joins /\ breaks' = breaks /\ excused' \in {excused, excused \cup {g}} /\ hostUntouched' = hostUntouched
    BY <1>14, Zenon DEF Quit
  <2>. QED BY <1>1, <1>2, <1>3, <1>14, <2>1, QuitKeeps
<1>15. Dial(g) \/ Read(g) => JoinInv'
  BY DialKeeps, ReadKeeps
<1>. QED BY <1>4, <1>5, <1>6, <1>7, <1>8, <1>9, <1>10, <1>11, <1>12, <1>13, <1>14, <1>15, Zenon DEF GuestStep

-----------------------------------------------------------------------------
(* The host's steps.                                                       *)

\* What a step sends a slot goes with what it makes of it: a new player hears that it is in, one that is no player
\* any more is kicked, and nobody else hears that it is in.
Sends(s, M) ==
    /\ Sent(notices'[s]) = Sent(notices[s]) \cup M
    /\ s \in players' \ players => \E m \in M : m.what = "accepted"
    /\ s \in players \ players' => \E m \in M : m.what = "kicked"
    /\ s \notin players \cup players' => \A m \in M : m.what # "accepted"
Served(s) == \E M \in SUBSET Notices : Sends(s, M)

\* The notices there are.
LEMMA NoticeTypes ==
    /\ \A what \in {"follows", "accepted", "noCharacter", "failed", "reload", "kicked", "hostLeft"} :
           Told(what) \in Notices /\ Told(what).what = what
    /\ \A world \in Worlds, i \in 0 .. Blocks : Block(world, i) \in Notices /\ Block(world, i).what = "block"
BY BoundsAssumption DEF Told, Block, Notices, Worlds

\* A step that serves every slot keeps the invariant.
LEMMA HostServes ==
    ASSUME JoinInv, game' = game, peer' = peer, hosting' = hosting, Counts', ListenerOK', ReloadOK',
           \A s \in Slots : peer[s] = Nobody => Free(s)', \A s \in Slots : Served(s)
    PROVE  JoinInv'
<1>1. ASSUME NEW s \in Slots, peer'[s] # Nobody, game'[peer'[s]].slot = s PROVE Seated(s)'
  <2>1. Seated(s) /\ game'[peer'[s]] = game[peer[s]]
    BY <1>1 DEF JoinInv, Seats
  <2>2. PICK M : Sends(s, M)
    BY DEF Served
  <2>3. \A what : Coming(s, what)' <=> Coming(s, what) \/ \E m \in M : m.what = what
    BY <2>2 DEF Coming, Sends
  <2>4. ASSUME s \in players' PROVE game'[peer'[s]].online = TRUE \/ Coming(s, "accepted")'
    BY <2>1, <2>2, <2>3, <2>4 DEF Seated, Sends
  <2>5. ASSUME s \notin players' PROVE \/ game'[peer'[s]].online = FALSE /\ ~Coming(s, "accepted")'
                                       \/ Coming(s, "kicked")'
    BY <2>1, <2>2, <2>3, <2>5 DEF Seated, Sends
  <2>. QED BY <2>4, <2>5 DEF Seated
<1>2. /\ \A g \in Guests : Shape(game'[g])
      /\ hosting' => \A g \in Guests : game'[g].slot # 0 => peer'[game'[g].slot] = g
      /\ ~hosting' => \A s \in Slots : peer'[s] = Nobody
      /\ GamesOK'
  BY DEF JoinInv, Seats, GamesOK
<1>3. Seats'
  BY <1>1, <1>2, Zenon DEF Seats
<1>. QED BY <1>2, <1>3 DEF JoinInv

\* A slot whose row stays as it is, or is told something that says nothing of who plays.
LEMMA UntoldServed ==
    ASSUME NEW s, notices'[s] = notices[s], s \in players' <=> s \in players
    PROVE  Served(s)
<1>1. Sends(s, {})
  BY DEF Sends
<1>. QED BY <1>1 DEF Served

\* A slot told one thing that is not that it is in.
LEMMA ToldServed ==
    ASSUME NEW s \in Slots, ListenerOK, NEW m \in Notices, m.what # "accepted", notices'[s] = Append(notices[s], m),
           \/ s \in players' <=> s \in players
           \/ s \notin players' /\ m.what = "kicked"
    PROVE  Served(s) /\ notices'[s] \in Seq(Notices)
<1>1. notices[s] \in Seq(Notices)
  BY DEF ListenerOK
<1>2. notices'[s] \in Seq(Notices) /\ Sent(notices'[s]) = Sent(notices[s]) \cup {m}
  <2>1. PICK u : u = notices[s]
    OBVIOUS
  <2>2. u \in Seq(Notices) /\ notices'[s] = Append(u, m)
    BY <1>1, <2>1
  <2>3. Append(u, m) \in Seq(Notices) /\ Sent(Append(u, m)) = Sent(u) \cup {m}
    BY <2>2, SentAppend
  <2>. QED BY <2>1, <2>2, <2>3, Zenon
<1>3. Sends(s, {m})
  BY <1>2 DEF Sends
<1>. QED BY <1>2, <1>3 DEF Served

\* A slot dropped because no save can be made for it hears so.
LEMMA DroppedServed ==
    ASSUME NEW s \in Slots, ListenerOK, notices'[s] = notices[s] \o <<Told("failed"), Told("kicked")>>,
           players' = players \ {s}
    PROVE  Served(s) /\ notices'[s] \in Seq(Notices)
<1>1. PICK d, e : d = Told("failed") /\ e = Told("kicked")
  OBVIOUS
<1>2. d \in Notices /\ d.what = "failed" /\ e \in Notices /\ e.what = "kicked"
  BY <1>1, NoticeTypes
<1>3. notices[s] \in Seq(Notices) /\ <<d, e>> \in Seq(Notices) /\ Sent(<<d, e>>) = {d, e}
  BY <1>2, SentFew DEF ListenerOK
<1>4. notices'[s] \in Seq(Notices) /\ Sent(notices'[s]) = Sent(notices[s]) \cup {d, e}
  <2>1. PICK u, v : u = notices[s] /\ v = <<d, e>>
    OBVIOUS
  <2>2. u \in Seq(Notices) /\ v \in Seq(Notices) /\ Sent(v) = {d, e} /\ notices'[s] = u \o v
    BY <1>1, <1>3, <2>1, Zenon
  <2>3. u \o v \in Seq(Notices) /\ Sent(u \o v) = Sent(u) \cup Sent(v)
    BY <2>2, SentJoin
  <2>. QED BY <2>1, <2>2, <2>3, Zenon
<1>5. Sends(s, {d, e})
  BY <1>2, <1>4 DEF Sends
<1>. QED BY <1>2, <1>4, <1>5 DEF Served

\* What the gate answers (HostSession::OnAuthentication).
LEMMA Replies ==
    /\ Reply("ignored") \in Seq(Notices) /\ Sent(Reply("ignored")) = {}
    /\ Reply("accepted") \in Seq(Notices) /\ Sent(Reply("accepted")) = {Told("accepted")}
    /\ Reply("follows") \in Seq(Notices) /\ Sent(Reply("follows")) = {Told("follows")}
    /\ Reply("noCharacter") \in Seq(Notices)
    /\ Sent(Reply("noCharacter")) = {Told("noCharacter"), Told("kicked")}
<1>1. Reply("ignored") = <<>> /\ Reply("accepted") = <<Told("accepted")>> /\ Reply("follows") = <<Told("follows")>>
      /\ Reply("noCharacter") = <<Told("noCharacter"), Told("kicked")>>
  <2>1. Reply("ignored") = <<>>
    BY Zenon DEF Reply
  <2>2. Reply("accepted") = <<Told("accepted")>> /\ Reply("follows") = <<Told("follows")>>
    BY SMT DEF Reply
  <2>3. Reply("noCharacter") = <<Told("noCharacter"), Told("kicked")>>
    BY SMT DEF Reply
  <2>. QED BY <2>1, <2>2, <2>3
<1>2. Told("accepted") \in Notices /\ Told("follows") \in Notices /\ Told("noCharacter") \in Notices /\ Told("kicked") \in Notices
  BY NoticeTypes
<1>3. \A d, e \in Notices : <<>> \in Seq(Notices) /\ <<d>> \in Seq(Notices) /\ <<d, e>> \in Seq(Notices)
  OBVIOUS
<1>4. PICK a, f, n, k : a = Told("accepted") /\ f = Told("follows") /\ n = Told("noCharacter") /\ k = Told("kicked")
  OBVIOUS
<1>5. /\ <<>> \in Seq(Notices) /\ <<a>> \in Seq(Notices) /\ <<f>> \in Seq(Notices) /\ <<n, k>> \in Seq(Notices)
      /\ Sent(<<>>) = {} /\ Sent(<<a>>) = {a} /\ Sent(<<f>>) = {f} /\ Sent(<<n, k>>) = {n, k}
  BY <1>2, <1>3, <1>4, SentFew
<1>. QED BY <1>1, <1>4, <1>5, Zenon

\* An answer serves every slot, and leaves the free ones free.
LEMMA AnswerServes ==
    ASSUME JoinInv, hosting, NEW asks \in [Slots -> Asks], \A s \in Slots : asks[s] # "none" => peer[s] # Nobody,
           Answer(asks)
    PROVE  /\ players' \subseteq Slots /\ alive' \subseteq Slots /\ notices' \in [Slots -> Seq(Notices)]
           /\ receivers' \in [Slots -> [of: Worlds, next: 0 .. Blocks]]
           /\ \A s \in Slots : Served(s)
           /\ \A s \in Slots : peer[s] = Nobody =>
                  s \notin alive' /\ s \notin players' /\ receivers'[s].next = 0 /\ Sent(notices'[s]) = {}
           /\ \A s \in alive : s \in alive' \/ Coming(s, "kicked")'
<1>1. PICK known \in [{s \in Slots : asks[s] = "world"} -> BOOLEAN] :
        LET outcome == [s \in Slots |-> Outcome(s, asks[s], s \in DOMAIN known /\ known[s])]
        IN  /\ players' = players \cup {s \in Slots : outcome[s] = "accepted"}
            /\ alive' = {s \in alive : outcome[s] # "noCharacter"}
            /\ notices' = [s \in Slots |-> notices[s] \o Reply(outcome[s])]
            /\ receivers' = [s \in Slots |-> IF outcome[s] = "follows" THEN [of |-> 0, next |-> 1]
                                             ELSE receivers[s]]
  BY Zenon DEF Answer
<1>2. PICK outcome : outcome = [s \in Slots |-> Outcome(s, asks[s], s \in DOMAIN known /\ known[s])]
  OBVIOUS
<1>3. /\ players' = players \cup {s \in Slots : outcome[s] = "accepted"}
      /\ alive' = {s \in alive : outcome[s] # "noCharacter"}
      /\ notices' = [s \in Slots |-> notices[s] \o Reply(outcome[s])]
      /\ receivers' = [s \in Slots |-> IF outcome[s] = "follows" THEN [of |-> 0, next |-> 1] ELSE receivers[s]]
  BY <1>1, <1>2, Zenon
<1>4. \A s \in Slots : /\ outcome[s] \in {"ignored", "noCharacter", "accepted", "follows"}
                       /\ asks[s] = "none" \/ s \in players => outcome[s] = "ignored"
  <2>1. ASSUME NEW s \in Slots PROVE /\ outcome[s] \in {"ignored", "noCharacter", "accepted", "follows"}
                                     /\ asks[s] = "none" \/ s \in players => outcome[s] = "ignored"
    <3>1. outcome[s] = Outcome(s, asks[s], s \in DOMAIN known /\ known[s])
      BY <1>2
    <3>2. PICK what, k : what = asks[s] /\ k = (s \in DOMAIN known /\ known[s])
      OBVIOUS
    <3>3. Outcome(s, what, k) \in {"ignored", "noCharacter", "accepted", "follows"}
      BY Zenon DEF Outcome
    <3>4. ASSUME what = "none" \/ s \in players PROVE Outcome(s, what, k) = "ignored"
      BY <3>4, SMT DEF Outcome
    <3>. QED BY <3>1, <3>2, <3>3, <3>4, Zenon
  <2>. QED BY <2>1
<1>5. \A s \in Slots : notices[s] \in Seq(Notices) /\ Reply(outcome[s]) \in Seq(Notices) /\ Sent(Reply(outcome[s])) \subseteq Notices
  BY <1>4, Replies, SentFew DEF JoinInv, ListenerOK
<1>6. \A s \in Slots : notices'[s] = notices[s] \o Reply(outcome[s])
  BY <1>3, Zenon
<1>7. \A s \in Slots : notices'[s] \in Seq(Notices) /\ Sent(notices'[s]) = Sent(notices[s]) \cup Sent(Reply(outcome[s]))
  <2>1. ASSUME NEW u \in Seq(Notices), NEW v \in Seq(Notices) PROVE u \o v \in Seq(Notices) /\ Sent(u \o v) = Sent(u) \cup Sent(v)
    BY SentJoin
  <2>2. ASSUME NEW s \in Slots PROVE notices'[s] \in Seq(Notices) /\ Sent(notices'[s]) = Sent(notices[s]) \cup Sent(Reply(outcome[s]))
    BY <1>5, <1>6, <2>1, Zenon
  <2>. QED BY <2>2, Zenon
<1>8. notices' \in [Slots -> Seq(Notices)]
  <2>1. DOMAIN notices' = Slots /\ notices' = [s \in Slots |-> notices'[s]]
    BY <1>3
  <2>. QED BY <1>7, <2>1
<1>9. players' \subseteq Slots /\ alive' \subseteq Slots
  BY <1>3 DEF JoinInv, ListenerOK
<1>10. receivers' \in [Slots -> [of: Worlds, next: 0 .. Blocks]]
  <2>1. [of |-> 0, next |-> 1] \in [of: Worlds, next: 0 .. Blocks]
    BY BoundsAssumption DEF Worlds
  <2>. QED BY <1>3, <2>1 DEF JoinInv, ListenerOK
<1>11. ASSUME NEW s \in Slots PROVE Served(s)
  <2>1. Sends(s, Sent(Reply(outcome[s])))
    <3>1. CASE outcome[s] = "ignored"
      BY <1>3, <1>7, <3>1, Replies DEF Sends
    <3>2. CASE outcome[s] = "accepted"
      <4>1. Sent(Reply(outcome[s])) = {Told("accepted")} /\ Told("accepted").what = "accepted" /\ s \notin players
        BY <1>4, <3>2, Replies, NoticeTypes
      <4>. QED BY <1>3, <1>7, <3>2, <4>1 DEF Sends
    <3>3. CASE outcome[s] = "follows"
      <4>1. Sent(Reply(outcome[s])) = {Told("follows")} /\ Told("follows").what = "follows" /\ s \notin players
        BY <1>4, <3>3, Replies, NoticeTypes
      <4>. QED BY <1>3, <1>7, <3>3, <4>1 DEF Sends
    <3>4. CASE outcome[s] = "noCharacter"
      <4>1. /\ Sent(Reply(outcome[s])) = {Told("noCharacter"), Told("kicked")} /\ s \notin players
            /\ Told("noCharacter").what = "noCharacter" /\ Told("kicked").what = "kicked"
        BY <1>4, <3>4, Replies, NoticeTypes
      <4>. QED BY <1>3, <1>7, <3>4, <4>1 DEF Sends
    <3>. QED BY <1>4, <3>1, <3>2, <3>3, <3>4
  <2>. QED BY <1>5, <2>1 DEF Served
<1>12. ASSUME NEW s \in Slots, peer[s] = Nobody
       PROVE  s \notin alive' /\ s \notin players' /\ receivers'[s].next = 0 /\ Sent(notices'[s]) = {}
  <2>1. Free(s) /\ outcome[s] = "ignored"
    BY <1>4, <1>12 DEF JoinInv, Seats
  <2>2. receivers'[s] = receivers[s] /\ s \notin players' /\ s \notin alive'
    BY <1>3, <2>1 DEF Free
  <2>. QED BY <1>7, <2>1, <2>2, Replies DEF Free
<1>13. ASSUME NEW s \in alive, s \notin alive' PROVE Coming(s, "kicked")'
  <2>1. s \in Slots
    BY DEF JoinInv, ListenerOK
  <2>2. outcome[s] = "noCharacter"
    BY <1>3, <1>13
  <2>3. Told("kicked") \in Sent(notices'[s]) /\ Told("kicked").what = "kicked"
    BY <1>7, <2>1, <2>2, Replies, NoticeTypes
  <2>. QED BY <2>3 DEF Coming
<1>. QED BY <1>8, <1>9, <1>10, <1>11, <1>12, <1>13

\* The front door's request (HostService::InstallFrontDoor).
LEMMA HandleAskKeeps ==
    ASSUME JoinInv, NEW s \in Slots, HandleAsk(s)
    PROVE  JoinInv'
<1>1. /\ hosting /\ ask[s] # "none" /\ ask' = [ask EXCEPT ![s] = "none"]
      /\ game' = game /\ joins' = joins /\ breaks' = breaks /\ peer' = peer /\ hosting' = hosting
      /\ hostWorld' = hostWorld /\ reloadVars' = reloadVars /\ excused' = excused
  BY Zenon DEF HandleAsk, guestsUntouched
<1>2. Counts' /\ ReloadOK'
  BY <1>1 DEF JoinInv, Counts, ReloadOK, reloadVars
<1>3. peer[s] # Nobody /\ ListenerOK
  BY <1>1 DEF JoinInv, Seats, Free
<1>4. /\ ask' \in [Slots -> Asks] /\ ask[s] \in Asks
      /\ \A t \in Slots : ask[t] = "none" => ask'[t] = "none"
  BY <1>1, <1>3 DEF ListenerOK, Asks
<1>5. CASE asked /\ read /\ checkpoint = 0
  <2>1. /\ notices' = [notices EXCEPT ![s] = Append(@, Told("failed"))]
        /\ alive' = alive /\ players' = players /\ receivers' = receivers /\ kept' = kept
    BY <1>5, Zenon DEF HandleAsk
  <2>2. Told("failed") \in Notices /\ Told("failed").what = "failed"
    BY NoticeTypes
  <2>3. notices'[s] = Append(notices[s], Told("failed")) /\ \A t \in Slots \ {s} : notices'[t] = notices[t]
    BY <1>3, <2>1 DEF ListenerOK
  <2>4. Served(s) /\ notices'[s] \in Seq(Notices)
    BY <1>3, <2>1, <2>2, <2>3, ToldServed
  <2>5. \A t \in Slots : Served(t)
    BY <2>1, <2>3, <2>4, UntoldServed
  <2>6. ListenerOK'
    <3>1. notices' \in [Slots -> Seq(Notices)]
      BY <1>3, <2>1, <2>3, <2>4 DEF ListenerOK
    <3>. QED BY <1>1, <1>3, <1>4, <2>1, <3>1 DEF ListenerOK
  <2>7. \A t \in Slots : peer[t] = Nobody => Free(t)'
    BY <1>1, <1>3, <1>4, <2>1, <2>3 DEF JoinInv, Seats, Free
  <2>. QED BY <1>1, <1>2, <2>5, <2>6, <2>7, HostServes
<1>6. CASE asked /\ ~(read /\ checkpoint = 0)
  <2>1. /\ kept' = [kept EXCEPT ![s] = ask[s]]
        /\ notices' = notices /\ alive' = alive /\ players' = players /\ receivers' = receivers
    BY <1>6, Zenon DEF HandleAsk
  <2>2. ListenerOK'
    BY <1>1, <1>3, <1>4, <2>1 DEF ListenerOK
  <2>3. \A t \in Slots : peer[t] = Nobody => Free(t)'
    BY <1>1, <1>4, <2>1 DEF JoinInv, Seats, Free
  <2>. QED BY <1>1, <1>2, <2>1, <2>2, <2>3, HostServes, UntoldServed
<1>7. CASE ~asked
  <2>1. PICK asks : asks = [NoAsks EXCEPT ![s] = ask[s]]
    OBVIOUS
  <2>2. Answer(asks) /\ kept' = kept
    BY <1>7, <2>1, Zenon DEF HandleAsk
  <2>3. asks \in [Slots -> Asks] /\ \A t \in Slots \ {s} : asks[t] = "none"
    BY <1>4, <2>1 DEF NoAsks, Asks
  <2>4. \A t \in Slots : asks[t] # "none" => peer[t] # Nobody
    BY <1>3, <2>3
  <2>5. /\ players' \subseteq Slots /\ alive' \subseteq Slots /\ notices' \in [Slots -> Seq(Notices)]
        /\ receivers' \in [Slots -> [of: Worlds, next: 0 .. Blocks]]
        /\ \A t \in Slots : Served(t)
        /\ \A t \in Slots : peer[t] = Nobody =>
                  t \notin alive' /\ t \notin players' /\ receivers'[t].next = 0 /\ Sent(notices'[t]) = {}
    BY <1>1, <2>2, <2>3, <2>4, AnswerServes
  <2>6. ListenerOK'
    BY <1>1, <1>3, <1>4, <2>2, <2>5 DEF ListenerOK
  <2>7. \A t \in Slots : peer[t] = Nobody => Free(t)'
    BY <1>4, <2>5 DEF JoinInv, Seats, Free
  <2>. QED BY <1>1, <1>2, <2>5, <2>6, <2>7, HostServes
<1>. QED BY <1>5, <1>6, <1>7

\* A slot that loses its rows.
LEMMA DropRows ==
    ASSUME ListenerOK, NEW s \in Slots, Drop(s)
    PROVE  /\ alive' \subseteq Slots /\ players' \subseteq Slots /\ s \notin alive' /\ s \notin players'
           /\ receivers' \in [Slots -> [of: Worlds, next: 0 .. Blocks]] /\ receivers'[s].next = 0
           /\ players' = players \ {s} /\ \A t \in Slots \ {s} : receivers'[t] = receivers[t]
           /\ \A t \in Slots \ {s} : (t \in alive' <=> t \in alive) /\ (t \in players' <=> t \in players)
<1>1. NotWanting \in [of: Worlds, next: 0 .. Blocks] /\ NotWanting.next = 0
  BY BoundsAssumption DEF NotWanting, Worlds
<1>2. /\ receivers' \in [Slots -> [of: Worlds, next: 0 .. Blocks]] /\ receivers'[s].next = 0
      /\ \A t \in Slots \ {s} : receivers'[t] = receivers[t]
  BY <1>1 DEF Drop, ListenerOK
<1>. QED BY <1>2 DEF Drop, ListenerOK

\* A block of a save, or the save that could not be made (HostSaveTransfer::Update).
LEMMA SendBlockKeeps ==
    ASSUME JoinInv, NEW s \in Slots, SendBlock(s)
    PROVE  JoinInv'
<1>1. PICK r, world : r = receivers[s] /\ world = IF receivers[s].of = 0 THEN hostWorld ELSE receivers[s].of
  OBVIOUS
<1>2. /\ hosting /\ game' = game /\ joins' = joins /\ breaks' = breaks /\ peer' = peer /\ hosting' = hosting
      /\ hostWorld' = hostWorld /\ reloadVars' = reloadVars /\ excused' = excused /\ ask' = ask /\ kept' = kept
      /\ s \in Wanting
  BY Zenon DEF SendBlock, guestsUntouched
<1>3. Counts' /\ ReloadOK'
  BY <1>2 DEF JoinInv, Counts, ReloadOK, reloadVars
<1>4. ListenerOK /\ r.of \in Worlds /\ r.next \in 1 .. Blocks /\ world \in Worlds
  BY <1>1, <1>2 DEF JoinInv, ListenerOK, ReloadOK, Wanting
<1>5. peer[s] # Nobody
  BY <1>2 DEF JoinInv, Seats, Free, Wanting
<1>6. CASE /\ notices' = [notices EXCEPT ![s] = Append(@, Block(world, r.next))]
           /\ receivers' = [receivers EXCEPT ![s] = IF r.next = Blocks THEN NotWanting
                                                    ELSE [of |-> world, next |-> r.next + 1]]
           /\ alive' = alive /\ players' = players
  <2>1. Block(world, r.next) \in Notices /\ Block(world, r.next).what = "block"
    BY <1>4, NoticeTypes
  <2>2. notices'[s] = Append(notices[s], Block(world, r.next)) /\ \A t \in Slots \ {s} : notices'[t] = notices[t]
    BY <1>4, <1>6 DEF ListenerOK
  <2>3. Served(s) /\ notices'[s] \in Seq(Notices)
    BY <1>4, <1>6, <2>1, <2>2, ToldServed
  <2>4. \A t \in Slots : Served(t)
    BY <1>6, <2>2, <2>3, UntoldServed
  <2>5. PICK n : n = IF r.next = Blocks THEN NotWanting ELSE [of |-> world, next |-> r.next + 1]
    OBVIOUS
  <2>6. n \in [of: Worlds, next: 0 .. Blocks]
    BY <1>4, <2>5, BoundsAssumption DEF NotWanting, Worlds
  <2>7. receivers' \in [Slots -> [of: Worlds, next: 0 .. Blocks]] /\ \A t \in Slots \ {s} : receivers'[t] = receivers[t]
    BY <1>4, <1>6, <2>5, <2>6 DEF ListenerOK
  <2>8. ListenerOK'
    <3>1. notices' \in [Slots -> Seq(Notices)]
      BY <1>4, <1>6, <2>2, <2>3 DEF ListenerOK
    <3>. QED BY <1>2, <1>4, <1>6, <2>7, <3>1 DEF ListenerOK
  <2>9. \A t \in Slots : peer[t] = Nobody => Free(t)'
    BY <1>2, <1>5, <1>6, <2>2, <2>7 DEF JoinInv, Seats, Free
  <2>. QED BY <1>2, <1>3, <2>4, <2>8, <2>9, HostServes
<1>7. CASE notices' = [notices EXCEPT ![s] = @ \o <<Told("failed"), Told("kicked")>>] /\ Drop(s)
  <2>1. notices'[s] = notices[s] \o <<Told("failed"), Told("kicked")>> /\ \A t \in Slots \ {s} : notices'[t] = notices[t]
    BY <1>4, <1>7 DEF ListenerOK
  <2>2. players' = players \ {s}
    BY <1>7 DEF Drop
  <2>3. Served(s) /\ notices'[s] \in Seq(Notices)
    BY <1>4, <2>1, <2>2, DroppedServed
  <2>4. \A t \in Slots : Served(t)
    BY <2>1, <2>2, <2>3, UntoldServed
  <2>5. ListenerOK'
    <3>1. notices' \in [Slots -> Seq(Notices)]
      BY <1>4, <1>7, <2>1, <2>3 DEF ListenerOK
    <3>. QED BY <1>2, <1>4, <1>7, <3>1, DropRows DEF ListenerOK
  <2>6. \A t \in Slots : peer[t] = Nobody => Free(t)'
    BY <1>2, <1>4, <1>5, <1>7, <2>1, DropRows DEF JoinInv, Seats, Free
  <2>. QED BY <1>2, <1>3, <2>4, <2>5, <2>6, HostServes
<1>. QED BY <1>1, <1>6, <1>7, Zenon DEF SendBlock

\* A connection that ended (Server::Update): its slot is free again.
LEMMA HostHearsKeeps ==
    ASSUME JoinInv, NEW s \in Slots, HostHears(s)
    PROVE  JoinInv'
<1>1. /\ hosting /\ peer[s] # Nobody /\ game[peer[s]].slot # s
      /\ peer' = [peer EXCEPT ![s] = Nobody] /\ ask' = [ask EXCEPT ![s] = "none"]
      /\ notices' = [notices EXCEPT ![s] = <<>>] /\ Drop(s)
      /\ game' = game /\ joins' = joins /\ breaks' = breaks /\ hosting' = hosting /\ hostWorld' = hostWorld
      /\ reloadVars' = reloadVars /\ kept' = kept /\ excused' = excused
  BY Zenon DEF HostHears
<1>2. Counts' /\ ReloadOK' /\ GamesOK' /\ ListenerOK
  BY <1>1 DEF JoinInv, Counts, ReloadOK, GamesOK, reloadVars
<1>3. /\ peer' \in [Slots -> Guests \cup {Nobody}] /\ peer'[s] = Nobody /\ \A t \in Slots \ {s} : peer'[t] = peer[t]
  BY <1>1, <1>2 DEF ListenerOK
<1>4. /\ ask' \in [Slots -> Asks] /\ ask'[s] = "none" /\ \A t \in Slots \ {s} : ask'[t] = ask[t]
  BY <1>1, <1>2 DEF ListenerOK, Asks
<1>5. /\ notices' \in [Slots -> Seq(Notices)] /\ notices'[s] = <<>> /\ \A t \in Slots \ {s} : notices'[t] = notices[t]
  BY <1>1, <1>2 DEF ListenerOK
<1>6. ListenerOK'
  BY <1>1, <1>2, <1>3, <1>4, <1>5, DropRows DEF ListenerOK
<1>7. \A t \in Slots : peer'[t] = Nobody => Free(t)'
  <2>1. Free(s)'
    BY <1>1, <1>2, <1>4, <1>5, DropRows, SentFew DEF Free
  <2>2. ASSUME NEW t \in Slots \ {s}, peer'[t] = Nobody PROVE Free(t)'
    <3>1. Free(t)
      BY <1>3, <2>2 DEF JoinInv, Seats
    <3>. QED BY <1>1, <1>2, <1>4, <1>5, <2>2, <3>1, DropRows DEF Free
  <2>. QED BY <2>1, <2>2
<1>8. ASSUME NEW g \in Guests, game'[g].slot # 0 PROVE peer'[game'[g].slot] = g
  <2>1. peer[game[g].slot] = g /\ game[g].slot \in Slots
    BY <1>1, <1>8 DEF JoinInv, Seats, Shape, Sound, Games
  <2>2. game[g].slot # s
    BY <1>1, <2>1
  <2>. QED BY <1>1, <1>3, <2>1, <2>2
<1>9. ASSUME NEW t \in Slots, peer'[t] # Nobody, game'[peer'[t]].slot = t PROVE Seated(t)'
  <2>1. t # s /\ peer'[t] = peer[t] /\ notices'[t] = notices[t] /\ Seated(t)
    BY <1>1, <1>3, <1>5, <1>9 DEF JoinInv, Seats
  <2>2. t \in players' <=> t \in players
    BY <1>1, <2>1 DEF Drop
  <2>. QED BY <1>1, <2>1, <2>2 DEF Seated, Coming
<1>10. /\ \A g \in Guests : Shape(game'[g])
       /\ ~hosting' => \A t \in Slots : peer'[t] = Nobody
  BY <1>1 DEF JoinInv, Seats
<1>11. Seats'
  BY <1>7, <1>8, <1>9, <1>10, Zenon DEF Seats
<1>. QED BY <1>2, <1>6, <1>11 DEF JoinInv

\* HostPlayers::Kick.
LEMMA HostKicksKeeps ==
    ASSUME JoinInv, NEW s \in Slots, HostKicks(s)
    PROVE  JoinInv'
<1>1. /\ hosting /\ s \in players /\ notices' = [notices EXCEPT ![s] = Append(@, Told("kicked"))] /\ Drop(s)
      /\ game' = game /\ joins' = joins /\ breaks' = breaks /\ peer' = peer /\ hosting' = hosting
      /\ hostWorld' = hostWorld /\ reloadVars' = reloadVars /\ excused' = excused /\ ask' = ask /\ kept' = kept
  BY Zenon DEF HostKicks, guestsUntouched
<1>2. Counts' /\ ReloadOK' /\ ListenerOK
  BY <1>1 DEF JoinInv, Counts, ReloadOK, reloadVars
<1>3. notices'[s] = Append(notices[s], Told("kicked")) /\ \A t \in Slots \ {s} : notices'[t] = notices[t]
  BY <1>1, <1>2 DEF ListenerOK
<1>4. Told("kicked") \in Notices /\ Told("kicked").what = "kicked" /\ players' = players \ {s}
  BY <1>1, NoticeTypes DEF Drop
<1>5. Served(s) /\ notices'[s] \in Seq(Notices)
  BY <1>2, <1>3, <1>4, ToldServed
<1>6. \A t \in Slots : Served(t)
  BY <1>3, <1>4, <1>5, UntoldServed
<1>7. ListenerOK'
  <2>1. notices' \in [Slots -> Seq(Notices)]
    BY <1>1, <1>2, <1>3, <1>5 DEF ListenerOK
  <2>. QED BY <1>1, <1>2, <2>1, DropRows DEF ListenerOK
<1>8. \A t \in Slots : peer[t] = Nobody => Free(t)'
  <2>1. peer[s] # Nobody
    BY <1>1 DEF JoinInv, Seats, Free
  <2>. QED BY <1>1, <1>2, <1>3, <2>1, DropRows DEF JoinInv, Seats, Free
<1>. QED BY <1>1, <1>2, <1>6, <1>7, <1>8, HostServes

\* A load asked for, by the host's player or the wipe.
LEMMA AskForLoadKeeps ==
    ASSUME JoinInv, LoadSave \/ Wipe
    PROVE  JoinInv'
<1>1. /\ game' = game /\ joins' = joins /\ breaks' = breaks /\ peer' = peer /\ hosting' = hosting /\ alive' = alive
      /\ ask' = ask /\ notices' = notices /\ hostWorld' = hostWorld /\ players' = players
      /\ receivers' = receivers /\ loading' = loading /\ kept' = kept /\ excused' = excused
  BY Zenon DEF LoadSave, Wipe, guestsUntouched
<1>2. asked' \in BOOLEAN /\ read' \in BOOLEAN
  BY Zenon DEF LoadSave, Wipe, JoinInv, ReloadOK
<1>3. saves' \in Worlds /\ checkpoint' \in Worlds
  BY BoundsAssumption DEF LoadSave, Wipe, JoinInv, ReloadOK, Worlds
<1>4. Counts' /\ ListenerOK' /\ ReloadOK'
  BY <1>1, <1>2, <1>3 DEF JoinInv, Counts, ListenerOK, ReloadOK
<1>5. \A s \in Slots : peer[s] = Nobody => Free(s)'
  BY <1>1 DEF JoinInv, Seats, Free
<1>. QED BY <1>1, <1>4, <1>5, HostServes, UntoldServed

\* The reload told to every player and everyone being sent a save (HostAuthority::SendCheckpoint).
LEMMA SendCheckpointKeeps ==
    ASSUME JoinInv, SendCheckpoint
    PROVE  JoinInv'
<1>1. /\ game' = game /\ joins' = joins /\ breaks' = breaks /\ peer' = peer /\ hosting' = hosting /\ alive' = alive
      /\ ask' = ask /\ hostWorld' = hostWorld /\ players' = players /\ asked' = asked /\ loading' = loading
      /\ kept' = kept /\ read' = TRUE /\ hosting
  BY Zenon DEF SendCheckpoint, guestsUntouched
<1>2. ListenerOK /\ ReloadOK /\ Counts
  BY DEF JoinInv
<1>3. CASE /\ checkpoint = 0
           /\ excused' = excused \cup {peer[s] : s \in {t \in Slots : kept[t] # "none" /\ peer[t] # Nobody}}
           /\ checkpoint' = checkpoint /\ saves' = saves /\ notices' = notices /\ receivers' = receivers
  <2>1. excused' \subseteq Guests
    BY <1>2, <1>3 DEF Counts, ListenerOK
  <2>2. Counts' /\ ListenerOK' /\ ReloadOK'
    BY <1>1, <1>2, <1>3, <2>1 DEF Counts, ListenerOK, ReloadOK
  <2>3. \A s \in Slots : peer[s] = Nobody => Free(s)'
    BY <1>1, <1>3 DEF JoinInv, Seats, Free
  <2>. QED BY <1>1, <1>3, <2>2, <2>3, HostServes, UntoldServed
<1>4. CASE /\ checkpoint' = IF checkpoint = 0 THEN saves + 1 ELSE checkpoint
           /\ saves' = IF checkpoint = 0 THEN saves + 1 ELSE saves
           /\ saves' <= MaxSaves + 1
           /\ notices' = [s \in Slots |-> IF s \in CheckpointTo THEN Append(notices[s], Told("reload")) ELSE notices[s]]
           /\ receivers' = [s \in Slots |-> IF s \in CheckpointTo THEN [of |-> checkpoint', next |-> 1] ELSE receivers[s]]
           /\ excused' = excused \cup Missed
  <2>1. saves' \in Worlds /\ checkpoint' \in Worlds
    BY <1>2, <1>4, BoundsAssumption DEF ReloadOK, Worlds
  <2>2. [of |-> checkpoint', next |-> 1] \in [of: Worlds, next: 0 .. Blocks]
    BY <2>1, BoundsAssumption
  <2>3. receivers' \in [Slots -> [of: Worlds, next: 0 .. Blocks]]
    BY <1>2, <1>4, <2>2 DEF ListenerOK
  <2>4. Told("reload") \in Notices /\ Told("reload").what = "reload"
    BY NoticeTypes
  <2>5. ASSUME NEW s \in Slots PROVE Served(s) /\ notices'[s] \in Seq(Notices)
    <3>1. CASE s \in CheckpointTo
      <4>1. notices'[s] = Append(notices[s], Told("reload"))
        BY <1>4, <3>1
      <4>. QED BY <1>1, <1>2, <2>4, <4>1, ToldServed
    <3>2. CASE s \notin CheckpointTo
      <4>1. notices'[s] = notices[s]
        BY <1>4, <3>2
      <4>. QED BY <1>1, <1>2, <4>1, UntoldServed DEF ListenerOK
    <3>. QED BY <3>1, <3>2
  <2>6. notices' \in [Slots -> Seq(Notices)]
    <3>1. DOMAIN notices' = Slots /\ notices' = [s \in Slots |-> notices'[s]]
      BY <1>4
    <3>. QED BY <2>5, <3>1
  <2>7. Counts' /\ ListenerOK' /\ ReloadOK'
    <3>1. Missed \subseteq Guests
      BY DEF Missed
    <3>. QED BY <1>1, <1>2, <1>4, <2>1, <2>3, <2>6, <3>1 DEF Counts, ListenerOK, ReloadOK
  <2>8. ASSUME NEW s \in Slots, peer[s] = Nobody PROVE Free(s)'
    <3>1. Free(s) /\ s \notin CheckpointTo
      BY <2>8 DEF JoinInv, Seats, Free, CheckpointTo, Wanting
    <3>2. notices'[s] = notices[s] /\ receivers'[s] = receivers[s]
      BY <1>4, <3>1
    <3>. QED BY <1>1, <3>1, <3>2 DEF Free
  <2>. QED BY <1>1, <2>5, <2>7, <2>8, HostServes
<1>. QED BY <1>3, <1>4, Zenon DEF SendCheckpoint

\* The host's load starts, and may fail at once or later (HostServiceReload's UpdateReload, OnGameLoadFailed): those
\* whose connection is alive are told.
LEMMA LoadKeeps ==
    ASSUME JoinInv, StartLoad \/ HostLoadFails
    PROVE  JoinInv'
<1>1. /\ game' = game /\ joins' = joins /\ breaks' = breaks /\ peer' = peer /\ hosting' = hosting /\ alive' = alive
      /\ ask' = ask /\ hostWorld' = hostWorld /\ players' = players /\ receivers' = receivers /\ saves' = saves
      /\ asked' = asked /\ read' = read /\ excused' = excused
  BY Zenon DEF StartLoad, HostLoadFails, guestsUntouched
<1>2. ListenerOK /\ ReloadOK /\ Counts
  BY DEF JoinInv
<1>3. CASE loading' = TRUE /\ checkpoint' = checkpoint /\ notices' = notices /\ kept' = kept
  <2>1. Counts' /\ ListenerOK' /\ ReloadOK'
    BY <1>1, <1>2, <1>3 DEF Counts, ListenerOK, ReloadOK
  <2>2. \A s \in Slots : peer[s] = Nobody => Free(s)'
    BY <1>1, <1>3 DEF JoinInv, Seats, Free
  <2>. QED BY <1>1, <1>3, <2>1, <2>2, HostServes, UntoldServed
<1>4. CASE FailedLoad
  <2>1. /\ loading' = FALSE /\ checkpoint' = 0 /\ kept' = NoAsks
        /\ notices' = [s \in Slots |-> IF kept[s] # "none" /\ s \in alive THEN Append(notices[s], Told("failed"))
                                       ELSE notices[s]]
    BY <1>4, Zenon DEF FailedLoad
  <2>2. Told("failed") \in Notices /\ Told("failed").what = "failed"
    BY NoticeTypes
  <2>3. ASSUME NEW s \in Slots PROVE Served(s) /\ notices'[s] \in Seq(Notices)
    <3>1. CASE kept[s] # "none" /\ s \in alive
      <4>1. notices'[s] = Append(notices[s], Told("failed"))
        BY <2>1, <3>1
      <4>. QED BY <1>1, <1>2, <2>2, <4>1, ToldServed
    <3>2. CASE ~(kept[s] # "none" /\ s \in alive)
      <4>1. notices'[s] = notices[s]
        BY <2>1, <3>2
      <4>. QED BY <1>1, <1>2, <4>1, UntoldServed DEF ListenerOK
    <3>. QED BY <3>1, <3>2
  <2>4. notices' \in [Slots -> Seq(Notices)]
    <3>1. DOMAIN notices' = Slots /\ notices' = [s \in Slots |-> notices'[s]]
      BY <2>1
    <3>. QED BY <2>3, <3>1
  <2>5. Counts' /\ ListenerOK' /\ ReloadOK'
    <3>1. kept' \in [Slots -> Asks] /\ checkpoint' \in Worlds /\ loading' \in BOOLEAN
      <4>1. kept' \in [Slots -> Asks] /\ checkpoint' \in Worlds
        BY <2>1, BoundsAssumption DEF NoAsks, Asks, Worlds
      <4>2. loading' \in BOOLEAN
        BY <2>1, Zenon
      <4>. QED BY <4>1, <4>2
    <3>. QED BY <1>1, <1>2, <2>4, <3>1 DEF Counts, ListenerOK, ReloadOK
  <2>6. ASSUME NEW s \in Slots, peer[s] = Nobody PROVE Free(s)'
    <3>1. Free(s) /\ s \notin alive
      BY <2>6 DEF JoinInv, Seats, Free
    <3>2. notices'[s] = notices[s]
      BY <2>1, <3>1
    <3>. QED BY <1>1, <3>1, <3>2 DEF Free
  <2>. QED BY <1>1, <2>3, <2>5, <2>6, HostServes
<1>. QED BY <1>3, <1>4, Zenon DEF StartLoad, HostLoadFails

\* The host's game is loaded, and answers the requests it kept (HostServiceReload's OnGameLoaded).
LEMMA HostLoadedKeeps ==
    ASSUME JoinInv, HostLoaded
    PROVE  JoinInv'
<1>1. PICK asks : asks = [s \in Slots |-> IF s \in alive THEN kept[s] ELSE "none"]
  OBVIOUS
<1>2. /\ hosting /\ hostWorld' = checkpoint /\ asked' = FALSE /\ read' = FALSE /\ loading' = FALSE /\ checkpoint' = 0
      /\ Answer(asks) /\ kept' = NoAsks /\ game' = game /\ joins' = joins /\ breaks' = breaks /\ peer' = peer
      /\ hosting' = hosting /\ ask' = ask /\ saves' = saves /\ excused' = excused
  BY <1>1, Zenon DEF HostLoaded, guestsUntouched
<1>3. asks \in [Slots -> Asks] /\ \A s \in Slots : asks[s] # "none" => peer[s] # Nobody
  BY <1>1 DEF JoinInv, ListenerOK, Asks, Seats, Free
<1>4. /\ players' \subseteq Slots /\ alive' \subseteq Slots /\ notices' \in [Slots -> Seq(Notices)]
      /\ receivers' \in [Slots -> [of: Worlds, next: 0 .. Blocks]]
      /\ \A t \in Slots : Served(t)
      /\ \A t \in Slots : peer[t] = Nobody =>
                t \notin alive' /\ t \notin players' /\ receivers'[t].next = 0 /\ Sent(notices'[t]) = {}
  BY <1>2, <1>3, AnswerServes
<1>5. Counts' /\ ListenerOK' /\ ReloadOK'
  <2>1. kept' \in [Slots -> Asks] /\ 0 \in Worlds
    BY <1>2, BoundsAssumption DEF NoAsks, Asks, Worlds
  <2>2. Counts' /\ ListenerOK'
    BY <1>2, <1>4, <2>1 DEF JoinInv, Counts, ListenerOK
  <2>3. ReloadOK'
    BY <1>2, <2>1 DEF JoinInv, ReloadOK
  <2>. QED BY <2>2, <2>3
<1>6. \A t \in Slots : peer[t] = Nobody => Free(t)'
  BY <1>2, <1>4 DEF JoinInv, Seats, Free
<1>. QED BY <1>2, <1>4, <1>5, <1>6, HostServes

\* The host ends the session: nobody holds a slot of its listener any more.
LEMMA HostEndsKeeps ==
    ASSUME JoinInv, HostEnds
    PROVE  JoinInv'
<1>1. /\ hosting' = FALSE /\ peer' = [s \in Slots |-> Nobody] /\ ask' = NoAsks /\ alive' = {} /\ players' = {}
      /\ receivers' = [s \in Slots |-> NotWanting] /\ asked' = FALSE /\ read' = FALSE /\ loading' = FALSE
      /\ checkpoint' = 0 /\ kept' = NoAsks /\ joins' = joins /\ breaks' = breaks /\ hostWorld' = hostWorld
      /\ saves' = saves /\ excused' = excused
  BY Zenon DEF HostEnds
<1>2. \/ notices' = [s \in Slots |-> IF s \in alive THEN <<Told("hostLeft")>> ELSE notices[s]] /\ game' = game
      \/ notices' = [s \in Slots |-> <<>>] /\ game' = [g \in Guests |-> [game[g] EXCEPT !.slot = 0]]
  BY Zenon DEF HostEnds
<1>3. notices' \in [Slots -> Seq(Notices)]
  <2>1. Told("hostLeft") \in Notices
    BY NoticeTypes
  <2>2. <<Told("hostLeft")>> \in Seq(Notices) /\ <<>> \in Seq(Notices)
    BY <2>1
  <2>. QED BY <1>2, <2>2 DEF JoinInv, ListenerOK
<1>4. NotWanting \in [of: Worlds, next: 0 .. Blocks] /\ NotWanting.next = 0 /\ 0 \in Worlds /\ NoAsks \in [Slots -> Asks]
      /\ \A s \in Slots : NoAsks[s] = "none"
  BY BoundsAssumption DEF NotWanting, Worlds, NoAsks, Asks
<1>5. Counts' /\ ListenerOK' /\ ReloadOK'
  <2>1. Counts'
    BY <1>1 DEF JoinInv, Counts
  <2>2. ListenerOK'
    BY <1>1, <1>3, <1>4 DEF ListenerOK
  <2>3. ReloadOK'
    BY <1>1, <1>4 DEF JoinInv, ReloadOK
  <2>. QED BY <2>1, <2>2, <2>3
<1>6. \A g \in Guests : Shape(game'[g])
  <2>1. ASSUME NEW g \in Guests PROVE Shape(game'[g])
    <3>1. PICK r, q : r = game[g] /\ q = [r EXCEPT !.slot = 0]
      OBVIOUS
    <3>2. Shape(r) /\ r \in Games
      BY <3>1 DEF JoinInv, Seats, Shape, Sound
    <3>3. q \in Games /\ q.step = r.step /\ q.tries = r.tries /\ q.link = r.link /\ q.slot = 0 /\ q.online = r.online
      BY <3>1, <3>2, SMTT(20) DEF Games
    <3>4. Shape(q)
      BY <3>2, <3>3 DEF Shape, Sound, Wired
    <3>5. game'[g] \in {r, q}
      BY <1>2, <3>1
    <3>. QED BY <3>2, <3>4, <3>5
  <2>. QED BY <2>1
<1>7. GamesOK'
  <2>1. DOMAIN game' = Guests /\ game' = [g \in Guests |-> game'[g]]
    BY <1>2 DEF JoinInv, GamesOK
  <2>2. \A g \in Guests : game'[g] \in Games
    BY <1>6 DEF Shape, Sound
  <2>. QED BY <2>1, <2>2 DEF GamesOK
<1>8. \A s \in Slots : peer'[s] = Nobody /\ Free(s)'
  BY <1>1, <1>4 DEF Free
<1>9. Seats'
  BY <1>1, <1>6, <1>8 DEF Seats
<1>. QED BY <1>5, <1>7, <1>9 DEF JoinInv

-----------------------------------------------------------------------------
(* Who plays is in the host's world.                                       *)

\* What a join ends in is known unless a load is asked for that has no checkpoint yet, or none any more.
Settled == ~(asked /\ (~read \/ checkpoint = 0))
Goal == IF asked THEN checkpoint ELSE hostWorld

\* Blocks of a save on their way: those a reload comes after are of a save the game will not have whole.
OvertakenAt(q, i) == \E j \in DOMAIN q : i < j /\ q[j].what = "reload"
Overtaken(q) == {q[i] : i \in {j \in DOMAIN q : q[j].what = "block" /\ OvertakenAt(q, j)}}
Current(q) == {q[i] : i \in {j \in DOMAIN q : q[j].what = "block" /\ ~OvertakenAt(q, j)}}
BlocksIn(q) == {m \in Sent(q) : m.what = "block"}

\* The steps in which a game asks plainly, being in the host's world already.
Plainly == {"joining", "reconnecting"}

\* A load under way has nobody in the session and nobody being sent a save, and no checkpoint is there unasked.
LoadHolds ==
    /\ loading => asked /\ read /\ checkpoint # 0 /\ players = {} /\ Wanting = {}
    /\ ~asked => ~read

\* What is sent is the save everyone goes to.
SendsGoal == Settled => \A s \in Wanting : receivers[s].of = Goal \/ (receivers[s].of = 0 /\ ~asked)

\* The steps a dial and a connection are made in.
AtStep(r) ==
    /\ r.link = "dialing" => r.step \in Plainly \cup {"connecting"}
    /\ r.slot # 0 => r.step \in Plainly \cup {"checking", "receiving"} \/ (r.step = "idle" /\ r.online = TRUE)

\* A game that loads, or will ask plainly, is going to the host's world or in it.
Heads(r) ==
    Settled => /\ r.step = "loading" => r.save.of = Goal
               /\ r.step \in {"placing", "reconnectWait"} \/ (r.link = "dialing" /\ r.step \in Plainly) => r.world = Goal

Request(s, what) == ask[s] = what \/ kept[s] = what
Unserved(s) == s \notin players /\ receivers[s].next = 0

\* A request not answered yet is all there is of its connection, and who asks plainly is in the host's world.
Requests(r, s) ==
    ask[s] # "none" \/ kept[s] # "none" =>
        /\ notices[s] = <<>> /\ Unserved(s) /\ (ask[s] = "none" \/ kept[s] = "none")
        /\ Request(s, "plain") <=> r.step \in Plainly
        /\ Request(s, "plain") /\ Settled => r.world = Goal

\* A game that asked plainly hears that it is in, or that the host's load failed, before anything else.
Hears(r, s) ==
    r.step \in Plainly => \/ notices[s] \in {<<>>, <<Told("failed")>>} /\ Unserved(s)
                          \/ notices[s] # <<>> /\ Head(notices[s]).what = "accepted"

\* No game gets the last block of a save that is not the one to go to.
Carries(s) ==
    /\ \A m \in Overtaken(notices[s]) : m.block < Blocks
    /\ \A m \in Current(notices[s]) : /\ Settled => m.of = Goal
                                      /\ receivers[s].next # 0 => m.block < receivers[s].next

\* Only a reload sends a player a save, and a player is in the host's world.
Reloads(s) == s \in players /\ (receivers[s].next # 0 \/ BlocksIn(notices[s]) # {}) => asked /\ read /\ checkpoint # 0
InWorld(r, s) == s \in players => r.world = hostWorld

Row(r, s) == Requests(r, s) /\ Hears(r, s) /\ Carries(s) /\ Reloads(s) /\ InWorld(r, s)
WorldOf(r) == AtStep(r) /\ Heads(r) /\ (r.slot # 0 => Row(r, r.slot))
WorldInv == hosting => LoadHolds /\ SendsGoal /\ \A g \in Guests \ excused : \A r \in {game[g]} : WorldOf(r)

-----------------------------------------------------------------------------
(* Blocks in a channel.                                                    *)

\* A message after what is there: a reload overtakes the blocks, a block is current.
LEMMA BlocksAppend ==
    ASSUME NEW q \in Seq(Notices), NEW m \in Notices
    PROVE  LET u == Append(q, m) IN
           /\ m.what = "reload" => Current(u) = {} /\ Overtaken(u) \subseteq Overtaken(q) \cup Current(q)
           /\ m.what # "reload" => Overtaken(u) \subseteq Overtaken(q)
           /\ m.what = "block" => Current(u) \subseteq Current(q) \cup {m}
           /\ m.what \notin {"block", "reload"} => Current(u) \subseteq Current(q) /\ BlocksIn(u) \subseteq BlocksIn(q)
<1>1. PICK u, e : u = Append(q, m) /\ e = <<m>>
  OBVIOUS
<1>2. Joined(q, e, u)
  BY <1>1, AppendFacts
<1>3. DOMAIN e = {1} /\ e[1] = m
  BY <1>1
<1>4. \A i \in DOMAIN q : i \in DOMAIN u /\ u[i] = q[i] /\ i < Len(q) + 1
  BY <1>2, <1>3 DEF Joined
<1>5. Len(q) + 1 \in DOMAIN u /\ u[Len(q) + 1] = m /\ \A i \in DOMAIN u : i \in DOMAIN q \/ i = Len(q) + 1
  <2>1. \A i \in DOMAIN u : i \in DOMAIN q \/ (i \in Nat /\ i - Len(q) = 1)
    BY <1>2, <1>3 DEF Joined
  <2>2. \A i \in DOMAIN u : i \in DOMAIN q \/ i = Len(q) + 1
    BY <1>2, <2>1 DEF Joined
  <2>. QED BY <1>2, <1>3, <2>2 DEF Joined
<1>6. PICK n : n = Len(q) + 1
  OBVIOUS
<1>7. /\ \A i \in DOMAIN q : i \in DOMAIN u /\ u[i] = q[i] /\ i < n /\ ~(n < i)
      /\ n \in DOMAIN u /\ u[n] = m /\ ~(n < n) /\ \A i \in DOMAIN u : i \in DOMAIN q \/ i = n
  <2>1. n \in Nat /\ DOMAIN q \subseteq Nat
    BY <1>2, <1>6 DEF Joined
  <2>2. \A i \in DOMAIN q : ~(n < i)
    BY <1>4, <1>6, <2>1
  <2>. QED BY <1>4, <1>5, <1>6, <2>1, <2>2
<1>8. \A i \in DOMAIN q : OvertakenAt(q, i) => OvertakenAt(u, i)
  BY <1>7 DEF OvertakenAt
<1>9. m.what = "reload" => \A i \in DOMAIN q : OvertakenAt(u, i)
  BY <1>7 DEF OvertakenAt
<1>10. m.what # "reload" => \A i \in DOMAIN q : OvertakenAt(u, i) => OvertakenAt(q, i)
  BY <1>7 DEF OvertakenAt
<1>11. ~OvertakenAt(u, n)
  BY <1>7 DEF OvertakenAt
<1>12. m.what = "reload" => Current(u) = {} /\ Overtaken(u) \subseteq Overtaken(q) \cup Current(q)
  BY <1>7, <1>9 DEF Current, Overtaken
<1>13. m.what # "reload" => Overtaken(u) \subseteq Overtaken(q)
  BY <1>7, <1>10, <1>11 DEF Overtaken
<1>14. m.what = "block" => Current(u) \subseteq Current(q) \cup {m}
  BY <1>7, <1>8 DEF Current
<1>15. m.what \notin {"block", "reload"} => Current(u) \subseteq Current(q)
  BY <1>7, <1>8 DEF Current
<1>16. m.what \notin {"block", "reload"} => BlocksIn(u) \subseteq BlocksIn(q)
  BY <1>7 DEF BlocksIn, Sent
<1>. QED BY <1>1, <1>12, <1>13, <1>14, <1>15, <1>16, Zenon

\* Reading a message changes nothing about the others; a block read was current or overtaken.
LEMMA BlocksRead ==
    ASSUME NEW q \in Seq(Notices), q # <<>>
    PROVE  /\ Current(Tail(q)) \subseteq Current(q) /\ Overtaken(Tail(q)) \subseteq Overtaken(q)
           /\ BlocksIn(Tail(q)) \subseteq BlocksIn(q)
           /\ Head(q).what = "block" => Head(q) \in Current(q) \cup Overtaken(q)
<1>1. PICK u : u = Tail(q)
  OBVIOUS
<1>2. FirstTaken(q, u)
  BY <1>1, ReadFacts
<1>3. \A i \in DOMAIN u : i \in Nat /\ i + 1 \in DOMAIN q /\ u[i] = q[i + 1]
  BY <1>2 DEF FirstTaken
<1>4. \A j \in DOMAIN q : j \in Nat /\ 1 <= j /\ (j # 1 => j - 1 \in DOMAIN u /\ u[j - 1] = q[j])
  BY <1>2 DEF FirstTaken
<1>5. ASSUME NEW i \in DOMAIN u, OvertakenAt(q, i + 1) PROVE OvertakenAt(u, i)
  <2>1. PICK j \in DOMAIN q : i + 1 < j /\ q[j].what = "reload"
    BY <1>5 DEF OvertakenAt
  <2>2. j \in Nat /\ i \in Nat /\ j # 1
    BY <1>3, <1>4, <2>1
  <2>3. j - 1 \in DOMAIN u /\ i < j - 1 /\ u[j - 1].what = "reload"
    BY <1>4, <2>1, <2>2
  <2>. QED BY <2>3 DEF OvertakenAt
<1>6. ASSUME NEW i \in DOMAIN u, OvertakenAt(u, i) PROVE OvertakenAt(q, i + 1)
  <2>1. PICK j \in DOMAIN u : i < j /\ u[j].what = "reload"
    BY <1>6 DEF OvertakenAt
  <2>2. j + 1 \in DOMAIN q /\ i + 1 < j + 1 /\ q[j + 1].what = "reload"
    BY <1>3, <2>1
  <2>. QED BY <2>2 DEF OvertakenAt
<1>7. Current(u) \subseteq Current(q)
  <2>1. ASSUME NEW i \in DOMAIN u, u[i].what = "block", ~OvertakenAt(u, i) PROVE u[i] \in Current(q)
    <3>1. i + 1 \in DOMAIN q /\ q[i + 1] = u[i] /\ ~OvertakenAt(q, i + 1)
      BY <1>3, <1>5, <2>1
    <3>. QED BY <2>1, <3>1 DEF Current
  <2>. QED BY <2>1 DEF Current
<1>8. Overtaken(u) \subseteq Overtaken(q)
  <2>1. ASSUME NEW i \in DOMAIN u, u[i].what = "block", OvertakenAt(u, i) PROVE u[i] \in Overtaken(q)
    <3>1. i + 1 \in DOMAIN q /\ q[i + 1] = u[i] /\ OvertakenAt(q, i + 1)
      BY <1>3, <1>6, <2>1
    <3>. QED BY <2>1, <3>1 DEF Overtaken
  <2>. QED BY <2>1 DEF Overtaken
<1>9. BlocksIn(u) \subseteq BlocksIn(q)
  BY <1>3 DEF BlocksIn, Sent
<1>10. Head(q).what = "block" => Head(q) \in Current(q) \cup Overtaken(q)
  BY <1>2 DEF FirstTaken, Current, Overtaken
<1>. QED BY <1>1, <1>7, <1>8, <1>9, <1>10, Zenon

\* A channel with no block in it.
LEMMA NoBlocks ==
    /\ \A q : BlocksIn(q) = {} => Current(q) = {} /\ Overtaken(q) = {}
    /\ BlocksIn(<<>>) = {}
    /\ \A m : m.what # "block" => BlocksIn(<<m>>) = {}
    /\ \A m, n : m.what # "block" /\ n.what # "block" => BlocksIn(<<m, n>>) = {}
<1>1. \A q : BlocksIn(q) = {} => Current(q) = {} /\ Overtaken(q) = {}
  BY DEF BlocksIn, Current, Overtaken, Sent
<1>2. BlocksIn(<<>>) = {} /\ (\A m : m.what # "block" => BlocksIn(<<m>>) = {})
  BY SentFew DEF BlocksIn
<1>3. \A m, n : m.what # "block" /\ n.what # "block" => BlocksIn(<<m, n>>) = {}
  BY SentFew DEF BlocksIn
<1>. QED BY <1>1, <1>2, <1>3

\* The oldest message stays the oldest when one more comes.
LEMMA HeadAppend ==
    ASSUME NEW q \in Seq(Notices), NEW m \in Notices
    PROVE  /\ Append(q, m) # <<>> /\ (q # <<>> => Head(Append(q, m)) = Head(q))
           /\ (q = <<>> => Append(q, m) = <<m>>)
<1>1. PICK u, e : u = Append(q, m) /\ e = <<m>>
  OBVIOUS
<1>2. Joined(q, e, u) /\ u \in Seq(Notices)
  BY <1>1, AppendFacts
<1>3. DOMAIN u # {} /\ u # <<>>
  BY <1>1, <1>2 DEF Joined
<1>4. ASSUME q # <<>> PROVE Head(u) = Head(q)
  <2>1. 1 \in DOMAIN q /\ Head(q) = q[1]
    BY <1>4, ReadFacts DEF FirstTaken
  <2>2. Head(u) = u[1]
    BY <1>2, <1>3, ReadFacts DEF FirstTaken
  <2>. QED BY <1>2, <2>1, <2>2 DEF Joined
<1>5. ASSUME q = <<>> PROVE u = e
  BY <1>1, <1>5
<1>. QED BY <1>1, <1>3, <1>4, <1>5, Zenon

-----------------------------------------------------------------------------
(* What the steps make of a game's connection and world.                   *)

\* A game at this step, with this connection, slot and world.
Is(q, step, link, slot, world) == q.step = step /\ q.link = link /\ q.slot = slot /\ q.world = world

\* A game with one field changed has the others as they were.
LEMMA OthersSame ==
    ASSUME NEW r \in Games
    PROVE  /\ \A v : Is([r EXCEPT !.step = v], v, r.link, r.slot, r.world) /\ [r EXCEPT !.step = v].save = r.save
           /\ \A v : Is([r EXCEPT !.link = v], r.step, v, r.slot, r.world) /\ [r EXCEPT !.link = v].save = r.save
           /\ \A v : Is([r EXCEPT !.slot = v], r.step, r.link, v, r.world) /\ [r EXCEPT !.slot = v].save = r.save
           /\ \A v : Is([r EXCEPT !.world = v], r.step, r.link, r.slot, v) /\ [r EXCEPT !.world = v].save = r.save
           /\ \A v : Is([r EXCEPT !.online = v], r.step, r.link, r.slot, r.world) /\ [r EXCEPT !.online = v].save = r.save
           /\ \A v : Is([r EXCEPT !.brought = v], r.step, r.link, r.slot, r.world) /\ [r EXCEPT !.brought = v].save = r.save
           /\ \A v : Is([r EXCEPT !.tries = v], r.step, r.link, r.slot, r.world) /\ [r EXCEPT !.tries = v].save = r.save
           /\ \A v : Is([r EXCEPT !.ending = v], r.step, r.link, r.slot, r.world) /\ [r EXCEPT !.ending = v].save = r.save
           /\ \A v : Is([r EXCEPT !.save = v], r.step, r.link, r.slot, r.world) /\ [r EXCEPT !.save = v].save = v
<1>1. \A v : Is([r EXCEPT !.step = v], v, r.link, r.slot, r.world) /\ [r EXCEPT !.step = v].save = r.save
  BY DEF Games, Is
<1>2. \A v : Is([r EXCEPT !.link = v], r.step, v, r.slot, r.world) /\ [r EXCEPT !.link = v].save = r.save
  BY DEF Games, Is
<1>3. \A v : Is([r EXCEPT !.slot = v], r.step, r.link, v, r.world) /\ [r EXCEPT !.slot = v].save = r.save
  BY DEF Games, Is
<1>4. \A v : Is([r EXCEPT !.world = v], r.step, r.link, r.slot, v) /\ [r EXCEPT !.world = v].save = r.save
  BY DEF Games, Is
<1>5. \A v : Is([r EXCEPT !.online = v], r.step, r.link, r.slot, r.world) /\ [r EXCEPT !.online = v].save = r.save
  BY DEF Games, Is
<1>6. \A v : Is([r EXCEPT !.brought = v], r.step, r.link, r.slot, r.world) /\ [r EXCEPT !.brought = v].save = r.save
  BY DEF Games, Is
<1>7. \A v : Is([r EXCEPT !.tries = v], r.step, r.link, r.slot, r.world) /\ [r EXCEPT !.tries = v].save = r.save
  BY DEF Games, Is
<1>8. \A v : Is([r EXCEPT !.ending = v], r.step, r.link, r.slot, r.world) /\ [r EXCEPT !.ending = v].save = r.save
  BY DEF Games, Is
<1>9. \A v : Is([r EXCEPT !.save = v], r.step, r.link, r.slot, r.world) /\ [r EXCEPT !.save = v].save = v
  BY DEF Games, Is
<1>. QED BY <1>1, <1>2, <1>3, <1>4, <1>5, <1>6, <1>7, <1>8, <1>9, Zenon

\* Leaving a connection changes neither step nor world.
LEMMA GoneIs ==
    ASSUME NEW r \in Games
    PROVE  Is(Gone(r), r.step, "none", 0, r.world) /\ Gone(r).save = r.save /\ Gone(r) \in Games
<1>1. PICK q : q = Gone(r)
  OBVIOUS
<1>2. q \in Games /\ Is(q, r.step, "none", 0, r.world) /\ q.save = r.save
  BY <1>1 DEF Gone, Games, Is
<1>. QED BY <1>1, <1>2

\* A join that fails leaves its connection; a dial on its way goes on.
LEMMA FailIs ==
    ASSUME NEW r, Shape(r)
    PROVE  /\ Fail(r).step = "idle" /\ Fail(r).slot = 0 /\ Fail(r) \in Games
           /\ Fail(r).link = IF r.link = "dialing" THEN "dialing" ELSE "none"
<1>1. PICK a, i : a = [r EXCEPT !.step = "idle"] /\ i = [a EXCEPT !.save = NoSave]
  OBVIOUS
<1>2. r \in Games /\ (r.link \in {"none", "dialing"} => r.slot = 0)
  BY DEF Shape, Sound, Wired
<1>3. a \in Games /\ a.step = "idle" /\ a.link = r.link /\ a.slot = r.slot
  BY <1>1, <1>2, SomeValues, Changed, OthersSame, Zenon DEF Is
<1>4. i \in Games /\ i.step = "idle" /\ i.link = r.link /\ i.slot = r.slot
  <2>1. i \in Games
    BY <1>1, <1>3, SomeValues, Changed
  <2>2. Is(i, a.step, a.link, a.slot, a.world)
    BY <1>1, <1>3, OthersSame, Zenon
  <2>. QED BY <1>3, <2>1, <2>2 DEF Is
<1>5. Fail(r) = IF r.link \in {"open", "refused"} THEN Gone(i) ELSE i
  BY <1>1, Zenon DEF Fail
<1>6. CASE r.link \in {"open", "refused"}
  BY <1>4, <1>5, <1>6, GoneIs DEF Is
<1>7. CASE r.link \notin {"open", "refused"}
  BY <1>2, <1>4, <1>5, <1>7 DEF Games
<1>. QED BY <1>6, <1>7

\* A session that will end changes nothing of its connection (SessionService::End).
LEMMA EndIs ==
    ASSUME NEW r \in Games
    PROVE  Is(End(r), r.step, r.link, r.slot, r.world)
<1>1. PICK q : q = [r EXCEPT !.ending = "pending"]
  OBVIOUS
<1>2. Is(q, r.step, r.link, r.slot, r.world)
  BY <1>1, OthersSame, Zenon
<1>. QED BY <1>1, <1>2, Zenon DEF End, Is

\* A session that is over leaves a game idle, with no connection (SessionService::Finish).
LEMMA FinishIs == ASSUME NEW r \in Games PROVE Finish(r).step = "idle" /\ Finish(r).link = "none" /\ Finish(r).slot = 0
<1>1. PICK a : a = [r EXCEPT !.ending = "finished"]
  OBVIOUS
<1>2. PICK b : b = [a EXCEPT !.step = "idle"]
  OBVIOUS
<1>3. PICK c : c = [b EXCEPT !.tries = 0]
  OBVIOUS
<1>4. PICK d : d = [c EXCEPT !.brought = FALSE]
  OBVIOUS
<1>5. PICK e : e = [d EXCEPT !.save = NoSave]
  OBVIOUS
<1>6. PICK f : f = [e EXCEPT !.world = 0]
  OBVIOUS
<1>7. a \in Games
  BY <1>1, Changed
<1>8. b \in Games /\ b.step = "idle"
  BY <1>2, <1>7, Changed, OthersSame, SomeValues, Zenon DEF Is
<1>9. c \in Games /\ c.step = "idle"
  BY <1>3, <1>8, Changed, OthersSame, SomeValues, Zenon DEF Is
<1>10. d \in Games /\ d.step = "idle"
  BY <1>4, <1>9, Changed, OthersSame, SomeValues, Zenon DEF Is
<1>11. e \in Games /\ e.step = "idle"
  BY <1>5, <1>10, Changed, OthersSame, SomeValues, Zenon DEF Is
<1>12. f \in Games /\ f.step = "idle"
  BY <1>6, <1>11, Changed, OthersSame, SomeValues, Zenon DEF Is
<1>13. Finish(r) = Gone(f)
  BY <1>1, <1>2, <1>3, <1>4, <1>5, <1>6, Zenon DEF Finish
<1>. QED BY <1>12, <1>13, GoneIs DEF Is

\* A reconnect that fails waits again or ends, in the world it is in.
LEMMA RetryIs ==
    ASSUME NEW r \in Games
    PROVE  \E step \in {"reconnectWait", "idle"} : Is(Retry(r), step, r.link, r.slot, r.world) /\ Retry(r) \in Games
<1>1. PICK w, i : w = [r EXCEPT !.step = "reconnectWait"] /\ i = [r EXCEPT !.step = "idle"]
  OBVIOUS
<1>2. /\ w \in Games /\ Is(w, "reconnectWait", r.link, r.slot, r.world)
      /\ i \in Games /\ Is(i, "idle", r.link, r.slot, r.world)
  BY <1>1, SomeValues, Changed, OthersSame, Zenon
<1>3. PICK e : e = End(i)
  OBVIOUS
<1>4. e \in Games /\ Is(e, "idle", r.link, r.slot, r.world)
  <2>1. [i EXCEPT !.ending = "pending"] \in Games
    BY <1>2, Changed
  <2>2. e \in Games
    BY <1>2, <1>3, <2>1 DEF End
  <2>. QED BY <1>2, <1>3, <2>2, EndIs DEF Is
<1>5. Retry(r) \in {w, e}
  BY <1>1, <1>3, Zenon DEF Retry
<1>. QED BY <1>2, <1>4, <1>5

\* A connection that ends: the game waits to reconnect only if it waited, reconnected, or was a player cut off.
LEMMA DisconnectedIs ==
    ASSUME NEW r, Shape(r), NEW why
    PROVE  /\ Disconnected(r, why).link = "none" /\ Disconnected(r, why).slot = 0
           /\ Disconnected(r, why).step \in {r.step, "idle", "reconnectWait"}
           /\ Disconnected(r, why).step = "reconnectWait" => why = "lost" \/ r.step \in {"reconnecting", "reconnectWait"}
<1>1. PICK gone, d : gone = Gone(r) /\ d = Disconnected(r, why)
  OBVIOUS
<1>2. gone \in Games /\ gone.step = r.step /\ gone.link = "none" /\ gone.slot = 0 /\ Shape(gone)
  BY <1>1, GoneIs, GoneShape DEF Is, Shape, Sound
<1>3. \/ d \in {gone, Fail(gone), End(gone)}
      \/ d = StartReconnect(gone) /\ why = "lost"
      \/ d = Retry(gone) /\ r.step = "reconnecting"
  BY <1>1, Zenon DEF Disconnected
<1>4. /\ Fail(gone).step = "idle" /\ Fail(gone).slot = 0 /\ Fail(gone).link = "none"
      /\ End(gone).step = r.step /\ End(gone).slot = 0 /\ End(gone).link = "none"
      /\ Retry(gone).step \in {"reconnectWait", "idle"} /\ Retry(gone).slot = 0 /\ Retry(gone).link = "none"
  BY <1>2, FailIs, EndIs, RetryIs DEF Is
<1>5. StartReconnect(gone).step = "reconnectWait" /\ StartReconnect(gone).slot = 0 /\ StartReconnect(gone).link = "none"
  <2>1. PICK a : a = [gone EXCEPT !.step = "reconnectWait"]
    OBVIOUS
  <2>2. PICK b : b = [a EXCEPT !.tries = 0]
    OBVIOUS
  <2>3. a \in Games /\ Is(a, "reconnectWait", gone.link, gone.slot, gone.world)
    BY <1>2, <2>1, SomeValues, Changed, OthersSame, Zenon
  <2>4. b \in Games
    BY <2>2, <2>3, SomeValues, Changed
  <2>5. Is(b, a.step, a.link, a.slot, a.world)
    BY <2>2, <2>3, OthersSame, Zenon
  <2>6. PICK c : c = [b EXCEPT !.brought = FALSE]
    OBVIOUS
  <2>7. Is(c, b.step, b.link, b.slot, b.world)
    BY <2>4, <2>6, OthersSame, Zenon
  <2>8. StartReconnect(gone) = c
    BY <2>1, <2>2, <2>6, Zenon DEF StartReconnect
  <2>. QED BY <1>2, <2>3, <2>5, <2>7, <2>8 DEF Is
<1>. QED BY <1>1, <1>2, <1>3, <1>4, <1>5

\* A game that dials, as it is.
LEMMA ConnectIs ==
    ASSUME NEW r \in Games, NEW step \in {"connecting", "joining", "reconnecting"}
    PROVE  Is(Connect(r, step), step, "dialing", r.slot, r.world)
<1>1. PICK a : a = [r EXCEPT !.step = step]
  OBVIOUS
<1>2. PICK b : b = [a EXCEPT !.link = "dialing"]
  OBVIOUS
<1>3. a \in Games /\ Is(a, step, r.link, r.slot, r.world)
  <2>1. step \in Steps
    BY SomeValues
  <2>. QED BY <1>1, <2>1, Changed, OthersSame, Zenon
<1>4. b \in Games
  BY <1>2, <1>3, Changed
<1>5. Is(b, a.step, "dialing", a.slot, a.world)
  BY <1>2, <1>3, OthersSame, Zenon
<1>6. PICK c : c = [b EXCEPT !.save = NoSave]
  OBVIOUS
<1>7. Is(c, b.step, b.link, b.slot, b.world)
  BY <1>4, <1>6, OthersSame, Zenon
<1>8. Connect(r, step) = c
  BY <1>1, <1>2, <1>6, Zenon DEF Connect
<1>. QED BY <1>3, <1>5, <1>7, <1>8 DEF Is

-----------------------------------------------------------------------------
(* What a step leaves alone.                                               *)

\* A step that leaves the reload alone, and one that leaves a slot's row alone.
ReloadSame == hostWorld' = hostWorld /\ asked' = asked /\ read' = read /\ checkpoint' = checkpoint
SlotSame(s) ==
    /\ ask'[s] = ask[s] /\ kept'[s] = kept[s] /\ notices'[s] = notices[s] /\ receivers'[s].next = receivers[s].next
    /\ s \in players' <=> s \in players

\* Where a game is heading depends on the game and the reload alone, its row on the slot and the reload.
LEMMA HeadsSame == ASSUME ReloadSame, NEW r, Heads(r) PROVE Heads(r)'
BY DEF ReloadSame, Heads, Settled, Goal

\* A row depends on its slot and the reload alone.
LEMMA RowSame == ASSUME ReloadSame, NEW r, NEW s, SlotSame(s), Row(r, s) PROVE Row(r, s)'
<1>1. (Settled' <=> Settled) /\ Goal' = Goal
  BY DEF ReloadSame, Settled, Goal
<1>2. Requests(r, s)' /\ Hears(r, s)'
  BY <1>1 DEF ReloadSame, SlotSame, Row, Requests, Hears, Request, Unserved
<1>3. Carries(s)' /\ Reloads(s)' /\ InWorld(r, s)'
  BY <1>1 DEF ReloadSame, SlotSame, Row, Carries, Reloads, InWorld
<1>. QED BY <1>2, <1>3 DEF Row

\* The invariant read for one game, and put together again.
LEMMA WorldRead ==
    ASSUME WorldInv, hosting
    PROVE  LoadHolds /\ SendsGoal /\ \A g \in Guests : g \notin excused =>
               AtStep(game[g]) /\ Heads(game[g]) /\ (game[g].slot # 0 => Row(game[g], game[g].slot))
<1>1. ASSUME NEW g \in Guests, g \notin excused
      PROVE  AtStep(game[g]) /\ Heads(game[g]) /\ (game[g].slot # 0 => Row(game[g], game[g].slot))
  BY <1>1 DEF WorldInv, WorldOf
<1>. QED BY <1>1 DEF WorldInv

\* And put together again, after a step.
LEMMA WorldMade ==
    ASSUME LoadHolds', SendsGoal',
           \A g \in Guests : g \notin excused' => \A r : r = game'[g] =>
               AtStep(r) /\ Heads(r)' /\ (r.slot # 0 => Row(r, r.slot)')
    PROVE  WorldInv'
<1>1. ASSUME NEW g \in Guests \ excused', NEW r \in {game'[g]} PROVE WorldOf(r)'
  BY <1>1 DEF WorldOf
<1>. QED BY <1>1 DEF WorldInv

-----------------------------------------------------------------------------
(* A game's steps, and its world.                                          *)

\* The rest of the invariant, when a game moves and the host does nothing.
LEMMA HostSame ==
    ASSUME hostUntouched' = hostUntouched
    PROVE  /\ ReloadSame /\ (hosting' <=> hosting) /\ (\A s : SlotSame(s)) /\ peer' = peer
           /\ LoadHolds' <=> LoadHolds
           /\ SendsGoal' <=> SendsGoal
<1>1. /\ hosting' = hosting /\ peer' = peer /\ ask' = ask /\ notices' = notices
      /\ hostWorld' = hostWorld /\ players' = players /\ receivers' = receivers /\ kept' = kept
      /\ asked' = asked /\ read' = read /\ loading' = loading /\ checkpoint' = checkpoint
  BY Zenon DEF hostUntouched, reloadVars
<1>2. ReloadSame /\ \A s : SlotSame(s)
  BY <1>1 DEF ReloadSame, SlotSame
<1>3. (LoadHolds' <=> LoadHolds) /\ (SendsGoal' <=> SendsGoal)
  BY <1>1 DEF LoadHolds, SendsGoal, Settled, Goal, Wanting
<1>. QED BY <1>1, <1>2, <1>3

\* A game whose step leaves it without a slot, heading where it should.
LEMMA MovesOn ==
    ASSUME WorldInv, NEW g \in Guests, NEW q, Becomes(g, q), GamesOK, hostUntouched' = hostUntouched,
           \A h \in Guests : h # g => (h \in excused' <=> h \in excused),
           hosting /\ g \notin excused' => q.slot = 0 /\ AtStep(q) /\ Heads(q)
    PROVE  WorldInv'
<1>1. /\ ReloadSame /\ (hosting' <=> hosting) /\ (\A s : SlotSame(s))
      /\ (LoadHolds' <=> LoadHolds) /\ (SendsGoal' <=> SendsGoal)
  BY HostSame
<1>2. CASE ~hosting
  BY <1>1, <1>2 DEF WorldInv
<1>3. CASE hosting
  <2>1. game'[g] = q /\ \A h \in Guests : h # g => game'[h] = game[h]
    BY DEF Becomes, GamesOK
  <2>2. LoadHolds /\ SendsGoal /\ \A h \in Guests : h \notin excused =>
               AtStep(game[h]) /\ Heads(game[h]) /\ (game[h].slot # 0 => Row(game[h], game[h].slot))
    BY <1>3, WorldRead
  <2>3. ASSUME NEW h \in Guests, h \notin excused', NEW r, r = game'[h]
        PROVE  AtStep(r) /\ Heads(r)' /\ (r.slot # 0 => Row(r, r.slot)')
    <3>1. CASE h = g
      BY <1>1, <1>3, <2>1, <2>3, <3>1, HeadsSame
    <3>2. CASE h # g
      <4>1. AtStep(r) /\ Heads(r) /\ (r.slot # 0 => Row(r, r.slot))
        BY <2>1, <2>2, <2>3, <3>2
      <4>. QED BY <1>1, <4>1, HeadsSame, RowSame
    <3>. QED BY <3>1, <3>2
  <2>. QED BY <1>1, <2>2, <2>3, WorldMade
<1>. QED BY <1>2, <1>3

\* A game that is neither dialing nor going to the host's world.
LEMMA NowhereToGo ==
    ASSUME NEW q, q.link # "dialing", q.slot = 0, q.step \notin {"loading", "placing", "reconnectWait"}
    PROVE  AtStep(q) /\ Heads(q)
BY DEF AtStep, Heads

\* A game that will rejoin and does not miss the rollback is in the world to be in.
LEMMA RejoinsRight ==
    ASSUME NEW q, q.step = "reconnectWait", q.link = "none", q.slot = 0, ~MissesRollback(q)
    PROVE  AtStep(q) /\ Heads(q)
BY DEF AtStep, Heads, MissesRollback, Goal, Plainly

\* What a game does by itself changes nothing of the host's, and leaves it without a slot, heading where it should.
Onward(g, q) ==
    /\ Becomes(g, q) /\ hostUntouched' = hostUntouched
    /\ \A h \in Guests : h # g => (h \in excused' <=> h \in excused)
    /\ hosting /\ g \notin excused' => q.slot = 0 /\ AtStep(q) /\ Heads(q)

\* Whatever a game does by itself but for taking its slot and reading.
LEMMA GameGoesOn ==
    ASSUME JoinInv, WorldInv, NEW g \in Guests, GuestStep(g), ~Dial(g), ~Read(g)
    PROVE  \E q : Onward(g, q)
<1>1. PICK r : r = game[g]
  OBVIOUS
<1>2. Shape(r) /\ r \in Games /\ GamesOK
  BY <1>1 DEF JoinInv, Seats, Shape, Sound
<1>3. hosting /\ g \notin excused => AtStep(r) /\ Heads(r)
  BY <1>1, WorldRead
<1>4. /\ r.link \in {"none", "dialing"} => r.slot = 0
      /\ r.step \in {"creating", "loading", "placing", "reconnectWait"} => r.link = "none"
      /\ r.link \in {"none", "dialing", "open", "refused"}
  BY <1>2 DEF Shape, Wired, Games
<1>5. ASSUME NEW brought \in BOOLEAN, Join(g, brought) PROVE \E q : Onward(g, q)
  <2>1. PICK x : x = [r EXCEPT !.brought = brought]
    OBVIOUS
  <2>2. /\ r.link = "none" /\ Becomes(g, Connect(x, "connecting"))
        /\ excused' = excused \ {g} /\ hostUntouched' = hostUntouched
    BY <1>1, <1>5, <2>1, Zenon DEF Join
  <2>3. x \in Games /\ x.slot = r.slot
    BY <1>2, <2>1, Changed, OthersSame DEF Is
  <2>4. PICK q : q = Connect(x, "connecting")
    OBVIOUS
  <2>5. Is(q, "connecting", "dialing", x.slot, x.world)
    BY <2>3, <2>4, ConnectIs
  <2>6. q.slot = 0 /\ AtStep(q) /\ Heads(q)
    BY <1>4, <2>2, <2>3, <2>5 DEF Is, AtStep, Heads, Plainly
  <2>. QED BY <1>2, <2>2, <2>4, <2>6 DEF Onward
<1>6. CASE Lost(g)
  <2>1. PICK q : q = Disconnected(r, "lost")
    OBVIOUS
  <2>2. /\ r.link # "none" /\ Becomes(g, q) /\ hostUntouched' = hostUntouched
        /\ excused' = IF MissesRollback(q) THEN excused \cup {g} ELSE excused
    <3>1. /\ Becomes(g, q) /\ hostUntouched' = hostUntouched
          /\ excused' = IF MissesRollback(q) THEN excused \cup {g} ELSE excused
      BY <1>1, <1>6, <2>1, Zenon DEF Lost
    <3>2. r.link # "none"
      BY <1>1, <1>6 DEF Lost
    <3>. QED BY <3>1, <3>2
  <2>3. q.link = "none" /\ q.slot = 0 /\ q.step \in {r.step, "idle", "reconnectWait"}
    BY <1>2, <2>1, DisconnectedIs
  <2>4. ASSUME g \notin excused' PROVE AtStep(q) /\ Heads(q)
    <3>1. q.step = "reconnectWait" => AtStep(q) /\ Heads(q)
      BY <2>2, <2>3, <2>4, RejoinsRight
    <3>2. q.step # "reconnectWait" => AtStep(q) /\ Heads(q)
      BY <1>4, <2>2, <2>3, NowhereToGo
    <3>. QED BY <3>1, <3>2
  <2>. QED BY <1>2, <2>2, <2>3, <2>4 DEF Onward
<1>7. CASE Break(g)
  <2>1. PICK q : q = [r EXCEPT !.slot = 0]
    OBVIOUS
  <2>2. r.slot # 0 /\ Becomes(g, q) /\ hostUntouched' = hostUntouched /\ excused' = excused
    BY <1>1, <1>7, <2>1, Zenon DEF Break
  <2>3. Is(q, r.step, r.link, 0, r.world)
    BY <1>2, <2>1, OthersSame, Zenon
  <2>4. AtStep(q) /\ Heads(q)
    BY <1>4, <2>2, <2>3, NowhereToGo DEF Is
  <2>. QED BY <1>2, <2>2, <2>3, <2>4 DEF Onward, Is
<1>8. CASE Created(g)
  <2>1. PICK x : x = [r EXCEPT !.brought = TRUE]
    OBVIOUS
  <2>2. PICK q \in {Connect(x, "connecting"), Fail(r)} : Becomes(g, q)
    BY <1>1, <1>8, <2>1, Zenon DEF Created
  <2>3. r.step = "creating" /\ hostUntouched' = hostUntouched /\ excused' = excused
    BY <1>1, <1>8, Zenon DEF Created
  <2>4. x \in Games /\ x.slot = r.slot
    BY <1>2, <2>1, Changed, OthersSame DEF Is
  <2>5. q.slot = 0 /\ AtStep(q) /\ Heads(q)
    <3>1. CASE q = Connect(x, "connecting")
      <4>1. Is(q, "connecting", "dialing", x.slot, x.world)
        BY <2>4, <3>1, ConnectIs
      <4>. QED BY <1>4, <2>3, <2>4, <4>1 DEF Is, AtStep, Heads, Plainly
    <3>2. CASE q = Fail(r)
      BY <1>2, <1>4, <2>3, <3>2, FailIs, NowhereToGo
    <3>. QED BY <2>2, <3>1, <3>2
  <2>. QED BY <1>2, <2>2, <2>3, <2>5 DEF Onward
<1>9. CASE Loaded(g)
  <2>1. PICK x : x = [r EXCEPT !.world = r.save.of]
    OBVIOUS
  <2>2. PICK in : in = [x EXCEPT !.save = NoSave]
    OBVIOUS
  <2>3. PICK y : y = [in EXCEPT !.brought = FALSE]
    OBVIOUS
  <2>4. PICK z : z = [y EXCEPT !.step = "placing"]
    OBVIOUS
  <2>5. r.step = "loading" /\ hostUntouched' = hostUntouched /\ excused' = excused
    BY <1>1, <1>9, Zenon DEF Loaded
  <2>6. PICK q \in {Connect(y, "joining"), z, Fail(in)} : Becomes(g, q)
    <3>1. in = [r EXCEPT !.world = r.save.of, !.save = NoSave] /\ z = [in EXCEPT !.brought = FALSE, !.step = "placing"]
      BY <2>1, <2>2, <2>3, <2>4, Zenon
    <3>2. \/ Becomes(g, Connect([in EXCEPT !.brought = FALSE], "joining"))
          \/ Becomes(g, [in EXCEPT !.brought = FALSE, !.step = "placing"])
          \/ Becomes(g, Fail(in))
      BY <1>1, <1>9, <3>1, Zenon DEF Loaded
    <3>. QED BY <2>3, <3>1, <3>2, Zenon
  <2>7. r.save.of \in Worlds
    BY <1>2 DEF Games
  <2>8. x \in Games /\ Is(x, r.step, r.link, r.slot, r.save.of)
    BY <1>2, <2>1, <2>7, Changed, OthersSame, Zenon
  <2>9. in \in Games /\ Is(in, x.step, x.link, x.slot, x.world)
    <3>1. in \in Games
      BY <2>2, <2>8, SomeValues, Changed
    <3>. QED BY <2>2, <2>8, <3>1, OthersSame, Zenon
  <2>10. y \in Games /\ Is(y, in.step, in.link, in.slot, in.world)
    <3>1. y \in Games
      BY <2>3, <2>9, Changed
    <3>. QED BY <2>3, <2>9, <3>1, OthersSame, Zenon
  <2>11. Is(z, "placing", y.link, y.slot, y.world)
    BY <2>4, <2>10, OthersSame, Zenon
  <2>12. Is(y, "loading", "none", 0, r.save.of) /\ Is(in, "loading", "none", 0, r.save.of)
    BY <1>4, <2>5, <2>8, <2>9, <2>10 DEF Is
  <2>13. ASSUME hosting, g \notin excused' PROVE q.slot = 0 /\ AtStep(q) /\ Heads(q)
    <3>1. Settled => r.save.of = Goal
      BY <1>3, <2>5, <2>13 DEF Heads
    <3>2. CASE q = Connect(y, "joining")
      <4>1. Is(q, "joining", "dialing", y.slot, y.world)
        BY <2>10, <3>2, ConnectIs
      <4>. QED BY <2>12, <3>1, <4>1 DEF Is, AtStep, Heads, Plainly
    <3>3. CASE q = z
      BY <2>11, <2>12, <3>1, <3>3 DEF Is, AtStep, Heads, Plainly
    <3>4. CASE q = Fail(in)
      <4>1. Shape(in)
        <5>1. Sound(in)
          BY <2>9, <2>12 DEF Is, Sound
        <5>2. in.online = FALSE
          BY <1>1, <1>2, <1>4, <2>1, <2>2, <2>5, SMTT(30) DEF Shape, Wired, Games
        <5>. QED BY <2>12, <5>1, <5>2 DEF Is, Shape, Wired
      <4>. QED BY <2>12, <3>4, <4>1, FailIs, NowhereToGo DEF Is
    <3>. QED BY <2>6, <3>2, <3>3, <3>4
  <2>. QED BY <1>2, <2>5, <2>6, <2>13 DEF Onward
<1>10. CASE LoadFails(g)
  <2>1. Becomes(g, Fail(r)) /\ hostUntouched' = hostUntouched /\ excused' = excused /\ r.step = "loading"
    BY <1>1, <1>10, Zenon DEF LoadFails
  <2>2. Fail(r).slot = 0 /\ AtStep(Fail(r)) /\ Heads(Fail(r))
    BY <1>2, <1>4, <2>1, FailIs, NowhereToGo
  <2>. QED BY <1>2, <2>1, <2>2 DEF Onward
<1>11. CASE Placed(g)
  <2>1. PICK q : q = Connect(r, "joining")
    OBVIOUS
  <2>2. Becomes(g, q) /\ hostUntouched' = hostUntouched /\ excused' = excused /\ r.step = "placing"
    BY <1>1, <1>11, <2>1, Zenon DEF Placed
  <2>3. Is(q, "joining", "dialing", r.slot, r.world)
    BY <1>2, <2>1, ConnectIs
  <2>4. ASSUME hosting, g \notin excused' PROVE q.slot = 0 /\ AtStep(q) /\ Heads(q)
    BY <1>3, <1>4, <2>2, <2>3, <2>4 DEF Is, AtStep, Heads, Plainly
  <2>. QED BY <1>2, <2>2, <2>4 DEF Onward
<1>12. CASE Timeout(g)
  <2>1. PICK q : q = TimedOut(r)
    OBVIOUS
  <2>2. /\ Becomes(g, q) /\ hostUntouched' = hostUntouched
        /\ excused' = IF q.link = "dialing" \/ MissesRollback(q) THEN excused \cup {g} ELSE excused
    BY <1>1, <1>12, <2>1, Zenon DEF Timeout
  <2>3. r.step \in {"connecting", "checking", "receiving", "loading", "placing", "joining", "reconnecting"}
    BY <1>1, <1>2, <1>12 DEF Timeout, Games, Steps
  <2>4. q \in {Fail(r), Gone(Retry(r))}
    BY <2>1, <2>3, Zenon DEF TimedOut
  <2>5. Gone(Retry(r)).step \in {"reconnectWait", "idle"} /\ Gone(Retry(r)).link = "none" /\ Gone(Retry(r)).slot = 0
    BY <1>2, RetryIs, GoneIs DEF Is
  <2>6. ASSUME hosting, g \notin excused' PROVE q.slot = 0 /\ AtStep(q) /\ Heads(q)
    <3>1. q.link # "dialing" /\ ~MissesRollback(q)
      BY <2>2, <2>6
    <3>2. CASE q = Fail(r)
      BY <1>2, <3>1, <3>2, FailIs, NowhereToGo
    <3>3. CASE q = Gone(Retry(r))
      BY <2>5, <3>1, <3>3, NowhereToGo, RejoinsRight
    <3>. QED BY <2>4, <3>2, <3>3
  <2>. QED BY <1>2, <2>2, <2>6 DEF Onward
<1>13. CASE Reconnect(g)
  <2>1. PICK x : x = [r EXCEPT !.tries = r.tries + 1]
    OBVIOUS
  <2>2. PICK q : q = Connect(x, "reconnecting")
    OBVIOUS
  <2>3. Becomes(g, q) /\ hostUntouched' = hostUntouched /\ excused' = excused /\ r.step = "reconnectWait"
    BY <1>1, <1>13, <2>1, <2>2, Zenon DEF Reconnect
  <2>4. Is(x, r.step, r.link, r.slot, r.world)
    BY <1>2, <2>1, OthersSame, Zenon
  <2>5. x \in Games
    <3>1. r.tries + 1 \in 0 .. Tries
      BY <1>2, <2>3, BoundsAssumption DEF Shape, Sound, Games
    <3>. QED BY <1>2, <2>1, <3>1, Changed, Zenon
  <2>6. Is(q, "reconnecting", "dialing", x.slot, x.world)
    BY <2>2, <2>5, ConnectIs
  <2>7. ASSUME hosting, g \notin excused' PROVE q.slot = 0 /\ AtStep(q) /\ Heads(q)
    BY <1>3, <1>4, <2>3, <2>4, <2>6, <2>7 DEF Is, AtStep, Heads, Plainly
  <2>. QED BY <1>2, <2>3, <2>7 DEF Onward
<1>14. CASE FinishSession(g)
  <2>1. Becomes(g, Finish(r)) /\ hostUntouched' = hostUntouched /\ excused' = excused
    BY <1>1, <1>14, Zenon DEF FinishSession
  <2>2. Finish(r).slot = 0 /\ AtStep(Finish(r)) /\ Heads(Finish(r))
    BY <1>2, FinishIs, NowhereToGo
  <2>. QED BY <1>2, <2>1, <2>2 DEF Onward
<1>15. CASE Quit(g)
  <2>1. PICK q : q = IF r.ending = "finished" THEN [r EXCEPT !.world = 0] ELSE Finish(r)
    OBVIOUS
  <2>2. /\ Becomes(g, q) /\ hostUntouched' = hostUntouched
        /\ excused' = IF r.ending = "finished" THEN excused \cup {g} ELSE excused
    BY <1>1, <1>15, <2>1, Zenon DEF Quit
  <2>3. g \notin excused' => q.slot = 0 /\ AtStep(q) /\ Heads(q)
    BY <1>2, <2>1, <2>2, FinishIs, NowhereToGo
  <2>. QED BY <1>2, <2>2, <2>3 DEF Onward
<1>. QED BY <1>5, <1>6, <1>7, <1>8, <1>9, <1>10, <1>11, <1>12, <1>13, <1>14, <1>15, Zenon DEF GuestStep

\* And so to the host's world.
LEMMA GameKeepsWorld ==
    ASSUME JoinInv, WorldInv, NEW g \in Guests, GuestStep(g), ~Dial(g), ~Read(g)
    PROVE  WorldInv'
<1>1. PICK q : Onward(g, q)
  BY GameGoesOn
<1>2. GamesOK
  BY DEF JoinInv
<1>. QED BY <1>1, <1>2, MovesOn DEF Onward

\* The slot of a game is one of the listener's, and it holds it.
LEMMA HoldsSlot ==
    ASSUME JoinInv, hosting, NEW g \in Guests, game[g].slot # 0
    PROVE  game[g].slot \in Slots /\ peer[game[g].slot] = g /\ game[g].link \notin {"none", "dialing"}
BY DEF JoinInv, Seats, Shape, Sound, Wired, Games

\* A game that gets a slot asks at once, and is in the host's world if it asks plainly.
LEMMA DialKeepsWorld ==
    ASSUME JoinInv, WorldInv, NEW g \in Guests, Dial(g)
    PROVE  WorldInv'
<1>1. PICK r, s : /\ r = game[g]
                  /\ s = CHOOSE t \in Slots : peer[t] = Nobody /\ \A u \in Slots : peer[u] = Nobody => t <= u
  OBVIOUS
<1>2. s \in Slots /\ peer[s] = Nobody /\ s # 0
  <2>1. \E t \in Slots : peer[t] = Nobody
    BY DEF Dial
  <2>. QED BY <1>1, <2>1, FirstFree
<1>3. PICK st : st = IF r.step = "connecting" THEN "checking" ELSE r.step
  OBVIOUS
<1>4. PICK a, b : a = [r EXCEPT !.link = "open"] /\ b = [a EXCEPT !.slot = s]
  OBVIOUS
<1>5. PICK q : q = [b EXCEPT !.step = st]
  OBVIOUS
<1>6. r \in Games /\ GamesOK
  BY <1>1 DEF JoinInv, Seats, Shape, Sound
<1>7. a \in Games /\ Is(a, r.step, "open", r.slot, r.world)
  BY <1>4, <1>6, Changed, OthersSame
<1>8. b \in Games /\ Is(b, r.step, "open", s, r.world)
  <2>1. b \in Games
    BY <1>2, <1>4, <1>7 DEF Games
  <2>2. Is(b, a.step, a.link, s, a.world)
    BY <1>4, <1>7, OthersSame, Zenon
  <2>. QED BY <1>7, <2>1, <2>2 DEF Is
<1>9. Is(q, st, "open", s, r.world)
  <2>1. Is(q, st, b.link, b.slot, b.world)
    BY <1>5, <1>8, OthersSame, Zenon
  <2>. QED BY <1>8, <2>1 DEF Is
<1>10. q = [r EXCEPT !.link = "open", !.slot = s, !.step = IF @ = "connecting" THEN "checking" ELSE @]
  <2>1. q = [b EXCEPT !.step = IF b.step = "connecting" THEN "checking" ELSE b.step]
    BY <1>3, <1>5, <1>8, Zenon DEF Is
  <2>. QED BY <1>4, <2>1, Zenon
<1>11. /\ hosting /\ r.link = "dialing" /\ Becomes(g, q) /\ ask' = [ask EXCEPT ![s] = AskOf(r)]
       /\ excused' = IF kept[s] # "none" THEN excused \cup {g} ELSE excused
       /\ hosting' = hosting /\ notices' = notices /\ hostWorld' = hostWorld
       /\ players' = players /\ receivers' = receivers /\ reloadVars' = reloadVars /\ kept' = kept
  BY <1>1, <1>10, Zenon DEF Dial
<1>12. /\ ask'[s] = AskOf(r) /\ \A t \in Slots : t # s => ask'[t] = ask[t]
  BY <1>2, <1>11 DEF JoinInv, ListenerOK
<1>13. ReloadSame /\ loading' = loading /\ \A t \in Slots : t # s => SlotSame(t)
  BY <1>11, <1>12 DEF ReloadSame, reloadVars, SlotSame
<1>14. LoadHolds /\ SendsGoal /\ \A h \in Guests : h \notin excused =>
               AtStep(game[h]) /\ Heads(game[h]) /\ (game[h].slot # 0 => Row(game[h], game[h].slot))
  BY <1>11, WorldRead
<1>15. LoadHolds' /\ SendsGoal'
  BY <1>11, <1>13, <1>14 DEF LoadHolds, SendsGoal, ReloadSame, Settled, Goal, Wanting
<1>16. game'[g] = q /\ \A h \in Guests : h # g => game'[h] = game[h]
  BY <1>6, <1>11 DEF Becomes, GamesOK
<1>17. notices[s] = <<>> /\ Unserved(s)
  <2>1. Free(s) /\ notices[s] \in Seq(Notices)
    BY <1>2 DEF JoinInv, Seats, ListenerOK
  <2>2. notices[s] # <<>> => Sent(notices[s]) # {}
    BY <2>1, SentRead
  <2>. QED BY <1>11, <2>1, <2>2 DEF Free, Unserved
<1>18. ASSUME g \notin excused' PROVE AtStep(q) /\ Heads(q)' /\ (q.slot # 0 => Row(q, q.slot)')
  <2>1. g \notin excused /\ kept[s] = "none"
    BY <1>11, <1>18
  <2>2. r.step \in Plainly \cup {"connecting"} /\ (Settled /\ r.step \in Plainly => r.world = Goal)
    BY <1>1, <1>11, <1>14, <2>1 DEF AtStep, Heads
  <2>3. st \in Plainly \cup {"checking"} /\ (st \in Plainly <=> r.step \in Plainly)
    BY <1>3, <2>2 DEF Plainly
  <2>4. AskOf(r) = "plain" <=> r.step \in Plainly
    <3>1. r.step \in Plainly => AskOf(r) = "plain"
      BY Zenon DEF AskOf, Plainly
    <3>2. r.step = "connecting" => AskOf(r) \in {"bring", "world"}
      BY <1>6, SMT DEF AskOf, Games
    <3>. QED BY <2>2, <3>1, <3>2
  <2>5. AtStep(q) /\ Heads(q)'
    BY <1>9, <2>3 DEF Is, AtStep, Heads, Plainly
  <2>6. Requests(q, s)'
    <3>1. (Settled' <=> Settled) /\ Goal' = Goal
      BY <1>13 DEF ReloadSame, Settled, Goal
    <3>2. notices'[s] = <<>> /\ Unserved(s)' /\ kept'[s] = "none"
      BY <1>11, <1>17, <2>1 DEF Unserved
    <3>3. Request(s, "plain")' <=> q.step \in Plainly
      BY <1>9, <1>12, <2>3, <2>4, <3>2 DEF Request, Is
    <3>. QED BY <1>9, <2>2, <2>3, <3>1, <3>2, <3>3 DEF Requests, Is
  <2>7. Hears(q, s)' /\ InWorld(q, s)' /\ Reloads(s)'
    BY <1>11, <1>17 DEF Hears, InWorld, Reloads, Unserved
  <2>8. Carries(s)'
    BY <1>11, <1>17, NoBlocks DEF Carries
  <2>. QED BY <1>9, <2>5, <2>6, <2>7, <2>8 DEF Row, Is
<1>19. ASSUME NEW h \in Guests, h \notin excused', NEW p, p = game'[h]
       PROVE  AtStep(p) /\ Heads(p)' /\ (p.slot # 0 => Row(p, p.slot)')
  <2>1. CASE h = g
    BY <1>16, <1>18, <1>19, <2>1
  <2>2. CASE h # g
    <3>1. p = game[h] /\ AtStep(p) /\ Heads(p) /\ (p.slot # 0 => Row(p, p.slot))
      BY <1>11, <1>14, <1>16, <1>19, <2>2
    <3>2. p.slot # 0 => p.slot \in Slots /\ p.slot # s
      BY <1>2, <1>11, <3>1, HoldsSlot, GuestsAssumption
    <3>. QED BY <1>13, <3>1, <3>2, HeadsSame, RowSame
  <2>. QED BY <2>1, <2>2
<1>. QED BY <1>15, <1>19, WorldMade

\* What the party's reload, a block and an answer make of a game.
LEMMA PartyReloadIs ==
    ASSUME NEW r \in Games
    PROVE  Is(PartyReload(r), "receiving", r.link, r.slot, r.world)
<1>1. PICK a : a = [r EXCEPT !.step = "receiving"]
  OBVIOUS
<1>2. PICK b : b = [a EXCEPT !.save = NoSave]
  OBVIOUS
<1>3. PICK c : c = [b EXCEPT !.brought = b.brought \/ r.online]
  OBVIOUS
<1>4. a \in Games /\ Is(a, "receiving", r.link, r.slot, r.world)
  BY <1>1, SomeValues, Changed, OthersSame
<1>5. b \in Games
  BY <1>2, <1>4, SomeValues, Changed
<1>6. Is(b, a.step, a.link, a.slot, a.world)
  BY <1>2, <1>4, OthersSame, Zenon
<1>7. Is(c, b.step, b.link, b.slot, b.world)
  BY <1>3, <1>5, OthersSame, Zenon
<1>8. PartyReload(r) = c
  BY <1>1, <1>2, <1>3, Zenon DEF PartyReload
<1>. QED BY <1>4, <1>6, <1>7, <1>8 DEF Is

\* What a block of the save makes of a game: only the last one that fits makes it load.
TakesBlock(r, m, q) ==
    \/ q = r /\ r.step # "receiving"
    \/ q = Fail(r) \/ (q.slot = 0 /\ q.link = "none" /\ q.step = "idle")
    \/ Is(q, "receiving", r.link, r.slot, r.world) /\ r.step = "receiving" /\ m.block < Blocks
    \/ /\ q.slot = 0 /\ q.link = "none" /\ q.step = "loading" /\ q.save = Add(r.save, m)
       /\ Fits(r.save, m) /\ ~(Add(r.save, m).have < Blocks)

\* It makes no more of it than that.
LEMMA SaveChunkIs ==
    ASSUME NEW r, Shape(r), r.slot # 0, NEW m \in Notices, NEW written \in BOOLEAN
    PROVE  TakesBlock(r, m, SaveChunk(r, m, written))
<1>1. PICK q, save : q = SaveChunk(r, m, written) /\ save = Add(r.save, m)
  OBVIOUS
<1>2. save \in [of: Worlds, have: 0 .. Blocks] /\ r \in Games
  BY <1>1 DEF Add, Notices, Shape, Sound
<1>3. PICK more, a : more = [r EXCEPT !.save = save] /\ a = [r EXCEPT !.step = "loading"]
  OBVIOUS
<1>4. PICK whole : whole = [a EXCEPT !.save = save]
  OBVIOUS
<1>5. a \in Games /\ a.step = "loading"
  BY <1>2, <1>3, SomeValues, Changed, OthersSame DEF Is
<1>6. whole \in Games /\ whole.save = save /\ whole.step = "loading"
  <2>1. whole \in Games
    BY <1>2, <1>4, <1>5, Changed
  <2>2. Is(whole, a.step, a.link, a.slot, a.world) /\ whole.save = save
    BY <1>4, <1>5, OthersSame, Zenon
  <2>. QED BY <1>5, <2>1, <2>2 DEF Is
<1>7. /\ Gone(whole).step = "loading" /\ Gone(whole).link = "none" /\ Gone(whole).slot = 0 /\ Gone(whole).save = save
      /\ Shape(Gone(whole))
  BY <1>6, GoneIs, GoneShape DEF Is, Sound
<1>8. Fail(Gone(whole)).slot = 0 /\ Fail(Gone(whole)).link = "none" /\ Fail(Gone(whole)).step = "idle"
  BY <1>7, FailIs
<1>9. Is(more, r.step, r.link, r.slot, r.world)
  BY <1>2, <1>3, OthersSame, Zenon
<1>10. whole = [r EXCEPT !.step = "loading", !.save = save]
  BY <1>3, <1>4, Zenon
<1>11. CASE r.step # "receiving"
  BY <1>1, <1>11, Zenon DEF SaveChunk, TakesBlock
<1>12. CASE r.step = "receiving" /\ ~Fits(r.save, m)
  BY <1>1, <1>12, Zenon DEF SaveChunk, TakesBlock
<1>13. CASE r.step = "receiving" /\ Fits(r.save, m) /\ save.have < Blocks
  <2>1. q = more
    BY <1>1, <1>3, <1>13, Zenon DEF SaveChunk
  <2>2. save.have = m.block
    BY <1>1 DEF Add
  <2>. QED BY <1>1, <1>9, <1>13, <2>1, <2>2 DEF TakesBlock
<1>14. CASE r.step = "receiving" /\ Fits(r.save, m) /\ ~(save.have < Blocks)
  <2>1. q = IF written THEN Gone(whole) ELSE Fail(Gone(whole))
    BY <1>1, <1>10, <1>14, Zenon DEF SaveChunk
  <2>. QED BY <1>1, <1>7, <1>8, <1>14, <2>1 DEF TakesBlock
<1>. QED BY <1>11, <1>12, <1>13, <1>14

\* What an answer to the request to join makes of a game: none of them changes its world.
TakesAnswer(r, what, q) ==
    \/ q = Fail(r) \/ (q.slot = 0 /\ q.link = "none" /\ q.step = "creating")
    \/ q = r /\ r.step \notin {"checking", "receiving", "joining"} /\ what = "follows"
    \/ Is(q, "receiving", r.link, r.slot, r.world) /\ what = "follows" /\ r.step \notin {"joining", "reconnecting", "idle"}
    \/ /\ what = "accepted" /\ q.slot = r.slot /\ q.link = r.link /\ q.world = r.world /\ q.online = TRUE
       /\ q.step = IF r.step \in Plainly THEN "idle" ELSE r.step
    \/ /\ what # "accepted" /\ q.slot = r.slot /\ q.link = "refused" /\ q.world = r.world
       /\ q.online = r.online /\ q.step = r.step /\ r.step \notin {"checking", "receiving", "joining"}

\* It makes no more of it than that.
LEMMA AuthenticationIs ==
    ASSUME NEW r, Shape(r), r.slot # 0, NEW what
    PROVE  TakesAnswer(r, what, Authentication(r, what))
<1>1. PICK q : q = Authentication(r, what)
  OBVIOUS
<1>2. r \in Games
  BY DEF Shape, Sound
<1>3. CASE what = "accepted"
  <2>1. PICK a : a = [r EXCEPT !.online = TRUE]
    OBVIOUS
  <2>2. PICK b : b = [a EXCEPT !.ending = "no"]
    OBVIOUS
  <2>3. PICK st : st = IF r.step \in {"joining", "reconnecting"} THEN "idle" ELSE r.step
    OBVIOUS
  <2>4. PICK c : c = [b EXCEPT !.step = st]
    OBVIOUS
  <2>5. a \in Games /\ Is(a, r.step, r.link, r.slot, r.world) /\ a.online = TRUE
    BY <1>2, <2>1 DEF Games, Is
  <2>6. b \in Games /\ Is(b, a.step, a.link, a.slot, a.world) /\ b.online = a.online
    <3>1. b \in Games
      BY <2>2, <2>5, Changed
    <3>2. b.online = a.online
      BY <2>2, <2>5 DEF Games
    <3>. QED BY <2>2, <2>5, <3>1, <3>2, OthersSame, Zenon
  <2>7. Is(c, st, b.link, b.slot, b.world) /\ c.online = b.online
    <3>1. c.online = b.online
      BY <2>4, <2>6 DEF Games
    <3>. QED BY <2>4, <2>6, <3>1, OthersSame, Zenon
  <2>8. q = c
    <3>1. q = [r EXCEPT !.online = TRUE, !.ending = "no", !.step = IF @ \in {"joining", "reconnecting"} THEN "idle" ELSE @]
      BY <1>1, <1>3, Zenon DEF Authentication
    <3>2. q = [b EXCEPT !.step = IF b.step \in {"joining", "reconnecting"} THEN "idle" ELSE b.step]
      BY <2>1, <2>2, <3>1, Zenon
    <3>3. b.step = r.step
      BY <2>5, <2>6 DEF Is
    <3>. QED BY <2>3, <2>4, <3>2, <3>3, Zenon
  <2>9. /\ q.slot = r.slot /\ q.link = r.link /\ q.world = r.world /\ q.online = TRUE
        /\ q.step = IF r.step \in Plainly THEN "idle" ELSE r.step
    BY <2>3, <2>5, <2>6, <2>7, <2>8 DEF Is, Plainly
  <2>. QED BY <1>1, <1>3, <2>9 DEF TakesAnswer
<1>4. CASE what # "accepted"
  <2>1. PICK receiving, refused, creating :
            /\ receiving = [r EXCEPT !.step = "receiving"] /\ refused = [r EXCEPT !.link = "refused"]
            /\ creating = [r EXCEPT !.step = "creating"]
    OBVIOUS
  <2>2. PICK joining : joining = (r.step \in {"connecting", "checking", "receiving", "joining"})
    OBVIOUS
  <2>3. \/ q = Fail(r) \/ (q = receiving /\ joining /\ r.step # "joining" /\ what = "follows") \/ q = Gone(creating)
        \/ q = r /\ ~joining /\ what = "follows"
        \/ q = refused /\ ~joining
    BY <1>1, <1>4, <2>1, <2>2, Zenon DEF Authentication
  <2>4. /\ Is(receiving, "receiving", r.link, r.slot, r.world) /\ Is(refused, r.step, "refused", r.slot, r.world)
        /\ refused.online = r.online
    <3>1. refused.online = r.online
      BY <1>2, <2>1 DEF Games
    <3>. QED BY <1>2, <2>1, <3>1, OthersSame, Zenon
  <2>5. Gone(creating).slot = 0 /\ Gone(creating).link = "none" /\ Gone(creating).step = "creating"
    <3>1. creating \in Games /\ creating.step = "creating"
      BY <1>2, <2>1, SomeValues, Changed, OthersSame DEF Is
    <3>. QED BY <3>1, GoneIs DEF Is
  <2>6. joining <=> r.step \in {"connecting", "checking", "receiving", "joining"}
    BY <2>2, Zenon
  <2>7. CASE q = Fail(r) \/ q = Gone(creating)
    BY <1>1, <2>5, <2>7 DEF TakesAnswer
  <2>8. CASE q = receiving /\ joining /\ r.step # "joining" /\ what = "follows"
    BY <1>1, <2>4, <2>6, <2>8 DEF TakesAnswer
  <2>9. CASE q = r /\ ~joining /\ what = "follows"
    BY <1>1, <2>6, <2>9 DEF TakesAnswer
  <2>10. CASE q = refused /\ ~joining
    BY <1>1, <1>4, <2>4, <2>6, <2>10 DEF TakesAnswer, Is
  <2>. QED BY <2>3, <2>7, <2>8, <2>9, <2>10
<1>. QED BY <1>3, <1>4

\* The row of a game that has read its oldest notice, if it does not go on asking.
LEMMA RowRead ==
    ASSUME ReloadSame, NEW r, NEW s, NEW q, Row(r, s), notices[s] \in Seq(Notices), notices[s] # <<>>,
           ask'[s] = ask[s], kept'[s] = kept[s], receivers'[s] = receivers[s], players' = players,
           notices'[s] = Tail(notices[s]), q.world = r.world,
           q.step \notin Plainly \/ (Tail(notices[s]) = <<>> /\ Unserved(s))
    PROVE  Row(q, s)'
<1>1. (Settled' <=> Settled) /\ Goal' = Goal
  BY DEF ReloadSame, Settled, Goal
<1>2. Requests(q, s)'
  BY DEF Row, Requests
<1>3. Hears(q, s)'
  BY DEF Hears, Unserved
<1>4. /\ Current(notices'[s]) \subseteq Current(notices[s]) /\ Overtaken(notices'[s]) \subseteq Overtaken(notices[s])
      /\ BlocksIn(notices'[s]) \subseteq BlocksIn(notices[s])
  BY BlocksRead
<1>5. Carries(s)'
  BY <1>1, <1>4 DEF Row, Carries
<1>6. Reloads(s)'
  BY <1>4 DEF Row, Reloads, ReloadSame
<1>7. InWorld(q, s)'
  BY DEF Row, InWorld, ReloadSame
<1>. QED BY <1>2, <1>3, <1>5, <1>6, <1>7 DEF Row

\* A game that reads: nothing but the last block of the right save takes it to another world.
LEMMA ReadKeepsWorld ==
    ASSUME JoinInv, WorldInv, NEW g \in Guests, Read(g)
    PROVE  WorldInv'
<1>1. PICK r, s : r = game[g] /\ s = game[g].slot
  OBVIOUS
<1>2. /\ hosting' = hosting /\ peer' = peer /\ ask' = ask /\ hostWorld' = hostWorld
      /\ players' = players /\ receivers' = receivers /\ reloadVars' = reloadVars /\ kept' = kept /\ excused' = excused
  BY Zenon DEF Read
<1>3. s # 0 /\ notices[s] # <<>> /\ notices' = [notices EXCEPT ![s] = Tail(notices[s])]
  BY <1>1, Zenon DEF Read
<1>4. PICK m, u : m = Head(notices[s]) /\ u = Tail(notices[s])
  OBVIOUS
<1>5. PICK written \in BOOLEAN : Becomes(g, Heard(r, m, written))
  BY <1>1, <1>4, Zenon DEF Read
<1>6. PICK q : q = Heard(r, m, written)
  OBVIOUS
<1>7. Shape(r) /\ r \in Games /\ r.slot = s /\ GamesOK
  BY <1>1 DEF JoinInv, Seats, Shape, Sound
<1>8. s \in Slots /\ notices[s] \in Seq(Notices) /\ m \in Notices
  <2>1. s \in Slots /\ notices[s] \in Seq(Notices)
    BY <1>3, <1>7 DEF Games, JoinInv, ListenerOK
  <2>. QED BY <1>3, <1>4, <2>1, ReadFacts
<1>9. ReloadSame /\ loading' = loading /\ (\A t \in Slots : t # s => SlotSame(t)) /\ notices'[s] = u
  BY <1>2, <1>3, <1>4, <1>8 DEF ReloadSame, reloadVars, SlotSame, JoinInv, ListenerOK
<1>10. CASE ~hosting
  BY <1>2, <1>10 DEF WorldInv
<1>11. ASSUME hosting, g \notin excused PROVE AtStep(q) /\ Heads(q)' /\ (q.slot # 0 => Row(q, q.slot)')
  <2>1. AtStep(r) /\ Heads(r) /\ Row(r, s)
    BY <1>1, <1>3, <1>11, WorldRead
  <2>2. r.step \in {"joining", "reconnecting", "checking", "receiving", "idle"} /\ (r.step = "idle" => r.online = TRUE)
    BY <1>3, <1>7, <2>1 DEF AtStep, Plainly
  <2>3. r.step \in Plainly => m.what = "accepted" \/ (notices[s] = <<Told("failed")>> /\ Unserved(s))
    BY <1>3, <1>4, <2>1 DEF Row, Hears
  <2>4. r.step \in Plainly => m.what = "accepted" \/ (m.what = "failed" /\ u = <<>> /\ Unserved(s))
    <3>1. Told("failed").what = "failed"
      BY NoticeTypes
    <3>2. ASSUME notices[s] = <<Told("failed")>> PROVE m = Told("failed") /\ u = <<>>
      BY <1>4, <3>2
    <3>. QED BY <2>3, <3>1, <3>2
  <2>5. r.link \in {"open", "refused"}
    BY <1>3, <1>7 DEF Shape, Wired, Games
  <2>6. ASSUME q.slot = s, q.world = r.world, q.link \in {"open", "refused"},
               q.step \in {"receiving", "checking"} \/ (q.step = "idle" /\ q.online = TRUE)
                   \/ (q.step = r.step /\ r.step \in Plainly /\ m.what # "accepted")
        PROVE  AtStep(q) /\ Heads(q)' /\ (q.slot # 0 => Row(q, q.slot)')
    <3>1. q.step \notin Plainly \/ (u = <<>> /\ Unserved(s))
      BY <2>4, <2>6 DEF Plainly
    <3>2. Row(q, s)'
      BY <1>2, <1>3, <1>4, <1>8, <1>9, <2>1, <2>6, <3>1, RowRead
    <3>3. AtStep(q)
      BY <2>6 DEF AtStep, Plainly
    <3>4. Heads(q)'
      BY <2>2, <2>6 DEF Heads, Plainly
    <3>. QED BY <2>6, <3>2, <3>3, <3>4
  <2>7. ASSUME q.slot = 0, q.link = "none", q.step \in {"idle", "creating"}
        PROVE  AtStep(q) /\ Heads(q)' /\ (q.slot # 0 => Row(q, q.slot)')
    BY <2>7 DEF AtStep, Heads
  <2>8. /\ Fail(r).slot = 0 /\ Fail(r).link = "none" /\ Fail(r).step = "idle"
    BY <1>7, <2>5, FailIs
  <2>9. CASE m.what \in {"kicked", "hostLeft"}
    <3>1. q = Disconnected(r, m.what)
      BY <1>6, <2>9, Zenon DEF Heard
    <3>2. r.step \notin Plainly
      BY <2>4, <2>9
    <3>3. q.slot = 0 /\ q.link = "none" /\ q.step \in {r.step, "idle", "reconnectWait"} /\ q.step # "reconnectWait"
      BY <1>7, <2>2, <2>9, <3>1, <3>2, DisconnectedIs DEF Plainly
    <3>. QED BY <2>2, <3>3 DEF AtStep, Heads
  <2>10. CASE m.what = "reload"
    <3>1. q = PartyReload(r)
      BY <1>6, <2>10 DEF Heard
    <3>2. Is(q, "receiving", r.link, r.slot, r.world)
      BY <1>7, <3>1, PartyReloadIs
    <3>. QED BY <1>7, <2>5, <2>6, <3>2 DEF Is
  <2>11. CASE m.what = "block"
    <3>1. q = SaveChunk(r, m, written)
      BY <1>6, <2>11 DEF Heard
    <3>2. r.step \notin Plainly
      BY <2>4, <2>11
    <3>3. \/ q = r \/ q = Fail(r) \/ (q.slot = 0 /\ q.link = "none" /\ q.step = "idle")
          \/ Is(q, "receiving", r.link, r.slot, r.world)
          \/ /\ q.slot = 0 /\ q.link = "none" /\ q.step = "loading" /\ q.save = Add(r.save, m)
             /\ Fits(r.save, m) /\ ~(Add(r.save, m).have < Blocks)
      BY <1>3, <1>7, <1>8, <3>1, SaveChunkIs DEF TakesBlock
    <3>4. CASE q = r
      BY <1>7, <2>2, <2>5, <2>6, <3>2, <3>4 DEF Plainly
    <3>5. CASE q = Fail(r) \/ (q.slot = 0 /\ q.link = "none" /\ q.step = "idle")
      BY <2>7, <2>8, <3>5
    <3>6. CASE Is(q, "receiving", r.link, r.slot, r.world)
      BY <1>7, <2>5, <2>6, <3>6 DEF Is
    <3>7. CASE /\ q.slot = 0 /\ q.link = "none" /\ q.step = "loading" /\ q.save = Add(r.save, m)
               /\ Fits(r.save, m) /\ ~(Add(r.save, m).have < Blocks)
      <4>1. m \in Current(notices[s]) \cup Overtaken(notices[s])
        BY <1>3, <1>4, <1>8, <2>11, BlocksRead
      <4>2. Add(r.save, m).of = m.of /\ Add(r.save, m).have = m.block
        BY DEF Add
      <4>3. m \notin Overtaken(notices[s])
        BY <2>1, <3>7, <4>2 DEF Row, Carries
      <4>4. Settled => m.of = Goal
        BY <2>1, <4>1, <4>3 DEF Row, Carries
      <4>5. Heads(q)
        BY <3>7, <4>2, <4>4 DEF Heads
      <4>. QED BY <1>9, <3>7, <4>5, HeadsSame DEF AtStep
    <3>. QED BY <3>3, <3>4, <3>5, <3>6, <3>7
  <2>12. CASE m.what \notin {"kicked", "hostLeft", "reload", "block"}
    <3>1. q = Authentication(r, m.what)
      BY <1>6, <2>12 DEF Heard
    <3>2. \/ q = Fail(r) \/ (q.slot = 0 /\ q.link = "none" /\ q.step = "creating")
          \/ q = r /\ r.step \notin {"checking", "receiving", "joining"} /\ m.what = "follows"
          \/ Is(q, "receiving", r.link, r.slot, r.world)
          \/ /\ m.what = "accepted" /\ q.slot = r.slot /\ q.link = r.link /\ q.world = r.world /\ q.online = TRUE
             /\ q.step = IF r.step \in Plainly THEN "idle" ELSE r.step
          \/ /\ m.what # "accepted" /\ q.slot = r.slot /\ q.link = "refused" /\ q.world = r.world
             /\ q.online = r.online /\ q.step = r.step /\ r.step \notin {"checking", "receiving", "joining"}
      <4>1. r.slot # 0
        BY <1>3, <1>7
      <4>2. TakesAnswer(r, m.what, q)
        BY <1>7, <3>1, <4>1, AuthenticationIs
      <4>. QED BY <4>2, SMTT(20) DEF TakesAnswer
    <3>3. CASE q = Fail(r) \/ (q.slot = 0 /\ q.link = "none" /\ q.step = "creating")
      BY <2>7, <2>8, <3>3
    <3>4. CASE q = r /\ r.step \notin {"checking", "receiving", "joining"} /\ m.what = "follows"
      BY <1>7, <2>2, <2>5, <2>6, <3>4 DEF Plainly
    <3>5. CASE Is(q, "receiving", r.link, r.slot, r.world)
      BY <1>7, <2>5, <2>6, <3>5 DEF Is
    <3>6. CASE /\ m.what = "accepted" /\ q.slot = r.slot /\ q.link = r.link /\ q.world = r.world /\ q.online = TRUE
               /\ q.step = IF r.step \in Plainly THEN "idle" ELSE r.step
      BY <1>7, <2>2, <2>5, <2>6, <3>6 DEF Plainly
    <3>7. CASE /\ m.what # "accepted" /\ q.slot = r.slot /\ q.link = "refused" /\ q.world = r.world
               /\ q.online = r.online /\ q.step = r.step /\ r.step \notin {"checking", "receiving", "joining"}
      BY <1>7, <2>2, <2>5, <2>6, <3>7 DEF Plainly
    <3>. QED BY <3>2, <3>3, <3>4, <3>5, <3>6, <3>7
  <2>. QED BY <2>9, <2>10, <2>11, <2>12
<1>12. CASE hosting
  <2>1. LoadHolds /\ SendsGoal /\ \A h \in Guests : h \notin excused =>
               AtStep(game[h]) /\ Heads(game[h]) /\ (game[h].slot # 0 => Row(game[h], game[h].slot))
    BY <1>12, WorldRead
  <2>2. LoadHolds' /\ SendsGoal'
    BY <1>2, <1>9, <2>1 DEF LoadHolds, SendsGoal, ReloadSame, Settled, Goal, Wanting
  <2>3. game'[g] = q /\ \A h \in Guests : h # g => game'[h] = game[h]
    BY <1>5, <1>6, <1>7 DEF Becomes, GamesOK
  <2>4. ASSUME NEW h \in Guests, h \notin excused', NEW p, p = game'[h]
        PROVE  AtStep(p) /\ Heads(p)' /\ (p.slot # 0 => Row(p, p.slot)')
    <3>1. CASE h = g
      BY <1>2, <1>11, <1>12, <2>3, <2>4, <3>1
    <3>2. CASE h # g
      <4>1. p = game[h] /\ AtStep(p) /\ Heads(p) /\ (p.slot # 0 => Row(p, p.slot))
        BY <1>2, <2>1, <2>3, <2>4, <3>2
      <4>2. p.slot # 0 => p.slot \in Slots /\ p.slot # s
        BY <1>1, <1>3, <1>12, <3>2, <4>1, HoldsSlot
      <4>. QED BY <1>9, <4>1, <4>2, HeadsSame, RowSame
    <3>. QED BY <3>1, <3>2
  <2>. QED BY <2>2, <2>4, WorldMade
<1>. QED BY <1>10, <1>12

-----------------------------------------------------------------------------
(* The host's steps, and where everyone goes.                              *)

\* The host's step leaves the games where they are: what is left to see is where each is heading, and its row.
LEMMA HostMakes ==
    ASSUME WorldInv, hosting, game' = game, excused \subseteq excused', LoadHolds', SendsGoal',
           \A g \in Guests : g \notin excused' => \A r : r = game[g] =>
               /\ AtStep(r) /\ Heads(r) => Heads(r)'
               /\ r.slot # 0 /\ AtStep(r) /\ Row(r, r.slot) => Row(r, r.slot)'
    PROVE  WorldInv'
<1>1. \A g \in Guests : g \notin excused =>
          AtStep(game[g]) /\ Heads(game[g]) /\ (game[g].slot # 0 => Row(game[g], game[g].slot))
  BY WorldRead
<1>2. ASSUME NEW g \in Guests, g \notin excused', NEW r, r = game'[g]
      PROVE  AtStep(r) /\ Heads(r)' /\ (r.slot # 0 => Row(r, r.slot)')
  <2>1. r = game[g] /\ g \notin excused
    BY <1>2
  <2>2. AtStep(r) /\ Heads(r) /\ (r.slot # 0 => Row(r, r.slot))
    BY <1>1, <2>1
  <2>. QED BY <1>2, <2>1, <2>2
<1>. QED BY <1>2, WorldMade

\* A step that concerns one slot, and nothing of the reload.
LEMMA OneSlot ==
    ASSUME JoinInv, WorldInv, hosting, game' = game, excused' = excused, ReloadSame, LoadHolds', SendsGoal',
           NEW s \in Slots, \A t \in Slots : t # s => SlotSame(t),
           \A g \in Guests : \A r : r = game[g] /\ r.slot = s /\ AtStep(r) /\ Row(r, s) => Row(r, s)'
    PROVE  WorldInv'
<1>1. ASSUME NEW g \in Guests, NEW r, r = game[g], r.slot # 0, AtStep(r), Row(r, r.slot) PROVE Row(r, r.slot)'
  <2>1. CASE r.slot = s
    <3>1. Row(r, s)'
      BY <1>1, <2>1
    <3>. QED BY <2>1, <3>1
  <2>2. CASE r.slot # s
    <3>1. r.slot \in Slots
      BY <1>1, HoldsSlot
    <3>. QED BY <1>1, <2>2, <3>1, RowSame
  <2>. QED BY <2>1, <2>2
<1>2. \A r : Heads(r) => Heads(r)'
  BY HeadsSame
<1>. QED BY <1>1, <1>2, HostMakes

\* A slot that loses its rows takes nothing from the load or from what is sent.
LEMMA DropHolds ==
    ASSUME ListenerOK, LoadHolds, SendsGoal, ReloadSame, loading' = loading, NEW s \in Slots, Drop(s)
    PROVE  LoadHolds' /\ SendsGoal'
<1>1. /\ players' = players \ {s} /\ receivers'[s].next = 0 /\ \A t \in Slots \ {s} : receivers'[t] = receivers[t]
  BY DropRows
<1>2. Wanting' \subseteq Wanting /\ \A t \in Wanting' : receivers'[t] = receivers[t]
  BY <1>1 DEF Wanting
<1>3. (Settled' <=> Settled) /\ Goal' = Goal
  BY DEF ReloadSame, Settled, Goal
<1>4. LoadHolds'
  BY <1>1, <1>2 DEF LoadHolds, ReloadSame
<1>5. SendsGoal'
  BY <1>2, <1>3 DEF SendsGoal, ReloadSame
<1>. QED BY <1>4, <1>5

\* The row of a game whose request is answered: only one in the host's world is let in at once.
Given(s, what) ==
    \/ what = "plain" /\ notices'[s] = <<Told("accepted")>> /\ s \in players' /\ receivers'[s].next = 0
    \/ /\ what # "plain" /\ BlocksIn(notices'[s]) = {} /\ s \notin players'
       /\ \/ notices'[s] = <<Told("follows")>> /\ receivers'[s].next = 1
          \/ notices'[s] = <<Told("noCharacter"), Told("kicked")>>

\* What a player or a newcomer was told before its answer has no block in it.
LEMMA FewBlocks ==
    /\ BlocksIn(<<>>) = {} /\ BlocksIn(<<Told("failed")>>) = {} /\ BlocksIn(<<Told("accepted")>>) = {}
    /\ BlocksIn(<<Told("follows")>>) = {} /\ BlocksIn(<<Told("noCharacter"), Told("kicked")>>) = {}
<1>1. /\ Told("failed").what # "block" /\ Told("accepted").what # "block" /\ Told("follows").what # "block"
      /\ Told("noCharacter").what # "block" /\ Told("kicked").what # "block"
  BY NoticeTypes
<1>. QED BY <1>1, NoBlocks, Zenon

\* What an answer does to each slot: one that asked for nothing is left alone.
LEMMA AnswerRows ==
    ASSUME JoinInv, NEW asks \in [Slots -> Asks], Answer(asks)
    PROVE  \A s \in Slots :
               /\ asks[s] = "none" => /\ notices'[s] = notices[s] /\ receivers'[s] = receivers[s]
                                      /\ s \in players' <=> s \in players
               /\ asks[s] # "none" /\ notices[s] = <<>> /\ Unserved(s) => Given(s, asks[s])
               /\ receivers'[s] = receivers[s] \/ receivers'[s].of = 0
<1>1. PICK known \in [{s \in Slots : asks[s] = "world"} -> BOOLEAN] :
        LET outcome == [s \in Slots |-> Outcome(s, asks[s], s \in DOMAIN known /\ known[s])]
        IN  /\ players' = players \cup {s \in Slots : outcome[s] = "accepted"}
            /\ alive' = {s \in alive : outcome[s] # "noCharacter"}
            /\ notices' = [s \in Slots |-> notices[s] \o Reply(outcome[s])]
            /\ receivers' = [s \in Slots |-> IF outcome[s] = "follows" THEN [of |-> 0, next |-> 1]
                                             ELSE receivers[s]]
  BY Zenon DEF Answer
<1>2. PICK outcome : outcome = [s \in Slots |-> Outcome(s, asks[s], s \in DOMAIN known /\ known[s])]
  OBVIOUS
<1>3. /\ players' = players \cup {s \in Slots : outcome[s] = "accepted"}
      /\ notices' = [s \in Slots |-> notices[s] \o Reply(outcome[s])]
      /\ receivers' = [s \in Slots |-> IF outcome[s] = "follows" THEN [of |-> 0, next |-> 1] ELSE receivers[s]]
  BY <1>1, <1>2, Zenon
<1>4. ASSUME NEW s \in Slots
      PROVE  /\ asks[s] = "none" => outcome[s] = "ignored"
             /\ asks[s] = "plain" /\ s \notin players => outcome[s] = "accepted"
             /\ asks[s] # "plain" /\ asks[s] # "none" /\ s \notin players => outcome[s] \in {"follows", "noCharacter"}
  <2>1. PICK what, k : what = asks[s] /\ k = (s \in DOMAIN known /\ known[s])
    OBVIOUS
  <2>2. outcome[s] = Outcome(s, what, k)
    BY <1>2, <2>1
  <2>3. ASSUME what = "none" PROVE Outcome(s, what, k) = "ignored"
    BY <2>3, SMT DEF Outcome
  <2>4. ASSUME what = "plain", s \notin players PROVE Outcome(s, what, k) = "accepted"
    BY <2>4, SMT DEF Outcome
  <2>5. ASSUME what # "plain", what # "none", s \notin players
        PROVE  Outcome(s, what, k) \in {"follows", "noCharacter"}
    BY <2>5, SMT DEF Outcome
  <2>. QED BY <2>1, <2>2, <2>3, <2>4, <2>5, Zenon
<1>5. /\ Reply("ignored") = <<>> /\ Reply("accepted") = <<Told("accepted")>> /\ Reply("follows") = <<Told("follows")>>
      /\ Reply("noCharacter") = <<Told("noCharacter"), Told("kicked")>>
  <2>1. Reply("ignored") = <<>>
    BY Zenon DEF Reply
  <2>2. Reply("accepted") = <<Told("accepted")>> /\ Reply("follows") = <<Told("follows")>>
    BY SMT DEF Reply
  <2>3. Reply("noCharacter") = <<Told("noCharacter"), Told("kicked")>>
    BY SMT DEF Reply
  <2>. QED BY <2>1, <2>2, <2>3
<1>6. \A q \in Seq(Notices) : q \o <<>> = q /\ <<>> \o q = q
  BY ConcatEmptySeq
<1>8. ASSUME NEW s \in Slots, asks[s] = "none"
      PROVE  /\ notices'[s] = notices[s] /\ receivers'[s] = receivers[s]
             /\ s \in players' <=> s \in players
  <2>1. outcome[s] = "ignored" /\ notices[s] \in Seq(Notices)
    BY <1>4, <1>8 DEF JoinInv, ListenerOK
  <2>2. notices'[s] = notices[s] \o <<>>
    BY <1>3, <1>5, <2>1, Zenon
  <2>3. notices'[s] = notices[s]
    BY <1>6, <2>1, <2>2, Zenon
  <2>. QED BY <1>3, <2>1, <2>3
<1>9. ASSUME NEW s \in Slots, asks[s] # "none", notices[s] = <<>>, Unserved(s) PROVE Given(s, asks[s])
  <2>1. s \notin players /\ receivers[s].next = 0
    BY <1>9 DEF Unserved
  <2>2. notices'[s] = <<>> \o Reply(outcome[s])
    BY <1>3, <1>9, Zenon
  <2>3. outcome[s] \in {"accepted", "follows", "noCharacter"} => notices'[s] = Reply(outcome[s])
    <3>1. outcome[s] \in {"accepted", "follows", "noCharacter"} => Reply(outcome[s]) \in Seq(Notices)
      BY Replies
    <3>. QED BY <1>6, <2>2, <3>1, Zenon
  <2>4. CASE asks[s] = "plain"
    <3>1. outcome[s] = "accepted"
      BY <1>4, <2>1, <2>4
    <3>2. notices'[s] = <<Told("accepted")>>
      BY <1>5, <2>3, <3>1
    <3>3. s \in players' /\ receivers'[s] = receivers[s]
      BY <1>3, <3>1
    <3>. QED BY <2>1, <2>4, <3>2, <3>3 DEF Given
  <2>5. CASE asks[s] # "plain"
    <3>1. outcome[s] \in {"follows", "noCharacter"}
      BY <1>4, <1>9, <2>1, <2>5
    <3>2. BlocksIn(notices'[s]) = {}
      BY <1>5, <2>3, <3>1, FewBlocks
    <3>3. s \notin players' /\ (outcome[s] = "follows" => receivers'[s].next = 1)
      BY <1>3, <2>1, <3>1
    <3>4. \/ notices'[s] = <<Told("follows")>> /\ receivers'[s].next = 1
          \/ notices'[s] = <<Told("noCharacter"), Told("kicked")>>
      <4>1. CASE outcome[s] = "follows"
        BY <1>5, <2>3, <3>3, <4>1, Zenon
      <4>2. CASE outcome[s] = "noCharacter"
        BY <1>5, <2>3, <4>2, Zenon
      <4>. QED BY <3>1, <4>1, <4>2
    <3>. QED BY <2>5, <3>2, <3>3, <3>4, Zenon DEF Given
  <2>. QED BY <2>4, <2>5
<1>10. \A s \in Slots : receivers'[s] = receivers[s] \/ receivers'[s].of = 0
  BY <1>3
<1>. QED BY <1>8, <1>9, <1>10

\* A game whose request is answered is in the host's world, or not a player yet.
LEMMA AnsweredRow ==
    ASSUME NEW r, NEW s, NEW what, what # "none", what \in {ask[s], kept[s]}, Requests(r, s), Settled, hostWorld' = Goal,
           ask'[s] = "none", kept'[s] = "none", Given(s, what)
    PROVE  Row(r, s)'
<1>1. /\ Unserved(s) /\ (ask[s] = "none" \/ kept[s] = "none")
      /\ what = "plain" <=> r.step \in Plainly
      /\ what = "plain" => r.world = Goal
  BY DEF Requests, Request
<1>2. Requests(r, s)'
  BY DEF Requests
<1>3. CASE what = "plain" /\ notices'[s] = <<Told("accepted")>> /\ s \in players' /\ receivers'[s].next = 0
  <2>1. notices'[s] # <<>> /\ Head(notices'[s]) = Told("accepted") /\ Told("accepted").what = "accepted"
    BY <1>3, NoticeTypes
  <2>2. BlocksIn(notices'[s]) = {} /\ Current(notices'[s]) = {} /\ Overtaken(notices'[s]) = {}
    BY <1>3, FewBlocks, NoBlocks, Zenon
  <2>3. Hears(r, s)'
    BY <2>1 DEF Hears
  <2>4. Carries(s)' /\ Reloads(s)'
    BY <1>3, <2>2 DEF Carries, Reloads
  <2>5. InWorld(r, s)'
    BY <1>1, <1>3 DEF InWorld
  <2>. QED BY <1>2, <2>3, <2>4, <2>5 DEF Row
<1>4. CASE what # "plain" /\ BlocksIn(notices'[s]) = {} /\ s \notin players'
  <2>1. Current(notices'[s]) = {} /\ Overtaken(notices'[s]) = {}
    BY <1>4, NoBlocks, Zenon
  <2>2. Hears(r, s)' /\ Carries(s)'
    BY <1>1, <1>4, <2>1 DEF Hears, Carries
  <2>3. Reloads(s)' /\ InWorld(r, s)'
    BY <1>4 DEF Reloads, InWorld
  <2>. QED BY <1>2, <2>2, <2>3 DEF Row
<1>. QED BY <1>3, <1>4 DEF Given

\* A request comes to the front door.
LEMMA HandleAskKeepsWorld ==
    ASSUME JoinInv, WorldInv, NEW s \in Slots, HandleAsk(s)
    PROVE  WorldInv'
<1>1. /\ hosting /\ ask[s] # "none" /\ ask' = [ask EXCEPT ![s] = "none"]
      /\ game' = game /\ hostWorld' = hostWorld /\ reloadVars' = reloadVars /\ excused' = excused
  BY Zenon DEF HandleAsk, guestsUntouched
<1>2. ReloadSame /\ loading' = loading /\ LoadHolds /\ SendsGoal /\ ListenerOK
  BY <1>1, WorldRead DEF ReloadSame, reloadVars, JoinInv
<1>3. ask[s] \in Asks /\ ask'[s] = "none" /\ \A t \in Slots : t # s => ask'[t] = ask[t]
  BY <1>1, <1>2 DEF ListenerOK
<1>4. CASE asked /\ read /\ checkpoint = 0
  <2>1. /\ notices' = [notices EXCEPT ![s] = Append(notices[s], Told("failed"))]
        /\ players' = players /\ receivers' = receivers /\ kept' = kept
    BY <1>4, Zenon DEF HandleAsk
  <2>2. notices'[s] = Append(notices[s], Told("failed")) /\ \A t \in Slots : t # s => notices'[t] = notices[t]
    BY <1>2, <2>1 DEF ListenerOK
  <2>3. \A t \in Slots : t # s => SlotSame(t)
    BY <1>3, <2>1, <2>2 DEF SlotSame
  <2>4. LoadHolds' /\ SendsGoal'
    BY <1>2, <2>1 DEF LoadHolds, SendsGoal, ReloadSame, Settled, Goal, Wanting
  <2>5. ASSUME NEW r, Row(r, s) PROVE Row(r, s)'
    <3>1. notices[s] = <<>> /\ Unserved(s) /\ kept[s] = "none"
      BY <1>1, <2>5 DEF Row, Requests
    <3>2. notices'[s] = <<Told("failed")>>
      BY <2>2, <3>1
    <3>3. Current(notices'[s]) = {} /\ Overtaken(notices'[s]) = {}
      BY <3>2, FewBlocks, NoBlocks, Zenon
    <3>4. Requests(r, s)' /\ Hears(r, s)'
      BY <1>3, <2>1, <3>1, <3>2 DEF Requests, Hears, Unserved
    <3>5. Carries(s)' /\ Reloads(s)' /\ InWorld(r, s)'
      BY <2>1, <3>1, <3>3 DEF Carries, Reloads, InWorld, Unserved
    <3>. QED BY <3>4, <3>5 DEF Row
  <2>. QED BY <1>1, <1>2, <2>3, <2>4, <2>5, OneSlot
<1>5. CASE asked /\ ~(read /\ checkpoint = 0)
  <2>1. /\ kept' = [kept EXCEPT ![s] = ask[s]]
        /\ notices' = notices /\ players' = players /\ receivers' = receivers
    BY <1>5, Zenon DEF HandleAsk
  <2>2. kept'[s] = ask[s] /\ \A t \in Slots : t # s => kept'[t] = kept[t]
    BY <2>1 DEF JoinInv, ListenerOK
  <2>3. \A t \in Slots : t # s => SlotSame(t)
    BY <1>3, <2>1, <2>2 DEF SlotSame
  <2>4. LoadHolds' /\ SendsGoal'
    BY <1>2, <2>1 DEF LoadHolds, SendsGoal, ReloadSame, Settled, Goal, Wanting
  <2>5. ASSUME NEW r, Row(r, s) PROVE Row(r, s)'
    <3>1. notices[s] = <<>> /\ Unserved(s) /\ kept[s] = "none"
      BY <1>1, <2>5 DEF Row, Requests
    <3>2. Request(s, "plain")' <=> Request(s, "plain")
      BY <1>3, <2>2, <3>1 DEF Request
    <3>3. (Settled' <=> Settled) /\ Goal' = Goal
      BY <1>2 DEF ReloadSame, Settled, Goal
    <3>4. Requests(r, s)'
      BY <1>1, <1>3, <2>1, <2>2, <2>5, <3>1, <3>2, <3>3 DEF Row, Requests, Unserved
    <3>5. Hears(r, s)' /\ Carries(s)' /\ Reloads(s)' /\ InWorld(r, s)'
      BY <1>2, <2>1, <2>5, <3>3 DEF Row, Hears, Carries, Reloads, InWorld, Unserved, ReloadSame
    <3>. QED BY <3>4, <3>5 DEF Row
  <2>. QED BY <1>1, <1>2, <2>3, <2>4, <2>5, OneSlot
<1>6. CASE ~asked
  <2>1. PICK asks : asks = [NoAsks EXCEPT ![s] = ask[s]]
    OBVIOUS
  <2>2. Answer(asks) /\ kept' = kept
    BY <1>6, <2>1, Zenon DEF HandleAsk
  <2>3. asks \in [Slots -> Asks] /\ asks[s] = ask[s] /\ \A t \in Slots : t # s => asks[t] = "none"
    BY <1>3, <2>1 DEF NoAsks, Asks
  <2>4. /\ \A t \in Slots : t # s => notices'[t] = notices[t] /\ receivers'[t] = receivers[t] /\ (t \in players' <=> t \in players)
        /\ notices[s] = <<>> /\ Unserved(s) => Given(s, ask[s])
        /\ \A t \in Slots : receivers'[t] = receivers[t] \/ receivers'[t].of = 0
    BY <1>1, <2>2, <2>3, AnswerRows
  <2>5. \A t \in Slots : t # s => SlotSame(t)
    BY <1>3, <2>2, <2>4 DEF SlotSame
  <2>6. ~loading /\ ~asked' /\ ~read' /\ ~loading'
    BY <1>2, <1>6 DEF LoadHolds, ReloadSame
  <2>7. LoadHolds'
    BY <2>6 DEF LoadHolds
  <2>8. SendsGoal'
    BY <1>2, <1>6, <2>4 DEF SendsGoal, ReloadSame, Settled, Goal, Wanting
  <2>9. ASSUME NEW r, Row(r, s) PROVE Row(r, s)'
    <3>1. Requests(r, s) /\ notices[s] = <<>> /\ Unserved(s) /\ kept[s] = "none"
      BY <1>1, <2>9 DEF Row, Requests
    <3>2. Settled /\ hostWorld' = Goal
      BY <1>1, <1>6 DEF Settled, Goal
    <3>3. Given(s, ask[s]) /\ kept'[s] = "none"
      BY <2>2, <2>4, <3>1
    <3>. QED BY <1>1, <1>3, <3>1, <3>2, <3>3, AnsweredRow
  <2>. QED BY <1>1, <1>2, <2>5, <2>7, <2>8, <2>9, OneSlot
<1>. QED BY <1>4, <1>5, <1>6

\* Two notices come one after the other.
LEMMA TwoAppended ==
    ASSUME NEW S, NEW q \in Seq(S), NEW d \in S, NEW e \in S
    PROVE  q \o <<d, e>> = Append(Append(q, d), e) /\ Append(q, d) \in Seq(S)
<1>1. PICK a, b, c : a = <<d>> /\ b = <<e>> /\ c = <<d, e>>
  OBVIOUS
<1>2. a \in Seq(S) /\ b \in Seq(S) /\ c \in Seq(S) /\ Append(a, e) \in Seq(S) /\ Append(q, d) \in Seq(S)
  BY <1>1
<1>3. Append(a, e) = c
  <2>1. Len(a) = 1 /\ a[1] = d /\ Len(c) = 2 /\ c[1] = d /\ c[2] = e
    BY <1>1
  <2>2. Len(Append(a, e)) = 2 /\ Append(a, e)[1] = d /\ Append(a, e)[2] = e
    <3>1. PICK f : f = Append(a, e)
      OBVIOUS
    <3>2. Len(f) = Len(a) + 1 /\ (\A i \in 1 .. Len(a) : f[i] = a[i]) /\ f[Len(a) + 1] = e
      BY <1>2, <3>1, AppendProperties, Zenon
    <3>3. Len(f) = 2 /\ f[1] = d /\ f[2] = e
      BY <2>1, <3>2
    <3>. QED BY <3>1, <3>3, Zenon
  <2>3. \A i \in 1 .. 2 : Append(a, e)[i] = c[i]
    BY <2>1, <2>2
  <2>. QED BY <1>2, <2>1, <2>2, <2>3, SeqEqual
<1>4. Append(a, e) = a \o b /\ Append(q, d) = q \o a /\ Append(Append(q, d), e) = Append(q, d) \o b
  BY <1>1, <1>2, AppendIsConcat, Zenon
<1>5. (q \o a) \o b = q \o (a \o b)
  BY <1>2, ConcatAssociative
<1>. QED BY <1>1, <1>2, <1>3, <1>4, <1>5, Zenon

\* A slot that is told something while it is served, neither a block nor the reload, and gets nothing more.
LEMMA ToldRow ==
    ASSUME NEW r, NEW s, Row(r, s), ReloadSame, NEW m \in Notices, m.what \notin {"block", "reload"},
           notices[s] \in Seq(Notices), ~Unserved(s), notices'[s] = Append(notices[s], m),
           ask'[s] = ask[s], kept'[s] = kept[s], s \notin players', receivers'[s].next = 0
    PROVE  Row(r, s)'
<1>1. (Settled' <=> Settled) /\ Goal' = Goal
  BY DEF ReloadSame, Settled, Goal
<1>2. /\ Current(notices'[s]) \subseteq Current(notices[s]) /\ Overtaken(notices'[s]) \subseteq Overtaken(notices[s])
  BY BlocksAppend
<1>3. notices'[s] # <<>> /\ (notices[s] # <<>> => Head(notices'[s]) = Head(notices[s]))
  BY HeadAppend
<1>4. Requests(r, s)'
  BY DEF Row, Requests
<1>5. Hears(r, s)'
  BY <1>3 DEF Row, Hears
<1>6. Carries(s)'
  BY <1>1, <1>2 DEF Row, Carries
<1>7. Reloads(s)' /\ InWorld(r, s)'
  BY DEF Reloads, InWorld
<1>. QED BY <1>4, <1>5, <1>6, <1>7 DEF Row

\* A block goes, of the save everyone goes to; or the slot is dropped.
LEMMA SendBlockKeepsWorld ==
    ASSUME JoinInv, WorldInv, NEW s \in Slots, SendBlock(s)
    PROVE  WorldInv'
<1>1. PICK r, world : r = receivers[s] /\ world = IF receivers[s].of = 0 THEN hostWorld ELSE receivers[s].of
  OBVIOUS
<1>2. /\ hosting /\ game' = game /\ hostWorld' = hostWorld /\ reloadVars' = reloadVars /\ excused' = excused
      /\ ask' = ask /\ kept' = kept /\ s \in Wanting
  BY Zenon DEF SendBlock, guestsUntouched
<1>3. ReloadSame /\ loading' = loading /\ LoadHolds /\ SendsGoal /\ ListenerOK /\ notices[s] \in Seq(Notices)
  BY <1>2, WorldRead DEF ReloadSame, reloadVars, JoinInv, ListenerOK
<1>4. r.of \in Worlds /\ r.next \in 1 .. Blocks /\ world \in Worlds /\ r.next # 0 /\ ~Unserved(s)
  BY <1>1, <1>2 DEF JoinInv, ListenerOK, ReloadOK, Wanting, Unserved
<1>5. Settled => world = Goal
  BY <1>1, <1>2, <1>3 DEF SendsGoal, Goal, Settled
<1>6. (Settled' <=> Settled) /\ Goal' = Goal
  BY <1>3 DEF ReloadSame, Settled, Goal
<1>7. CASE /\ notices' = [notices EXCEPT ![s] = Append(@, Block(world, r.next))]
           /\ receivers' = [receivers EXCEPT ![s] = IF r.next = Blocks THEN NotWanting
                                                    ELSE [of |-> world, next |-> r.next + 1]]
           /\ alive' = alive /\ players' = players
  <2>1. PICK m : m = Block(world, r.next)
    OBVIOUS
  <2>2. m \in Notices /\ m.what = "block" /\ m.of = world /\ m.block = r.next
    <3>1. m \in Notices /\ m.what = "block"
      BY <1>4, <2>1, NoticeTypes
    <3>. QED BY <2>1, <3>1 DEF Block
  <2>3. notices'[s] = Append(notices[s], m) /\ \A t \in Slots : t # s => notices'[t] = notices[t]
    BY <1>3, <1>7, <2>1 DEF ListenerOK
  <2>4. /\ receivers'[s] = (IF r.next = Blocks THEN NotWanting ELSE [of |-> world, next |-> r.next + 1])
        /\ \A t \in Slots : t # s => receivers'[t] = receivers[t]
    BY <1>3, <1>7 DEF ListenerOK
  <2>5. receivers'[s].next # 0 => receivers'[s].of = world /\ receivers'[s].next = r.next + 1
    BY <2>4 DEF NotWanting
  <2>6. \A t \in Slots : t # s => SlotSame(t)
    BY <1>2, <1>7, <2>3, <2>4 DEF SlotSame
  <2>7. LoadHolds'
    BY <1>2, <1>3 DEF LoadHolds, ReloadSame
  <2>8. SendsGoal'
    BY <1>3, <1>5, <1>6, <2>4, <2>5 DEF SendsGoal, Wanting, ReloadSame
  <2>9. ASSUME NEW p, Row(p, s) PROVE Row(p, s)'
    <3>1. /\ Overtaken(notices'[s]) \subseteq Overtaken(notices[s])
          /\ Current(notices'[s]) \subseteq Current(notices[s]) \cup {m}
      BY <1>3, <2>2, <2>3, BlocksAppend
    <3>2. notices'[s] # <<>> /\ (notices[s] # <<>> => Head(notices'[s]) = Head(notices[s]))
      BY <1>3, <2>2, <2>3, HeadAppend
    <3>3. Requests(p, s)'
      BY <1>2, <1>4, <2>9 DEF Row, Requests
    <3>4. Hears(p, s)'
      BY <1>4, <2>9, <3>2 DEF Row, Hears
    <3>5. Carries(s)'
      <4>1. \A n \in Overtaken(notices'[s]) : n.block < Blocks
        BY <2>9, <3>1 DEF Row, Carries
      <4>2. \A n \in Current(notices'[s]) : Settled' => n.of = Goal'
        BY <1>5, <1>6, <2>2, <2>9, <3>1 DEF Row, Carries
      <4>3. ASSUME NEW n \in Current(notices'[s]), receivers'[s].next # 0 PROVE n.block < receivers'[s].next
        <5>1. r.next \in Nat /\ r.next < r.next + 1
          BY <1>4
        <5>2. CASE n = m
          BY <2>2, <2>5, <4>3, <5>1, <5>2
        <5>3. CASE n \in Current(notices[s])
          <6>1. n.block < r.next
            BY <1>1, <1>4, <2>9, <5>3 DEF Row, Carries
          <6>2. n.block \in Nat
            <7>1. n \in Sent(notices[s])
              BY <5>3 DEF Current, Sent
            <7>2. n \in Notices
              BY <1>3, <7>1, SentFew
            <7>. QED BY <7>2 DEF Notices
          <6>. QED BY <2>5, <4>3, <5>1, <6>1, <6>2
        <5>. QED BY <3>1, <4>3, <5>2, <5>3
      <4>. QED BY <4>1, <4>2, <4>3 DEF Carries
    <3>6. Reloads(s)' /\ InWorld(p, s)'
      BY <1>1, <1>3, <1>4, <1>7, <2>9 DEF Row, Reloads, InWorld, ReloadSame
    <3>. QED BY <3>3, <3>4, <3>5, <3>6 DEF Row
  <2>. QED BY <1>2, <1>3, <2>6, <2>7, <2>8, <2>9, OneSlot
<1>8. CASE notices' = [notices EXCEPT ![s] = @ \o <<Told("failed"), Told("kicked")>>] /\ Drop(s)
  <2>1. PICK d, e : d = Told("failed") /\ e = Told("kicked")
    OBVIOUS
  <2>2. d \in Notices /\ d.what = "failed" /\ e \in Notices /\ e.what = "kicked"
    BY <2>1, NoticeTypes
  <2>3. notices'[s] = notices[s] \o <<d, e>> /\ \A t \in Slots : t # s => notices'[t] = notices[t]
    BY <1>3, <1>8, <2>1 DEF ListenerOK
  <2>4. PICK u : u = Append(notices[s], d)
    OBVIOUS
  <2>5. u \in Seq(Notices) /\ notices'[s] = Append(u, e)
    BY <1>3, <2>2, <2>3, <2>4, TwoAppended
  <2>6. /\ s \notin players' /\ receivers'[s].next = 0 /\ \A t \in Slots \ {s} : receivers'[t] = receivers[t]
        /\ \A t \in Slots \ {s} : t \in players' <=> t \in players
    BY <1>3, <1>8, DropRows
  <2>7. \A t \in Slots : t # s => SlotSame(t)
    BY <1>2, <2>3, <2>6 DEF SlotSame
  <2>8. LoadHolds' /\ SendsGoal'
    BY <1>3, <1>8, DropHolds
  <2>9. ASSUME NEW p, Row(p, s) PROVE Row(p, s)'
    <3>1. /\ Overtaken(u) \subseteq Overtaken(notices[s]) /\ Current(u) \subseteq Current(notices[s])
          /\ Overtaken(notices'[s]) \subseteq Overtaken(u) /\ Current(notices'[s]) \subseteq Current(u)
      BY <1>3, <2>2, <2>4, <2>5, BlocksAppend
    <3>2. /\ u # <<>> /\ (notices[s] # <<>> => Head(u) = Head(notices[s]))
          /\ notices'[s] # <<>> /\ Head(notices'[s]) = Head(u)
      BY <1>3, <2>2, <2>4, <2>5, HeadAppend
    <3>3. Requests(p, s)'
      BY <1>2, <1>4, <2>9 DEF Row, Requests
    <3>4. Hears(p, s)'
      BY <1>4, <2>9, <3>2 DEF Row, Hears
    <3>5. Carries(s)'
      BY <1>6, <2>6, <2>9, <3>1 DEF Row, Carries
    <3>6. Reloads(s)' /\ InWorld(p, s)'
      BY <2>6 DEF Reloads, InWorld
    <3>. QED BY <3>3, <3>4, <3>5, <3>6 DEF Row
  <2>. QED BY <1>2, <1>3, <2>7, <2>8, <2>9, OneSlot
<1>. QED BY <1>1, <1>7, <1>8, Zenon DEF SendBlock

\* A connection that ended is not the one any game holds.
LEMMA HostHearsKeepsWorld ==
    ASSUME JoinInv, WorldInv, NEW s \in Slots, HostHears(s)
    PROVE  WorldInv'
<1>1. /\ hosting /\ peer[s] # Nobody /\ game[peer[s]].slot # s
      /\ ask' = [ask EXCEPT ![s] = "none"] /\ notices' = [notices EXCEPT ![s] = <<>>] /\ Drop(s)
      /\ game' = game /\ hostWorld' = hostWorld /\ reloadVars' = reloadVars /\ kept' = kept /\ excused' = excused
  BY Zenon DEF HostHears
<1>2. ReloadSame /\ loading' = loading /\ LoadHolds /\ SendsGoal /\ ListenerOK /\ s # 0
  BY <1>1, WorldRead, BoundsAssumption DEF ReloadSame, reloadVars, JoinInv
<1>3. LoadHolds' /\ SendsGoal'
  BY <1>1, <1>2, DropHolds
<1>4. /\ \A t \in Slots \ {s} : receivers'[t] = receivers[t]
      /\ \A t \in Slots \ {s} : t \in players' <=> t \in players
  BY <1>1, <1>2, DropRows
<1>5. \A t \in Slots : t # s => SlotSame(t)
  BY <1>1, <1>2, <1>4 DEF SlotSame, ListenerOK
<1>6. \A g \in Guests : game[g].slot # s
  BY <1>1, <1>2, HoldsSlot
<1>. QED BY <1>1, <1>2, <1>3, <1>5, <1>6, OneSlot

\* HostPlayers::Kick: the kick comes after what its game has not heard yet.
LEMMA HostKicksKeepsWorld ==
    ASSUME JoinInv, WorldInv, NEW s \in Slots, HostKicks(s)
    PROVE  WorldInv'
<1>1. /\ hosting /\ s \in players /\ notices' = [notices EXCEPT ![s] = Append(@, Told("kicked"))] /\ Drop(s)
      /\ game' = game /\ hostWorld' = hostWorld /\ reloadVars' = reloadVars /\ excused' = excused /\ ask' = ask /\ kept' = kept
  BY Zenon DEF HostKicks, guestsUntouched
<1>2. ReloadSame /\ loading' = loading /\ LoadHolds /\ SendsGoal /\ ListenerOK /\ notices[s] \in Seq(Notices)
  BY <1>1, WorldRead DEF ReloadSame, reloadVars, JoinInv, ListenerOK
<1>3. PICK m : m = Told("kicked")
  OBVIOUS
<1>4. m \in Notices /\ m.what = "kicked"
  BY <1>3, NoticeTypes
<1>5. notices'[s] = Append(notices[s], m) /\ \A t \in Slots : t # s => notices'[t] = notices[t]
  BY <1>1, <1>2, <1>3 DEF ListenerOK
<1>6. /\ s \notin players' /\ receivers'[s].next = 0 /\ \A t \in Slots \ {s} : receivers'[t] = receivers[t]
      /\ \A t \in Slots \ {s} : t \in players' <=> t \in players
  BY <1>1, <1>2, DropRows
<1>7. \A t \in Slots : t # s => SlotSame(t)
  BY <1>1, <1>5, <1>6 DEF SlotSame
<1>8. LoadHolds' /\ SendsGoal'
  BY <1>1, <1>2, DropHolds
<1>9. ASSUME NEW p, Row(p, s) PROVE Row(p, s)'
  <2>1. ~Unserved(s)
    BY <1>1 DEF Unserved
  <2>2. m.what \notin {"block", "reload"} /\ ask'[s] = ask[s] /\ kept'[s] = kept[s]
    BY <1>1, <1>4
  <2>. QED BY <1>2, <1>4, <1>5, <1>6, <1>9, <2>1, <2>2, ToldRow
<1>. QED BY <1>1, <1>2, <1>7, <1>8, <1>9, OneSlot

-----------------------------------------------------------------------------
(* The reload, and where everyone goes.                                    *)

\* A reload that begins, or has no save to go to: the rows are as they were, and no player is being sent one.
LEMMA UnsettledRow ==
    ASSUME NEW r, NEW s, Row(r, s), ~Settled', ~(asked /\ read /\ checkpoint # 0), hostWorld' = hostWorld,
           ask' = ask, kept' = kept, notices' = notices, receivers' = receivers, players' = players
    PROVE  Row(r, s)'
<1>1. Requests(r, s)' /\ Hears(r, s)'
  BY DEF Row, Requests, Hears, Request, Unserved
<1>2. Carries(s)' /\ Reloads(s)' /\ InWorld(r, s)'
  BY DEF Row, Carries, Reloads, InWorld
<1>. QED BY <1>1, <1>2 DEF Row

\* The step that unsettles it: a load asked for by the host's player or the wipe, or one with no save to read.
LEMMA UnsettledKeepsWorld ==
    ASSUME JoinInv, WorldInv, hosting, game' = game, excused \subseteq excused', ~Settled', asked', ~loading', hostWorld' = hostWorld,
           ~(asked /\ read /\ checkpoint # 0),
           ask' = ask, kept' = kept, notices' = notices, receivers' = receivers, players' = players
    PROVE  WorldInv'
<1>1. LoadHolds' /\ SendsGoal'
  BY DEF LoadHolds, SendsGoal
<1>2. \A r : Heads(r)'
  BY DEF Heads
<1>3. \A r, s : Row(r, s) => Row(r, s)'
  BY UnsettledRow
<1>. QED BY <1>1, <1>2, <1>3, HostMakes

\* HostService::LoadSave, and the party's wipe.
LEMMA AskForLoadKeepsWorld ==
    ASSUME JoinInv, WorldInv, LoadSave \/ Wipe
    PROVE  WorldInv'
<1>1. /\ hosting /\ game' = game /\ notices' = notices /\ hostWorld' = hostWorld /\ players' = players
      /\ receivers' = receivers /\ loading' = loading /\ kept' = kept /\ excused' = excused /\ ask' = ask
      /\ asked' = TRUE
  BY Zenon DEF LoadSave, Wipe, guestsUntouched
<1>2. LoadHolds
  BY <1>1, WorldRead
<1>3. CASE LoadSave
  <2>1. ~loading /\ checkpoint = 0 /\ read' = FALSE
    BY <1>3, Zenon DEF LoadSave
  <2>. QED BY <1>1, <2>1, UnsettledKeepsWorld DEF Settled
<1>4. CASE Wipe
  <2>1. ~asked /\ read' = read
    BY <1>4, Zenon DEF Wipe
  <2>2. ~read /\ ~loading
    BY <1>2, <2>1 DEF LoadHolds
  <2>. QED BY <1>1, <2>1, <2>2, UnsettledKeepsWorld DEF Settled
<1>. QED BY <1>3, <1>4

\* The reload sent to everyone: whom it does not reach asks for the host's world, or is not past that.
LEMMA SendCheckpointKeepsWorld ==
    ASSUME JoinInv, WorldInv, SendCheckpoint
    PROVE  WorldInv'
<1>1. /\ game' = game /\ ask' = ask /\ hostWorld' = hostWorld /\ players' = players /\ asked' = asked
      /\ loading' = loading /\ kept' = kept /\ read' = TRUE /\ hosting /\ asked /\ ~loading /\ ~read
  BY Zenon DEF SendCheckpoint, guestsUntouched
<1>2. ListenerOK /\ ReloadOK
  BY DEF JoinInv
<1>3. CASE /\ checkpoint = 0
           /\ excused' = excused \cup {peer[s] : s \in {t \in Slots : kept[t] # "none" /\ peer[t] # Nobody}}
           /\ checkpoint' = checkpoint /\ saves' = saves /\ notices' = notices /\ receivers' = receivers
  BY <1>1, <1>3, UnsettledKeepsWorld DEF Settled
<1>4. CASE /\ checkpoint' = IF checkpoint = 0 THEN saves + 1 ELSE checkpoint
           /\ notices' = [s \in Slots |-> IF s \in CheckpointTo THEN Append(notices[s], Told("reload")) ELSE notices[s]]
           /\ receivers' = [s \in Slots |-> IF s \in CheckpointTo THEN [of |-> checkpoint', next |-> 1] ELSE receivers[s]]
           /\ excused' = excused \cup Missed
  <2>1. checkpoint' # 0
    BY <1>2, <1>4 DEF ReloadOK, Worlds
  <2>2. Settled' /\ Goal' = checkpoint'
    BY <1>1, <2>1 DEF Settled, Goal
  <2>3. LoadHolds'
    BY <1>1 DEF LoadHolds
  <2>4. SendsGoal'
    <3>1. ASSUME NEW s \in Wanting' PROVE receivers'[s].of = Goal'
      <4>1. s \in Slots /\ receivers'[s].next # 0
        BY <3>1 DEF Wanting
      <4>2. s \in CheckpointTo
        BY <1>4, <4>1 DEF CheckpointTo, Wanting
      <4>. QED BY <1>4, <2>2, <4>1, <4>2
    <3>. QED BY <3>1 DEF SendsGoal
  <2>5. ASSUME NEW g \in Guests, g \notin excused', NEW r, r = game[g], AtStep(r), Heads(r) PROVE Heads(r)'
    <3>1. Shape(r) /\ g \notin Missed
      BY <1>4, <2>5 DEF JoinInv, Seats
    <3>2. 0 \notin players \cup Wanting /\ ~Asking(0)
      BY <1>2, BoundsAssumption DEF ListenerOK, Wanting, Asking
    <3>3. ASSUME r.slot = 0, r.online = FALSE, r.step \notin {"idle", "connecting", "creating"} PROVE FALSE
      BY <2>5, <3>1, <3>2, <3>3 DEF Missed
    <3>4. r.step \in {"loading", "placing", "reconnectWait"} \/ r.link = "dialing" => r.slot = 0 /\ r.online = FALSE
      BY <3>1 DEF Shape, Wired
    <3>. QED BY <3>3, <3>4 DEF Heads, Plainly
  <2>6. ASSUME NEW g \in Guests, g \notin excused', NEW r, r = game[g], NEW s, s = r.slot, s # 0, AtStep(r), Row(r, s)
        PROVE  Row(r, s)'
    <3>1. s \in Slots /\ g \notin Missed
      BY <1>1, <1>4, <2>6, HoldsSlot
    <3>2. InWorld(r, s)'
      BY <1>1, <2>6 DEF Row, InWorld
    <3>3. Reloads(s)'
      BY <1>1, <2>1 DEF Reloads
    <3>4. CASE s \in CheckpointTo
      <4>1. PICK m : m = Told("reload")
        OBVIOUS
      <4>2. m \in Notices /\ m.what = "reload" /\ notices[s] \in Seq(Notices)
        BY <1>2, <3>1, <4>1, NoticeTypes DEF ListenerOK
      <4>3. notices'[s] = Append(notices[s], m) /\ receivers'[s].next = 1 /\ ~Unserved(s)
        BY <1>4, <3>1, <3>4, <4>1 DEF CheckpointTo, Wanting, Unserved
      <4>4. Current(notices'[s]) = {} /\ Overtaken(notices'[s]) \subseteq Overtaken(notices[s]) \cup Current(notices[s])
        BY <4>2, <4>3, BlocksAppend
      <4>5. notices'[s] # <<>> /\ (notices[s] # <<>> => Head(notices'[s]) = Head(notices[s]))
        BY <4>2, <4>3, HeadAppend
      <4>6. Requests(r, s)'
        BY <1>1, <2>6, <4>3 DEF Row, Requests
      <4>7. Hears(r, s)'
        BY <2>6, <4>3, <4>5 DEF Row, Hears
      <4>8. ASSUME NEW n \in Current(notices[s]) PROVE n.block < Blocks
        <5>1. receivers[s].next # 0
          <6>1. s \in players => BlocksIn(notices[s]) = {}
            BY <1>1, <2>6 DEF Row, Reloads
          <6>2. s \notin players
            BY <4>8, <6>1, NoBlocks
          <6>. QED BY <3>4, <6>2 DEF CheckpointTo, Wanting
        <5>2. n.block < receivers[s].next
          BY <2>6, <5>1 DEF Row, Carries
        <5>3. n.block \in Nat /\ receivers[s].next \in 0 .. Blocks
          <6>1. n \in Sent(notices[s])
            BY DEF Current, Sent
          <6>2. n \in Notices
            BY <4>2, <6>1, SentFew
          <6>3. receivers[s].next \in 0 .. Blocks
            BY <1>2, <3>1 DEF ListenerOK
          <6>. QED BY <6>2, <6>3 DEF Notices
        <5>. QED BY <5>2, <5>3, BoundsAssumption
      <4>9. Carries(s)'
        BY <2>6, <4>4, <4>8 DEF Row, Carries
      <4>. QED BY <3>2, <3>3, <4>6, <4>7, <4>9 DEF Row
    <3>5. CASE s \notin CheckpointTo
      <4>1. notices'[s] = notices[s] /\ receivers'[s] = receivers[s] /\ s \notin players /\ s \notin Wanting
        BY <1>4, <3>1, <3>5 DEF CheckpointTo
      <4>2. Asking(s)
        BY <2>6, <3>1, <4>1 DEF Missed, AtStep, Plainly
      <4>3. notices[s] = <<>> /\ ~Request(s, "plain") /\ r.step \notin Plainly
        BY <2>6, <4>2 DEF Asking, Row, Requests, Request
      <4>4. ~Request(s, "plain")'
        BY <1>1, <4>3 DEF Request
      <4>5. Requests(r, s)'
        BY <1>1, <2>6, <4>1, <4>3, <4>4 DEF Row, Requests, Unserved
      <4>6. Hears(r, s)'
        BY <4>3 DEF Hears
      <4>7. Current(notices'[s]) = {} /\ Overtaken(notices'[s]) = {}
        BY <4>1, <4>3, NoBlocks
      <4>8. Carries(s)'
        BY <4>7 DEF Carries
      <4>. QED BY <3>2, <3>3, <4>5, <4>6, <4>8 DEF Row
    <3>. QED BY <3>4, <3>5
  <2>. QED BY <1>1, <1>4, <2>3, <2>4, <2>5, <2>6, HostMakes
<1>. QED BY <1>3, <1>4, Zenon DEF SendCheckpoint

\* The load starts, with nobody in the session; or fails, and those that asked meanwhile hear it.
LEMMA LoadKeepsWorld ==
    ASSUME JoinInv, WorldInv, StartLoad \/ HostLoadFails
    PROVE  WorldInv'
<1>1. /\ hosting /\ game' = game /\ ask' = ask /\ hostWorld' = hostWorld /\ players' = players /\ receivers' = receivers
      /\ asked' = asked /\ read' = read /\ excused' = excused
  BY Zenon DEF StartLoad, HostLoadFails, guestsUntouched
<1>2. LoadHolds /\ SendsGoal /\ ListenerOK
  BY <1>1, WorldRead DEF JoinInv
<1>3. asked /\ read /\ checkpoint # 0 /\ players = {} /\ Wanting = {}
  <2>1. CASE StartLoad
    BY <2>1, Zenon DEF StartLoad
  <2>2. CASE HostLoadFails
    BY <1>2, <2>2 DEF HostLoadFails, LoadHolds
  <2>. QED BY <2>1, <2>2
<1>4. CASE loading' = TRUE /\ checkpoint' = checkpoint /\ notices' = notices /\ kept' = kept
  <2>1. ReloadSame /\ \A s : SlotSame(s)
    BY <1>1, <1>4 DEF ReloadSame, SlotSame
  <2>2. LoadHolds'
    BY <1>1, <1>3 , <1>4 DEF LoadHolds, Wanting
  <2>3. SendsGoal'
    BY <1>1, <1>2, <1>4 DEF SendsGoal, Settled, Goal, Wanting
  <2>4. \A r : (Heads(r) => Heads(r)') /\ \A s : Row(r, s) => Row(r, s)'
    BY <2>1, HeadsSame, RowSame
  <2>. QED BY <1>1, <2>2, <2>3, <2>4, HostMakes
<1>5. CASE FailedLoad
  <2>1. /\ loading' = FALSE /\ checkpoint' = 0 /\ kept' = NoAsks
        /\ notices' = [s \in Slots |-> IF kept[s] # "none" /\ s \in alive THEN Append(notices[s], Told("failed"))
                                       ELSE notices[s]]
    BY <1>5, Zenon DEF FailedLoad
  <2>2. ~Settled'
    BY <1>1, <1>3, <2>1 DEF Settled
  <2>3. LoadHolds' /\ SendsGoal'
    BY <1>1, <1>3, <2>1, <2>2 DEF LoadHolds, SendsGoal
  <2>4. \A r : Heads(r)'
    BY <2>2 DEF Heads
  <2>5. ASSUME NEW s \in Slots, NEW r, Row(r, s) PROVE Row(r, s)'
    <3>1. s \notin players /\ receivers[s].next = 0 /\ Unserved(s) /\ Unserved(s)' /\ kept'[s] = "none"
      BY <1>1, <1>3, <2>1 DEF Wanting, Unserved, NoAsks
    <3>2. Reloads(s)' /\ InWorld(r, s)'
      BY <1>1, <3>1 DEF Reloads, InWorld
    <3>3. CASE kept[s] # "none" /\ s \in alive
      <4>1. notices[s] = <<>> /\ ask[s] = "none"
        BY <2>5, <3>3 DEF Row, Requests
      <4>2. notices'[s] = Append(notices[s], Told("failed"))
        BY <2>1, <3>3
      <4>3. notices'[s] = <<Told("failed")>>
        BY <4>1, <4>2
      <4>4. Current(notices'[s]) = {} /\ Overtaken(notices'[s]) = {}
        BY <4>3, FewBlocks, NoBlocks, Zenon
      <4>5. Requests(r, s)' /\ Hears(r, s)' /\ Carries(s)'
        BY <1>1, <3>1, <4>1, <4>3, <4>4 DEF Requests, Hears, Carries
      <4>. QED BY <3>2, <4>5 DEF Row
    <3>4. CASE ~(kept[s] # "none" /\ s \in alive)
      <4>1. notices'[s] = notices[s]
        BY <2>1, <3>4
      <4>2. Requests(r, s)'
        BY <1>1, <2>2, <2>5, <3>1, <4>1 DEF Row, Requests, Request
      <4>3. Hears(r, s)'
        BY <2>5, <3>1, <4>1 DEF Row, Hears
      <4>4. Carries(s)'
        BY <1>1, <2>2, <2>5, <3>1, <4>1 DEF Row, Carries
      <4>. QED BY <3>2, <4>2, <4>3, <4>4 DEF Row
    <3>. QED BY <3>3, <3>4
  <2>6. ASSUME NEW g \in Guests, game[g].slot # 0 PROVE game[g].slot \in Slots
    BY <1>1, <2>6, HoldsSlot
  <2>. QED BY <1>1, <2>3, <2>4, <2>5, <2>6, HostMakes
<1>. QED BY <1>4, <1>5, Zenon DEF StartLoad, HostLoadFails

\* The host is in the world of the save, and everyone that asked meanwhile was going there.
LEMMA HostLoadedKeepsWorld ==
    ASSUME JoinInv, WorldInv, HostLoaded
    PROVE  WorldInv'
<1>1. PICK asks : asks = [s \in Slots |-> IF s \in alive THEN kept[s] ELSE "none"]
  OBVIOUS
<1>2. /\ hosting /\ loading /\ hostWorld' = checkpoint /\ asked' = FALSE /\ read' = FALSE /\ loading' = FALSE
      /\ checkpoint' = 0 /\ Answer(asks) /\ kept' = NoAsks /\ game' = game /\ ask' = ask /\ excused' = excused
  BY <1>1, Zenon DEF HostLoaded, guestsUntouched
<1>3. LoadHolds /\ SendsGoal /\ asks \in [Slots -> Asks]
  BY <1>1, <1>2, WorldRead DEF JoinInv, ListenerOK, Asks
<1>4. asked /\ read /\ checkpoint # 0 /\ players = {} /\ Wanting = {}
  BY <1>2, <1>3 DEF LoadHolds
<1>5. Settled /\ Goal = checkpoint /\ Settled' /\ Goal' = checkpoint /\ hostWorld' = Goal
  BY <1>2, <1>4 DEF Settled, Goal
<1>6. \A s \in Slots :
               /\ asks[s] = "none" => /\ notices'[s] = notices[s] /\ receivers'[s] = receivers[s]
                                      /\ s \in players' <=> s \in players
               /\ asks[s] # "none" /\ notices[s] = <<>> /\ Unserved(s) => Given(s, asks[s])
               /\ receivers'[s] = receivers[s] \/ receivers'[s].of = 0
  BY <1>2, <1>3, AnswerRows
<1>7. LoadHolds'
  BY <1>2 DEF LoadHolds
<1>8. SendsGoal'
  <2>1. ASSUME NEW s \in Wanting' PROVE receivers'[s].of = 0
    BY <1>4, <1>6, <2>1 DEF Wanting
  <2>. QED BY <1>2, <2>1 DEF SendsGoal
<1>9. \A r : Heads(r) => Heads(r)'
  BY <1>5 DEF Heads
<1>10. ASSUME NEW s \in Slots, NEW r, Row(r, s) PROVE Row(r, s)'
  <2>1. kept'[s] = "none" /\ s \notin players /\ receivers[s].next = 0
    BY <1>2, <1>4 DEF NoAsks, Wanting
  <2>2. CASE asks[s] = "none"
    <3>1. notices'[s] = notices[s] /\ receivers'[s] = receivers[s] /\ s \notin players'
      BY <1>6, <2>1, <2>2
    <3>2. Requests(r, s)'
      BY <1>2, <1>5, <2>1, <3>1, <1>10 DEF Row, Requests, Request, Unserved
    <3>3. Hears(r, s)' /\ Carries(s)'
      BY <1>5, <2>1, <3>1, <1>10 DEF Row, Hears, Carries, Unserved
    <3>4. Reloads(s)' /\ InWorld(r, s)'
      BY <3>1 DEF Reloads, InWorld
    <3>. QED BY <3>2, <3>3, <3>4 DEF Row
  <2>3. CASE asks[s] # "none"
    <3>1. asks[s] = kept[s] /\ kept[s] # "none"
      BY <1>1, <2>3
    <3>2. Requests(r, s) /\ notices[s] = <<>> /\ Unserved(s) /\ ask[s] = "none"
      BY <1>10, <3>1 DEF Row, Requests
    <3>3. Given(s, kept[s]) /\ ask'[s] = "none"
      BY <1>2, <1>6, <2>3, <3>1, <3>2
    <3>. QED BY <1>5, <2>1, <3>1, <3>2, <3>3, AnsweredRow
  <2>. QED BY <2>2, <2>3
<1>11. ASSUME NEW g \in Guests, game[g].slot # 0 PROVE game[g].slot \in Slots
  BY <1>2, <1>11, HoldsSlot
<1>. QED BY <1>2, <1>7, <1>8, <1>9, <1>10, <1>11, HostMakes

\* Before the first join nobody is on the way to any world.
LEMMA WorldInit == Init => WorldInv
<1>. SUFFICES ASSUME Init PROVE WorldInv
  OBVIOUS
<1>1. LoadHolds
  BY DEF Init, LoadHolds
<1>2. SendsGoal
  BY DEF Init, SendsGoal, Wanting, NotWanting
<1>3. AtHome.step = "idle" /\ AtHome.link = "none" /\ AtHome.slot = 0
  BY DEF AtHome
<1>4. ASSUME NEW g \in Guests, NEW r \in {game[g]} PROVE WorldOf(r)
  <2>1. r = AtHome
    BY <1>4 DEF Init
  <2>. QED BY <1>3, <2>1 DEF WorldOf, AtStep, Heads
<1>. QED BY <1>1, <1>2, <1>4 DEF WorldInv

\* Every step keeps it.
LEMMA WorldStep == ASSUME JoinInv, WorldInv, [Next]_vars PROVE WorldInv'
<1>1. CASE UNCHANGED vars
  <2>1. /\ game' = game /\ excused' = excused /\ loading' = loading /\ receivers' = receivers /\ players' = players
        /\ hostUntouched' = hostUntouched
    BY <1>1, Zenon DEF vars, hostUntouched, reloadVars
  <2>2. /\ ReloadSame /\ (hosting' <=> hosting) /\ (\A s : SlotSame(s))
        /\ LoadHolds' <=> LoadHolds
        /\ SendsGoal' <=> SendsGoal
    BY <2>1, HostSame
  <2>3. \A r : (Heads(r) => Heads(r)') /\ \A s : Row(r, s) => Row(r, s)'
    BY <2>2, HeadsSame, RowSame
  <2>4. CASE ~hosting
    BY <2>2, <2>4 DEF WorldInv
  <2>5. CASE hosting
    <3>1. LoadHolds /\ SendsGoal
      BY <2>5, WorldRead
    <3>. QED BY <2>1, <2>2, <2>3, <2>5, <3>1, HostMakes
  <2>. QED BY <2>4, <2>5
<1>2. ASSUME NEW g \in Guests, GuestStep(g) PROVE WorldInv'
  BY <1>2, GameKeepsWorld, DialKeepsWorld, ReadKeepsWorld
<1>3. HostEnds => WorldInv'
  BY DEF HostEnds, WorldInv
<1>4. CASE HostStep
  BY <1>3, <1>4, HandleAskKeepsWorld, SendBlockKeepsWorld, HostHearsKeepsWorld, HostKicksKeepsWorld, AskForLoadKeepsWorld,
     SendCheckpointKeepsWorld, LoadKeepsWorld, HostLoadedKeepsWorld, Zenon DEF HostStep
<1>. QED BY <1>1, <1>2, <1>4, Zenon DEF Next

\* With a host, who plays is in its world; without one nobody plays.
LEMMA WorldIsSame == ASSUME JoinInv, WorldInv PROVE SameWorld
<1>1. ASSUME NEW g \in Guests \ excused, game[g].online, game[g].slot \in players PROVE game[g].world = hostWorld
  <2>1. game[g].slot \in Slots /\ game[g].slot # 0
    BY <1>1, BoundsAssumption DEF JoinInv, ListenerOK
  <2>2. CASE hosting
    <3>1. Row(game[g], game[g].slot)
      BY <2>1, <2>2, WorldRead
    <3>. QED BY <1>1, <3>1 DEF Row, InWorld
  <2>3. CASE ~hosting
    BY <1>1, <2>1, <2>3 DEF JoinInv, Seats, Free
  <2>. QED BY <2>2, <2>3
<1>. QED BY <1>1 DEF SameWorld

-----------------------------------------------------------------------------
(* Who waits has something coming.                                         *)

\* A request that is not answered yet; what ends a wait for the host's world; a slot that something is sent to or that
\* has the end of its wait to read.
Asked(s) == ask[s] # "none" \/ kept[s] # "none"
Settles(m) == m.what \in {"failed", "noCharacter", "kicked"} \/ (m.what = "block" /\ m.block = Blocks)
Busy(s) == receivers[s].next # 0 \/ \E m \in Sent(notices[s]) : Settles(m)

\* A game that is not being sent a save gets no block before it hears of the reload, and after that it is.
AfterReload(q) == \A i \in DOMAIN q : q[i].what = "block" => \E j \in DOMAIN q : j < i /\ q[j].what = "reload"
Reloading(s) ==
    /\ AfterReload(notices[s])
    /\ receivers[s].next # 0 => Coming(s, "reload")
    /\ Coming(s, "reload") => Busy(s)

\* A game that waits for the host's world is sent one or hears that it gets none; one that asked plainly hears something,
\* and before that no block.
Replied(r, s) ==
    /\ r.step \in {"checking", "receiving"} => Asked(s) \/ Busy(s)
    /\ r.step = "checking" => \/ Asked(s)
                              \/ notices[s] # <<>> /\ Head(notices[s]).what \in {"follows", "failed", "noCharacter"}
    /\ r.step \in Plainly => Asked(s) \/ notices[s] # <<>>
    /\ r.step \in Plainly \cup {"idle"} => Reloading(s)
RepliesInv == hosting => \A g \in Guests \ excused : \A r \in {game[g]} :
                  r.slot # 0 /\ r.link = "open" => Replied(r, r.slot)

\* A game with a slot has a connection there or hears of its end, and it is the only game that has that slot.
Reached(s) == s \in alive \/ Coming(s, "kicked") \/ Coming(s, "hostLeft")
ReachedInv ==
    /\ \A g \in Guests : game[g].slot # 0 => Reached(game[g].slot)
    /\ \A g, h \in Guests : g # h /\ game[g].slot # 0 => game[h].slot # game[g].slot

\* A channel that has these messages more.
Longer(q, u, M) ==
    /\ u \in Seq(Notices) /\ Sent(u) = Sent(q) \cup M
    /\ u # <<>> /\ (q # <<>> => Head(u) = Head(q))
    /\ AfterReload(q) /\ (\A m \in M : m.what = "block" => \E n \in Sent(q) : n.what = "reload") => AfterReload(u)

\* One message more.
LEMMA OneLonger ==
    ASSUME NEW q \in Seq(Notices), NEW m \in Notices
    PROVE  Longer(q, Append(q, m), {m})
<1>1. PICK u, e : u = Append(q, m) /\ e = <<m>>
  OBVIOUS
<1>2. Joined(q, e, u) /\ u \in Seq(Notices)
  BY <1>1, AppendFacts
<1>3. Sent(u) = Sent(q) \cup {m}
  <2>1. Sent(Append(q, m)) = Sent(q) \cup {m}
    BY SentAppend
  <2>. QED BY <1>1, <2>1, Zenon
<1>4. u # <<>> /\ (q # <<>> => Head(u) = Head(q))
  BY <1>1, HeadAppend, Zenon
<1>5. DOMAIN e = {1} /\ e[1] = m
  BY <1>1
<1>6. ASSUME AfterReload(q), m.what = "block" => \E n \in Sent(q) : n.what = "reload" PROVE AfterReload(u)
  <2>1. ASSUME NEW i \in DOMAIN u, u[i].what = "block" PROVE \E j \in DOMAIN u : j < i /\ u[j].what = "reload"
    <3>1. CASE i \in DOMAIN q
      <4>1. u[i] = q[i]
        BY <1>2, <3>1 DEF Joined
      <4>2. PICK j \in DOMAIN q : j < i /\ q[j].what = "reload"
        BY <1>6, <2>1, <3>1, <4>1 DEF AfterReload
      <4>3. j \in DOMAIN u /\ u[j] = q[j]
        BY <1>2 DEF Joined
      <4>. QED BY <4>2, <4>3
    <3>2. CASE i \notin DOMAIN q
      <4>1. u[i] = m /\ \A j \in DOMAIN q : j < i
        BY <1>2, <1>5, <2>1, <3>2 DEF Joined
      <4>2. PICK j \in DOMAIN q : q[j].what = "reload"
        BY <1>6, <2>1, <4>1 DEF Sent
      <4>3. j \in DOMAIN u /\ u[j] = q[j]
        BY <1>2 DEF Joined
      <4>. QED BY <4>1, <4>2, <4>3
    <3>. QED BY <3>1, <3>2
  <2>. QED BY <2>1 DEF AfterReload
<1>. QED BY <1>1, <1>2, <1>3, <1>4, <1>6, Zenon DEF Longer

\* Two messages more, none of them a block.
LEMMA TwoLonger ==
    ASSUME NEW q \in Seq(Notices), NEW d \in Notices, NEW e \in Notices, d.what # "block", e.what # "block"
    PROVE  Longer(q, q \o <<d, e>>, {d, e})
<1>1. PICK u, v : u = Append(q, d) /\ v = Append(u, e)
  OBVIOUS
<1>2. q \o <<d, e>> = v /\ u \in Seq(Notices)
  BY <1>1, TwoAppended
<1>3. Longer(q, u, {d}) /\ Longer(u, v, {e})
  BY <1>1, <1>2, OneLonger
<1>4. Longer(q, v, {d, e})
  BY <1>3 DEF Longer
<1>. QED BY <1>2, <1>4

\* What is left when the oldest message is read, unless that is the reload.
LEMMA AfterReloadRead ==
    ASSUME NEW q \in Seq(Notices), q # <<>>, AfterReload(q)
    PROVE  Head(q).what # "block" /\ (Head(q).what # "reload" => AfterReload(Tail(q)))
<1>1. PICK t : t = Tail(q)
  OBVIOUS
<1>2. FirstTaken(q, t)
  BY <1>1, ReadFacts
<1>3. 1 \in DOMAIN q /\ Head(q) = q[1] /\ \A i \in DOMAIN q : i \in Nat /\ 1 <= i
  BY <1>2 DEF FirstTaken
<1>4. Head(q).what # "block"
  BY <1>3 DEF AfterReload
<1>5. ASSUME Head(q).what # "reload" PROVE AfterReload(t)
  <2>1. ASSUME NEW i \in DOMAIN t, t[i].what = "block" PROVE \E j \in DOMAIN t : j < i /\ t[j].what = "reload"
    <3>1. i \in Nat /\ i + 1 \in DOMAIN q /\ t[i] = q[i + 1]
      BY <1>2 DEF FirstTaken
    <3>2. PICK j \in DOMAIN q : j < i + 1 /\ q[j].what = "reload"
      BY <2>1, <3>1 DEF AfterReload
    <3>3. j # 1 /\ j \in Nat
      BY <1>3, <1>5, <3>2
    <3>4. j - 1 \in DOMAIN t /\ t[j - 1] = q[j]
      BY <1>2, <3>3 DEF FirstTaken
    <3>. QED BY <3>1, <3>2, <3>3, <3>4
  <2>. QED BY <2>1 DEF AfterReload
<1>. QED BY <1>1, <1>4, <1>5

\* A channel without blocks.
LEMMA NoBlockYet ==
    ASSUME NEW q, BlocksIn(q) = {}
    PROVE  AfterReload(q)
BY DEF BlocksIn, AfterReload, Sent

\* A step after which a request still waits, or an answer is still there.
LEMMA ReplyStays ==
    ASSUME NEW r, NEW s, Replied(r, s), Asked(s) => Asked(s)', Busy(s) => Busy(s)',
           notices[s] # <<>> => notices'[s] # <<>> /\ Head(notices'[s]) = Head(notices[s]),
           Reloading(s) => Reloading(s)'
    PROVE  Replied(r, s)'
BY DEF Replied

\* A slot whose row stays as it is.
LEMMA ReplySame ==
    ASSUME NEW r, NEW s, SlotSame(s), Replied(r, s)
    PROVE  Replied(r, s)'
BY DEF SlotSame, Replied, Asked, Busy, Reloading, Coming

\* A slot that is told the end of its wait.
LEMMA EndIsTold ==
    ASSUME NEW r, NEW s, Replied(r, s), NEW M, Longer(notices[s], notices'[s], M),
           \E m \in M : Settles(m), \A m \in M : m.what # "block",
           ask'[s] = ask[s], kept'[s] = kept[s], receivers'[s].next = 0
    PROVE  Replied(r, s)'
<1>1. Busy(s)' /\ (Asked(s) => Asked(s)')
  BY DEF Longer, Busy, Settles, Asked
<1>2. notices[s] # <<>> => notices'[s] # <<>> /\ Head(notices'[s]) = Head(notices[s])
  BY DEF Longer
<1>3. Reloading(s) => Reloading(s)'
  BY <1>1 DEF Reloading, Longer
<1>. QED BY <1>1, <1>2, <1>3, ReplyStays

\* A request that is answered.
LEMMA AnswerIsTold ==
    ASSUME NEW r, NEW s, NEW what, r.step # "idle", what = "plain" <=> r.step \in Plainly, Given(s, what)
    PROVE  Replied(r, s)'
<1>1. PICK a, f, n, k : a = Told("accepted") /\ f = Told("follows") /\ n = Told("noCharacter") /\ k = Told("kicked")
  OBVIOUS
<1>2. /\ a.what = "accepted" /\ f.what = "follows" /\ n.what = "noCharacter" /\ k.what = "kicked"
  BY <1>1, NoticeTypes
<1>3. /\ <<a>> # <<>> /\ Sent(<<a>>) = {a} /\ BlocksIn(<<a>>) = {}
      /\ <<f>> # <<>> /\ Head(<<f>>) = f
      /\ <<n, k>> # <<>> /\ Head(<<n, k>>) = n /\ Sent(<<n, k>>) = {n, k}
  BY <1>1, SentFew, FewBlocks
<1>4. CASE what = "plain" /\ notices'[s] = <<a>> /\ receivers'[s].next = 0
  <2>1. r.step \notin {"checking", "receiving"} /\ notices'[s] # <<>>
    BY <1>3, <1>4 DEF Plainly
  <2>2. AfterReload(notices'[s]) /\ ~Coming(s, "reload")'
    BY <1>2, <1>3, <1>4, NoBlockYet DEF Coming
  <2>. QED BY <1>4, <2>1, <2>2 DEF Replied, Reloading
<1>5. CASE what # "plain" /\ notices'[s] = <<f>> /\ receivers'[s].next = 1
  BY <1>2, <1>3, <1>5 DEF Replied, Busy
<1>6. CASE what # "plain" /\ notices'[s] = <<n, k>>
  <2>1. n \in Sent(notices'[s]) /\ Settles(n)
    BY <1>2, <1>3, <1>6 DEF Settles
  <2>2. Busy(s)' /\ Head(notices'[s]) = n /\ notices'[s] # <<>>
    BY <1>3, <1>6, <2>1 DEF Busy, Settles
  <2>. QED BY <1>2, <1>6, <2>2 DEF Replied
<1>. QED BY <1>1, <1>4, <1>5, <1>6, Zenon DEF Given

\* A request that is refused, the host's load having failed.
LEMMA RefusalIsTold ==
    ASSUME NEW r, NEW s, r.step # "idle", notices'[s] = <<Told("failed")>>, receivers'[s].next = 0
    PROVE  Replied(r, s)'
<1>1. PICK f : f = Told("failed")
  OBVIOUS
<1>2. f.what = "failed"
  BY <1>1, NoticeTypes
<1>3. <<f>> # <<>> /\ Head(<<f>>) = f /\ Sent(<<f>>) = {f} /\ BlocksIn(<<f>>) = {}
  BY <1>1, SentFew, FewBlocks
<1>4. Settles(f) /\ f \in Sent(notices'[s]) /\ Head(notices'[s]) = f /\ notices'[s] # <<>>
  BY <1>1, <1>2, <1>3 DEF Settles
<1>5. Busy(s)' /\ AfterReload(notices'[s]) /\ ~Coming(s, "reload")'
  BY <1>1, <1>2, <1>3, <1>4, NoBlockYet DEF Busy, Settles, Coming
<1>. QED BY <1>2, <1>4, <1>5 DEF Replied, Reloading

\* A game whose request waits is not in the session: its step is one that waits.
LEMMA AskerWaits ==
    ASSUME JoinInv, hosting, NEW g \in Guests, NEW r, r = game[g], r.slot # 0, AtStep(r), Row(r, r.slot), Asked(r.slot)
    PROVE  r.step # "idle" /\ notices[r.slot] = <<>> /\ Unserved(r.slot)
<1>1. PICK s : s = r.slot
  OBVIOUS
<1>2. s \in Slots /\ peer[s] = g /\ g # Nobody
  BY <1>1, HoldsSlot, GuestsAssumption
<1>3. notices[s] = <<>> /\ Unserved(s)
  BY <1>1 DEF Row, Requests, Asked
<1>4. Seated(s) /\ Sent(notices[s]) = {}
  BY <1>1, <1>2, <1>3, SentFew DEF JoinInv, Seats
<1>5. r.online = FALSE
  BY <1>2, <1>3, <1>4 DEF Seated, Coming, Unserved
<1>. QED BY <1>1, <1>3, <1>5 DEF AtStep, Plainly

\* The invariant read for one game, and put together again.
LEMMA RepliesRead ==
    ASSUME RepliesInv, hosting, NEW g \in Guests, g \notin excused, game[g].slot # 0, game[g].link = "open"
    PROVE  Replied(game[g], game[g].slot)
BY DEF RepliesInv

\* The host's step leaves the games where they are: what is left to see is each waiting game's row.
LEMMA HostReplies ==
    ASSUME JoinInv, WorldInv, RepliesInv, hosting, game' = game, excused \subseteq excused',
           \A g \in Guests : g \notin excused' => \A r : r = game[g] =>
               (/\ r.slot # 0 /\ AtStep(r) /\ Row(r, r.slot) /\ (Asked(r.slot) => r.step # "idle") /\ Replied(r, r.slot)
                => Replied(r, r.slot)')
    PROVE  RepliesInv'
<1>1. ASSUME NEW g \in Guests \ excused', NEW r \in {game'[g]}, r.slot # 0, r.link = "open" PROVE Replied(r, r.slot)'
  <2>1. r = game[g] /\ g \notin excused
    BY <1>1
  <2>2. AtStep(r) /\ Row(r, r.slot) /\ Replied(r, r.slot)
    BY <1>1, <2>1, WorldRead, RepliesRead
  <2>3. Asked(r.slot) => r.step # "idle"
    BY <1>1, <2>1, <2>2, AskerWaits
  <2>. QED BY <1>1, <2>1, <2>2, <2>3
<1>. QED BY <1>1 DEF RepliesInv

\* A step that concerns one slot.
LEMMA SlotReplies ==
    ASSUME JoinInv, WorldInv, RepliesInv, hosting, game' = game, excused' = excused,
           NEW s \in Slots, \A t \in Slots : t # s => SlotSame(t),
           \A r : Row(r, s) /\ (Asked(s) => r.step # "idle") /\ Replied(r, s) => Replied(r, s)'
    PROVE  RepliesInv'
<1>1. ASSUME NEW g \in Guests, NEW r, r = game[g], r.slot # 0, AtStep(r), Row(r, r.slot), Asked(r.slot) => r.step # "idle",
             Replied(r, r.slot)
      PROVE  Replied(r, r.slot)'
  <2>1. CASE r.slot = s
    <3>1. Replied(r, s)'
      BY <1>1, <2>1
    <3>. QED BY <2>1, <3>1
  <2>2. CASE r.slot # s
    <3>1. r.slot \in Slots
      BY <1>1, HoldsSlot
    <3>. QED BY <1>1, <2>2, <3>1, ReplySame
  <2>. QED BY <2>1, <2>2
<1>. QED BY <1>1, HostReplies

\* The host's step leaves every game its connection, or tells it that it ends.
LEMMA HostReaches ==
    ASSUME JoinInv, ReachedInv, hosting, game' = game,
           \A s \in Slots : peer[s] # Nobody /\ game[peer[s]].slot = s =>
               /\ Sent(notices[s]) \subseteq Sent(notices'[s])
               /\ s \in alive => s \in alive' \/ Coming(s, "kicked")'
    PROVE  ReachedInv'
<1>1. ASSUME NEW g \in Guests, game[g].slot # 0 PROVE Reached(game[g].slot)'
  <2>1. PICK s : s = game[g].slot
    OBVIOUS
  <2>2. s \in Slots /\ peer[s] = g /\ g # Nobody
    BY <1>1, <2>1, HoldsSlot, GuestsAssumption
  <2>3. Reached(s)
    BY <1>1, <2>1 DEF ReachedInv
  <2>4. Reached(s)'
    BY <2>1, <2>2, <2>3 DEF Reached, Coming
  <2>. QED BY <2>1, <2>4
<1>. QED BY <1>1 DEF ReachedInv

\* A request comes to the front door.
LEMMA HandleAskReplies ==
    ASSUME JoinInv, WorldInv, ReachedInv, RepliesInv, NEW s \in Slots, HandleAsk(s)
    PROVE  ReachedInv' /\ RepliesInv'
<1>1. /\ hosting /\ ask[s] # "none" /\ ask' = [ask EXCEPT ![s] = "none"] /\ game' = game /\ excused' = excused
  BY Zenon DEF HandleAsk, guestsUntouched
<1>2. ListenerOK /\ peer[s] # Nobody
  BY <1>1 DEF JoinInv, Seats, Free
<1>3. ask[s] \in Asks /\ ask'[s] = "none" /\ \A t \in Slots : t # s => ask'[t] = ask[t]
  BY <1>1, <1>2 DEF ListenerOK
<1>4. ASSUME NEW r, Row(r, s)
      PROVE  /\ Asked(s) /\ notices[s] = <<>> /\ Unserved(s) /\ kept[s] = "none" /\ receivers[s].next = 0
             /\ ask[s] = "plain" <=> r.step \in Plainly
  BY <1>1, <1>4 DEF Row, Requests, Asked, Request, Unserved
<1>5. CASE asked /\ read /\ checkpoint = 0
  <2>1. /\ notices' = [notices EXCEPT ![s] = Append(notices[s], Told("failed"))]
        /\ alive' = alive /\ players' = players /\ receivers' = receivers /\ kept' = kept
    BY <1>5, Zenon DEF HandleAsk
  <2>2. notices'[s] = Append(notices[s], Told("failed")) /\ \A t \in Slots : t # s => notices'[t] = notices[t]
    BY <1>2, <2>1 DEF ListenerOK
  <2>3. \A t \in Slots : t # s => SlotSame(t)
    BY <1>3, <2>1, <2>2 DEF SlotSame
  <2>4. \A t \in Slots : Sent(notices[t]) \subseteq Sent(notices'[t])
    <3>1. Told("failed") \in Notices /\ notices[s] \in Seq(Notices)
      BY <1>2, NoticeTypes DEF ListenerOK
    <3>2. Longer(notices[s], notices'[s], {Told("failed")})
      BY <2>2, <3>1, OneLonger
    <3>. QED BY <2>2, <3>2 DEF Longer
  <2>5. ASSUME NEW r, Row(r, s), Asked(s) => r.step # "idle" PROVE Replied(r, s)'
    <3>1. notices[s] = <<>> /\ receivers'[s].next = 0 /\ r.step # "idle"
      BY <1>4, <2>1, <2>5
    <3>2. notices'[s] = <<Told("failed")>>
      BY <2>2, <3>1
    <3>. QED BY <3>1, <3>2, RefusalIsTold
  <2>. QED BY <1>1, <2>1, <2>3, <2>4, <2>5, SlotReplies, HostReaches
<1>6. CASE asked /\ ~(read /\ checkpoint = 0)
  <2>1. /\ kept' = [kept EXCEPT ![s] = ask[s]]
        /\ notices' = notices /\ alive' = alive /\ players' = players /\ receivers' = receivers
    BY <1>6, Zenon DEF HandleAsk
  <2>2. kept'[s] = ask[s] /\ \A t \in Slots : t # s => kept'[t] = kept[t]
    BY <2>1 DEF JoinInv, ListenerOK
  <2>3. \A t \in Slots : t # s => SlotSame(t)
    BY <1>3, <2>1, <2>2 DEF SlotSame
  <2>4. ASSUME NEW r, Replied(r, s) PROVE Replied(r, s)'
    <3>1. Asked(s)' /\ (Busy(s) => Busy(s)') /\ (Reloading(s) => Reloading(s)')
      BY <1>1, <2>1, <2>2 DEF Asked, Busy, Reloading, Coming
    <3>. QED BY <2>1, <2>4, <3>1, ReplyStays
  <2>. QED BY <1>1, <2>1, <2>3, <2>4, SlotReplies, HostReaches
<1>7. CASE ~asked
  <2>1. PICK asks : asks = [NoAsks EXCEPT ![s] = ask[s]]
    OBVIOUS
  <2>2. Answer(asks) /\ kept' = kept
    BY <1>7, <2>1, Zenon DEF HandleAsk
  <2>3. asks \in [Slots -> Asks] /\ asks[s] = ask[s] /\ \A t \in Slots : t # s => asks[t] = "none"
    BY <1>3, <2>1 DEF NoAsks, Asks
  <2>4. /\ \A t \in Slots : t # s => notices'[t] = notices[t] /\ receivers'[t] = receivers[t] /\ (t \in players' <=> t \in players)
        /\ notices[s] = <<>> /\ Unserved(s) => Given(s, ask[s])
    BY <1>1, <2>2, <2>3, AnswerRows
  <2>5. \A t \in Slots : t # s => SlotSame(t)
    BY <1>3, <2>2, <2>4 DEF SlotSame
  <2>6. /\ \A t \in Slots : Served(t)
        /\ \A t \in alive : t \in alive' \/ Coming(t, "kicked")'
    BY <1>1, <1>2, <2>2, <2>3, AnswerServes
  <2>7. \A t \in Slots : Sent(notices[t]) \subseteq Sent(notices'[t])
    BY <2>6 DEF Served, Sends
  <2>8. ASSUME NEW r, Row(r, s), Asked(s) => r.step # "idle" PROVE Replied(r, s)'
    BY <1>4, <2>4, <2>8, AnswerIsTold
  <2>. QED BY <1>1, <2>5, <2>6, <2>7, <2>8, SlotReplies, HostReaches
<1>. QED BY <1>5, <1>6, <1>7

\* A block goes, or the slot is dropped.
LEMMA SendBlockReplies ==
    ASSUME JoinInv, WorldInv, ReachedInv, RepliesInv, NEW s \in Slots, SendBlock(s)
    PROVE  ReachedInv' /\ RepliesInv'
<1>1. PICK r, world : r = receivers[s] /\ world = IF receivers[s].of = 0 THEN hostWorld ELSE receivers[s].of
  OBVIOUS
<1>2. /\ hosting /\ game' = game /\ excused' = excused /\ ask' = ask /\ kept' = kept /\ s \in Wanting
  BY Zenon DEF SendBlock, guestsUntouched
<1>3. ListenerOK /\ r.of \in Worlds /\ r.next \in 1 .. Blocks /\ world \in Worlds /\ notices[s] \in Seq(Notices)
  BY <1>1, <1>2 DEF JoinInv, ListenerOK, ReloadOK, Wanting
<1>4. receivers[s].next # 0 /\ ~Unserved(s)
  BY <1>2 DEF Wanting, Unserved
<1>5. ASSUME NEW q, Row(q, s) PROVE ~Asked(s)
  BY <1>4, <1>5 DEF Row, Requests, Asked
<1>6. CASE /\ notices' = [notices EXCEPT ![s] = Append(@, Block(world, r.next))]
           /\ receivers' = [receivers EXCEPT ![s] = IF r.next = Blocks THEN NotWanting
                                                    ELSE [of |-> world, next |-> r.next + 1]]
           /\ alive' = alive /\ players' = players
  <2>1. PICK m : m = Block(world, r.next)
    OBVIOUS
  <2>2. m \in Notices /\ m.what = "block" /\ m.block = r.next
    BY <1>3, <2>1, NoticeTypes DEF Block
  <2>3. notices'[s] = Append(notices[s], m) /\ \A t \in Slots : t # s => notices'[t] = notices[t]
    BY <1>3, <1>6, <2>1 DEF ListenerOK
  <2>4. Longer(notices[s], notices'[s], {m})
    BY <1>3, <2>2, <2>3, OneLonger
  <2>5. /\ \A t \in Slots : t # s => receivers'[t] = receivers[t]
        /\ r.next # Blocks => receivers'[s].next # 0
    BY <1>3, <1>6 DEF ListenerOK
  <2>6. \A t \in Slots : t # s => SlotSame(t)
    BY <1>2, <1>6, <2>3, <2>5 DEF SlotSame
  <2>7. Busy(s)'
    BY <2>2, <2>4, <2>5 DEF Busy, Settles, Longer
  <2>8. Reloading(s) => Reloading(s)'
    BY <1>4, <2>2, <2>4, <2>7 DEF Reloading, Coming, Longer
  <2>9. ASSUME NEW q, Row(q, s), Replied(q, s) PROVE Replied(q, s)'
    BY <1>5, <2>4, <2>7, <2>8, <2>9, ReplyStays DEF Longer
  <2>10. \A t \in Slots : Sent(notices[t]) \subseteq Sent(notices'[t])
    BY <2>3, <2>4 DEF Longer
  <2>. QED BY <1>2, <1>6, <2>6, <2>9, <2>10, SlotReplies, HostReaches
<1>7. CASE notices' = [notices EXCEPT ![s] = @ \o <<Told("failed"), Told("kicked")>>] /\ Drop(s)
  <2>1. PICK d, e : d = Told("failed") /\ e = Told("kicked")
    OBVIOUS
  <2>2. d \in Notices /\ d.what = "failed" /\ e \in Notices /\ e.what = "kicked"
    BY <2>1, NoticeTypes
  <2>3. notices'[s] = notices[s] \o <<d, e>> /\ \A t \in Slots : t # s => notices'[t] = notices[t]
    BY <1>3, <1>7, <2>1 DEF ListenerOK
  <2>4. Longer(notices[s], notices'[s], {d, e})
    BY <1>3, <2>2, <2>3, TwoLonger
  <2>5. /\ receivers'[s].next = 0 /\ \A t \in Slots : t # s => receivers'[t] = receivers[t]
        /\ \A t \in Slots : t # s => (t \in alive' <=> t \in alive) /\ (t \in players' <=> t \in players)
    BY <1>3, <1>7, DropRows
  <2>6. \A t \in Slots : t # s => SlotSame(t)
    BY <1>2, <2>3, <2>5 DEF SlotSame
  <2>7. Settles(d)
    BY <2>2 DEF Settles
  <2>8. ASSUME NEW q, Replied(q, s) PROVE Replied(q, s)'
    BY <1>2, <2>2, <2>4, <2>5, <2>7, <2>8, EndIsTold
  <2>9. \A t \in Slots : Sent(notices[t]) \subseteq Sent(notices'[t])
    BY <2>3, <2>4 DEF Longer
  <2>10. Coming(s, "kicked")'
    BY <2>2, <2>4 DEF Coming, Longer
  <2>. QED BY <1>2, <2>5, <2>6, <2>8, <2>9, <2>10, SlotReplies, HostReaches
<1>. QED BY <1>1, <1>6, <1>7, Zenon DEF SendBlock

\* A connection that has ended is nobody's.
LEMMA HostHearsReplies ==
    ASSUME JoinInv, WorldInv, ReachedInv, RepliesInv, NEW s \in Slots, HostHears(s)
    PROVE  ReachedInv' /\ RepliesInv'
<1>1. /\ hosting /\ peer[s] # Nobody /\ game[peer[s]].slot # s /\ ask' = [ask EXCEPT ![s] = "none"]
      /\ notices' = [notices EXCEPT ![s] = <<>>] /\ Drop(s) /\ game' = game /\ kept' = kept /\ excused' = excused
  BY Zenon DEF HostHears
<1>2. ListenerOK
  BY DEF JoinInv
<1>3. \A t \in Slots : t # s => ask'[t] = ask[t] /\ notices'[t] = notices[t]
  BY <1>1, <1>2 DEF ListenerOK
<1>4. /\ \A t \in Slots : t # s => receivers'[t] = receivers[t]
      /\ \A t \in Slots : t # s => (t \in alive' <=> t \in alive) /\ (t \in players' <=> t \in players)
  BY <1>1, <1>2, DropRows
<1>5. \A t \in Slots : t # s => SlotSame(t)
  BY <1>1, <1>3, <1>4 DEF SlotSame
<1>6. ReachedInv'
  BY <1>1, <1>3, <1>4, HostReaches
<1>7. ASSUME NEW g \in Guests, NEW r, r = game[g], r.slot # 0, Replied(r, r.slot) PROVE Replied(r, r.slot)'
  <2>1. r.slot \in Slots /\ r.slot # s
    BY <1>1, <1>7, HoldsSlot
  <2>. QED BY <1>5, <1>7, <2>1, ReplySame
<1>8. RepliesInv'
  BY <1>1, <1>7, HostReplies
<1>. QED BY <1>6, <1>8

\* Whoever is kicked hears so.
LEMMA HostKicksReplies ==
    ASSUME JoinInv, WorldInv, ReachedInv, RepliesInv, NEW s \in Slots, HostKicks(s)
    PROVE  ReachedInv' /\ RepliesInv'
<1>1. /\ hosting /\ s \in players /\ notices' = [notices EXCEPT ![s] = Append(@, Told("kicked"))] /\ Drop(s)
      /\ game' = game /\ excused' = excused /\ ask' = ask /\ kept' = kept
  BY Zenon DEF HostKicks, guestsUntouched
<1>2. ListenerOK /\ notices[s] \in Seq(Notices)
  BY DEF JoinInv, ListenerOK
<1>3. PICK m : m = Told("kicked")
  OBVIOUS
<1>4. m \in Notices /\ m.what = "kicked" /\ Settles(m)
  BY <1>3, NoticeTypes DEF Settles
<1>5. notices'[s] = Append(notices[s], m) /\ \A t \in Slots : t # s => notices'[t] = notices[t]
  BY <1>1, <1>2, <1>3 DEF ListenerOK
<1>6. Longer(notices[s], notices'[s], {m})
  BY <1>2, <1>4, <1>5, OneLonger
<1>7. /\ receivers'[s].next = 0 /\ \A t \in Slots : t # s => receivers'[t] = receivers[t]
      /\ \A t \in Slots : t # s => (t \in alive' <=> t \in alive) /\ (t \in players' <=> t \in players)
  BY <1>1, <1>2, DropRows
<1>8. \A t \in Slots : t # s => SlotSame(t)
  BY <1>1, <1>5, <1>7 DEF SlotSame
<1>9. ASSUME NEW q, Replied(q, s) PROVE Replied(q, s)'
  <2>1. (\E n \in {m} : Settles(n)) /\ (\A n \in {m} : n.what # "block")
    BY <1>4
  <2>2. ask'[s] = ask[s] /\ kept'[s] = kept[s] /\ receivers'[s].next = 0
    BY <1>1, <1>7
  <2>. QED BY <1>6, <1>9, <2>1, <2>2, EndIsTold
<1>10. (\A t \in Slots : Sent(notices[t]) \subseteq Sent(notices'[t])) /\ Coming(s, "kicked")'
  BY <1>4, <1>5, <1>6 DEF Longer, Coming
<1>. QED BY <1>1, <1>7, <1>8, <1>9, <1>10, SlotReplies, HostReaches

\* A load that is asked for says nothing to anyone yet.
LEMMA AskForLoadReplies ==
    ASSUME JoinInv, WorldInv, ReachedInv, RepliesInv, LoadSave \/ Wipe
    PROVE  ReachedInv' /\ RepliesInv'
<1>1. /\ hosting /\ game' = game /\ alive' = alive /\ ask' = ask /\ notices' = notices /\ players' = players
      /\ receivers' = receivers /\ kept' = kept /\ excused' = excused
  BY Zenon DEF LoadSave, Wipe, guestsUntouched
<1>2. \A s : SlotSame(s)
  BY <1>1 DEF SlotSame
<1>. QED BY <1>1, <1>2, ReplySame, HostReplies, HostReaches

\* The reload is told to all that play or are sent a save, and the save follows.
LEMMA SendCheckpointReplies ==
    ASSUME JoinInv, WorldInv, ReachedInv, RepliesInv, SendCheckpoint
    PROVE  ReachedInv' /\ RepliesInv'
<1>1. /\ hosting /\ game' = game /\ alive' = alive /\ ask' = ask /\ players' = players /\ kept' = kept
  BY Zenon DEF SendCheckpoint, guestsUntouched
<1>2. ListenerOK
  BY DEF JoinInv
<1>3. CASE /\ excused \subseteq excused' /\ notices' = notices /\ receivers' = receivers
  <2>1. \A s : SlotSame(s)
    BY <1>1, <1>3 DEF SlotSame
  <2>. QED BY <1>1, <1>3, <2>1, ReplySame, HostReplies, HostReaches
<1>4. CASE /\ excused \subseteq excused'
           /\ notices' = [s \in Slots |-> IF s \in CheckpointTo THEN Append(notices[s], Told("reload")) ELSE notices[s]]
           /\ receivers' = [s \in Slots |-> IF s \in CheckpointTo THEN [of |-> checkpoint', next |-> 1] ELSE receivers[s]]
  <2>1. PICK m : m = Told("reload")
    OBVIOUS
  <2>2. m \in Notices /\ m.what = "reload"
    BY <2>1, NoticeTypes
  <2>3. ASSUME NEW s \in Slots, s \notin CheckpointTo PROVE SlotSame(s)
    BY <1>1, <1>4, <2>3 DEF SlotSame
  <2>4. ASSUME NEW s \in Slots, s \in CheckpointTo PROVE Longer(notices[s], notices'[s], {m}) /\ receivers'[s].next = 1
    <3>1. notices'[s] = Append(notices[s], m) /\ receivers'[s].next = 1 /\ notices[s] \in Seq(Notices)
      BY <1>2, <1>4, <2>1, <2>4 DEF ListenerOK
    <3>. QED BY <2>2, <3>1, OneLonger
  <2>5. ASSUME NEW s \in Slots, NEW r, Replied(r, s) PROVE Replied(r, s)'
    <3>1. CASE s \in CheckpointTo
      <4>1. Longer(notices[s], notices'[s], {m}) /\ Busy(s)'
        BY <2>4, <3>1 DEF Busy
      <4>2. (Asked(s) => Asked(s)') /\ (Reloading(s) => Reloading(s)')
        BY <1>1, <2>2, <4>1 DEF Asked, Reloading, Coming, Longer
      <4>. QED BY <2>5, <4>1, <4>2, ReplyStays DEF Longer
    <3>2. CASE s \notin CheckpointTo
      BY <2>3, <2>5, <3>2, ReplySame
    <3>. QED BY <3>1, <3>2
  <2>6. \A s \in Slots : Sent(notices[s]) \subseteq Sent(notices'[s])
    BY <2>3, <2>4 DEF Longer, SlotSame
  <2>7. ASSUME NEW g \in Guests, game[g].slot # 0 PROVE game[g].slot \in Slots
    BY <1>1, <2>7, HoldsSlot
  <2>. QED BY <1>1, <1>4, <2>5, <2>6, <2>7, HostReplies, HostReaches
<1>. QED BY <1>3, <1>4, Zenon DEF SendCheckpoint

\* A load that begins, or fails: who asked meanwhile and is still there hears so.
LEMMA LoadReplies ==
    ASSUME JoinInv, WorldInv, ReachedInv, RepliesInv, StartLoad \/ HostLoadFails
    PROVE  ReachedInv' /\ RepliesInv'
<1>1. /\ hosting /\ game' = game /\ alive' = alive /\ ask' = ask /\ players' = players /\ receivers' = receivers
      /\ excused' = excused
  BY Zenon DEF StartLoad, HostLoadFails, guestsUntouched
<1>2. ListenerOK
  BY DEF JoinInv
<1>3. CASE notices' = notices /\ kept' = kept
  <2>1. \A s : SlotSame(s)
    BY <1>1, <1>3 DEF SlotSame
  <2>. QED BY <1>1, <1>3, <2>1, ReplySame, HostReplies, HostReaches
<1>4. CASE FailedLoad
  <2>1. PICK m : m = Told("failed")
    OBVIOUS
  <2>2. m \in Notices
    BY <2>1, NoticeTypes
  <2>3. /\ notices' = [s \in Slots |-> IF kept[s] # "none" /\ s \in alive THEN Append(notices[s], m) ELSE notices[s]]
        /\ kept' = NoAsks
    BY <1>4, <2>1, Zenon DEF FailedLoad
  <2>4. ASSUME NEW s \in Slots PROVE Sent(notices[s]) \subseteq Sent(notices'[s])
    <3>1. notices'[s] = notices[s] \/ notices'[s] = Append(notices[s], m)
      BY <2>3
    <3>2. Longer(notices[s], Append(notices[s], m), {m})
      BY <1>2, <2>2, OneLonger DEF ListenerOK
    <3>. QED BY <3>1, <3>2 DEF Longer
  <2>5. ASSUME NEW g \in Guests, NEW r, r = game[g], r.slot # 0, Row(r, r.slot), Asked(r.slot) => r.step # "idle",
               Replied(r, r.slot)
        PROVE  Replied(r, r.slot)'
    <3>1. PICK s : s = r.slot
      OBVIOUS
    <3>2. s \in Slots /\ Reached(s)
      BY <1>1, <2>5, <3>1, HoldsSlot DEF ReachedInv
    <3>3. CASE kept[s] = "none"
      <4>1. SlotSame(s)
        BY <1>1, <2>3, <3>2, <3>3 DEF SlotSame, NoAsks
      <4>. QED BY <2>5, <3>1, <4>1, ReplySame
    <3>4. CASE kept[s] # "none"
      <4>1. notices[s] = <<>> /\ Unserved(s) /\ r.step # "idle"
        BY <2>5, <3>1, <3>4 DEF Row, Requests, Asked
      <4>2. s \in alive
        BY <3>2, <4>1, SentFew DEF Reached, Coming
      <4>3. notices'[s] = Append(<<>>, m)
        BY <2>3, <3>2, <3>4, <4>1, <4>2
      <4>4. notices'[s] = <<Told("failed")>> /\ receivers'[s].next = 0
        BY <1>1, <2>1, <4>1, <4>3 DEF Unserved
      <4>. QED BY <3>1, <4>1, <4>4, RefusalIsTold
    <3>. QED BY <3>3, <3>4
  <2>. QED BY <1>1, <2>4, <2>5, HostReplies, HostReaches
<1>. QED BY <1>3, <1>4, Zenon DEF StartLoad, HostLoadFails

\* The host has loaded: who asked meanwhile and is still there is answered.
LEMMA HostLoadedReplies ==
    ASSUME JoinInv, WorldInv, ReachedInv, RepliesInv, HostLoaded
    PROVE  ReachedInv' /\ RepliesInv'
<1>1. PICK asks : asks = [s \in Slots |-> IF s \in alive THEN kept[s] ELSE "none"]
  OBVIOUS
<1>2. /\ hosting /\ Answer(asks) /\ kept' = NoAsks /\ game' = game /\ ask' = ask /\ excused' = excused
  BY <1>1, Zenon DEF HostLoaded, guestsUntouched
<1>3. asks \in [Slots -> Asks]
  BY <1>1 DEF JoinInv, ListenerOK, Asks
<1>4. \A s \in Slots :
               /\ asks[s] = "none" => /\ notices'[s] = notices[s] /\ receivers'[s] = receivers[s]
                                      /\ s \in players' <=> s \in players
               /\ asks[s] # "none" /\ notices[s] = <<>> /\ Unserved(s) => Given(s, asks[s])
  BY <1>2, <1>3, AnswerRows
<1>5. \A s \in Slots : asks[s] # "none" => peer[s] # Nobody
  BY <1>1 DEF JoinInv, Seats, Free
<1>6. (\A s \in Slots : Served(s)) /\ \A s \in alive : s \in alive' \/ Coming(s, "kicked")'
  BY <1>2, <1>3, <1>5, AnswerServes
<1>7. \A s \in Slots : Sent(notices[s]) \subseteq Sent(notices'[s])
  BY <1>6 DEF Served, Sends
<1>8. ReachedInv'
  BY <1>2, <1>6, <1>7, HostReaches
<1>9. ASSUME NEW g \in Guests, NEW r, r = game[g], r.slot # 0, Row(r, r.slot), Asked(r.slot) => r.step # "idle",
             Replied(r, r.slot)
      PROVE  Replied(r, r.slot)'
  <2>1. PICK s : s = r.slot
    OBVIOUS
  <2>2. s \in Slots /\ Reached(s)
    BY <1>2, <1>9, <2>1, HoldsSlot DEF ReachedInv
  <2>3. CASE kept[s] = "none"
    <3>1. asks[s] = "none" /\ kept'[s] = "none"
      BY <1>1, <1>2, <2>2, <2>3 DEF NoAsks
    <3>2. SlotSame(s)
      BY <1>2, <1>4, <2>2, <2>3, <3>1 DEF SlotSame
    <3>. QED BY <1>9, <2>1, <3>2, ReplySame
  <2>4. CASE kept[s] # "none"
    <3>1. notices[s] = <<>> /\ Unserved(s) /\ r.step # "idle" /\ (kept[s] = "plain" <=> r.step \in Plainly)
      BY <1>9, <2>1, <2>4 DEF Row, Requests, Asked, Request
    <3>2. s \in alive
      BY <2>2, <3>1, SentFew DEF Reached, Coming
    <3>3. asks[s] = kept[s]
      BY <1>1, <2>2, <3>2
    <3>4. Given(s, kept[s])
      BY <1>4, <2>2, <2>4, <3>1, <3>3
    <3>. QED BY <2>1, <3>1, <3>4, AnswerIsTold
  <2>. QED BY <2>3, <2>4
<1>10. RepliesInv'
  BY <1>2, <1>9, HostReplies
<1>. QED BY <1>8, <1>10

\* The host ends the session: every game hears so or has lost its slot.
LEMMA HostEndsReplies ==
    ASSUME JoinInv, ReachedInv, HostEnds
    PROVE  ReachedInv' /\ RepliesInv'
<1>1. hosting /\ hosting' = FALSE
  BY Zenon DEF HostEnds
<1>2. RepliesInv'
  BY <1>1 DEF RepliesInv
<1>3. CASE notices' = [s \in Slots |-> IF s \in alive THEN <<Told("hostLeft")>> ELSE notices[s]] /\ game' = game
  <2>1. PICK m : m = Told("hostLeft")
    OBVIOUS
  <2>2. m.what = "hostLeft" /\ Sent(<<m>>) = {m}
    BY <2>1, NoticeTypes, SentFew
  <2>3. ASSUME NEW g \in Guests, game[g].slot # 0 PROVE Reached(game[g].slot)'
    <3>1. PICK s : s = game[g].slot
      OBVIOUS
    <3>2. s \in Slots /\ Reached(s)
      BY <1>1, <2>3, <3>1, HoldsSlot DEF ReachedInv
    <3>3. Reached(s)'
      <4>1. CASE s \in alive
        <5>1. notices'[s] = <<m>>
          BY <1>3, <2>1, <3>2, <4>1
        <5>. QED BY <2>2, <5>1 DEF Reached, Coming
      <4>2. CASE s \notin alive
        BY <1>3, <3>2, <4>2 DEF Reached, Coming
      <4>. QED BY <4>1, <4>2
    <3>. QED BY <1>3, <3>1, <3>3
  <2>. QED BY <1>2, <1>3, <2>3 DEF ReachedInv
<1>4. CASE game' = [g \in Guests |-> [game[g] EXCEPT !.slot = 0]]
  <2>1. ASSUME NEW g \in Guests PROVE game'[g].slot = 0
    <3>1. game[g] \in Games
      BY DEF JoinInv, GamesOK
    <3>2. game'[g] = [game[g] EXCEPT !.slot = 0]
      BY <1>4
    <3>. QED BY <3>1, <3>2 DEF Games
  <2>. QED BY <1>2, <2>1 DEF ReachedInv
<1>. QED BY <1>3, <1>4, Zenon DEF HostEnds

\* A game that keeps its slot or leaves it, while the host does nothing, keeps its connection.
LEMMA GameReaches ==
    ASSUME GamesOK, ReachedInv, NEW g \in Guests, NEW q, Becomes(g, q), q.slot \in {0, game[g].slot},
           hostUntouched' = hostUntouched
    PROVE  ReachedInv'
<1>1. alive' = alive /\ notices' = notices
  BY Zenon DEF hostUntouched
<1>2. game'[g] = q /\ \A h \in Guests : h # g => game'[h] = game[h]
  BY DEF Becomes, GamesOK
<1>3. \A h \in Guests : game'[h].slot \in {0, game[h].slot}
  BY <1>2
<1>4. \A s : Reached(s) => Reached(s)'
  BY <1>1 DEF Reached, Coming
<1>. QED BY <1>3, <1>4 DEF ReachedInv

\* Whatever a game does by itself but for taking its slot and reading: it waits for nobody's answer then.
LEMMA GameReplies ==
    ASSUME JoinInv, WorldInv, ReachedInv, RepliesInv, NEW g \in Guests, GuestStep(g), ~Dial(g), ~Read(g)
    PROVE  ReachedInv' /\ RepliesInv'
<1>1. PICK p : Becomes(g, p) /\ Keeps(game[g], p)
  BY GameKeepsSlot
<1>2. PICK q : Onward(g, q)
  BY GameGoesOn
<1>3. GamesOK /\ hostUntouched' = hostUntouched
  BY GameKeepsSlot DEF JoinInv
<1>4. ReachedInv'
  BY <1>1, <1>3, GameReaches DEF Keeps
<1>5. (hosting' <=> hosting) /\ \A s : SlotSame(s)
  BY <1>3, HostSame
<1>6. game'[g] = q /\ (\A h \in Guests : h # g => game'[h] = game[h] /\ (h \in excused' <=> h \in excused))
  BY <1>2, <1>3 DEF Onward, Becomes, GamesOK
<1>7. ASSUME hosting', NEW h \in Guests \ excused', NEW r \in {game'[h]}, r.slot # 0, r.link = "open"
      PROVE  Replied(r, r.slot)'
  <2>1. h # g
    BY <1>2, <1>5, <1>6, <1>7 DEF Onward
  <2>2. h \notin excused /\ r = game[h] /\ hosting
    BY <1>5, <1>6, <1>7, <2>1
  <2>3. Replied(r, r.slot)
    BY <1>7, <2>2, RepliesRead
  <2>. QED BY <1>5, <2>3, ReplySame
<1>8. RepliesInv'
  BY <1>7 DEF RepliesInv
<1>. QED BY <1>4, <1>8

\* A game that gets a slot asks at once.
LEMMA DialReplies ==
    ASSUME JoinInv, WorldInv, ReachedInv, RepliesInv, NEW g \in Guests, Dial(g)
    PROVE  ReachedInv' /\ RepliesInv'
<1>1. PICK r, s : /\ r = game[g]
                  /\ s = CHOOSE t \in Slots : peer[t] = Nobody /\ \A u \in Slots : peer[u] = Nobody => t <= u
  OBVIOUS
<1>2. s \in Slots /\ peer[s] = Nobody /\ s # 0
  <2>1. \E t \in Slots : peer[t] = Nobody
    BY DEF Dial
  <2>. QED BY <1>1, <2>1, FirstFree
<1>3. PICK q : q = [r EXCEPT !.link = "open", !.slot = s, !.step = IF @ = "connecting" THEN "checking" ELSE @]
  OBVIOUS
<1>4. /\ hosting /\ Becomes(g, q) /\ ask' = [ask EXCEPT ![s] = AskOf(r)] /\ alive' = alive \cup {s}
      /\ excused' \in {excused, excused \cup {g}}
      /\ notices' = notices /\ players' = players /\ receivers' = receivers /\ kept' = kept
  BY <1>1, <1>3, Zenon DEF Dial
<1>5. game'[g] = q /\ \A h \in Guests : h # g => game'[h] = game[h]
  BY <1>4 DEF JoinInv, GamesOK, Becomes
<1>6. q.slot = s
  <2>1. PICK a, st : a = [r EXCEPT !.link = "open"] /\ st = IF r.step = "connecting" THEN "checking" ELSE r.step
    OBVIOUS
  <2>2. PICK b : b = [a EXCEPT !.slot = s]
    OBVIOUS
  <2>3. r \in Games
    BY <1>1 DEF JoinInv, GamesOK
  <2>4. a \in Games /\ a.step = r.step
    BY <2>1, <2>3, Changed, OthersSame DEF Is
  <2>5. b \in Games /\ b.slot = s /\ b.step = r.step
    <3>1. b \in Games
      BY <1>2, <2>2, <2>4 DEF Games
    <3>. QED BY <2>2, <2>4, <3>1, OthersSame DEF Is
  <2>6. q = [b EXCEPT !.step = st]
    <3>1. q = [b EXCEPT !.step = IF b.step = "connecting" THEN "checking" ELSE b.step]
      BY <1>3, <2>1, <2>2, Zenon
    <3>. QED BY <2>1, <2>5, <3>1, Zenon
  <2>. QED BY <2>5, <2>6, OthersSame DEF Is
<1>7. \A h \in Guests : h # g /\ game[h].slot # 0 => game[h].slot \in Slots /\ game[h].slot # s
  BY <1>2, <1>4, HoldsSlot, GuestsAssumption
<1>8. ReachedInv'
  <2>1. \A t : Reached(t) => Reached(t)'
    BY <1>4 DEF Reached, Coming
  <2>2. Reached(s)'
    BY <1>4 DEF Reached
  <2>. QED BY <1>2, <1>5, <1>6, <1>7, <2>1, <2>2 DEF ReachedInv
<1>9. Replied(q, s)'
  <2>1. ask'[s] = AskOf(r) /\ AskOf(r) # "none"
    <3>1. AskOf(r) # "none"
      BY SMT DEF AskOf
    <3>. QED BY <1>2, <1>4, <3>1 DEF JoinInv, ListenerOK
  <2>2. Sent(notices'[s]) = {} /\ receivers'[s].next = 0
    BY <1>2, <1>4 DEF JoinInv, Seats, Free
  <2>3. AfterReload(notices'[s])
    BY <2>2, NoBlockYet DEF BlocksIn
  <2>. QED BY <2>1, <2>2, <2>3 DEF Replied, Asked, Reloading, Coming
<1>10. \A t \in Slots : t # s => SlotSame(t)
  BY <1>2, <1>4 DEF SlotSame, JoinInv, ListenerOK
<1>11. ASSUME NEW h \in Guests \ excused', NEW p \in {game'[h]}, p.slot # 0, p.link = "open" PROVE Replied(p, p.slot)'
  <2>1. CASE h = g
    BY <1>5, <1>6, <1>9, <1>11, <2>1
  <2>2. CASE h # g
    <3>1. h \notin excused /\ p = game[h]
      BY <1>4, <1>5, <1>11, <2>2
    <3>2. Replied(p, p.slot)
      BY <1>4, <1>11, <3>1, RepliesRead
    <3>. QED BY <1>7, <1>10, <1>11, <2>2, <3>1, <3>2, ReplySame
  <2>. QED BY <2>1, <2>2
<1>12. RepliesInv'
  BY <1>11 DEF RepliesInv
<1>. QED BY <1>8, <1>12

\* What is still there for a game that has read a notice which does not end its wait.
LEMMA StillComes ==
    ASSUME NEW s, notices[s] \in Seq(Notices), notices[s] # <<>>, notices'[s] = Tail(notices[s]),
           receivers'[s] = receivers[s], ~Settles(Head(notices[s]))
    PROVE  /\ Busy(s) => Busy(s)'
           /\ Reloading(s) /\ Head(notices[s]).what # "reload" => Reloading(s)'
<1>1. PICK n, u, m : n = notices[s] /\ u = Tail(n) /\ m = Head(n)
  OBVIOUS
<1>2. Sent(u) \subseteq Sent(n) /\ Sent(n) \subseteq Sent(u) \cup {m}
  BY <1>1, SentRead
<1>3. Busy(s) => Busy(s)'
  BY <1>1, <1>2 DEF Busy, Settles
<1>4. ASSUME Reloading(s), m.what # "reload" PROVE Reloading(s)'
  <2>1. AfterReload(u)
    BY <1>1, <1>4, AfterReloadRead DEF Reloading
  <2>2. Coming(s, "reload")' <=> Coming(s, "reload")
    BY <1>1, <1>2, <1>4 DEF Coming
  <2>. QED BY <1>1, <1>3, <1>4, <2>1, <2>2 DEF Reloading
<1>. QED BY <1>1, <1>3, <1>4

\* What a game that waits on an open connection has read leaves something to come, unless it ends the wait.
LEMMA ReadLeaves ==
    ASSUME NEW r, NEW s, NEW q, NEW m, NEW written \in BOOLEAN, Shape(r), r.slot = s, s # 0, q = Heard(r, m, written),
           AtStep(r), Row(r, s), Replied(r, s), notices[s] \in Seq(Notices), notices[s] # <<>>, m = Head(notices[s]),
           m \in Notices, notices'[s] = Tail(notices[s]), receivers'[s] = receivers[s], q.slot # 0, q.link = "open"
    PROVE  Replied(q, s)'
<1>1. ~Asked(s)
  BY DEF Row, Requests, Asked
<1>2. r \in Games /\ r.link \in {"open", "refused"}
  BY DEF Shape, Sound, Wired, Games
<1>3. r.step \in {"joining", "reconnecting", "checking", "receiving", "idle"}
  BY DEF AtStep, Plainly
<1>4. /\ r.step \in {"checking", "receiving"} => Busy(s)
      /\ r.step = "checking" => m.what \in {"follows", "failed", "noCharacter"}
      /\ r.step \in {"joining", "reconnecting", "idle"} => Reloading(s)
  BY <1>1 DEF Replied, Plainly
<1>5. /\ ~Settles(m) /\ Busy(s) => Busy(s)'
      /\ ~Settles(m) /\ Reloading(s) /\ m.what # "reload" => Reloading(s)'
  BY StillComes
<1>6. Reloading(s) => m.what # "block"
  BY AfterReloadRead DEF Reloading
<1>7. Fail(r).slot = 0
  BY <1>2, FailIs
<1>8. CASE m.what \in {"kicked", "hostLeft"}
  <2>1. q = Disconnected(r, m.what)
    BY <1>8, Zenon DEF Heard
  <2>. QED BY <2>1, DisconnectedIs
<1>9. ASSUME q.step = "receiving", Busy(s)' PROVE Replied(q, s)'
  BY <1>9 DEF Replied, Plainly
<1>10. CASE m.what = "reload"
  <2>1. q = PartyReload(r)
    BY <1>10 DEF Heard
  <2>2. q.step = "receiving" /\ ~Settles(m)
    BY <1>2, <1>10, <2>1, PartyReloadIs DEF Is, Settles
  <2>3. Coming(s, "reload")
    BY <1>10, SentRead DEF Coming
  <2>4. Busy(s)
    BY <1>3, <1>4, <2>3 DEF Reloading
  <2>. QED BY <1>5, <1>9, <2>2, <2>4
<1>11. CASE m.what = "block"
  <2>1. q = SaveChunk(r, m, written)
    BY <1>11 DEF Heard
  <2>2. TakesBlock(r, m, q)
    BY <2>1, SaveChunkIs
  <2>3. r.step = "receiving"
    BY <1>3, <1>4, <1>6, <1>11
  <2>4. Is(q, "receiving", r.link, r.slot, r.world) /\ m.block < Blocks
    BY <1>7, <2>2, <2>3 DEF TakesBlock
  <2>5. ~Settles(m) /\ q.step = "receiving"
    BY <1>11, <2>4, BoundsAssumption DEF Settles, Is
  <2>. QED BY <1>4, <1>5, <1>9, <2>3, <2>5
<1>12. CASE m.what \notin {"kicked", "hostLeft", "reload", "block"}
  <2>1. q = Authentication(r, m.what)
    BY <1>12 DEF Heard
  <2>2. TakesAnswer(r, m.what, q)
    BY <2>1, AuthenticationIs
  <2>3. CASE q = r /\ r.step \notin {"checking", "receiving", "joining"} /\ m.what = "follows"
    <3>1. r.step # "reconnecting"
      <4>1. ASSUME r.step = "reconnecting" PROVE m.what \in {"accepted", "failed"}
        <5>1. notices[s] = <<Told("failed")>> \/ m.what = "accepted"
          BY <4>1 DEF Row, Hears, Plainly
        <5>2. Told("failed").what = "failed" /\ Head(<<Told("failed")>>) = Told("failed")
          BY NoticeTypes
        <5>. QED BY <5>1, <5>2
      <4>. QED BY <2>3, <4>1
    <3>2. q.step = "idle" /\ Reloading(s)'
      BY <1>3, <1>4, <1>5, <2>3, <3>1 DEF Settles
    <3>. QED BY <3>2 DEF Replied, Plainly
  <2>4. CASE Is(q, "receiving", r.link, r.slot, r.world) /\ m.what = "follows" /\ r.step \notin {"joining", "reconnecting", "idle"}
    <3>1. Busy(s)' /\ q.step = "receiving"
      BY <1>3, <1>4, <1>5, <2>4 DEF Settles, Is
    <3>. QED BY <1>9, <3>1
  <2>5. CASE m.what = "accepted" /\ q.step = IF r.step \in Plainly THEN "idle" ELSE r.step
    <3>1. ~Settles(m) /\ r.step # "checking"
      BY <1>4, <2>5 DEF Settles
    <3>2. CASE r.step = "receiving"
      BY <1>4, <1>5, <1>9, <2>5, <3>1, <3>2 DEF Plainly
    <3>3. CASE r.step \in {"joining", "reconnecting", "idle"}
      <4>1. q.step = "idle" /\ Reloading(s)'
        BY <1>4, <1>5, <2>5, <3>1, <3>3 DEF Plainly
      <4>. QED BY <4>1 DEF Replied, Plainly
    <3>. QED BY <1>3, <3>1, <3>2, <3>3
  <2>. QED BY <1>7, <2>2, <2>3, <2>4, <2>5 DEF TakesAnswer
<1>. QED BY <1>8, <1>10, <1>11, <1>12

\* No notice opens a connection.
LEMMA OpenBefore ==
    ASSUME NEW r, NEW m \in Notices, NEW written \in BOOLEAN, NEW q, Shape(r), r.slot # 0, q = Heard(r, m, written),
           q.slot # 0, q.link = "open"
    PROVE  r.link = "open"
<1>1. r \in Games /\ r.link \in {"open", "refused"}
  BY DEF Shape, Sound, Wired, Games
<1>2. Fail(r).slot = 0
  BY <1>1, FailIs
<1>3. CASE m.what \in {"kicked", "hostLeft"}
  <2>1. q = Disconnected(r, m.what)
    BY <1>3, Zenon DEF Heard
  <2>. QED BY <2>1, DisconnectedIs
<1>4. CASE m.what = "reload"
  <2>1. q = PartyReload(r)
    BY <1>4 DEF Heard
  <2>. QED BY <1>1, <2>1, PartyReloadIs DEF Is
<1>5. CASE m.what = "block"
  <2>1. q = SaveChunk(r, m, written)
    BY <1>5 DEF Heard
  <2>2. TakesBlock(r, m, q)
    BY <2>1, SaveChunkIs
  <2>. QED BY <1>2, <2>2 DEF TakesBlock, Is
<1>6. CASE m.what \notin {"kicked", "hostLeft", "reload", "block"}
  <2>1. q = Authentication(r, m.what)
    BY <1>6 DEF Heard
  <2>2. TakesAnswer(r, m.what, q)
    BY <2>1, AuthenticationIs
  <2>. QED BY <1>2, <2>2 DEF TakesAnswer, Is
<1>. QED BY <1>3, <1>4, <1>5, <1>6

\* A game reads what its slot was sent.
LEMMA ReadReplies ==
    ASSUME JoinInv, WorldInv, ReachedInv, RepliesInv, NEW g \in Guests, Read(g)
    PROVE  ReachedInv' /\ RepliesInv'
<1>1. PICK r, s : r = game[g] /\ s = game[g].slot
  OBVIOUS
<1>2. /\ hosting' = hosting /\ alive' = alive /\ ask' = ask /\ players' = players /\ receivers' = receivers
      /\ kept' = kept /\ excused' = excused
  BY Zenon DEF Read
<1>3. s # 0 /\ notices[s] # <<>> /\ notices' = [notices EXCEPT ![s] = Tail(notices[s])]
  BY <1>1, Zenon DEF Read
<1>4. PICK m : m = Head(notices[s])
  OBVIOUS
<1>5. PICK written \in BOOLEAN : Becomes(g, Heard(r, m, written))
  BY <1>1, <1>4, Zenon DEF Read
<1>6. PICK q : q = Heard(r, m, written)
  OBVIOUS
<1>7. Shape(r) /\ r \in Games /\ r.slot = s /\ GamesOK
  BY <1>1 DEF JoinInv, Seats, Shape, Sound
<1>8. s \in Slots /\ notices[s] \in Seq(Notices) /\ m \in Notices
  <2>1. s \in Slots /\ notices[s] \in Seq(Notices)
    BY <1>3, <1>7 DEF Games, JoinInv, ListenerOK
  <2>. QED BY <1>3, <1>4, <2>1, ReadFacts
<1>9. notices'[s] = Tail(notices[s]) /\ \A t \in Slots : t # s => notices'[t] = notices[t]
  BY <1>3, <1>8 DEF JoinInv, ListenerOK
<1>10. \A t \in Slots : t # s => SlotSame(t)
  BY <1>2, <1>9 DEF SlotSame
<1>11. game'[g] = q /\ \A h \in Guests : h # g => game'[h] = game[h]
  BY <1>5, <1>6, <1>7 DEF Becomes, GamesOK
<1>12. (q.slot = 0 \/ q.slot = s) /\ (m.what \in {"kicked", "hostLeft"} => q.slot = 0)
  <2>1. q.slot = 0 \/ q.slot = s
    BY <1>3, <1>6, <1>7, <1>8, HeardShape
  <2>2. ASSUME m.what \in {"kicked", "hostLeft"} PROVE q.slot = 0
    <3>1. q = Disconnected(r, m.what)
      BY <1>6, <2>2, Zenon DEF Heard
    <3>. QED BY <1>7, <3>1, DisconnectedIs
  <2>. QED BY <2>1, <2>2
<1>13. ASSUME NEW h \in Guests, h # g, game[h].slot # 0 PROVE game[h].slot \in Slots /\ game[h].slot # s
  <2>1. game[h] \in Games
    BY <1>7 DEF GamesOK
  <2>. QED BY <1>1, <1>3, <1>13, <2>1 DEF ReachedInv, Games
<1>14. ReachedInv'
  <2>1. ASSUME NEW t \in Slots, t # s, Reached(t) PROVE Reached(t)'
    BY <1>2, <1>9, <2>1 DEF Reached, Coming
  <2>2. ASSUME q.slot # 0 PROVE Reached(s)'
    <3>1. Reached(s) /\ m.what \notin {"kicked", "hostLeft"}
      BY <1>1, <1>3, <1>12, <2>2 DEF ReachedInv
    <3>2. PICK n : n = notices[s]
      OBVIOUS
    <3>3. Sent(n) \subseteq Sent(Tail(n)) \cup {m}
      BY <1>3, <1>4, <1>8, <3>2, SentRead
    <3>. QED BY <1>2, <1>9, <3>1, <3>2, <3>3 DEF Reached, Coming
  <2>3. ASSUME NEW h \in Guests, NEW t \in {game'[h].slot}, t # 0 PROVE Reached(t)'
    <3>1. CASE h = g
      <4>1. t = s /\ q.slot # 0
        BY <1>11, <1>12, <2>3, <3>1
      <4>. QED BY <2>2, <4>1
    <3>2. CASE h # g
      <4>1. t = game[h].slot /\ Reached(t) /\ t # 0
        BY <1>1, <1>11, <2>3, <3>2 DEF ReachedInv
      <4>. QED BY <1>13, <2>1, <3>2, <4>1
    <3>. QED BY <3>1, <3>2
  <2>4. \A h \in Guests : game'[h].slot \in {0, game[h].slot}
    BY <1>1, <1>11, <1>12
  <2>5. ASSUME NEW h \in Guests, NEW k \in Guests, h # k, game'[h].slot # 0 PROVE game'[k].slot # game'[h].slot
    BY <2>4, <2>5 DEF ReachedInv
  <2>. QED BY <2>3, <2>5 DEF ReachedInv, Reached, Coming
<1>15. ASSUME hosting, NEW h \in Guests \ excused', NEW p \in {game'[h]}, p.slot # 0, p.link = "open" PROVE Replied(p, p.slot)'
  <2>1. CASE h = g
    <3>1. p = q /\ q.slot = s /\ g \notin excused
      BY <1>2, <1>11, <1>12, <1>15, <2>1
    <3>2. AtStep(r) /\ Row(r, s)
      BY <1>1, <1>3, <1>15, <3>1, WorldRead
    <3>3. r.link = "open"
      BY <1>3, <1>6, <1>7, <1>8, <1>15, <3>1, OpenBefore
    <3>4. Replied(r, s)
      BY <1>1, <1>3, <1>15, <3>1, <3>3, RepliesRead
    <3>5. Replied(q, s)'
      BY <1>2, <1>3, <1>4, <1>6, <1>7, <1>8, <1>9, <1>15, <3>1, <3>2, <3>4, ReadLeaves
    <3>. QED BY <3>1, <3>5
  <2>2. CASE h # g
    <3>1. h \notin excused /\ p = game[h]
      BY <1>2, <1>11, <1>15, <2>2
    <3>2. Replied(p, p.slot)
      BY <1>15, <3>1, RepliesRead
    <3>. QED BY <1>10, <1>13, <1>15, <2>2, <3>1, <3>2, ReplySame
  <2>. QED BY <2>1, <2>2
<1>16. RepliesInv'
  BY <1>2, <1>15 DEF RepliesInv
<1>. QED BY <1>14, <1>16

\* Nobody waits before the first join.
LEMMA RepliesInit == Init => ReachedInv /\ RepliesInv
<1>. SUFFICES ASSUME Init PROVE ReachedInv /\ RepliesInv
  OBVIOUS
<1>1. \A g \in Guests : game[g].slot = 0
  BY DEF Init, AtHome
<1>. QED BY <1>1 DEF ReachedInv, RepliesInv

\* Every step leaves who waits something to come.
LEMMA RepliesStep == ASSUME JoinInv, WorldInv, ReachedInv, RepliesInv, [Next]_vars PROVE ReachedInv' /\ RepliesInv'
<1>1. CASE UNCHANGED vars
  <2>1. /\ game' = game /\ excused' = excused /\ hosting' = hosting /\ alive' = alive /\ notices' = notices
        /\ ask' = ask /\ kept' = kept /\ receivers' = receivers /\ players' = players
    BY <1>1, Zenon DEF vars
  <2>2. \A s : SlotSame(s) /\ (Reached(s) => Reached(s)')
    BY <2>1 DEF SlotSame, Reached, Coming
  <2>3. ReachedInv'
    BY <2>1, <2>2 DEF ReachedInv
  <2>4. RepliesInv'
    BY <2>1, <2>2, ReplySame DEF RepliesInv
  <2>. QED BY <2>3, <2>4
<1>2. ASSUME NEW g \in Guests, GuestStep(g) PROVE ReachedInv' /\ RepliesInv'
  BY <1>2, GameReplies, DialReplies, ReadReplies
<1>3. CASE HostStep
  BY <1>3, HandleAskReplies, SendBlockReplies, HostHearsReplies, HostKicksReplies, AskForLoadReplies,
     SendCheckpointReplies, LoadReplies, HostLoadedReplies, HostEndsReplies, Zenon DEF HostStep
<1>. QED BY <1>1, <1>2, <1>3, Zenon DEF Next

\* Who waits on an open connection has something coming: from the host's rules, or at the end of the session its word.
LEMMA WhoWaitsHears == ASSUME JoinInv, ReachedInv, RepliesInv PROVE Answered
<1>1. ASSUME NEW g \in Guests \ excused, NEW s, s = game[g].slot, Waiting(game[g])
      PROVE  ask[s] # "none" \/ kept[s] # "none" \/ notices[s] # <<>> \/ receivers[s].next # 0
  <2>1. PICK r : r = game[g]
    OBVIOUS
  <2>2. s # 0 /\ r.step \in {"checking", "receiving", "joining", "reconnecting"} /\ r.link = "open"
    BY <1>1, <2>1 DEF Waiting
  <2>3. CASE hosting
    <3>1. Replied(r, s)
      BY <1>1, <2>1, <2>2, <2>3, RepliesRead
    <3>. QED BY <2>2, <3>1, SentFew DEF Replied, Asked, Busy, Plainly
  <2>4. CASE ~hosting
    <3>1. s \in Slots /\ Reached(s)
      BY <1>1, <2>1, <2>2 DEF JoinInv, GamesOK, Games, ReachedInv
    <3>2. s \notin alive
      BY <2>4, <3>1 DEF JoinInv, Seats, Free
    <3>. QED BY <3>1, <3>2, SentFew DEF Reached, Coming
  <2>. QED BY <2>3, <2>4
<1>. QED BY <1>1 DEF Answered

-----------------------------------------------------------------------------
(* The theorems.                                                           *)

\* Before the first join the host has no connection and every game is at home.
LEMMA JoinInit == Init => JoinInv
<1>. SUFFICES ASSUME Init PROVE JoinInv
  OBVIOUS
<1>1. AtHome \in Games /\ AtHome.slot = 0 /\ AtHome.link = "none" /\ AtHome.step = "idle" /\ AtHome.online = FALSE
  <2>1. AtHome.save \in [of: Worlds, have: 0 .. Blocks] /\ AtHome.save = NoSave
    BY SomeValues DEF AtHome
  <2>2. AtHome \in Games
    BY SomeValues DEF AtHome, Games
  <2>. QED BY <2>2 DEF AtHome
<1>2. Shape(AtHome)
  BY <1>1 DEF Shape, Sound, Wired
<1>3. NotWanting \in [of: Worlds, next: 0 .. Blocks] /\ NotWanting.next = 0 /\ 0 \in Worlds /\ 1 \in Worlds
  BY BoundsAssumption DEF NotWanting, Worlds
<1>4. Counts
  BY BoundsAssumption DEF Init, Counts
<1>5. ListenerOK
  BY <1>3 DEF Init, ListenerOK, Asks
<1>6. ReloadOK
  BY <1>3 DEF Init, ReloadOK
<1>7. GamesOK /\ \A g \in Guests : game[g] = AtHome
  BY <1>1 DEF Init, GamesOK
<1>8. \A s \in Slots : peer[s] = Nobody /\ Free(s)
  BY <1>3, SentFew DEF Init, Free
<1>9. Seats
  BY <1>1, <1>2, <1>7, <1>8 DEF Seats
<1>. QED BY <1>4, <1>5, <1>6, <1>7, <1>9 DEF JoinInv

\* Every step keeps the invariant.
LEMMA JoinStep == ASSUME JoinInv, [Next]_vars PROVE JoinInv'
<1>1. CASE UNCHANGED vars
  <2>1. /\ game' = game /\ peer' = peer /\ hosting' = hosting /\ alive' = alive /\ ask' = ask /\ notices' = notices
        /\ players' = players /\ receivers' = receivers /\ hostWorld' = hostWorld /\ saves' = saves /\ asked' = asked
        /\ read' = read /\ loading' = loading /\ checkpoint' = checkpoint /\ kept' = kept /\ excused' = excused
        /\ joins' = joins /\ breaks' = breaks
    BY <1>1, Zenon DEF vars
  <2>2. Counts' /\ ListenerOK' /\ ReloadOK'
    BY <2>1 DEF JoinInv, Counts, ListenerOK, ReloadOK
  <2>3. \A s \in Slots : peer[s] = Nobody => Free(s)'
    BY <2>1 DEF JoinInv, Seats, Free
  <2>. QED BY <2>1, <2>2, <2>3, HostServes, UntoldServed
<1>2. ASSUME NEW g \in Guests, GuestStep(g) PROVE JoinInv'
  BY <1>2, GuestStepKeeps
<1>3. CASE HostStep
  BY <1>3, HandleAskKeeps, SendBlockKeeps, HostHearsKeeps, HostKicksKeeps, AskForLoadKeeps, SendCheckpointKeeps,
     LoadKeeps, HostLoadedKeeps, HostEndsKeeps, Zenon DEF HostStep
<1>. QED BY <1>1, <1>2, <1>3, Zenon DEF Next

\* The invariant holds always: the seats, and what is on its way to each (HostAuthority's rows and the games behind them).
THEOREM JoinInvariant == Spec => []JoinInv
BY JoinInit, JoinStep, PTL DEF Spec

\* Types: in particular no world is numbered past the loads there were, no game has more of a save than there is, and
\* a reconnect never runs out of tries while it waits (JoinService::Retry).
THEOREM TypeCorrect == Spec => []TypeOK
BY JoinInvariant, JoinTypes, PTL

\* Whatever joins, breaks, kicks and loads there were, once a connection has nothing on its way the host counts its game a
\* player exactly when the game takes itself to be in the session (HostPlayers and SessionService's m_online).
THEOREM BothSidesAgree == Spec => []PlayersAgree
BY JoinInvariant, JoinAgrees, PTL

\* However joins, reloads, retries and lost connections fall, a guest in the session plays in the world its host is in; apart
\* from those the known divergences concern (excused).
THEOREM EveryoneInTheHostsWorld == Spec => []SameWorld
<1>1. Init => JoinInv /\ WorldInv
  BY JoinInit, WorldInit
<1>2. JoinInv /\ WorldInv /\ [Next]_vars => (JoinInv /\ WorldInv)'
  BY JoinStep, WorldStep
<1>3. JoinInv /\ WorldInv => SameWorld
  BY WorldIsSame
<1>. QED BY <1>1, <1>2, <1>3, PTL DEF Spec

\* However joins, reloads, kicks, broken lines and the end of the session fall, a game that waits on an open connection waits
\* for something: its request is on its way or kept, a save is being sent, or an answer is there to read; apart from those the
\* known divergences concern (excused).
THEOREM NobodyWaitsForNothing == Spec => []Answered
<1>1. Init => JoinInv /\ WorldInv /\ ReachedInv /\ RepliesInv
  BY JoinInit, WorldInit, RepliesInit
<1>2. JoinInv /\ WorldInv /\ ReachedInv /\ RepliesInv /\ [Next]_vars => (JoinInv /\ WorldInv /\ ReachedInv /\ RepliesInv)'
  BY JoinStep, WorldStep, RepliesStep
<1>3. JoinInv /\ WorldInv /\ ReachedInv /\ RepliesInv => Answered
  BY WhoWaitsHears
<1>. QED BY <1>1, <1>2, <1>3, PTL DEF Spec
=============================================================================
