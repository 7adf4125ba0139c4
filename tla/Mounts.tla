------------------------------- MODULE Mounts -------------------------------
(***************************************************************************)
(* Who simulates a horse.  Every actor of the party's world is simulated by *)
(* one game and is a copy in the others.  A horse nobody rides is the      *)
(* host's; a player who gets on asks the host for it, the host hands it to *)
(* that player's game and takes it back when the player gets off or        *)
(* leaves (HostCharacters::OnMount, OnDismount, GiveBack, OnPlayerLeft).   *)
(* Each game changes its own books at once when its player gets on or off  *)
(* and again when the host's notice comes (CharacterService), so a notice  *)
(* of an earlier ride can meet the books of a later one.                   *)
(*                                                                         *)
(* One horse, which every game knows.  A guest's requests and the host's   *)
(* notices each come in the order sent.  The host's own requests are       *)
(* handled as they are made; its notices wait in its queue like a guest's. *)
(***************************************************************************)
EXTENDS Naturals, Sequences

CONSTANTS
    Guests, Host,       \* the players, each with its game
    Leavers,            \* the guests that may leave
    Native,             \* the lifetime the game's own data gives the horse
    MaxRides            \* how often the players get on, together

Lifetimes == {"temporary", "persistent"}

ASSUME MountsAssumption ==
    /\ Host \notin Guests
    /\ Leavers \subseteq Guests
    /\ Native \in Lifetimes
    /\ MaxRides \in Nat

Players == Guests \cup {Host}

VARIABLES
    owner,        \* the host's m_characters[horse].Owner
    simulates,    \* p: p's game has the horse's LocalComponent
    saddle,       \* p: the engine has p's player on the horse
    ridden,       \* p: m_riddenMount is the horse
    party,        \* p: m_partyMounts holds the horse
    lifetime,     \* p: the engine's flag: "persistent", a horse that outlives its cell
    kept,         \* p: m_mountPersistence's entry: "none", or the lifetime it restores
    here,         \* the guests in the session
    up,           \* g: its requests on their way to the host
    down,         \* p: the host's notices on their way to p's game
    loading,      \* p: p was moved by the engine and has not arrived
    rides,        \* how often someone got on
    brief,        \* someone got on or off before the horse's notices reached it
    shared        \* someone got on while another was in the saddle

books == <<ridden, party, kept, lifetime>>
vars == <<owner, simulates, saddle, books, here, up, down, loading, rides, brief, shared>>

In == here \cup {Host}

Init ==
    /\ owner = Host
    /\ simulates = [p \in Players |-> p = Host]
    /\ saddle = [p \in Players |-> FALSE]
    /\ ridden = [p \in Players |-> FALSE]
    /\ party = [p \in Players |-> FALSE]
    /\ kept = [p \in Players |-> "none"]
    /\ lifetime = [p \in Players |-> Native]
    /\ here = Guests
    /\ up = [g \in Guests |-> <<>>]
    /\ down = [p \in Players |-> <<>>]
    /\ loading = [p \in Players |-> FALSE]
    /\ rides = 0 /\ brief = FALSE /\ shared = FALSE

-----------------------------------------------------------------------------
(* What the host does with a request *)

Notice(kind, rider) == [kind |-> kind, rider |-> rider]
ToAll(notice) == down' = [p \in Players |-> IF p \in In THEN Append(down[p], notice) ELSE down[p]]
ToOthers(notice, sender) ==
    down' = [p \in Players |-> IF p \in In \ {sender} THEN Append(down[p], notice) ELSE down[p]]

(* HostCharacters::OnMount: the sender's now; the sender hears of it only when it was not. *)
OnMount(sender) ==
    /\ owner' = sender
    /\ IF owner = sender THEN ToOthers(Notice("mount", sender), sender)
       ELSE ToAll(Notice("mount", sender))

(* HostCharacters::GiveBack *)
GiveBack(rider) == owner' = Host /\ ToAll(Notice("dismount", rider))

(* HostCharacters::OnDismount: only from the horse's owner. *)
OnDismount(sender) ==
    IF owner = sender THEN GiveBack(sender) ELSE UNCHANGED <<owner, down>>

Handle(request, sender) ==
    IF request = "mount" THEN OnMount(sender) ELSE OnDismount(sender)

(* Transport: a guest's request travels, the host's own is handled at once. *)
SendRequest(p, request) ==
    IF p = Host THEN Handle(request, p) /\ UNCHANGED up
    ELSE up' = [up EXCEPT ![p] = Append(@, request)] /\ UNCHANGED <<owner, down>>

HostReads(g) ==
    /\ g \in here /\ up[g] # <<>>
    /\ up' = [up EXCEPT ![g] = Tail(@)]
    /\ Handle(Head(up[g]), g)
    /\ UNCHANGED <<simulates, saddle, books, here, loading, rides, brief, shared>>

-----------------------------------------------------------------------------
(* A game's books *)

(* A mutant: the last ride's flag replaces the noted one. *)
KeepMountAgain(p) ==
    /\ lifetime' = [lifetime EXCEPT ![p] = "persistent"]
    /\ kept' = [kept EXCEPT ![p] = lifetime[p]]

(* CharacterService::KeepMount: the flag is raised; the value it had is     *)
(* noted unless one is noted already.                                       *)
KeepMount(p) ==
    /\ lifetime' = [lifetime EXCEPT ![p] = "persistent"]
    /\ kept' = [kept EXCEPT ![p] = IF @ = "none" THEN lifetime[p] ELSE @]

(* CharacterService::ReleaseMount *)
ReleaseMount(p) ==
    /\ lifetime' = [lifetime EXCEPT ![p] = IF kept[p] = "none" THEN @ ELSE kept[p]]
    /\ kept' = [kept EXCEPT ![p] = "none"]

(* p's books lag behind the host: a notice for it, or a request of its, is on its way. *)
Lags(p) == down[p] # <<>> \/ (p \in Guests /\ up[p] # <<>>)

(* CharacterService::OnMountEvent, from HookInitiateMountPackage *)
OnMountEvent(p) ==
    /\ p \in In /\ rides < MaxRides /\ ~saddle[p] /\ ~loading[p]
    /\ saddle' = [saddle EXCEPT ![p] = TRUE]
    /\ ridden' = [ridden EXCEPT ![p] = TRUE]
    /\ party' = [party EXCEPT ![p] = TRUE]
    /\ KeepMount(p)
    /\ SendRequest(p, "mount")
    /\ rides' = rides + 1
    /\ shared' = (shared \/ \E q \in In : saddle[q])
    /\ brief' = (brief \/ (p = Host /\ down[p] # <<>>))
    /\ UNCHANGED <<simulates, here, loading>>

(* CharacterService::OnDismountEvent's own part: nothing when this game     *)
(* does not think that its player rides.                                    *)
TellDismount(p) ==
    /\ ridden' = [ridden EXCEPT ![p] = FALSE]
    /\ IF ridden[p] THEN SendRequest(p, "dismount") ELSE UNCHANGED <<owner, up, down>>

(* OnDismountEvent, from HookDismount *)
OnDismountEvent(p) ==
    /\ p \in In /\ saddle[p]
    /\ saddle' = [saddle EXCEPT ![p] = FALSE]
    /\ TellDismount(p)
    /\ brief' = (brief \/ Lags(p))
    /\ UNCHANGED <<simulates, party, kept, lifetime, here, loading, rides, shared>>

(* The engine moves p's player; it may unlink it from the horse and raise no event. *)
MoveTo(p) ==
    /\ p \in In /\ saddle[p] /\ ~loading[p]
    /\ loading' = [loading EXCEPT ![p] = TRUE]
    /\ \E on \in BOOLEAN : saddle' = [saddle EXCEPT ![p] = on]
    /\ brief' = (brief \/ Lags(p))
    /\ UNCHANGED <<owner, simulates, books, here, up, down, rides, shared>>

(* A mutant: an arrival does not look whether the player still rides. *)
OnPlayerArrivedRiding(p) ==
    /\ p \in In /\ loading[p]
    /\ loading' = [loading EXCEPT ![p] = FALSE]
    /\ UNCHANGED <<owner, simulates, saddle, books, here, up, down, rides, brief, shared>>

(* CharacterService::OnPlayerArrived: a player the engine took off its horse gives it back. *)
OnPlayerArrived(p) ==
    /\ p \in In /\ loading[p]
    /\ loading' = [loading EXCEPT ![p] = FALSE]
    /\ IF saddle[p] THEN UNCHANGED <<ridden, owner, up, down>> ELSE TellDismount(p)
    /\ UNCHANGED <<simulates, saddle, party, kept, lifetime, here, rides, brief, shared>>

-----------------------------------------------------------------------------
(* The host's notices *)

(* A mutant: the game that simulated the horse does not give it up. *)
OnNotifyMountKeeps(p, rider) ==
    /\ party' = [party EXCEPT ![p] = TRUE]
    /\ simulates' = [simulates EXCEPT ![p] = @ \/ p = rider]
    /\ ridden' = [ridden EXCEPT ![p] = @ \/ (p = rider /\ ~simulates[p])]
    /\ IF p = rider /\ simulates[p] THEN UNCHANGED <<kept, lifetime>> ELSE KeepMount(p)

(* A mutant: only another player's horse is noted as the party's. *)
OnNotifyMountOfOthers(p, rider) ==
    /\ party' = [party EXCEPT ![p] = @ \/ p # rider]
    /\ simulates' = [simulates EXCEPT ![p] = p = rider]
    /\ ridden' = [ridden EXCEPT ![p] = @ \/ (p = rider /\ ~simulates[p])]
    /\ IF p = rider /\ simulates[p] THEN UNCHANGED <<kept, lifetime>> ELSE KeepMount(p)

(* CharacterService::OnNotifyMount.  The rider's own game takes the horse   *)
(* unless it has it; every other game keeps the horse for the party and     *)
(* gives it up.                                                             *)
OnNotifyMount(p, rider) ==
    /\ party' = [party EXCEPT ![p] = TRUE]
    /\ simulates' = [simulates EXCEPT ![p] = p = rider]
    /\ ridden' = [ridden EXCEPT ![p] = @ \/ (p = rider /\ ~simulates[p])]
    /\ IF p = rider /\ simulates[p] THEN UNCHANGED <<kept, lifetime>> ELSE KeepMount(p)

(* CharacterService::OnNotifyDismount: the host's game takes the horse, any *)
(* other gives it up, and the ride's books are closed.                      *)
OnNotifyDismount(p) ==
    /\ party' = [party EXCEPT ![p] = FALSE]
    /\ simulates' = [simulates EXCEPT ![p] = p = Host]
    /\ ReleaseMount(p)
    /\ ridden' = [ridden EXCEPT ![p] = FALSE]

GameReads(p) ==
    /\ p \in In /\ down[p] # <<>>
    /\ down' = [down EXCEPT ![p] = Tail(@)]
    /\ LET notice == Head(down[p]) IN
         IF notice.kind = "mount" THEN OnNotifyMount(p, notice.rider) ELSE OnNotifyDismount(p)
    /\ UNCHANGED <<owner, saddle, here, up, loading, rides, brief, shared>>

(* A mutant: the leaver stays the horse's owner. *)
LeaveWithHorse(g) ==
    /\ g \in here \cap Leavers
    /\ here' = here \ {g}
    /\ up' = [up EXCEPT ![g] = <<>>]
    /\ down' = [down EXCEPT ![g] = <<>>]
    /\ saddle' = [saddle EXCEPT ![g] = FALSE]
    /\ loading' = [loading EXCEPT ![g] = FALSE]
    /\ UNCHANGED <<owner, simulates, books, rides, brief, shared>>

(* HostCharacters::OnPlayerLeft: a horse the leaver owned is the host's again. *)
Leave(g) ==
    /\ g \in here \cap Leavers
    /\ here' = here \ {g}
    /\ up' = [up EXCEPT ![g] = <<>>]
    /\ IF owner = g
       THEN /\ owner' = Host
            /\ down' = [p \in Players |->
                          IF p = g THEN <<>>
                          ELSE IF p \in In THEN Append(down[p], Notice("dismount", g)) ELSE down[p]]
       ELSE UNCHANGED owner /\ down' = [down EXCEPT ![g] = <<>>]
    /\ saddle' = [saddle EXCEPT ![g] = FALSE]
    /\ loading' = [loading EXCEPT ![g] = FALSE]
    /\ UNCHANGED <<simulates, books, rides, brief, shared>>

Next ==
    \/ \E p \in Players :
         OnMountEvent(p) \/ OnDismountEvent(p) \/ MoveTo(p) \/ OnPlayerArrived(p) \/ GameReads(p)
    \/ \E g \in Guests : HostReads(g) \/ Leave(g)

Spec == Init /\ [][Next]_vars

-----------------------------------------------------------------------------
(* Every variable holds values the code can hold: flags, queues of mount    *)
(* and dismount notices, and an owner that is a player of the session       *)
(* (HostCharacters::OnPlayerLeft takes a leaver's horse back).              *)
Requests == {"mount", "dismount"}
Notices == [kind: Requests, rider: Players]
Flags == [Players -> BOOLEAN]
TypeOK ==
    /\ here \subseteq Guests /\ owner \in In
    /\ simulates \in Flags /\ saddle \in Flags /\ ridden \in Flags
    /\ party \in Flags /\ loading \in Flags
    /\ lifetime \in [Players -> Lifetimes] /\ kept \in [Players -> Lifetimes \cup {"none"}]
    /\ up \in [Guests -> Seq(Requests)] /\ down \in [Players -> Seq(Notices)]
    /\ rides \in 0 .. MaxRides /\ brief \in BOOLEAN /\ shared \in BOOLEAN

(* Nothing about the horse is on its way and nobody is between two places. *)
Quiet == \A p \in In : ~Lags(p) /\ ~loading[p]

(* Once every request and notice has been read, exactly one game simulates *)
(* the horse and it is the one the host has down as its owner: however the *)
(* players got on, off and on again, two at once, or left                  *)
(* (CharacterService::OnNotifyMount, OnNotifyDismount).                    *)
OneSimulates == Quiet => {p \in In : simulates[p]} = {owner}

(* Once all is read, a guest's game has the horse only if its player sits   *)
(* on it, and the game of a player who sits on it has it and knows it.     *)
(* Excused: a player who got on or off before the last   *)
(* notice reached it, and two players on one horse                         *)
(* (CharacterService::OnDismountEvent, OnPlayerArrived, OnNotifyDismount). *)
RiderHasIt ==
    Quiet /\ ~brief =>
        /\ owner \in Guests => saddle[owner]
        /\ ~shared => \A p \in In : saddle[p] => owner = p /\ ridden[p]

(* A ridden horse travels with the party: once all is read, every game     *)
(* keeps the horse a guest rides through unloading                         *)
(* (CharacterService::OnActorRemoved, OnNotifyMount; party-travel.md).     *)
Accompanied == Quiet /\ owner \in Guests => \A p \in In : party[p] /\ lifetime[p] = "persistent"

(* When nobody rides it any more and all is read, the horse is as          *)
(* persistent in every game as it was before the first ride: it does not   *)
(* stay promoted (CharacterService::KeepMount, ReleaseMount).              *)
Restored ==
    Quiet /\ ~brief /\ (\A p \in In : ~saddle[p]) =>
        \A p \in In : ~party[p] /\ lifetime[p] = Native
=============================================================================
