----------------------------- MODULE PartyItems -----------------------------
(***************************************************************************)
(* What the party is promised of its loose items (docs/design/             *)
(* dropped-items.md): an item is in one place, a player's inventory or the *)
(* party's world; whoever picks it up has it, and nobody else.  A step     *)
(* moves one item, or loses what a player that leaves had under way.       *)
(***************************************************************************)
CONSTANTS Players, Items, Loose, Lost

VARIABLE at      \* where each item is: with a player, Loose or Lost

Init == at \in [Items -> Players \union {Loose, Lost}]

\* A player's own item becomes the party's.
Drop(p, i) == at[i] = p /\ at' = [at EXCEPT ![i] = Loose]

\* One player takes a loose item: one that lies in the world, so never one another player has.
Take(p, i) == at[i] = Loose /\ at' = [at EXCEPT ![i] = p]

\* What was under way for a player that leaves goes with it; everyone else's items stay.
Leave(p) ==
    \E gone \in SUBSET {i \in Items : at[i] \in {p, Loose}} :
        at' = [i \in Items |-> IF i \in gone THEN Lost ELSE at[i]]

\* A drop that waited longest is forgotten for a newer one (HostItems::kMaxPending).
Forget(i) == at[i] = Loose /\ at' = [at EXCEPT ![i] = Lost]

Next ==
    \/ \E p \in Players, i \in Items : Drop(p, i) \/ Take(p, i)
    \/ \E p \in Players : Leave(p)
    \/ \E i \in Items : Forget(i)

Spec == Init /\ [][Next]_at
=============================================================================
