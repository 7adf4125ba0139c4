--------------------------- MODULE MCDroppedItems ---------------------------
(***************************************************************************)
(* DroppedItems for TLC: what there is, and who holds it at first.         *)
(***************************************************************************)
EXTENDS DroppedItems

CONSTANTS g1, g2, sword, modded, relic

\* A guest with two items, one the host's game lacks; and the host with a quest's.
GuestsOrQuest == {[i \in {sword, modded} |-> g1], [i \in {relic} |-> Host]}

\* A guest's item, and the host's.
OneItem == {[i \in {sword} |-> g1], [i \in {sword} |-> Host]}
=============================================================================
