--------------------------- MODULE MCSharedDialogue ---------------------------
(***************************************************************************)
(* SharedDialogue for TLC.  The guests are alike, and so are the NPCs.     *)
(***************************************************************************)
EXTENDS SharedDialogue, TLC

Symmetry == Permutations(Guests) \union Permutations(Npcs)
=============================================================================
