----------------------------- MODULE MCJoinFlow -----------------------------
(* JoinFlow with its guests interchangeable, for the safety run. *)
EXTENDS JoinFlow, TLC

Symmetry == Permutations(Guests)

=============================================================================
