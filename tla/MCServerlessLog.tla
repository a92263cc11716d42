-------------------------- MODULE MCServerlessLog --------------------------
(* Instances of ServerlessLog for TLC. *)
EXTENDS ServerlessLog, TLC

CONSTANTS a, b, c, d, e, p1, p2

MCSymmetry == Permutations(Leaf) \cup Permutations(Sequencers)
=============================================================================
