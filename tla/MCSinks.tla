------------------------------ MODULE MCSinks ------------------------------
(* Instances of Sinks for TLC. *)
EXTENDS Sinks

CONSTANTS w1, w2, s1, s2

Symmetry == Permutations({w1, w2}) \cup Permutations({s1, s2})
=============================================================================
