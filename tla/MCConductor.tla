---------------------------- MODULE MCConductor ----------------------------
(* Two handlers of a session at a time and two suggestions. *)
EXTENDS Conductor, TLC

CONSTANTS h1, h2, s1, s2

MCHandler == {h1, h2}
MCSuggestion == {s1, s2}
Symmetry == Permutations(MCHandler) \cup Permutations(MCSuggestion)
=============================================================================
