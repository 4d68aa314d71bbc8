----------------------------- MODULE MCStories -----------------------------
(* Stories are alike; the owl comes with the first, the fox with the second. *)
EXTENDS Stories, TLC

CONSTANTS s1, s2, owl, fox

MCStory == {s1, s2}
MCCompanion == {owl, fox}
MCThreshold == (owl :> 1) @@ (fox :> 2)
Symmetry == Permutations(MCStory)
=============================================================================
