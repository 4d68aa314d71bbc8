--------------------------- MODULE MCSessionStore ---------------------------
(* Two users that may use the same session id, two calls in flight.        *)
EXTENDS SessionStore, TLC

CONSTANTS u1, u2, c1, c2, d1, d2

MCUser == {u1, u2}
MCClient == {c1, c2}
MCData == {d1, d2}
Symmetry == Permutations(MCUser) \cup Permutations(MCClient)
                \cup Permutations(MCData)
=============================================================================
