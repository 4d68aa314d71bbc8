-------------------------- MODULE MCLiveToolCalls --------------------------
(* Two users that may pick the same session id, two requests in flight,    *)
(* three call ids competing for two remembered slots.  The history of one  *)
(* call is kept: users and the other ids are all alike.                    *)
EXTENDS LiveToolCalls, TLC

CONSTANTS u1, u2, r1, r2, t1, t2, t3

MCUser == {u1, u2}
MCRequest == {r1, r2}
MCToolId == {t1, t2, t3}
MCWatched == {<<<<u1, "s1">>, t1>>}
Symmetry == Permutations(MCRequest) \cup Permutations({t2, t3})
=============================================================================
