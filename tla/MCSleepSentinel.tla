--------------------------- MODULE MCSleepSentinel ---------------------------
(* A session with a user and an anonymous one; the levels in units of      *)
(* 0.05, with gains as steep as the units need.                            *)
EXTENDS SleepSentinel

CONSTANTS s1, s2, v1

MCOpening == {<<s1, v1>>, <<s2, NoUser>>}
=============================================================================
