------------------------------ MODULE MCLiveApi ------------------------------
(* What the API does for a live session besides its relay, in one run: the *)
(* tool calls, and the sentinel, which listens to its audio.  They share   *)
(* no state: one moves while the other one is at rest.                     *)
EXTENDS MCLiveToolCalls, MCSleepSentinel

Calling ==
    /\ SentinelInit
    /\ Next
    /\ UNCHANGED sentinelVars

Listening ==
    /\ Init
    /\ SentinelNext
    /\ UNCHANGED vars

ApiInit == Init /\ SentinelInit

ApiSpec ==
    /\ ApiInit
    /\ [][Calling \/ Listening]_<<vars, sentinelVars>>
=============================================================================
