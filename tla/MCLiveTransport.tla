--------------------------- MODULE MCLiveTransport ---------------------------
(* The two ways from a page to Gemini, in one run: the API's relay, and    *)
(* the worker with its tickets.  They share no state, and a session takes  *)
(* one of them: one moves while the other one is at rest.                  *)
(*                                                                         *)
(* Of the page there are two calls of connect: the second while the first  *)
(* is on its way, or after.                                                *)
EXTENDS MCLiveRelay, LiveConnection

ByRelay ==
    /\ ConnectionInit
    /\ RelayNext
    /\ UNCHANGED connectionVars

ByWorker ==
    /\ RelayInit
    /\ ConnectionNext
    /\ UNCHANGED relayVars

TransportInit == RelayInit /\ ConnectionInit

TransportSpec ==
    /\ TransportInit
    /\ [][ByRelay \/ ByWorker]_<<relayVars, connectionVars>>
    /\ RelayFairness /\ ConnectionFairness
=============================================================================
