----------------------------- MODULE MCLiveRelay -----------------------------
(* Three sessions that one connection may start, early audio of two chunks.*)
EXTENDS LiveRelay

CONSTANTS b1, b2, b3

MCBridge == {b1, b2, b3}
=============================================================================
